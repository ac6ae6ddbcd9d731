------------------------- MODULE ServerTasks_proofs -------------------------
(***************************************************************************)
(* Theorems of ServerTasks, for every number of handlers, slots and tasks. *)
(***************************************************************************)
EXTENDS ServerTasks, FiniteSetTheorems, SequenceTheorems, TLAPS

-----------------------------------------------------------------------------
(* Sequences                                                               *)

\* What pop_deferred_task takes and what it leaves are sequences of tasks.
LEMMA SubSeqType ==
  ASSUME NEW S, NEW q \in Seq(S), NEW n \in Nat
  PROVE  /\ SubSeq(q, 1, IF n < Len(q) THEN n ELSE Len(q)) \in Seq(S)
         /\ SubSeq(q, n + 1, Len(q)) \in Seq(S)
OBVIOUS

\* push_back keeps the type of a queue.
LEMMA AppendType ==
  ASSUME NEW S, NEW q \in Seq(S), NEW e \in S
  PROVE  Append(q, e) \in Seq(S)
OBVIOUS

\* Several tasks pushed at one end keep the type of a queue.
LEMMA ConcatType ==
  ASSUME NEW S, NEW q \in Seq(S), NEW r \in Seq(S)
  PROVE  q \o r \in Seq(S)
OBVIOUS

\* Taking the front of a queue that is not empty.
LEMMA HeadTailType ==
  ASSUME NEW S, NEW q \in Seq(S), q # <<>>
  PROVE  Head(q) \in S /\ Tail(q) \in Seq(S)
OBVIOUS

\* recv() erases in the middle of queue_results.
LEMMA RemoveAtType ==
  ASSUME NEW S, NEW q \in Seq(S), NEW i \in DOMAIN q
  PROVE  RemoveAt(q, i) \in Seq(S)
BY DEF RemoveAt

\* The CANCEL tasks are pushed to the front one by one.
LEMMA ReverseType ==
  ASSUME NEW S, NEW q \in Seq(S)
  PROVE  /\ Reverse(q) \in Seq(S)
         /\ Len(Reverse(q)) = Len(q)
BY DEF Reverse

-----------------------------------------------------------------------------
(* Type correctness                                                        *)

\* The handlers that owe the server a post() which will draw an id.
PendingPosts == {c \in Clients : pc[c] = "post" /\ PostsFirst(req[c])}

\* The ids of a request were drawn before; ids are left for the posts that will draw one.
IdsDrawn ==
  /\ \A c \in Clients : pc[c] # "idle" => req[c] \in Requests
  /\ \A c \in Clients : pc[c] = "idle" => first_id[c] = NoTask
  /\ \A c \in Clients : first_id[c] # NoTask =>
       req[c] \in Requests /\ first_id[c] + req[c].n <= next_id
  /\ \A c \in Clients :
       pc[c] = "add_waiting" \/ (pc[c] = "post" /\ ~PostsFirst(req[c])) => first_id[c] # NoTask
  /\ next_id + budget + Cardinality(PendingPosts) <= MaxTasks

\* A slot that may take a token has some of its budget left.
BudgetLeft ==
  \A s \in Slots : state[s] \in {"done_prompt", "generating"} => n_decoded[s] < MaxDecoded

TypeInv == TypeOK /\ IdsDrawn /\ BudgetLeft

Tasks   == Seq(TaskSet)
Results == Seq([id: TaskIds, kind: {"partial", "final", "error", "cancelled"}])

\* What the assumption on the constants says, in the form the leaves need.
LEMMA ConstantTypes ==
  /\ NSlots \in Nat \ {0} /\ MaxTasks \in Nat /\ MaxDecoded \in Nat \ {0}
  /\ Requests \subseteq Request
  /\ \A r \in Requests : r.n \in Nat \ {0} /\ r.kind \in Kinds
  /\ \A r \in Requests : PostsFirst(r) => r.n = 1
  /\ \A r \in Requests : r.kind \in {"metrics", "cancel"} => r.n = 1
BY ServerAssumption DEF Request, Kinds, PostsFirst

\* The server starts in a state of the invariant.
LEMMA TypeInit == Init => TypeInv
<1> SUFFICES ASSUME Init PROVE TypeInv
  OBVIOUS
<1> USE ConstantTypes DEF Init
<1>1. TypeOK
  BY DEF TypeOK, ServerTypes, HandlerTypes, TaskIds, NoTask, Slots, Loops, Pcs, SlotStates
<1>2. PendingPosts = {}
  BY DEF PendingPosts
<1>3. IdsDrawn
  BY <1>2, FS_EmptySet DEF IdsDrawn, NoTask
<1>4. BudgetLeft
  BY DEF BudgetLeft
<1> QED
  BY <1>1, <1>3, <1>4 DEF TypeInv

\* send() keeps the types of what it touches.
LEMMA SendType ==
  ASSUME TypeOK, NEW id, NEW kind \in {"partial", "final", "error", "cancelled"}, Send(id, kind)
  PROVE  /\ queue_results' \in Results
         /\ answers' \in [TaskIds -> Nat]
         /\ waiting_task_ids' \subseteq TaskIds
<1>1. /\ waiting_task_ids \subseteq TaskIds /\ queue_results \in Results
      /\ answers \in [TaskIds -> Nat]
  BY DEF TypeOK, ServerTypes, Results
<1>2. CASE id \in waiting_task_ids
  <2>1. [id |-> id, kind |-> kind]
          \in [id: TaskIds, kind: {"partial", "final", "error", "cancelled"}]
    BY <1>1, <1>2
  <2>2. queue_results' \in Results
    <3>1. queue_results' = Append(queue_results, [id |-> id, kind |-> kind])
      BY <1>2 DEF Send
    <3> QED
      BY <1>1, <2>1, <3>1, AppendType DEF Results
  <2>3. answers[id] + 1 \in Nat
    BY <1>1, <1>2
  <2>4. answers' = [answers EXCEPT ![id] = answers[id] + 1] \/ answers' = answers
    BY <1>2 DEF Send
  <2>5. answers' \in [TaskIds -> Nat]
    BY <1>1, <2>3, <2>4
  <2> QED
    BY <1>1, <2>2, <2>5 DEF Send
<1>3. CASE id \notin waiting_task_ids
  BY <1>1, <1>3 DEF Send, Results
<1> QED
  BY <1>2, <1>3
\* pop_deferred_task() moves tasks between the two queues.
LEMMA PoppedType ==
  ASSUME TypeOK, NEW n \in Nat
  PROVE  Popped(n) \in Tasks /\ Remaining(n) \in Tasks
BY SubSeqType DEF TypeOK, ServerTypes, Popped, Remaining, Tasks

\* release() keeps the types of the slot's state and of both queues.
LEMMA ReleaseType ==
  ASSUME TypeOK, NEW s \in Slots, Release(s)
  PROVE  /\ queue_tasks' \in Tasks /\ queue_tasks_deferred' \in Tasks
         /\ state' \in [Slots -> SlotStates]
         /\ state' = [state EXCEPT ![s] = "idle"]
<1>1. \A n \in {0, 1} : Popped(n) \in Tasks /\ Remaining(n) \in Tasks
  BY PoppedType
<1> QED
  BY <1>1 DEF Release, TypeOK, ServerTypes, Tasks, SlotStates

\* What the main thread does leaves the ids of the requests alone.
LEMMA IdsDrawnUnchanged ==
  ASSUME IdsDrawn, UNCHANGED <<pc, req, first_id, next_id, budget>>
  PROVE  IdsDrawn'
BY DEF IdsDrawn, PendingPosts

\* A handler at work serves a request, and its ids, if it has any, are task ids.
LEMMA IdsType ==
  ASSUME TypeInv, NEW c \in Clients
  PROVE  /\ ids(c) \subseteq TaskIds
         /\ first_id[c] # NoTask => \A k \in 1 .. req[c].n : first_id[c] + k - 1 \in TaskIds
<1>1. first_id[c] \in TaskIds \cup {NoTask} /\ next_id \in 0 .. MaxTasks /\ MaxTasks \in Nat
  BY ConstantTypes DEF TypeInv, TypeOK, HandlerTypes
<1>2. CASE first_id[c] = NoTask
  BY <1>2 DEF ids
<1>3. CASE first_id[c] # NoTask
  <2>1. req[c].n \in Nat \ {0} /\ first_id[c] + req[c].n <= next_id
    BY <1>3, ConstantTypes DEF TypeInv, IdsDrawn
  <2> QED
    BY <1>1, <1>3, <2>1 DEF ids, TaskIds, NoTask
<1> QED
  BY <1>2, <1>3

\* What the main thread does leaves the types of the handlers' variables alone.
LEMMA HandlerTypesUnchanged ==
  ASSUME HandlerTypes, UNCHANGED <<next_id, httpVars>>
  PROVE  HandlerTypes'
BY DEF HandlerTypes, httpVars

\* A request draws no more ids than the budget has left.
LEMMA TypeBeginRequest ==
  ASSUME TypeInv, NEW c \in Clients, NEW r \in Requests, BeginRequest(c, r)
  PROVE  TypeInv'
<1> USE DEF TypeInv, TypeOK
<1>1. /\ r.n \in Nat /\ r.n >= 1 /\ r \in Requests \cup {NoData}
      /\ next_id \in Nat /\ budget \in Nat /\ MaxTasks \in Nat
      /\ IsFiniteSet(Clients)
  BY ConstantTypes, ServerAssumption DEF HandlerTypes
<1>2. IsFiniteSet(PendingPosts) /\ Cardinality(PendingPosts) \in Nat
  BY <1>1, FS_Subset, FS_CardinalityType DEF PendingPosts
<1>3. /\ r.n <= budget /\ budget' = budget - r.n
      /\ pc[c] = "idle" /\ req' = [req EXCEPT ![c] = r]
      /\ req'[c] = r /\ \A d \in Clients \ {c} : req'[d] = req[d]
  BY DEF BeginRequest, HandlerTypes
<1>4. next_id + budget + Cardinality(PendingPosts) <= MaxTasks
  BY DEF IdsDrawn
<1>5. budget' \in 0 .. MaxTasks /\ next_id + r.n + budget' <= MaxTasks
  BY <1>1, <1>2, <1>3, <1>4
<1>6. ServerTypes' /\ BudgetLeft'
  BY DEF ServerTypes, BudgetLeft, BeginRequest, respVars, slotVars, loopVars
<1>7. CASE /\ r.kind \in {"completion", "metrics"}
           /\ first_id' = [first_id EXCEPT ![c] = next_id]
           /\ next_id' = next_id + r.n
           /\ pc' = [pc EXCEPT ![c] = "add_waiting"]
           /\ UNCHANGED <<to_cancel, cancels>>
  <2>1. next_id' \in 0 .. MaxTasks /\ next_id \in TaskIds
    BY <1>1, <1>5, <1>7 DEF TaskIds
  <2>2. HandlerTypes'
    BY <1>1, <1>3, <1>5, <1>7, <2>1 DEF HandlerTypes, BeginRequest, Pcs
  <2>3. PendingPosts' = PendingPosts
    BY <1>3, <1>7 DEF PendingPosts, HandlerTypes
  <2>4. ~PostsFirst(r)
    BY <1>7 DEF PostsFirst
  <2>5. next_id' + budget' + Cardinality(PendingPosts)' <= MaxTasks
    BY <1>1, <1>2, <1>3, <1>4, <1>7, <2>3
  <2>6. \A d \in Clients : first_id'[d] # NoTask =>
          req'[d] \in Requests /\ first_id'[d] + req'[d].n <= next_id'
    <3> TAKE d \in Clients
    <3>1. CASE d = c
      BY <1>1, <1>3, <1>7, <3>1 DEF HandlerTypes
    <3>2. CASE d # c
      <4>1. first_id[d] # NoTask => /\ first_id[d] \in Nat /\ req[d].n \in Nat
                                   /\ first_id[d] + req[d].n <= next_id
        BY ConstantTypes DEF IdsDrawn, HandlerTypes, TaskIds
      <4>2. first_id'[d] = first_id[d] /\ req'[d] = req[d]
        BY <1>3, <1>7, <3>2 DEF HandlerTypes
      <4> QED
        BY <1>1, <1>7, <4>1, <4>2 DEF IdsDrawn
    <3> QED
      BY <3>1, <3>2
  <2>7. IdsDrawn'
    <3>1. /\ pc'[c] = "add_waiting" /\ first_id'[c] # NoTask
          /\ \A d \in Clients \ {c} : pc'[d] = pc[d] /\ first_id'[d] = first_id[d]
      BY <1>1, <1>7 DEF HandlerTypes, NoTask
    <3> QED
      BY <1>3, <2>5, <2>6, <3>1 DEF IdsDrawn
  <2> QED
    BY <1>6, <2>2, <2>7
<1>8. CASE /\ PostsFirst(r)
           /\ pc' = [pc EXCEPT ![c] = "post"]
           /\ UNCHANGED <<first_id, next_id, to_cancel, cancels>>
  <2>1. HandlerTypes'
    BY <1>1, <1>3, <1>5, <1>8 DEF HandlerTypes, BeginRequest, Pcs
  <2>2. PendingPosts' = PendingPosts \cup {c} /\ c \notin PendingPosts
    BY <1>3, <1>8 DEF PendingPosts, HandlerTypes
  <2>3. Cardinality(PendingPosts)' = Cardinality(PendingPosts) + 1
    BY <1>2, <2>2, FS_AddElement
  <2>4. next_id' + budget' + Cardinality(PendingPosts)' <= MaxTasks
    BY <1>1, <1>2, <1>3, <1>4, <1>8, <2>3
  <2>5. IdsDrawn'
    BY <1>1, <1>3, <1>8, <2>4 DEF IdsDrawn, HandlerTypes
  <2> QED
    BY <1>6, <2>1, <2>5
<1>9. CASE /\ r.kind = "cancel"
           /\ \E id \in 0 .. next_id - 1 : to_cancel' = [to_cancel EXCEPT ![c] = {id}]
           /\ cancels' = [cancels EXCEPT ![c] = <<>>]
           /\ pc' = [pc EXCEPT ![c] = "cancel"]
           /\ UNCHANGED <<first_id, next_id>>
  <2>1. to_cancel' \in [Clients -> SUBSET TaskIds]
    BY <1>1, <1>9 DEF HandlerTypes, TaskIds
  <2>2. cancels' \in [Clients -> Seq(TaskIds)]
    BY <1>9 DEF HandlerTypes
  <2>3. HandlerTypes'
    BY <1>1, <1>3, <1>5, <1>9, <2>1, <2>2 DEF HandlerTypes, BeginRequest, Pcs
  <2>4. PendingPosts' = PendingPosts
    BY <1>3, <1>9 DEF PendingPosts, HandlerTypes
  <2>5. next_id' + budget' + Cardinality(PendingPosts)' <= MaxTasks
    BY <1>1, <1>2, <1>3, <1>4, <1>9, <2>4
  <2>6. IdsDrawn'
    BY <1>1, <1>3, <1>9, <2>5 DEF IdsDrawn, HandlerTypes
  <2> QED
    BY <1>6, <2>3, <2>6
<1> QED
  BY <1>7, <1>8, <1>9 DEF BeginRequest

\* A handler goes on with its request, or is done with it.
LEMMA IdsDrawnGoesOn ==
  ASSUME TypeInv, NEW c \in Clients, NEW p \in Pcs \ {"idle", "add_waiting"},
         pc[c] # "idle", ~(pc[c] = "post" /\ PostsFirst(req[c])),
         p = "post" => ~PostsFirst(req[c]) /\ first_id[c] # NoTask,
         pc' = [pc EXCEPT ![c] = p], UNCHANGED <<req, first_id, next_id, budget>>
  PROVE  IdsDrawn'
<1>1. pc \in [Clients -> Pcs]
  BY DEF TypeInv, TypeOK, HandlerTypes
<1>2. PendingPosts' = PendingPosts
  BY <1>1 DEF PendingPosts
<1> QED
  BY <1>1, <1>2 DEF TypeInv, IdsDrawn

\* A handler that ends gives its ids up.
LEMMA IdsDrawnFinish ==
  ASSUME TypeInv, NEW c \in Clients, pc[c] \notin {"idle", "post"}, Finish(c),
         UNCHANGED <<next_id, budget>>
  PROVE  /\ IdsDrawn'
         /\ pc' \in [Clients -> Pcs] /\ req' \in [Clients -> Requests \cup {NoData}]
         /\ first_id' \in [Clients -> TaskIds \cup {NoTask}]
         /\ n_finished' \in [Clients -> Nat]
<1>1. /\ pc \in [Clients -> Pcs] /\ req \in [Clients -> Requests \cup {NoData}]
      /\ first_id \in [Clients -> TaskIds \cup {NoTask}] /\ n_finished \in [Clients -> Nat]
  BY DEF TypeInv, TypeOK, HandlerTypes
<1>2. PendingPosts' = PendingPosts
  BY <1>1 DEF PendingPosts, Finish
<1>3. IdsDrawn'
  BY <1>1, <1>2 DEF TypeInv, IdsDrawn, Finish
<1> QED
  BY <1>1, <1>3 DEF Finish, Pcs

\* add_waiting_tasks() adds ids that were handed out.
LEMMA TypeAddWaiting ==
  ASSUME TypeInv, NEW c \in Clients, AddWaiting(c)
  PROVE  TypeInv'
<1>1. ServerTypes'
  <2>1. waiting_task_ids' \subseteq TaskIds
    BY IdsType DEF AddWaiting, TypeInv, TypeOK, ServerTypes
  <2> QED
    BY <2>1 DEF AddWaiting, TypeInv, TypeOK, ServerTypes, taskVars, slotVars, loopVars
<1>2. HandlerTypes'
  BY DEF AddWaiting, TypeInv, TypeOK, HandlerTypes, Pcs, taskVars
<1>3. IdsDrawn'
  <2>1. PICK p \in {"recv", "post"} :
          /\ pc' = [pc EXCEPT ![c] = p]
          /\ p = "post" => ~PostsFirst(req[c])
    BY DEF AddWaiting
  <2>2. first_id[c] # NoTask /\ pc[c] = "add_waiting"
    BY DEF AddWaiting, TypeInv, IdsDrawn
  <2> QED
    BY <2>1, <2>2, IdsDrawnGoesOn DEF AddWaiting, Pcs, taskVars
<1>4. BudgetLeft'
  BY DEF AddWaiting, TypeInv, BudgetLeft, slotVars
<1> QED
  BY <1>1, <1>2, <1>3, <1>4 DEF TypeInv, TypeOK

\* post() pushes tasks of the request, and may draw the id of a slot action.
LEMMA TypePost ==
  ASSUME TypeInv, NEW c \in Clients, Post(c)
  PROVE  TypeInv'
<1>1. pc[c] = "post" /\ req[c] \in Requests /\ req[c].kind \in Kinds /\ req[c].n \in Nat
  BY ConstantTypes DEF Post, TypeInv, IdsDrawn
<1>2. BudgetLeft'
  BY DEF Post, TypeInv, BudgetLeft, slotVars
<1>3. CASE PostsFirst(req[c])
  <2>1. c \in PendingPosts
    BY <1>1, <1>3 DEF PendingPosts
  <2>2. IsFiniteSet(PendingPosts) /\ Cardinality(PendingPosts) \in Nat
    BY ServerAssumption, FS_Subset, FS_CardinalityType DEF PendingPosts
  <2>3. Cardinality(PendingPosts \ {c}) = Cardinality(PendingPosts) - 1
    BY <2>1, <2>2, FS_RemoveElement
  <2>4. Cardinality(PendingPosts \ {c}) \in Nat
    BY <2>2, FS_Subset, FS_CardinalityType
  <2>5. /\ next_id \in Nat /\ budget \in Nat /\ MaxTasks \in Nat
        /\ next_id + budget + Cardinality(PendingPosts) <= MaxTasks
    BY ConstantTypes DEF TypeInv, TypeOK, HandlerTypes, IdsDrawn
  <2>6. next_id + 1 <= MaxTasks /\ next_id \in TaskIds
    BY <2>2, <2>3, <2>4, <2>5 DEF TaskIds
  <2>7. /\ queue_tasks' = Append(queue_tasks, Task(req[c].kind, next_id, NoTask, req[c]))
        /\ next_id' = next_id + 1
        /\ first_id' = [first_id EXCEPT ![c] = next_id]
        /\ pc' = [pc EXCEPT ![c] = "add_waiting"]
        /\ UNCHANGED <<req, budget, n_finished, to_cancel, cancels>>
    BY <1>3 DEF Post
  <2>8. Task(req[c].kind, next_id, NoTask, req[c]) \in TaskSet
    BY <1>1, <2>6 DEF Task, TaskSet
  <2>9. queue_tasks' \in Seq(TaskSet)
    BY <2>7, <2>8, AppendType DEF TypeInv, TypeOK, ServerTypes
  <2>10. ServerTypes'
    BY <2>9 DEF Post, TypeInv, TypeOK, ServerTypes, respVars, slotVars, loopVars
  <2>11. HandlerTypes'
    BY <2>5, <2>6, <2>7 DEF TypeInv, TypeOK, HandlerTypes, Pcs
  <2>12. PendingPosts' = PendingPosts \ {c}
    BY <2>7 DEF PendingPosts, TypeInv, TypeOK, HandlerTypes
  <2>13. next_id' + budget' + Cardinality(PendingPosts)' <= MaxTasks
    BY <2>2, <2>3, <2>5, <2>7, <2>12
  <2>14. req[c].n = 1
    BY <1>1, <1>3, ConstantTypes
  <2>15. \A d \in Clients : first_id'[d] # NoTask =>
           req'[d] \in Requests /\ first_id'[d] + req'[d].n <= next_id'
    <3> TAKE d \in Clients
    <3>1. CASE d = c
      BY <1>1, <2>5, <2>7, <2>14, <3>1 DEF TypeInv, TypeOK, HandlerTypes
    <3>2. CASE d # c
      <4>1. first_id[d] # NoTask => /\ first_id[d] \in Nat /\ req[d].n \in Nat
                                   /\ req[d] \in Requests
                                   /\ first_id[d] + req[d].n <= next_id
        BY ConstantTypes DEF TypeInv, TypeOK, IdsDrawn, HandlerTypes, TaskIds
      <4>2. first_id'[d] = first_id[d] /\ req'[d] = req[d]
        BY <2>7, <3>2 DEF TypeInv, TypeOK, HandlerTypes
      <4> QED
        BY <2>5, <2>7, <4>1, <4>2
    <3> QED
      BY <3>1, <3>2
  <2>16. IdsDrawn'
    BY <1>1, <2>5, <2>7, <2>13, <2>15 DEF TypeInv, TypeOK, IdsDrawn, HandlerTypes, NoTask
  <2> QED
    BY <1>2, <2>10, <2>11, <2>16 DEF TypeInv, TypeOK
<1>4. CASE ~PostsFirst(req[c])
  <2> DEFINE tasks == [k \in 1 .. req[c].n |-> Task(req[c].kind, first_id[c] + k - 1, NoTask, req[c])]
  <2>1. /\ queue_tasks' = tasks \o queue_tasks \/ queue_tasks' = queue_tasks \o tasks
        /\ pc' = [pc EXCEPT ![c] = "recv"]
        /\ UNCHANGED <<next_id, first_id, req, budget, n_finished, to_cancel, cancels>>
    BY <1>4 DEF Post
  <2>2. first_id[c] # NoTask
    BY <1>1, <1>4 DEF TypeInv, IdsDrawn
  <2>3. \A k \in 1 .. req[c].n : Task(req[c].kind, first_id[c] + k - 1, NoTask, req[c]) \in TaskSet
    BY <1>1, <2>2, IdsType DEF Task, TaskSet
  <2>4. tasks \in Seq(TaskSet)
    BY <1>1, <2>3
  <2> HIDE DEF tasks
  <2>5. queue_tasks' \in Seq(TaskSet)
    <3>1. queue_tasks \in Seq(TaskSet)
      BY DEF TypeInv, TypeOK, ServerTypes
    <3>2. tasks \o queue_tasks \in Seq(TaskSet) /\ queue_tasks \o tasks \in Seq(TaskSet)
      BY <2>4, <3>1, ConcatType
    <3> QED
      BY <2>1, <3>2
  <2>6. ServerTypes'
    BY <2>5 DEF Post, TypeInv, TypeOK, ServerTypes, respVars, slotVars, loopVars
  <2>7. HandlerTypes'
    BY <2>1 DEF TypeInv, TypeOK, HandlerTypes, Pcs
  <2>8. IdsDrawn'
    BY <1>1, <1>4, <2>1, IdsDrawnGoesOn DEF Pcs
  <2> QED
    BY <1>2, <2>6, <2>7, <2>8 DEF TypeInv, TypeOK
<1> QED
  BY <1>3, <1>4

\* recv() and what the two receive loops do with the result.
LEMMA TypeRecv ==
  ASSUME TypeInv, NEW c \in Clients, Recv(c)
  PROVE  TypeInv'
<1>1. /\ pc[c] = "recv"
      /\ UNCHANGED <<next_id, budget, waiting_task_ids, answers, taskVars, slotVars, loopVars>>
  BY DEF Recv, taskVars
<1>2. queue_results' \in Results
  BY RemoveAtType DEF Recv, TypeInv, TypeOK, ServerTypes, Results
<1>3. ServerTypes' /\ BudgetLeft'
  BY <1>1, <1>2
     DEF TypeInv, TypeOK, ServerTypes, BudgetLeft, taskVars, slotVars, loopVars, Results
<1>4. ids(c) \subseteq TaskIds
  BY IdsType
<1>5. ASSUME StartCancel(c)
      PROVE  HandlerTypes' /\ IdsDrawn'
  <2>1. HandlerTypes'
    BY <1>1, <1>4, <1>5 DEF StartCancel, TypeInv, TypeOK, HandlerTypes, Pcs
  <2> QED
    BY <1>1, <1>5, <2>1, IdsDrawnGoesOn DEF StartCancel, Pcs
<1>6. ASSUME Finish(c), UNCHANGED <<to_cancel, cancels>>
      PROVE  HandlerTypes' /\ IdsDrawn'
  BY <1>1, <1>6, IdsDrawnFinish DEF TypeInv, TypeOK, HandlerTypes
<1>7. ASSUME pc' = [pc EXCEPT ![c] = "remove"],
             UNCHANGED <<req, first_id, n_finished, to_cancel, cancels>>
      PROVE  HandlerTypes' /\ IdsDrawn'
  <2>1. HandlerTypes'
    BY <1>1, <1>7 DEF TypeInv, TypeOK, HandlerTypes, Pcs
  <2> QED
    BY <1>1, <1>7, <2>1, IdsDrawnGoesOn DEF Pcs
<1>8. ASSUME n_finished' \in [Clients -> Nat],
             UNCHANGED <<pc, req, first_id, to_cancel, cancels>>
      PROVE  HandlerTypes' /\ IdsDrawn'
  BY <1>1, <1>8, IdsDrawnUnchanged DEF TypeInv, TypeOK, HandlerTypes
<1>9. ASSUME CountFinished(c)
      PROVE  HandlerTypes' /\ IdsDrawn'
  <2>1. n_finished' = [n_finished EXCEPT ![c] = @ + 1] => n_finished' \in [Clients -> Nat]
    BY DEF TypeInv, TypeOK, HandlerTypes
  <2> QED
    BY <1>6, <1>7, <1>8, <1>9, <2>1 DEF CountFinished
<1>10. ASSUME NEW kind, ReceivePlain(c, kind)
       PROVE  HandlerTypes' /\ IdsDrawn'
  BY <1>5, <1>6, <1>9, <1>10 DEF ReceivePlain
<1>11. ASSUME NEW kind, ReceiveStream(c, kind)
       PROVE  HandlerTypes' /\ IdsDrawn'
  <2>1. n_finished \in [Clients -> Nat]
    BY DEF TypeInv, TypeOK, HandlerTypes
  <2> QED
    BY <1>5, <1>8, <1>9, <1>11, <2>1 DEF ReceiveStream
<1>12. HandlerTypes' /\ IdsDrawn'
  BY <1>7, <1>10, <1>11 DEF Recv
<1> QED
  BY <1>3, <1>12 DEF TypeInv, TypeOK

\* The first half of cancel_tasks() for one id.
LEMMA TypeCancelSend ==
  ASSUME TypeInv, NEW c \in Clients, CancelSend(c)
  PROVE  TypeInv'
<1>1. PICK id \in to_cancel[c] :
        /\ Send(id, "cancelled")
        /\ to_cancel' = [to_cancel EXCEPT ![c] = @ \ {id}]
        /\ cancels' = [cancels EXCEPT ![c] = Append(@, id)]
  BY DEF CancelSend
<1>2. /\ queue_results' \in Results /\ answers' \in [TaskIds -> Nat]
      /\ waiting_task_ids' \subseteq TaskIds
  BY <1>1, SendType DEF TypeInv
<1>3. ServerTypes' /\ BudgetLeft'
  BY <1>2 DEF CancelSend, TypeInv, TypeOK, ServerTypes, BudgetLeft, Results,
              taskVars, slotVars, loopVars
<1>4. id \in TaskIds
  BY <1>1 DEF TypeInv, TypeOK, HandlerTypes
<1>5. cancels' \in [Clients -> Seq(TaskIds)]
  <2>1. Append(cancels[c], id) \in Seq(TaskIds)
    BY <1>4, AppendType DEF TypeInv, TypeOK, HandlerTypes
  <2> QED
    BY <1>1, <2>1 DEF TypeInv, TypeOK, HandlerTypes
<1>6. HandlerTypes'
  BY <1>1, <1>5 DEF CancelSend, TypeInv, TypeOK, HandlerTypes, Pcs, taskVars
<1>7. IdsDrawn'
  BY IdsDrawnGoesOn DEF CancelSend, Pcs, taskVars
<1> QED
  BY <1>3, <1>6, <1>7 DEF TypeInv, TypeOK

\* The second half: the id that was cancelled last is no longer waited for.
LEMMA TypeCancelRemove ==
  ASSUME TypeInv, NEW c \in Clients, CancelRemove(c)
  PROVE  TypeInv'
<1>1. ServerTypes' /\ BudgetLeft'
  BY DEF CancelRemove, TypeInv, TypeOK, ServerTypes, BudgetLeft, taskVars, slotVars, loopVars
<1>2. HandlerTypes'
  BY DEF CancelRemove, TypeInv, TypeOK, HandlerTypes, Pcs, taskVars
<1>3. PICK p \in {"post_cancel", "cancel"} : pc' = [pc EXCEPT ![c] = p]
  BY DEF CancelRemove
<1>4. IdsDrawn'
  BY <1>3, IdsDrawnGoesOn DEF CancelRemove, Pcs, taskVars
<1> QED
  BY <1>1, <1>2, <1>4 DEF TypeInv, TypeOK

\* cancel_tasks() posts a CANCEL for each id.
LEMMA TypePostCancel ==
  ASSUME TypeInv, NEW c \in Clients, PostCancel(c)
  PROVE  TypeInv'
<1> DEFINE posted == [i \in 1 .. Len(cancels[c]) |-> CancelTask(Reverse(cancels[c])[i])]
<1>1. cancels[c] \in Seq(TaskIds) /\ queue_tasks \in Seq(TaskSet)
  BY DEF TypeInv, TypeOK, ServerTypes, HandlerTypes
<1>2. \A i \in 1 .. Len(cancels[c]) : CancelTask(Reverse(cancels[c])[i]) \in TaskSet
  <2>1. \A i \in 1 .. Len(cancels[c]) : Reverse(cancels[c])[i] \in TaskIds
    BY <1>1, ReverseType
  <2> QED
    BY <2>1 DEF CancelTask, Task, TaskSet, Kinds
<1>3. posted \in Seq(TaskSet)
  BY <1>1, <1>2
<1>4. queue_tasks' = posted \o queue_tasks
  BY DEF PostCancel
<1> HIDE DEF posted
<1>5. queue_tasks' \in Seq(TaskSet)
  BY <1>1, <1>3, <1>4, ConcatType
<1>6. ServerTypes' /\ BudgetLeft'
  BY <1>5 DEF PostCancel, TypeInv, TypeOK, ServerTypes, BudgetLeft, respVars, slotVars, loopVars
<1>7. cancels' \in [Clients -> Seq(TaskIds)]
  BY DEF PostCancel, TypeInv, TypeOK, HandlerTypes
<1>8. CASE Finish(c)
  BY <1>6, <1>7, <1>8, IdsDrawnFinish DEF PostCancel, TypeInv, TypeOK, HandlerTypes
<1>9. CASE pc' = [pc EXCEPT ![c] = "remove"] /\ UNCHANGED <<req, first_id, n_finished>>
  <2>1. HandlerTypes'
    BY <1>7, <1>9 DEF PostCancel, TypeInv, TypeOK, HandlerTypes, Pcs
  <2>2. IdsDrawn'
    BY <1>9, IdsDrawnGoesOn DEF PostCancel, Pcs
  <2> QED
    BY <1>6, <2>1, <2>2 DEF TypeInv, TypeOK
<1> QED
  BY <1>8, <1>9 DEF PostCancel

\* remove_waiting_task_ids() only removes.
LEMMA TypeRemoveWaiting ==
  ASSUME TypeInv, NEW c \in Clients, RemoveWaiting(c)
  PROVE  TypeInv'
<1>1. ServerTypes' /\ BudgetLeft'
  BY DEF RemoveWaiting, TypeInv, TypeOK, ServerTypes, BudgetLeft, taskVars, slotVars, loopVars
<1>2. HandlerTypes' /\ IdsDrawn'
  BY IdsDrawnFinish DEF RemoveWaiting, TypeInv, TypeOK, HandlerTypes, taskVars
<1> QED
  BY <1>1, <1>2 DEF TypeInv, TypeOK

\* A slot that becomes idle, or starts on a prompt, needs no token budget yet.
LEMMA BudgetLeftKept ==
  ASSUME TypeInv, UNCHANGED n_decoded, state' \in [Slots -> SlotStates],
         \A s \in Slots : state'[s] \in {state[s], "idle", "processing_prompt"}
  PROVE  BudgetLeft'
BY DEF TypeInv, BudgetLeft

\* process_single_task, one disjunct for each type of task.
LEMMA TypeProcessTask ==
  ASSUME TypeInv, ProcessTask
  PROVE  TypeInv'
<1> DEFINE task == Head(queue_tasks)
<1>1. /\ queue_tasks # <<>> /\ UNCHANGED <<next_id, running, loop, todo, httpVars>>
      /\ ProcessCompletion(task) \/ ProcessCancel(task)
            \/ ProcessSlotAction(task) \/ ProcessOther(task)
  BY DEF ProcessTask, loopVars
<1>2. task \in TaskSet /\ Tail(queue_tasks) \in Tasks
  BY <1>1, HeadTailType DEF TypeInv, TypeOK, ServerTypes, Tasks
<1>3. /\ task.id \in TaskIds \cup {NoTask} /\ task.data \in Requests \cup {NoData}
  BY <1>2 DEF TaskSet
<1>4. HandlerTypes' /\ IdsDrawn'
  BY <1>1, HandlerTypesUnchanged, IdsDrawnUnchanged DEF TypeInv, TypeOK, httpVars
<1> HIDE DEF task
<1>5. ASSUME DeferTask(task)
      PROVE  ServerTypes' /\ BudgetLeft'
  <2>1. queue_tasks' \in Tasks /\ queue_tasks_deferred' \in Tasks
    BY <1>2, <1>5, AppendType DEF DeferTask, TypeInv, TypeOK, ServerTypes, Tasks, task
  <2> QED
    BY <1>1, <1>5, <2>1
       DEF DeferTask, TypeInv, TypeOK, ServerTypes, BudgetLeft, slotVars, respVars, Tasks
<1>6. ASSUME NEW s \in Slots, LaunchTask(task, s)
      PROVE  ServerTypes' /\ BudgetLeft'
  <2> DEFINE released == IF task.data.system_prompt THEN Processing ELSE {}
             n        == Cardinality(released)
  <2>1. n \in Nat
    <3>1. IsFiniteSet(Slots)
      BY ConstantTypes, FS_Interval DEF Slots
    <3>2. released \subseteq Slots
      BY DEF Processing
    <3> QED
      BY <3>1, <3>2, FS_Subset, FS_CardinalityType
  <2>2. queue_tasks' = Tail(queue_tasks) \o Popped(n) /\ queue_tasks_deferred' = Remaining(n)
    BY <1>6 DEF LaunchTask
  <2> HIDE DEF n
  <2>3. queue_tasks' \in Tasks /\ queue_tasks_deferred' \in Tasks
    BY <1>2, <2>1, <2>2, PoppedType, ConcatType DEF TypeInv, Tasks
  <2>4. /\ state' \in [Slots -> SlotStates]
        /\ \A t \in Slots : state'[t] \in {state[t], "idle", "processing_prompt"}
    BY <1>6 DEF LaunchTask, SlotStates, TypeInv, TypeOK, ServerTypes
  <2>5. /\ id_task' \in [Slots -> TaskIds \cup {NoTask}]
        /\ data' \in [Slots -> Requests \cup {NoData}]
    BY <1>3, <1>6 DEF LaunchTask, TypeInv, TypeOK, ServerTypes
  <2>6. UNCHANGED respVars \/ Send(task.id, "error")
    BY <1>6 DEF LaunchTask
  <2>7. /\ queue_results' \in Results /\ answers' \in [TaskIds -> Nat]
        /\ waiting_task_ids' \subseteq TaskIds
    BY <2>6, SendType DEF respVars, TypeInv, TypeOK, ServerTypes, Results
  <2>8. UNCHANGED n_decoded
    BY <1>6 DEF LaunchTask
  <2>9. BudgetLeft'
    BY <2>4, <2>8, BudgetLeftKept
  <2> QED
    BY <1>1, <2>3, <2>4, <2>5, <2>7, <2>8, <2>9
       DEF TypeInv, TypeOK, ServerTypes, Tasks, Results
<1>7. ASSUME ProcessCompletion(task)
      PROVE  ServerTypes' /\ BudgetLeft'
  BY <1>5, <1>6, <1>7 DEF ProcessCompletion, Available, Idle
<1>8. ASSUME ProcessCancel(task)
      PROVE  ServerTypes' /\ BudgetLeft'
  <2> DEFINE first    == {s \in Slots : /\ id_task[s] = task.id_target
                                       /\ \A t \in 0 .. s - 1 : id_task[t] # task.id_target}
             released == first \cap Processing
             n        == Cardinality(released)
  <2>1. n \in Nat
    <3>1. IsFiniteSet(Slots)
      BY ConstantTypes, FS_Interval DEF Slots
    <3>2. released \subseteq Slots
      OBVIOUS
    <3> QED
      BY <3>1, <3>2, FS_Subset, FS_CardinalityType
  <2>2. /\ queue_tasks' = Tail(queue_tasks) \o Popped(n) /\ queue_tasks_deferred' = Remaining(n)
        /\ state' = [s \in Slots |-> IF s \in released THEN "idle" ELSE state[s]]
        /\ UNCHANGED <<id_task, data, n_decoded, respVars>>
    BY <1>8 DEF ProcessCancel
  <2> HIDE DEF released, n
  <2>3. queue_tasks' \in Tasks /\ queue_tasks_deferred' \in Tasks
    BY <1>2, <2>1, <2>2, PoppedType, ConcatType DEF TypeInv, Tasks
  <2>4. /\ state' \in [Slots -> SlotStates]
        /\ \A t \in Slots : state'[t] \in {state[t], "idle", "processing_prompt"}
    BY <2>2 DEF SlotStates, TypeInv, TypeOK, ServerTypes
  <2>5. BudgetLeft'
    BY <2>2, <2>4, BudgetLeftKept
  <2> QED
    BY <1>1, <2>2, <2>3, <2>4, <2>5
       DEF TypeInv, TypeOK, ServerTypes, Tasks, respVars
<1>9. ASSUME queue_tasks' = Tail(queue_tasks), UNCHANGED <<queue_tasks_deferred, slotVars>>,
             UNCHANGED respVars \/ Send(task.id, "final") \/ Send(task.id, "error")
      PROVE  ServerTypes' /\ BudgetLeft'
  <2>1. /\ queue_results' \in Results /\ answers' \in [TaskIds -> Nat]
        /\ waiting_task_ids' \subseteq TaskIds
    BY <1>9, SendType DEF respVars, TypeInv, TypeOK, ServerTypes, Results
  <2> QED
    BY <1>1, <1>2, <1>9, <2>1
       DEF TypeInv, TypeOK, ServerTypes, BudgetLeft, Tasks, Results, slotVars
<1>10. ASSUME ProcessSlotAction(task)
       PROVE  ServerTypes' /\ BudgetLeft'
  BY <1>5, <1>9, <1>10 DEF ProcessSlotAction
<1>11. ASSUME ProcessOther(task)
       PROVE  ServerTypes' /\ BudgetLeft'
  BY <1>9, <1>11 DEF ProcessOther
<1> QED
  BY <1>1, <1>4, <1>7, <1>8, <1>10, <1>11 DEF TypeInv, TypeOK, task

\* NEXT_RESPONSE is a task.
LEMMA TypeUpdateSlots ==
  ASSUME TypeInv, UpdateSlots
  PROVE  TypeInv'
<1>1. HandlerTypes' /\ IdsDrawn'
  BY HandlerTypesUnchanged, IdsDrawnUnchanged DEF UpdateSlots, TypeInv, TypeOK, httpVars
<1>2. NextResponse \in TaskSet
  BY DEF NextResponse, Task, TaskSet
<1>3. queue_tasks' \in Tasks
  <2>1. queue_tasks \in Seq(TaskSet)
    BY DEF TypeInv, TypeOK, ServerTypes
  <2>2. queue_tasks' \in {queue_tasks, Append(queue_tasks, NextResponse)}
    BY DEF UpdateSlots
  <2>3. Append(queue_tasks, NextResponse) \in Seq(TaskSet)
    BY <1>2, <2>1, AppendType
  <2> QED
    BY <2>1, <2>2, <2>3 DEF Tasks
<1>4. ServerTypes' /\ BudgetLeft'
  BY <1>3 DEF UpdateSlots, TypeInv, TypeOK, ServerTypes, BudgetLeft, Tasks, Loops,
              respVars, slotVars
<1> QED
  BY <1>1, <1>4 DEF TypeInv, TypeOK

\* The loops over the slots stay within the slots.
LEMMA VisitType ==
  ASSUME TypeInv, NEW s, NEW after \in Loops, NEW then \in SUBSET Slots, Visit(s, after, then)
  PROVE  s \in Slots /\ loop' \in Loops /\ todo' \subseteq Slots
BY DEF Visit, TypeInv, TypeOK, ServerTypes

\* What is left of a main thread's action once the slot it visits is dealt with.
LEMMA TypeSlotVisited ==
  ASSUME TypeInv, UNCHANGED <<next_id, running, id_task, data, httpVars>>,
         queue_tasks' \in Tasks, queue_tasks_deferred' \in Tasks,
         queue_results' \in Results, answers' \in [TaskIds -> Nat],
         waiting_task_ids' \subseteq TaskIds,
         state' \in [Slots -> SlotStates], n_decoded' \in [Slots -> 0 .. MaxDecoded],
         loop' \in Loops, todo' \subseteq Slots, BudgetLeft'
  PROVE  TypeInv'
<1>1. HandlerTypes' /\ IdsDrawn'
  BY HandlerTypesUnchanged, IdsDrawnUnchanged DEF TypeInv, TypeOK, httpVars
<1>2. ServerTypes'
  BY DEF TypeInv, TypeOK, ServerTypes, Tasks, Results
<1> QED
  BY <1>1, <1>2 DEF TypeInv, TypeOK

\* A slot that is released and told so.
LEMMA ReleaseAndSendType ==
  ASSUME TypeInv, NEW s \in Slots, NEW kind \in {"final", "error"},
         Release(s), Send(id_task[s], kind)
  PROVE  /\ queue_tasks' \in Tasks /\ queue_tasks_deferred' \in Tasks
         /\ queue_results' \in Results /\ answers' \in [TaskIds -> Nat]
         /\ waiting_task_ids' \subseteq TaskIds
         /\ state' \in [Slots -> SlotStates]
         /\ \A t \in Slots : state'[t] \in {state[t], "idle"}
<1>1. TypeOK
  BY DEF TypeInv
<1>2. kind \in {"partial", "final", "error", "cancelled"}
  OBVIOUS
<1>3. state \in [Slots -> SlotStates]
  BY DEF TypeInv, TypeOK, ServerTypes
<1> QED
  BY <1>1, <1>2, <1>3, ReleaseType, SendType

\* The prompts that enter the batch start with no token decoded.
LEMMA TypeBatchSlot ==
  ASSUME TypeInv, BatchSlot
  PROVE  TypeInv'
<1>1. PICK s \in todo :
        /\ \/ BatchPrompt(s)
           \/ ContextFull(s)
           \/ UNCHANGED <<state, n_decoded, queue_tasks, queue_tasks_deferred, respVars>>
        /\ Visit(s, "decode", Slots)
  BY DEF BatchSlot
<1>2. /\ s \in Slots /\ loop' \in Loops /\ todo' \subseteq Slots
      /\ UNCHANGED <<next_id, running, id_task, data, httpVars>>
  BY <1>1, VisitType DEF Loops, BatchSlot
<1>3. /\ n_decoded \in [Slots -> 0 .. MaxDecoded] /\ state \in [Slots -> SlotStates]
      /\ MaxDecoded \in Nat \ {0}
  BY ConstantTypes DEF TypeInv, TypeOK, ServerTypes
<1>4. CASE UNCHANGED <<state, n_decoded, queue_tasks, queue_tasks_deferred, respVars>>
  <2>1. BudgetLeft'
    BY <1>4 DEF TypeInv, BudgetLeft
  <2> QED
    BY <1>2, <1>3, <1>4, <2>1, TypeSlotVisited
       DEF TypeInv, TypeOK, ServerTypes, Tasks, Results, respVars
<1>5. ASSUME NEW kind \in {"final", "error"},
             Release(s), Send(id_task[s], kind), UNCHANGED n_decoded
      PROVE  TypeInv'
  <2>1. /\ queue_tasks' \in Tasks /\ queue_tasks_deferred' \in Tasks
        /\ queue_results' \in Results /\ answers' \in [TaskIds -> Nat]
        /\ waiting_task_ids' \subseteq TaskIds
        /\ state' \in [Slots -> SlotStates]
        /\ \A t \in Slots : state'[t] \in {state[t], "idle"}
    BY <1>2, <1>5, ReleaseAndSendType
  <2>2. BudgetLeft'
    BY <1>5, <2>1, BudgetLeftKept
  <2> QED
    BY <1>2, <1>3, <1>5, <2>1, <2>2, TypeSlotVisited
<1>6. CASE /\ state' = [state EXCEPT ![s] = "done_prompt"]
           /\ n_decoded' = [n_decoded EXCEPT ![s] = 0]
           /\ UNCHANGED <<queue_tasks, queue_tasks_deferred, respVars>>
  <2>1. BudgetLeft'
    BY <1>2, <1>3, <1>6 DEF TypeInv, BudgetLeft
  <2>2. state' \in [Slots -> SlotStates]
    BY <1>3, <1>6 DEF SlotStates
  <2>3. n_decoded' \in [Slots -> 0 .. MaxDecoded]
    <3>1. 0 \in 0 .. MaxDecoded
      BY <1>3
    <3>2. n_decoded' = [n_decoded EXCEPT ![s] = 0]
      BY <1>6
    <3> QED
      BY <1>3, <3>1, <3>2
  <2> QED
    BY <1>2, <1>6, <2>1, <2>2, <2>3, TypeSlotVisited
       DEF TypeInv, TypeOK, ServerTypes, Tasks, Results, respVars
<1> QED
  BY <1>1, <1>4, <1>5, <1>6 DEF BatchPrompt, ContextFull

\* process_token stops at n_predict, so the budget of a slot is not exceeded.
LEMMA TypeDecodeSlot ==
  ASSUME TypeInv, DecodeSlot
  PROVE  TypeInv'
<1>1. PICK s \in todo :
        /\ \/ Release(s) /\ Send(id_task[s], "final") /\ UNCHANGED n_decoded
           \/ /\ state[s] \in {"done_prompt", "generating"}
              /\ \E partial, stop \in BOOLEAN : ProcessToken(s, partial, stop)
           \/ UNCHANGED <<state, n_decoded, queue_tasks, queue_tasks_deferred, respVars>>
        /\ Visit(s, "check", {})
  BY DEF DecodeSlot
<1>2. /\ s \in Slots /\ loop' \in Loops /\ todo' \subseteq Slots
      /\ UNCHANGED <<next_id, running, id_task, data, httpVars>>
  BY <1>1, VisitType DEF Loops, DecodeSlot
<1>3. /\ n_decoded \in [Slots -> 0 .. MaxDecoded] /\ state \in [Slots -> SlotStates]
      /\ MaxDecoded \in Nat \ {0}
  BY ConstantTypes DEF TypeInv, TypeOK, ServerTypes
<1>4. CASE UNCHANGED <<state, n_decoded, queue_tasks, queue_tasks_deferred, respVars>>
  <2>1. BudgetLeft'
    BY <1>4 DEF TypeInv, BudgetLeft
  <2> QED
    BY <1>2, <1>3, <1>4, <2>1, TypeSlotVisited
       DEF TypeInv, TypeOK, ServerTypes, Tasks, Results, respVars
<1>5. CASE Release(s) /\ Send(id_task[s], "final") /\ UNCHANGED n_decoded
  <2>1. /\ queue_tasks' \in Tasks /\ queue_tasks_deferred' \in Tasks
        /\ queue_results' \in Results /\ answers' \in [TaskIds -> Nat]
        /\ waiting_task_ids' \subseteq TaskIds
        /\ state' \in [Slots -> SlotStates]
        /\ \A t \in Slots : state'[t] \in {state[t], "idle"}
    BY <1>2, <1>5, ReleaseAndSendType
  <2>2. BudgetLeft'
    BY <1>5, <2>1, BudgetLeftKept
  <2> QED
    BY <1>2, <1>3, <1>5, <2>1, <2>2, TypeSlotVisited
<1>6. ASSUME state[s] \in {"done_prompt", "generating"},
             NEW partial \in BOOLEAN, NEW stop \in BOOLEAN, ProcessToken(s, partial, stop)
      PROVE  TypeInv'
  <2>1. n_decoded[s] \in Nat /\ n_decoded[s] < MaxDecoded
    BY <1>2, <1>3, <1>6 DEF TypeInv, BudgetLeft
  <2>2. /\ n_decoded[s] + 1 >= MaxDecoded => stop
        /\ n_decoded' = [n_decoded EXCEPT ![s] = n_decoded[s] + 1]
    BY <1>6 DEF ProcessToken
  <2>3. n_decoded' \in [Slots -> 0 .. MaxDecoded]
    BY <1>2, <1>3, <2>1, <2>2
  <2>4. CASE stop
    <3>1. Release(s) /\ Send(id_task[s], "final")
      BY <1>6, <2>4 DEF ProcessToken
    <3>2. /\ queue_tasks' \in Tasks /\ queue_tasks_deferred' \in Tasks
          /\ queue_results' \in Results /\ answers' \in [TaskIds -> Nat]
          /\ waiting_task_ids' \subseteq TaskIds
          /\ state' \in [Slots -> SlotStates]
      BY <1>2, <3>1, ReleaseAndSendType
    <3>3. state' = [state EXCEPT ![s] = "idle"]
      BY <3>1 DEF Release
    <3>4. BudgetLeft'
      BY <1>2, <1>3, <2>2, <3>3 DEF TypeInv, BudgetLeft
    <3> QED
      BY <1>2, <2>3, <3>2, <3>4, TypeSlotVisited
  <2>5. CASE ~stop
    <3>1. /\ state' = [state EXCEPT ![s] = "generating"]
          /\ UNCHANGED <<queue_tasks, queue_tasks_deferred>>
          /\ UNCHANGED respVars \/ Send(id_task[s], "partial")
      BY <1>6, <2>5 DEF ProcessToken
    <3>2. n_decoded[s] + 1 < MaxDecoded
      BY <1>3, <2>1, <2>2, <2>5
    <3>3. BudgetLeft'
      BY <1>2, <1>3, <2>2, <3>1, <3>2 DEF TypeInv, BudgetLeft
    <3>4. /\ queue_results' \in Results /\ answers' \in [TaskIds -> Nat]
          /\ waiting_task_ids' \subseteq TaskIds
      BY <3>1, SendType DEF respVars, TypeInv, TypeOK, ServerTypes, Results
    <3>5. state' \in [Slots -> SlotStates]
      BY <1>3, <3>1 DEF SlotStates
    <3> QED
      BY <1>2, <2>3, <3>1, <3>3, <3>4, <3>5, TypeSlotVisited
         DEF TypeInv, TypeOK, ServerTypes, Tasks
  <2> QED
    BY <2>4, <2>5
<1> QED
  BY <1>1, <1>4, <1>5, <1>6

\* A failed decode releases the slots and generates nothing.
LEMMA TypeFailSlot ==
  ASSUME TypeInv, FailSlot
  PROVE  TypeInv'
<1>1. PICK s \in todo : Release(s) /\ Send(id_task[s], "error") /\ Visit(s, "check", {})
  BY DEF FailSlot
<1>2. /\ s \in Slots /\ loop' \in Loops /\ todo' \subseteq Slots
      /\ UNCHANGED <<next_id, running, id_task, data, n_decoded, httpVars>>
  BY <1>1, VisitType DEF Loops, FailSlot
<1>3. /\ queue_tasks' \in Tasks /\ queue_tasks_deferred' \in Tasks
      /\ queue_results' \in Results /\ answers' \in [TaskIds -> Nat]
      /\ waiting_task_ids' \subseteq TaskIds
      /\ state' \in [Slots -> SlotStates]
      /\ \A t \in Slots : state'[t] \in {state[t], "idle"}
  BY <1>1, <1>2, ReleaseAndSendType
<1>4. BudgetLeft'
  BY <1>2, <1>3, BudgetLeftKept
<1>5. n_decoded' \in [Slots -> 0 .. MaxDecoded]
  BY <1>2 DEF TypeInv, TypeOK, ServerTypes
<1> QED
  BY <1>2, <1>3, <1>4, <1>5, TypeSlotVisited

\* The steps of the main loop, of the failure path's entry and of the signal handler.
LEMMA TypeLoopStep ==
  ASSUME TypeInv, DecodeFail \/ StartLoop \/ CheckQueue \/ Wake \/ Terminate
  PROVE  TypeInv'
<1>1. /\ loop' \in Loops /\ todo' \subseteq Slots /\ running' \in BOOLEAN
      /\ UNCHANGED <<queue_tasks, queue_tasks_deferred, next_id, respVars, slotVars, httpVars>>
  BY DEF DecodeFail, StartLoop, CheckQueue, Wake, Terminate, Loops, TypeInv, TypeOK, ServerTypes,
         taskVars, loopVars
<1>2. HandlerTypes' /\ IdsDrawn'
  BY <1>1, HandlerTypesUnchanged, IdsDrawnUnchanged DEF TypeInv, TypeOK, httpVars
<1>3. ServerTypes' /\ BudgetLeft'
  BY <1>1 DEF TypeInv, TypeOK, ServerTypes, BudgetLeft, respVars, slotVars
<1> QED
  BY <1>2, <1>3 DEF TypeInv, TypeOK

\* Every step of the server keeps the invariant.
LEMMA TypeNext ==
  ASSUME TypeInv, [Next]_vars
  PROVE  TypeInv'
<1>1. ASSUME NEW c \in Clients, Client(c)
      PROVE  TypeInv'
  BY <1>1, TypeBeginRequest, TypeAddWaiting, TypePost, TypeRecv, TypeCancelSend,
     TypeCancelRemove, TypePostCancel, TypeRemoveWaiting DEF Client
<1>2. CASE MainThread \/ Terminate
  BY <1>2, TypeProcessTask, TypeUpdateSlots, TypeBatchSlot, TypeDecodeSlot, TypeFailSlot,
     TypeLoopStep DEF MainThread
<1>3. CASE UNCHANGED vars
  <2>1. ServerTypes' /\ BudgetLeft'
    BY <1>3 DEF TypeInv, TypeOK, ServerTypes, BudgetLeft, vars, taskVars, respVars, slotVars, loopVars
  <2>2. HandlerTypes' /\ IdsDrawn'
    BY <1>3, HandlerTypesUnchanged, IdsDrawnUnchanged
       DEF TypeInv, TypeOK, vars, taskVars, httpVars
  <2> QED
    BY <2>1, <2>2 DEF TypeInv, TypeOK
<1> QED
  BY <1>1, <1>2, <1>3 DEF Next

\* The variables keep their types, whatever the handlers, the main thread and the signal do.
THEOREM TypeCorrect == Spec => []TypeOK
<1>1. TypeInv => TypeOK
  BY DEF TypeInv
<1>2. Spec => []TypeInv
  BY TypeInit, TypeNext, PTL DEF Spec
<1> QED
  BY <1>1, <1>2, PTL

-----------------------------------------------------------------------------
(* The main thread does not sleep on work                                  *)

\* From NEXT_RESPONSE on, until the loop takes tasks again, the queue is not empty.
SleepInv ==
  /\ loop \in {"batch", "decode", "fail"} => queue_tasks # <<>>
  /\ NeverSleepsOnWork

\* What a handler posts: a CANCEL, or a task of its request.
Posted == {t \in TaskSet : t.type = "cancel" \/ (t.data \in Requests /\ t.type = t.data.kind)}

\* A sequence over a set is one over a larger set.
LEMMA SeqSubset ==
  ASSUME NEW S, NEW T, S \subseteq T, NEW q \in Seq(S)
  PROVE  q \in Seq(T)
OBVIOUS

\* What handlers post are tasks.
LEMMA PostedSeq == \A q \in Seq(Posted) : q \in Tasks
BY SeqSubset DEF Posted, Tasks

\* A handler adds tasks at the ends of the queue, and touches nothing else of the main thread's.
LEMMA HandlersOnlyAdd ==
  ASSUME TypeInv, NEW c \in Clients, Client(c)
  PROVE  /\ \E a, b \in Seq(Posted) : queue_tasks' = a \o queue_tasks \o b
         /\ UNCHANGED <<queue_tasks_deferred, state, id_task, data, loop, todo>>
<1>1. queue_tasks \in Tasks
  BY DEF TypeInv, TypeOK, ServerTypes, Tasks
<1>2. UNCHANGED <<queue_tasks_deferred, state, id_task, data, loop, todo>>
  BY DEF Client, BeginRequest, AddWaiting, Post, Recv, CancelSend, CancelRemove, PostCancel,
         RemoveWaiting, taskVars, slotVars, loopVars
<1>3. CASE UNCHANGED queue_tasks
  <2>1. <<>> \in Seq(Posted) /\ queue_tasks = <<>> \o queue_tasks \o <<>>
    BY <1>1 DEF Tasks
  <2> QED
    BY <1>2, <1>3, <2>1
<1>4. ASSUME NEW a \in Seq(Posted), queue_tasks' = a \o queue_tasks
      PROVE  \E e, b \in Seq(Posted) : queue_tasks' = e \o queue_tasks \o b
  <2>1. <<>> \in Seq(Posted) /\ a \o queue_tasks = a \o queue_tasks \o <<>>
    BY <1>1, <1>4, PostedSeq DEF Tasks
  <2> QED
    BY <1>4, <2>1
<1>5. ASSUME NEW b \in Seq(Posted), queue_tasks' = queue_tasks \o b
      PROVE  \E a, e \in Seq(Posted) : queue_tasks' = a \o queue_tasks \o e
  <2>1. <<>> \in Seq(Posted) /\ queue_tasks \o b = <<>> \o queue_tasks \o b
    BY <1>1, <1>5, PostedSeq DEF Tasks
  <2> QED
    BY <1>5, <2>1
<1>6. CASE Post(c)
  <2>1. pc[c] = "post" /\ req[c] \in Requests /\ req[c].kind \in Kinds /\ req[c].n \in Nat
    BY <1>6, ConstantTypes DEF Post, TypeInv, IdsDrawn
  <2>2. CASE PostsFirst(req[c])
    <3>1. /\ queue_tasks' = Append(queue_tasks, Task(req[c].kind, next_id, NoTask, req[c]))
          /\ next_id' = next_id + 1 /\ first_id' = [first_id EXCEPT ![c] = next_id]
      BY <1>6, <2>2 DEF Post
    <3>2. next_id \in TaskIds
      <4>1. TypeInv'
        BY <1>6, TypePost
      <4>2. first_id'[c] = next_id /\ next_id \in Nat
        BY <3>1 DEF TypeInv, TypeOK, HandlerTypes
      <4> QED
        BY <4>1, <4>2 DEF TypeInv, TypeOK, HandlerTypes, NoTask
    <3>3. <<Task(req[c].kind, next_id, NoTask, req[c])>> \in Seq(Posted)
      BY <2>1, <3>2 DEF Task, TaskSet, Posted
    <3>4. queue_tasks' = queue_tasks \o <<Task(req[c].kind, next_id, NoTask, req[c])>>
      BY <1>1, <3>1 DEF Tasks
    <3> QED
      BY <1>2, <1>5, <3>3, <3>4
  <2>3. CASE ~PostsFirst(req[c])
    <3> DEFINE tasks == [k \in 1 .. req[c].n |-> Task(req[c].kind, first_id[c] + k - 1, NoTask, req[c])]
    <3>1. queue_tasks' = tasks \o queue_tasks \/ queue_tasks' = queue_tasks \o tasks
      BY <1>6, <2>3 DEF Post
    <3>2. first_id[c] # NoTask
      BY <2>1, <2>3 DEF TypeInv, IdsDrawn
    <3>3. \A k \in 1 .. req[c].n : Task(req[c].kind, first_id[c] + k - 1, NoTask, req[c]) \in Posted
      BY <2>1, <3>2, IdsType DEF Task, TaskSet, Posted
    <3>4. tasks \in Seq(Posted)
      BY <2>1, <3>3
    <3> QED
      BY <1>2, <1>4, <1>5, <3>1, <3>4
  <2> QED
    BY <2>2, <2>3
<1>7. CASE PostCancel(c)
  <2> DEFINE posted == [i \in 1 .. Len(cancels[c]) |-> CancelTask(Reverse(cancels[c])[i])]
  <2>1. cancels[c] \in Seq(TaskIds)
    BY DEF TypeInv, TypeOK, HandlerTypes
  <2>2. \A i \in 1 .. Len(cancels[c]) : CancelTask(Reverse(cancels[c])[i]) \in Posted
    <3>1. \A i \in 1 .. Len(cancels[c]) : Reverse(cancels[c])[i] \in TaskIds
      BY <2>1, ReverseType
    <3> QED
      BY <3>1 DEF CancelTask, Task, TaskSet, Kinds, Posted
  <2>3. posted \in Seq(Posted)
    BY <2>1, <2>2
  <2>4. queue_tasks' = posted \o queue_tasks
    BY <1>7 DEF PostCancel
  <2> QED
    BY <1>2, <1>4, <2>3, <2>4
<1>8. Post(c) \/ PostCancel(c) \/ UNCHANGED queue_tasks
  BY DEF Client, BeginRequest, AddWaiting, Recv, CancelSend, CancelRemove, RemoveWaiting, taskVars
<1> QED
  BY <1>2, <1>3, <1>6, <1>7, <1>8

\* Pushing to either end does not empty a queue.
LEMMA ConcatNotEmpty ==
  ASSUME NEW S, NEW q \in Seq(S), NEW r \in Seq(S), q # <<>> \/ r # <<>>
  PROVE  q \o r # <<>>
OBVIOUS

\* release() takes nothing out of queue_tasks.
LEMMA ReleaseNotEmpty ==
  ASSUME TypeInv, NEW s \in Slots, Release(s), queue_tasks # <<>>
  PROVE  queue_tasks' # <<>>
<1>1. PICK n \in {0, 1} : queue_tasks' = queue_tasks \o Popped(n)
  BY DEF Release
<1>2. queue_tasks \in Tasks /\ Popped(n) \in Tasks
  BY PoppedType DEF TypeInv, TypeOK, ServerTypes, Tasks
<1> QED
  BY <1>1, <1>2, ConcatNotEmpty DEF Tasks

\* Every step keeps the loop awake while a slot has work.
LEMMA SleepNext ==
  ASSUME TypeInv, SleepInv, [Next]_vars
  PROVE  SleepInv'
<1> USE DEF SleepInv, NeverSleepsOnWork
<1>1. ASSUME NEW c \in Clients, Client(c)
      PROVE  SleepInv'
  <2>1. PICK a, b \in Seq(Posted) : queue_tasks' = a \o queue_tasks \o b
    BY <1>1, HandlersOnlyAdd
  <2>2. UNCHANGED <<state, loop>>
    BY <1>1, HandlersOnlyAdd
  <2>3. queue_tasks \in Tasks
    BY DEF TypeInv, TypeOK, ServerTypes, Tasks
  <2>4. a \in Tasks /\ b \in Tasks /\ a \o queue_tasks \in Tasks
    BY <2>1, <2>3, ConcatType, PostedSeq DEF Tasks
  <2>5. queue_tasks # <<>> => queue_tasks' # <<>>
    BY <2>1, <2>3, <2>4, ConcatNotEmpty DEF Tasks
  <2> QED
    BY <2>2, <2>5 DEF Processing
<1>2. CASE ProcessTask
  BY <1>2 DEF ProcessTask, loopVars
<1>3. CASE UpdateSlots
  <2>1. queue_tasks \in Seq(TaskSet) /\ NextResponse \in TaskSet
    BY DEF TypeInv, TypeOK, ServerTypes, NextResponse, Task, TaskSet
  <2>2. Append(queue_tasks, NextResponse) # <<>>
    BY <2>1
  <2> QED
    BY <1>3, <2>2 DEF UpdateSlots, Processing, slotVars
<1>4. CASE BatchSlot \/ DecodeSlot \/ FailSlot
  <2>1. /\ loop \in {"batch", "decode", "fail"}
        /\ UNCHANGED queue_tasks \/ \E s \in todo : Release(s)
    BY <1>4 DEF BatchSlot, BatchPrompt, ContextFull, DecodeSlot, ProcessToken, FailSlot
  <2>2. \A s \in todo : s \in Slots
    BY DEF TypeInv, TypeOK, ServerTypes
  <2>3. queue_tasks' # <<>>
    BY <2>1, <2>2, ReleaseNotEmpty
  <2> QED
    BY <2>3
<1>5. CASE DecodeFail
  BY <1>5 DEF DecodeFail, Processing, slotVars, taskVars
<1>6. CASE StartLoop \/ Wake
  BY <1>6 DEF StartLoop, Wake
<1>7. CASE CheckQueue
  BY <1>7 DEF CheckQueue, Processing, slotVars, taskVars
<1>8. CASE Terminate
  BY <1>8 DEF Terminate, Processing, slotVars, loopVars
<1>9. CASE UNCHANGED vars
  BY <1>9 DEF vars, taskVars, slotVars, loopVars, Processing
<1> QED
  BY <1>1, <1>2, <1>3, <1>4, <1>5, <1>6, <1>7, <1>8, <1>9 DEF Next, MainThread

\* With work on a slot the main thread neither blocks on an empty queue nor stops.
THEOREM MainThreadStaysAwake == Spec => []NeverSleepsOnWork
<1>1. Init => SleepInv
  BY DEF Init, SleepInv, NeverSleepsOnWork
<1>2. Spec => []TypeInv
  BY TypeInit, TypeNext, PTL DEF Spec
<1>3. Spec => []SleepInv
  BY <1>1, <1>2, SleepNext, PTL DEF Spec
<1>4. SleepInv => NeverSleepsOnWork
  BY DEF SleepInv
<1> QED
  BY <1>3, <1>4, PTL

-----------------------------------------------------------------------------
(* A deferred task waits for something                                     *)

\* Requests that can be launched whenever a slot is free.
AllSchedulable ==
  \A r \in Requests :
    /\ r.kind # "slot_action"
    /\ r.kind = "completion" => r.defect # "launch" /\ r.slot \in Slots \cup {AnySlot}

Completions == {t \in TaskSet : /\ t.type = "completion" /\ t.data \in Requests
                                /\ t.data.kind = "completion"}
Launchable  == Completions \cup {t \in TaskSet : t.type \notin {"completion", "slot_action"}}

\* Only completions are deferred, and each of them can be launched on a free slot.
StrandInv ==
  /\ queue_tasks \in Seq(Launchable)
  /\ queue_tasks_deferred \in Seq(Completions)
  /\ NoStrandedTask

\* The tasks of both parts are in the joined queue.
LEMMA RangeConcat ==
  ASSUME NEW S, NEW q \in Seq(S), NEW r \in Seq(S)
  PROVE  /\ \A t \in Range(q) : t \in Range(q \o r)
         /\ \A t \in Range(r) : t \in Range(q \o r)
<1>1. \A i \in 1 .. Len(q) : (q \o r)[i] = q[i] /\ i \in 1 .. Len(q \o r)
  OBVIOUS
<1>2. \A i \in 1 .. Len(r) : (q \o r)[Len(q) + i] = r[i] /\ Len(q) + i \in 1 .. Len(q \o r)
  OBVIOUS
<1>3. DOMAIN q = 1 .. Len(q) /\ DOMAIN r = 1 .. Len(r) /\ DOMAIN (q \o r) = 1 .. Len(q \o r)
  OBVIOUS
<1> QED
  BY <1>1, <1>2, <1>3 DEF Range

\* The front and the rest of a queue hold all its tasks.
LEMMA RangeTail ==
  ASSUME NEW S, NEW q \in Seq(S), q # <<>>
  PROVE  \A t \in Range(q) : t = Head(q) \/ t \in Range(Tail(q))
<1>1. \A i \in 1 .. Len(q) : i = 1 \/ (i - 1 \in 1 .. Len(Tail(q)) /\ Tail(q)[i - 1] = q[i])
  OBVIOUS
<1>2. DOMAIN q = 1 .. Len(q) /\ DOMAIN Tail(q) = 1 .. Len(Tail(q)) /\ Head(q) = q[1]
  OBVIOUS
<1> QED
  BY <1>1, <1>2 DEF Range

\* pop_deferred_task() splits the deferred queue in two.
LEMMA PoppedOne ==
  ASSUME StrandInv, NEW n \in Nat
  PROVE  /\ Popped(n) \in Seq(Completions) /\ Remaining(n) \in Seq(Completions)
         /\ n >= 1 /\ queue_tasks_deferred # <<>> =>
              \E t \in Range(Popped(n)) : t.type = "completion"
         /\ n = 0 => Popped(n) = <<>> /\ Remaining(n) = queue_tasks_deferred
<1> DEFINE q == queue_tasks_deferred
<1>1. q \in Seq(Completions)
  BY DEF StrandInv
<1>2. Popped(n) \in Seq(Completions) /\ Remaining(n) \in Seq(Completions)
  BY <1>1, SubSeqType DEF Popped, Remaining
<1>3. ASSUME n >= 1, q # <<>>
      PROVE  \E t \in Range(Popped(n)) : t.type = "completion"
  <2>1. Len(Popped(n)) >= 1
    BY <1>1, <1>3 DEF Popped
  <2>2. 1 \in DOMAIN Popped(n) /\ Popped(n)[1] \in Completions
    BY <1>2, <2>1
  <2> QED
    BY <2>2 DEF Range, Completions
<1>4. n = 0 => Popped(n) = <<>> /\ Remaining(n) = q
  BY <1>1 DEF Popped, Remaining
<1> QED
  BY <1>2, <1>3, <1>4

\* Popping after a release: the queue keeps its completions, and gets one if one is deferred.
LEMMA PopKeepsStrandInv ==
  ASSUME StrandInv, NEW n \in Nat, NEW q \in Seq(Launchable),
         \A t \in Range(queue_tasks) : t.type = "completion" => t \in Range(q),
         queue_tasks' = q \o Popped(n), queue_tasks_deferred' = Remaining(n),
         n = 0 => state' = state
  PROVE  StrandInv'
<1>1. Popped(n) \in Seq(Completions) /\ queue_tasks_deferred' \in Seq(Completions)
  BY PoppedOne
<1>2. Popped(n) \in Seq(Launchable)
  BY <1>1, SeqSubset DEF Launchable
<1>3. queue_tasks' \in Seq(Launchable)
  BY <1>2, ConcatType
<1>4. \A t \in Range(q) \cup Range(Popped(n)) : t \in Range(queue_tasks')
  BY <1>2, RangeConcat
<1>5. NoStrandedTask'
  <2> SUFFICES ASSUME queue_tasks_deferred' # <<>>
               PROVE  Processing' # {} \/ \E t \in Range(queue_tasks') : t.type = "completion"
    BY DEF NoStrandedTask
  <2>1. queue_tasks_deferred # <<>>
    BY DEF StrandInv, Remaining
  <2>2. CASE n >= 1
    BY <1>4, <2>1, <2>2, PoppedOne
  <2>3. CASE n = 0
    BY <1>4, <2>1, <2>3 DEF StrandInv, NoStrandedTask, Processing
  <2> QED
    BY <2>2, <2>3
<1> QED
  BY <1>1, <1>3, <1>5 DEF StrandInv

\* release() pops a deferred task for the slot it frees.
LEMMA ReleaseKeepsStrandInv ==
  ASSUME StrandInv, TypeInv, NEW s \in Slots, Release(s)
  PROVE  StrandInv'
<1>1. PICK n \in {0, 1} :
        /\ queue_tasks' = queue_tasks \o Popped(n)
        /\ queue_tasks_deferred' = Remaining(n)
        /\ n = 0 => state[s] = "idle"
        /\ state' = [state EXCEPT ![s] = "idle"]
  <2>1. CASE state[s] = "idle"
    BY <2>1 DEF Release
  <2>2. CASE state[s] # "idle"
    BY <2>2 DEF Release
  <2> QED
    BY <2>1, <2>2
<1>2. state \in [Slots -> SlotStates]
  BY DEF TypeInv, TypeOK, ServerTypes
<1>3. ASSUME n = 0
      PROVE  state' = state
  <2>1. state[s] = "idle" /\ state' = [state EXCEPT ![s] = "idle"]
    BY <1>1, <1>3
  <2> QED
    BY <1>2, <2>1
<1>4. n \in Nat /\ queue_tasks \in Seq(Launchable)
  BY DEF StrandInv
<1>5. queue_tasks' = queue_tasks \o Popped(n) /\ queue_tasks_deferred' = Remaining(n)
  BY <1>1
<1> QED
  BY <1>3, <1>4, <1>5, PopKeepsStrandInv

\* Every step leaves a deferred task something to wait for.
LEMMA StrandNext ==
  ASSUME AllSchedulable, TypeInv, StrandInv, [Next]_vars
  PROVE  StrandInv'
<1>1. ASSUME NEW c \in Clients, Client(c)
      PROVE  StrandInv'
  <2>1. PICK a, b \in Seq(Posted) : queue_tasks' = a \o queue_tasks \o b
    BY <1>1, HandlersOnlyAdd
  <2>2. UNCHANGED <<queue_tasks_deferred, state>>
    BY <1>1, HandlersOnlyAdd
  <2>3. Posted \subseteq Launchable
    BY DEF Posted, Launchable, Completions, AllSchedulable
  <2>4. a \in Seq(Launchable) /\ b \in Seq(Launchable) /\ queue_tasks \in Seq(Launchable)
    BY <2>1, <2>3, SeqSubset DEF StrandInv
  <2>5. a \o queue_tasks \in Seq(Launchable) /\ queue_tasks' \in Seq(Launchable)
    BY <2>1, <2>4, ConcatType
  <2>6. \A t \in Range(queue_tasks) : t \in Range(a \o queue_tasks)
    BY <2>4, RangeConcat
  <2>7. \A t \in Range(queue_tasks) : t \in Range(queue_tasks')
    BY <2>1, <2>4, <2>5, <2>6, RangeConcat
  <2> QED
    BY <2>2, <2>5, <2>7 DEF StrandInv, NoStrandedTask, Processing
<1>2. CASE ProcessTask
  <2> DEFINE task == Head(queue_tasks)
  <2>1. /\ queue_tasks # <<>>
        /\ ProcessCompletion(task) \/ ProcessCancel(task)
              \/ ProcessSlotAction(task) \/ ProcessOther(task)
    BY <1>2 DEF ProcessTask
  <2>2. /\ task \in Launchable /\ Tail(queue_tasks) \in Seq(Launchable)
        /\ \A t \in Range(queue_tasks) : t = task \/ t \in Range(Tail(queue_tasks))
    BY <2>1, HeadTailType, RangeTail DEF StrandInv
  <2> HIDE DEF task
  <2>3. CASE ProcessCompletion(task)
    <3>1. task \in Completions /\ task.data \in Requests /\ task.data.kind = "completion"
      BY <2>2, <2>3 DEF Launchable, Completions, ProcessCompletion
    <3>2. task.data.defect # "launch" /\ task.data.slot \in Slots \cup {AnySlot}
      BY <3>1 DEF AllSchedulable
    <3>3. CASE Available(task.data) = {} /\ DeferTask(task)
      <4>1. 0 \in Slots
        BY ConstantTypes DEF Slots
      <4>2. Processing # {}
        BY <3>2, <3>3, <4>1 DEF Available, Idle
      <4>3. /\ queue_tasks' = Tail(queue_tasks) /\ UNCHANGED state
            /\ queue_tasks_deferred' = Append(queue_tasks_deferred, task)
        BY <3>3 DEF DeferTask, slotVars
      <4>4. queue_tasks_deferred' \in Seq(Completions)
        BY <3>1, <4>3, AppendType DEF StrandInv
      <4> QED
        BY <2>2, <4>2, <4>3, <4>4 DEF StrandInv, NoStrandedTask, Processing
    <3>4. ASSUME NEW s \in Available(task.data), LaunchTask(task, s)
          PROVE  StrandInv'
      <4> DEFINE released == IF task.data.system_prompt THEN Processing ELSE {}
                 n        == Cardinality(released)
      <4>1. n \in Nat
        <5>1. IsFiniteSet(Slots)
          BY ConstantTypes, FS_Interval DEF Slots
        <5>2. released \subseteq Slots
          BY DEF Processing
        <5> QED
          BY <5>1, <5>2, FS_Subset, FS_CardinalityType
      <4>2. /\ queue_tasks' = Tail(queue_tasks) \o Popped(n)
            /\ queue_tasks_deferred' = Remaining(n)
        BY <3>4 DEF LaunchTask
      <4>3. s \in Slots /\ state'[s] = "processing_prompt"
        BY <3>2, <3>4 DEF LaunchTask, Available, Idle
      <4> HIDE DEF n
      <4>4. Popped(n) \in Seq(Completions) /\ queue_tasks_deferred' \in Seq(Completions)
        BY <4>1, <4>2, PoppedOne
      <4>5. queue_tasks' \in Seq(Launchable)
        BY <2>2, <4>2, <4>4, ConcatType, SeqSubset DEF Launchable
      <4> QED
        BY <4>3, <4>4, <4>5 DEF StrandInv, NoStrandedTask, Processing
    <3> QED
      BY <2>3, <3>3, <3>4 DEF ProcessCompletion
  <2>4. CASE ProcessCancel(task)
    <3> DEFINE first    == {s \in Slots : /\ id_task[s] = task.id_target
                                         /\ \A t \in 0 .. s - 1 : id_task[t] # task.id_target}
               released == first \cap Processing
               n        == Cardinality(released)
    <3>1. IsFiniteSet(released) /\ n \in Nat
      <4>1. IsFiniteSet(Slots)
        BY ConstantTypes, FS_Interval DEF Slots
      <4>2. released \subseteq Slots
        OBVIOUS
      <4> QED
        BY <4>1, <4>2, FS_Subset, FS_CardinalityType
    <3>2. /\ queue_tasks' = Tail(queue_tasks) \o Popped(n) /\ queue_tasks_deferred' = Remaining(n)
          /\ state' = [s \in Slots |-> IF s \in released THEN "idle" ELSE state[s]]
      BY <2>4 DEF ProcessCancel
    <3> HIDE DEF released
    <3>3. n = 0 => state' = state
      <4>1. n = 0 => released = {}
        BY <3>1, FS_EmptySet
      <4>2. state \in [Slots -> SlotStates]
        BY DEF TypeInv, TypeOK, ServerTypes
      <4> QED
        BY <3>2, <4>1, <4>2
    <3> HIDE DEF n
    <3>4. \A t \in Range(queue_tasks) : t.type = "completion" => t \in Range(Tail(queue_tasks))
      BY <2>2, <2>4 DEF ProcessCancel
    <3> QED
      BY <2>2, <3>1, <3>2, <3>3, <3>4, PopKeepsStrandInv
  <2>5. CASE ProcessSlotAction(task)
    BY <2>2, <2>5 DEF ProcessSlotAction, Launchable, Completions
  <2>6. CASE ProcessOther(task)
    <3>1. task.type # "completion" /\ queue_tasks' = Tail(queue_tasks)
          /\ UNCHANGED <<queue_tasks_deferred, state>>
      BY <2>6 DEF ProcessOther, slotVars
    <3> QED
      BY <2>2, <3>1 DEF StrandInv, NoStrandedTask, Processing
  <2> QED
    BY <2>1, <2>3, <2>4, <2>5, <2>6
<1>3. CASE UpdateSlots
  <2>1. queue_tasks \in Seq(Launchable)
    BY DEF StrandInv
  <2>2. NextResponse \in Launchable
    BY DEF NextResponse, Task, TaskSet, Launchable
  <2>3. /\ Append(queue_tasks, NextResponse) \in Seq(Launchable)
        /\ Append(queue_tasks, NextResponse) = queue_tasks \o <<NextResponse>>
        /\ <<NextResponse>> \in Seq(Launchable)
    BY <2>1, <2>2
  <2>4. /\ queue_tasks' \in {queue_tasks, Append(queue_tasks, NextResponse)}
        /\ UNCHANGED <<queue_tasks_deferred, state>>
    BY <1>3 DEF UpdateSlots, slotVars
  <2>5. \A t \in Range(queue_tasks) : t \in Range(queue_tasks')
    BY <2>1, <2>3, <2>4, RangeConcat
  <2> QED
    BY <2>1, <2>3, <2>4, <2>5 DEF StrandInv, NoStrandedTask, Processing
<1>4. CASE BatchSlot \/ DecodeSlot \/ FailSlot
  <2>1. \E s \in Slots :
          \/ Release(s)
          \/ UNCHANGED <<state, queue_tasks, queue_tasks_deferred>>
          \/ /\ \E p \in SlotStates \ {"idle"} : state' = [state EXCEPT ![s] = p]
             /\ UNCHANGED <<queue_tasks, queue_tasks_deferred>>
    <3>1. \A s \in todo : s \in Slots
      BY DEF TypeInv, TypeOK, ServerTypes
    <3> QED
      BY <1>4, <3>1 DEF BatchSlot, BatchPrompt, ContextFull, DecodeSlot, ProcessToken, FailSlot, SlotStates
  <2>2. ASSUME NEW s \in Slots, NEW p \in SlotStates \ {"idle"},
               state' = [state EXCEPT ![s] = p], UNCHANGED <<queue_tasks, queue_tasks_deferred>>
        PROVE  StrandInv'
    <3>1. s \in Processing'
      BY <2>2 DEF Processing, TypeInv, TypeOK, ServerTypes
    <3> QED
      BY <2>2, <3>1 DEF StrandInv, NoStrandedTask
  <2>3. CASE UNCHANGED <<state, queue_tasks, queue_tasks_deferred>>
    BY <2>3 DEF StrandInv, NoStrandedTask, Processing
  <2> QED
    BY <2>1, <2>2, <2>3, ReleaseKeepsStrandInv
<1>5. CASE \/ DecodeFail \/ StartLoop \/ CheckQueue \/ Wake \/ Terminate \/ UNCHANGED vars
  <2>1. UNCHANGED <<state, queue_tasks, queue_tasks_deferred>>
    BY <1>5 DEF DecodeFail, StartLoop, CheckQueue, Wake, Terminate, vars, taskVars, slotVars
  <2> QED
    BY <2>1 DEF StrandInv, NoStrandedTask, Processing
<1> QED
  BY <1>1, <1>2, <1>3, <1>4, <1>5 DEF Next, MainThread

\* When every completion that is sent can be launched on a free slot, and no slot action is
\* sent, a deferred task always has a busy slot or a queued completion to wait for.
THEOREM NoTaskStranded ==
  ASSUME AllSchedulable
  PROVE  Spec => []NoStrandedTask
<1>1. Init => StrandInv
  BY DEF Init, StrandInv, NoStrandedTask
<1>2. Spec => []TypeInv
  BY TypeInit, TypeNext, PTL DEF Spec
<1>3. TypeInv /\ StrandInv /\ [Next]_vars => StrandInv'
  BY StrandNext
<1>4. Spec => []StrandInv
  BY <1>1, <1>2, <1>3, PTL DEF Spec
<1>5. StrandInv => NoStrandedTask
  BY DEF StrandInv
<1> QED
  BY <1>4, <1>5, PTL

-----------------------------------------------------------------------------
(***************************************************************************)
(* The server keeps one copy of each task, for every number of handlers,   *)
(* slots and tasks.                                                        *)
(*                                                                         *)
(* The argument looks at the two queues as one, the deferred tasks behind  *)
(* the queued ones: pop_deferred_task() then changes nothing at all,       *)
(* defer() moves the front to the back, a launch moves the front to a slot,*)
(* and post() inserts tasks whose ids nobody holds yet.                    *)
(***************************************************************************)

Joined      == queue_tasks \o queue_tasks_deferred
IdsOf(q)    == {t.id : t \in Range(q)}
Distinct(q) == \A i, j \in 1 .. Len(q) : q[i].id = q[j].id => i = j \/ q[i].id = NoTask
Deferrable  == {t \in TaskSet : t.type \in {"completion", "slot_action"}}

\* Each id is queued, deferred or on a busy slot once; the tasks that may be deferred or
\* launched have an id.
OneCopy ==
  /\ Distinct(Joined)
  /\ Range(queue_tasks_deferred) \subseteq Deferrable
  /\ \A t \in Range(Joined) : t \in Deferrable => t.id # NoTask
  /\ \A s, t \in Processing : id_task[s] = id_task[t] => s = t
  /\ \A s \in Processing : id_task[s] # NoTask /\ id_task[s] \notin IdsOf(Joined)

\* The handlers that drew their ids and have not posted their tasks.
Unposted == {c \in Clients : pc[c] \in {"add_waiting", "post"} /\ ~PostsFirst(req[c])}
HeldIds  == IdsOf(Joined) \cup {id_task[s] : s \in Processing}

\* The ids that are still to be posted are nobody else's.
FreshIds ==
  /\ \A id \in HeldIds : id < next_id
  /\ \A c \in Unposted : ids(c) \cap HeldIds = {}
  /\ \A c, d \in Unposted : c # d => ids(c) \cap ids(d) = {}

OnceInv == OneCopy /\ FreshIds

-----------------------------------------------------------------------------
(* The joined queue                                                        *)

\* The tasks of a sequence are the ones at its places.
LEMMA RangeAtPlaces ==
  ASSUME NEW S, NEW w \in Seq(S)
  PROVE  /\ \A t \in Range(w) : \E i \in 1 .. Len(w) : t = w[i]
         /\ \A i \in 1 .. Len(w) : w[i] \in Range(w)
<1>1. DOMAIN w = 1 .. Len(w)
  OBVIOUS
<1> QED
  BY <1>1 DEF Range

\* What pop_deferred_task() takes and what it leaves make up the deferred queue.
LEMMA PopSplits ==
  ASSUME NEW S, NEW d \in Seq(S), NEW n \in Nat
  PROVE  SubSeq(d, 1, IF n < Len(d) THEN n ELSE Len(d)) \o SubSeq(d, n + 1, Len(d)) = d
<1>1. Len(d) \in Nat /\ SubSeq(d, 1, Len(d)) = d
  BY SubSeqFull
<1>2. CASE n < Len(d)
  <2>1. 1 \in 1 .. Len(d) + 1 /\ n \in 1 - 1 .. Len(d) /\ Len(d) \in n .. Len(d)
    BY <1>1, <1>2
  <2> QED
    BY <1>1, <1>2, <2>1, ConcatAdjacentSubSeq
<1>3. CASE ~(n < Len(d))
  <2>1. n + 1 \in Int /\ Len(d) \in Int /\ Len(d) < n + 1
    BY <1>1, <1>3
  <2>2. SubSeq(d, n + 1, Len(d)) = <<>>
    BY <2>1, SubSeqEmpty
  <2>3. SubSeq(d, 1, IF n < Len(d) THEN n ELSE Len(d)) = d
    BY <1>1, <1>3
  <2> QED
    BY <2>2, <2>3, ConcatEmptySeq
<1> QED
  BY <1>2, <1>3

\* pop_deferred_task() leaves the joined queue as it is.
LEMMA PopKeepsJoined ==
  ASSUME NEW S, NEW q \in Seq(S), NEW d \in Seq(S), NEW n \in Nat
  PROVE  (q \o SubSeq(d, 1, IF n < Len(d) THEN n ELSE Len(d))) \o SubSeq(d, n + 1, Len(d)) = q \o d
<1> DEFINE p == SubSeq(d, 1, IF n < Len(d) THEN n ELSE Len(d))
           r == SubSeq(d, n + 1, Len(d))
<1>1. p \in Seq(S) /\ r \in Seq(S)
  BY SubSeqType
<1>2. p \o r = d
  BY PopSplits
<1> HIDE DEF p, r
<1>3. (q \o p) \o r = q \o (p \o r)
  BY <1>1, ConcatAssociative
<1>4. (q \o p) \o r = q \o d
  BY <1>2, <1>3
<1> QED
  BY <1>4 DEF p, r

\* Taking the front of the first queue takes the front of the joined one.
LEMMA TailOfJoined ==
  ASSUME NEW S, NEW q \in Seq(S), NEW d \in Seq(S), q # <<>>
  PROVE  /\ Tail(q) \o d = Tail(q \o d) /\ Head(q \o d) = Head(q) /\ q \o d # <<>>
         /\ Tail(q) \o Append(d, Head(q)) = Append(Tail(q \o d), Head(q))
<1>1. q \o d \in Seq(S) /\ Len(q \o d) = Len(q) + Len(d) /\ Len(q) >= 1
  OBVIOUS
<1>2. Head(q \o d) = Head(q) /\ q \o d # <<>>
  BY <1>1
<1>3. /\ Tail(q) \o d \in Seq(S) /\ Tail(q \o d) \in Seq(S)
      /\ Len(Tail(q) \o d) = Len(Tail(q \o d))
      /\ \A i \in 1 .. Len(Tail(q) \o d) : (Tail(q) \o d)[i] = Tail(q \o d)[i]
  BY <1>1
<1>4. Tail(q) \o d = Tail(q \o d)
  BY <1>3
<1>5. Tail(q) \o Append(d, Head(q)) = Append(Tail(q) \o d, Head(q))
  OBVIOUS
<1> QED
  BY <1>2, <1>4, <1>5

\* The front of a queue with distinct ids: the rest has distinct ids and not the front's,
\* and so has the queue with the front moved to its back.
LEMMA FrontOfDistinct ==
  ASSUME NEW w \in Seq(TaskSet), w # <<>>, Distinct(w)
  PROVE  /\ Tail(w) \in Seq(TaskSet) /\ Append(Tail(w), Head(w)) \in Seq(TaskSet)
         /\ Distinct(Tail(w)) /\ Range(Tail(w)) \subseteq Range(w)
         /\ Head(w) \in Range(w)
         /\ Head(w).id # NoTask => Head(w).id \notin IdsOf(Tail(w))
         /\ Distinct(Append(Tail(w), Head(w)))
         /\ Range(Append(Tail(w), Head(w))) \subseteq Range(w)
<1> DEFINE t == Tail(w)
           v == Append(t, Head(w))
<1>1. /\ Len(w) \in Nat /\ Len(w) >= 1 /\ Head(w) = w[1] /\ Head(w) \in TaskSet
      /\ t \in Seq(TaskSet) /\ Len(t) = Len(w) - 1
  OBVIOUS
<1>2. \A i \in 1 .. Len(t) : t[i] = w[i + 1]
  OBVIOUS
<1>3. /\ v \in Seq(TaskSet) /\ Len(v) = Len(t) + 1
      /\ v[Len(t) + 1] = Head(w)
      /\ \A i \in 1 .. Len(t) : v[i] = t[i]
  BY <1>1, AppendProperties
<1> HIDE DEF t, v
<1>4. \A i \in 1 .. Len(t) : i + 1 \in 1 .. Len(w)
  BY <1>1
<1>5. \A i, j \in 1 .. Len(w) : w[i].id = w[j].id => i = j \/ w[i].id = NoTask
  BY DEF Distinct
<1>6. Distinct(t)
  <2> SUFFICES ASSUME NEW i \in 1 .. Len(t), NEW j \in 1 .. Len(t), t[i].id = t[j].id,
                      t[i].id # NoTask
               PROVE  i = j
    BY DEF Distinct
  <2>1. w[i + 1].id = w[j + 1].id /\ w[i + 1].id # NoTask
    BY <1>2
  <2>2. i + 1 = j + 1
    BY <1>4, <1>5, <2>1
  <2>3. i \in Int /\ j \in Int
    BY <1>1
  <2> QED
    BY <2>2, <2>3
<1>7. \A i \in 1 .. Len(t) : t[i].id = Head(w).id => Head(w).id = NoTask
  <2> TAKE i \in 1 .. Len(t)
  <2>1. 1 \in 1 .. Len(w) /\ i + 1 \in 1 .. Len(w) /\ i + 1 # 1
    BY <1>1, <1>4
  <2> QED
    BY <1>1, <1>2, <1>5, <2>1
<1>8. /\ \A e \in Range(t) : \E i \in 1 .. Len(t) : e = t[i]
      /\ \A i \in 1 .. Len(w) : w[i] \in Range(w)
      /\ \A e \in Range(v) : \E i \in 1 .. Len(v) : e = v[i]
  BY <1>1, <1>3, RangeAtPlaces
<1>9. Range(t) \subseteq Range(w)
  BY <1>2, <1>4, <1>8
<1>10. Head(w) \in Range(w)
  <2>1. 1 \in 1 .. Len(w)
    BY <1>1
  <2> QED
    BY <1>1, <1>8, <2>1
<1>11. Head(w).id # NoTask => Head(w).id \notin IdsOf(t)
  BY <1>7, <1>8 DEF IdsOf
<1>12. \A i \in 1 .. Len(v) : i = Len(t) + 1 \/ i \in 1 .. Len(t)
  BY <1>1, <1>3
<1>13. Range(v) \subseteq Range(w)
  <2> SUFFICES ASSUME NEW i \in 1 .. Len(v) PROVE v[i] \in Range(w)
    BY <1>8
  <2>1. CASE i = Len(t) + 1
    BY <1>3, <1>10, <2>1
  <2>2. CASE i \in 1 .. Len(t)
    BY <1>2, <1>3, <1>4, <1>8, <2>2
  <2> QED
    BY <1>12, <2>1, <2>2
<1>14. Distinct(v)
  <2> SUFFICES ASSUME NEW i \in 1 .. Len(v), NEW j \in 1 .. Len(v), v[i].id = v[j].id,
                      v[i].id # NoTask
               PROVE  i = j
    BY DEF Distinct
  <2>1. CASE i \in 1 .. Len(t) /\ j \in 1 .. Len(t)
    BY <1>3, <1>6, <2>1 DEF Distinct
  <2>2. CASE i = Len(t) + 1 /\ j \in 1 .. Len(t)
    BY <1>3, <1>7, <2>2
  <2>3. CASE i \in 1 .. Len(t) /\ j = Len(t) + 1
    BY <1>3, <1>7, <2>3
  <2> QED
    BY <1>12, <2>1, <2>2, <2>3
<1> QED
  BY <1>1, <1>3, <1>6, <1>9, <1>10, <1>11, <1>13, <1>14 DEF t, v

\* Inserting tasks whose ids are distinct and new keeps the ids distinct.
LEMMA InsertDistinct ==
  ASSUME NEW x \in Seq(TaskSet), NEW b \in Seq(TaskSet), NEW y \in Seq(TaskSet),
         Distinct(x \o y), Distinct(b), IdsOf(b) \cap IdsOf(x \o y) \subseteq {NoTask}
  PROVE  /\ (x \o b) \o y \in Seq(TaskSet) /\ Distinct((x \o b) \o y)
         /\ Range((x \o b) \o y) = Range(b) \cup Range(x \o y)
<1> DEFINE z == (x \o b) \o y
           w == x \o y
<1>1. /\ Len(x) \in Nat /\ Len(b) \in Nat /\ Len(y) \in Nat
      /\ z \in Seq(TaskSet) /\ w \in Seq(TaskSet) /\ x \o b \in Seq(TaskSet)
      /\ Len(x \o b) = Len(x) + Len(b)
      /\ Len(z) = Len(x) + Len(b) + Len(y) /\ Len(w) = Len(x) + Len(y)
  OBVIOUS
<1>2. /\ \A i \in 1 .. Len(x) : z[i] = w[i]
      /\ \A i \in 1 .. Len(b) : z[Len(x) + i] = b[i]
      /\ \A i \in 1 .. Len(y) : z[Len(x) + Len(b) + i] = w[Len(x) + i]
  OBVIOUS
<1>3. Range(z) = Range(b) \cup Range(w)
  <2>1. Range(x \o b) = Range(x) \cup Range(b)
    BY RangeConcatenation
  <2>2. Range(z) = Range(x \o b) \cup Range(y)
    BY <1>1, RangeConcatenation
  <2>3. Range(w) = Range(x) \cup Range(y)
    BY RangeConcatenation
  <2> QED
    BY <2>1, <2>2, <2>3
<1> HIDE DEF z, w
<1>4. \A i \in 1 .. Len(b), j \in 1 .. Len(w) : b[i].id = w[j].id => b[i].id = NoTask
  <2>1. /\ \A i \in 1 .. Len(b) : b[i] \in Range(b)
        /\ \A j \in 1 .. Len(w) : w[j] \in Range(w)
    BY <1>1, RangeAtPlaces
  <2>2. IdsOf(b) \cap IdsOf(w) \subseteq {NoTask}
    BY DEF w
  <2> QED
    BY <2>1, <2>2 DEF IdsOf
\* The place in the old queue, or the place among the inserted tasks, of place i.
<1> DEFINE inB(i) == Len(x) < i /\ i <= Len(x) + Len(b)
           old(i) == IF i <= Len(x) THEN i ELSE i - Len(b)
<1>5. \A i \in 1 .. Len(z) : inB(i) => i - Len(x) \in 1 .. Len(b) /\ z[i] = b[i - Len(x)]
  <2> SUFFICES ASSUME NEW i \in 1 .. Len(z), inB(i)
               PROVE  i - Len(x) \in 1 .. Len(b) /\ z[i] = b[i - Len(x)]
    OBVIOUS
  <2>1. i - Len(x) \in 1 .. Len(b) /\ i = Len(x) + (i - Len(x))
    BY <1>1
  <2> HIDE DEF inB
  <2> QED
    BY <1>2, <2>1
<1>6. \A i \in 1 .. Len(z) : ~inB(i) => old(i) \in 1 .. Len(w) /\ z[i] = w[old(i)]
  <2> SUFFICES ASSUME NEW i \in 1 .. Len(z), ~inB(i)
               PROVE  old(i) \in 1 .. Len(w) /\ z[i] = w[old(i)]
    OBVIOUS
  <2>1. CASE i <= Len(x)
    <3>1. old(i) = i /\ i \in 1 .. Len(x) /\ i \in 1 .. Len(w)
      BY <1>1, <2>1
    <3> QED
      BY <1>2, <3>1
  <2>2. CASE i > Len(x) + Len(b)
    <3>1. /\ old(i) = i - Len(b) /\ i - Len(b) \in 1 .. Len(w)
          /\ i - (Len(x) + Len(b)) \in 1 .. Len(y)
          /\ i = Len(x) + Len(b) + (i - (Len(x) + Len(b)))
          /\ i - Len(b) = Len(x) + (i - (Len(x) + Len(b)))
      BY <1>1, <2>2
    <3> HIDE DEF old
    <3> QED
      BY <1>2, <3>1
  <2> QED
    BY <1>1, <2>1, <2>2
<1>7. \A i, j \in 1 .. Len(z) :
        /\ inB(i) /\ inB(j) /\ i - Len(x) = j - Len(x) => i = j
        /\ ~inB(i) /\ ~inB(j) /\ old(i) = old(j) => i = j
  BY <1>1
<1> HIDE DEF inB, old
<1>8. Distinct(z)
  <2> SUFFICES ASSUME NEW i \in 1 .. Len(z), NEW j \in 1 .. Len(z),
                      z[i].id = z[j].id, z[i].id # NoTask
               PROVE  i = j
    BY DEF Distinct
  <2>1. /\ \A k, l \in 1 .. Len(b) : b[k].id = b[l].id => k = l \/ b[k].id = NoTask
        /\ \A k, l \in 1 .. Len(w) : w[k].id = w[l].id => k = l \/ w[k].id = NoTask
    BY DEF Distinct, w
  <2>2. CASE inB(i) /\ inB(j)
    <3>1. /\ i - Len(x) \in 1 .. Len(b) /\ z[i] = b[i - Len(x)]
          /\ j - Len(x) \in 1 .. Len(b) /\ z[j] = b[j - Len(x)]
      BY <1>5, <2>2
    <3>2. i - Len(x) = j - Len(x)
      BY <2>1, <3>1
    <3> QED
      BY <1>7, <2>2, <3>2
  <2>3. CASE ~inB(i) /\ ~inB(j)
    BY <1>6, <1>7, <2>1, <2>3
  <2>4. CASE inB(i) /\ ~inB(j)
    BY <1>4, <1>5, <1>6, <2>4
  <2>5. CASE ~inB(i) /\ inB(j)
    BY <1>4, <1>5, <1>6, <2>5
  <2> QED
    BY <2>2, <2>3, <2>4, <2>5
<1> QED
  BY <1>1, <1>3, <1>8 DEF z, w

-----------------------------------------------------------------------------
(* The steps of the main thread                                            *)

\* The two queues and the joined one are queues of tasks.
LEMMA QueueTypes ==
  ASSUME TypeInv
  PROVE  /\ queue_tasks \in Seq(TaskSet) /\ queue_tasks_deferred \in Seq(TaskSet)
         /\ Joined \in Seq(TaskSet)
         /\ Range(Joined) = Range(queue_tasks) \cup Range(queue_tasks_deferred)
         /\ HeldIds = Held
<1>1. queue_tasks \in Seq(TaskSet) /\ queue_tasks_deferred \in Seq(TaskSet)
  BY DEF TypeInv, TypeOK, ServerTypes
<1>2. Joined \in Seq(TaskSet)
  BY <1>1, ConcatProperties DEF Joined
<1>3. Range(Joined) = Range(queue_tasks) \cup Range(queue_tasks_deferred)
  BY <1>1, RangeConcatenation DEF Joined
<1> QED
  BY <1>1, <1>2, <1>3 DEF HeldIds, Held, IdsOf

\* As long as no id comes in and the handlers stay where they are, what is to be posted is new.
LEMMA FreshKept ==
  ASSUME TypeInv, OnceInv, HeldIds' \subseteq HeldIds \cup {NoTask},
         UNCHANGED <<next_id, pc, req, first_id>>
  PROVE  FreshIds'
<1>1. NoTask < next_id
  BY DEF TypeInv, TypeOK, HandlerTypes, NoTask
<1>2. \A id \in HeldIds' : id < next_id'
  BY <1>1 DEF OnceInv, FreshIds
<1>3. Unposted' = Unposted /\ \A c \in Unposted : ids(c)' = ids(c)
  BY DEF Unposted, ids
<1>4. \A c \in Unposted : NoTask \notin ids(c)
  BY IdsType DEF Unposted, TaskIds, NoTask
<1> QED
  BY <1>2, <1>3, <1>4 DEF OnceInv, FreshIds

\* A step that brings no id in and leaves the handlers alone: tasks may be reordered or
\* dropped, and slots released.
LEMMA NothingNew ==
  ASSUME TypeInv, OnceInv, NEW w, queue_tasks' \o queue_tasks_deferred' = w, Distinct(w),
         Range(w) \subseteq Range(Joined) \cup {NextResponse},
         Range(queue_tasks_deferred') \subseteq Deferrable,
         Processing' \subseteq Processing, \A s \in Processing' : id_task'[s] = id_task[s],
         UNCHANGED <<next_id, pc, req, first_id>>
  PROVE  OnceInv' /\ HeldIds' \subseteq HeldIds \cup {NoTask}
<1>1. NextResponse.id = NoTask /\ NextResponse \notin Deferrable
  BY DEF NextResponse, Task, Deferrable
<1>2. Joined' = w
  BY DEF Joined
<1>3. IdsOf(w) \subseteq IdsOf(Joined) \cup {NoTask}
  BY <1>1 DEF IdsOf
<1>4. OneCopy'
  <2>1. Distinct(Joined)'
    BY <1>2
  <2>2. \A t \in Range(w) : t \in Deferrable => t.id # NoTask
    BY <1>1 DEF OnceInv, OneCopy
  <2>3. \A s, t \in Processing' : id_task'[s] = id_task'[t] => s = t
    BY DEF OnceInv, OneCopy
  <2>4. \A s \in Processing' : id_task'[s] # NoTask /\ id_task'[s] \notin IdsOf(w)
    BY <1>3 DEF OnceInv, OneCopy
  <2> QED
    BY <1>2, <2>1, <2>2, <2>3, <2>4 DEF OneCopy, Deferrable
<1>5. HeldIds' \subseteq HeldIds \cup {NoTask}
  <2>1. HeldIds' = IdsOf(w) \cup {id_task'[s] : s \in Processing'}
    BY <1>2 DEF HeldIds
  <2> QED
    BY <1>3, <2>1 DEF HeldIds
<1>6. FreshIds'
  BY <1>5, FreshKept
<1> QED
  BY <1>4, <1>5, <1>6 DEF OnceInv

\* release() and pop_deferred_task(): the joined queue stays as it is.
LEMMA PoppedKeepsOnce ==
  ASSUME TypeInv, NEW n \in Nat, NEW q \in Seq(TaskSet),
         queue_tasks' = q \o Popped(n), queue_tasks_deferred' = Remaining(n)
  PROVE  /\ queue_tasks' \o queue_tasks_deferred' = q \o queue_tasks_deferred
         /\ Range(queue_tasks_deferred') \subseteq Range(queue_tasks_deferred)
<1> DEFINE d == queue_tasks_deferred
<1>1. d \in Seq(TaskSet)
  BY QueueTypes
<1>2. queue_tasks' \o queue_tasks_deferred' = q \o d
  BY <1>1, PopKeepsJoined DEF Popped, Remaining
<1>3. Popped(n) \in Seq(TaskSet) /\ Remaining(n) \in Seq(TaskSet)
  BY PoppedType DEF Tasks, TypeInv
<1>4. Popped(n) \o Remaining(n) = d
  BY <1>1, PopSplits DEF Popped, Remaining
<1>5. Range(d) = Range(Popped(n)) \cup Range(Remaining(n))
  BY <1>3, <1>4, RangeConcatenation
<1> QED
  BY <1>2, <1>5

\* The handlers' variables the invariant is about.
NoHandlerMoves == UNCHANGED <<next_id, pc, req, first_id>>

\* A slot that is released makes room and holds no id any more.
LEMMA OnceRelease ==
  ASSUME TypeInv, OnceInv, NEW s \in Slots, Release(s), UNCHANGED id_task, NoHandlerMoves
  PROVE  /\ OnceInv' /\ HeldIds' \subseteq HeldIds \cup {NoTask}
         /\ state[s] # "idle" => id_task[s] \in HeldIds \ HeldIds'
<1>1. PICK n \in Nat : /\ queue_tasks' = queue_tasks \o Popped(n)
                       /\ queue_tasks_deferred' = Remaining(n)
                       /\ state' = [state EXCEPT ![s] = "idle"]
  BY DEF Release
<1>2. /\ queue_tasks' \o queue_tasks_deferred' = Joined
      /\ Range(queue_tasks_deferred') \subseteq Range(queue_tasks_deferred)
  BY <1>1, PoppedKeepsOnce, QueueTypes DEF Joined
<1>3. Processing' \subseteq Processing
  BY <1>1 DEF Processing, TypeInv, TypeOK, ServerTypes
<1>4. Distinct(Joined) /\ Range(queue_tasks_deferred') \subseteq Deferrable
  BY <1>2 DEF OnceInv, OneCopy
<1>5. OnceInv' /\ HeldIds' \subseteq HeldIds \cup {NoTask}
  BY <1>2, <1>3, <1>4, NothingNew DEF NoHandlerMoves
<1>6. ASSUME state[s] # "idle" PROVE id_task[s] \in HeldIds \ HeldIds'
  <2>1. s \in Processing /\ s \notin Processing'
    BY <1>1, <1>6 DEF Processing, TypeInv, TypeOK, ServerTypes
  <2>2. HeldIds' = IdsOf(Joined) \cup {id_task[t] : t \in Processing'}
    BY <1>2 DEF HeldIds, Joined
  <2>3. \A t \in Processing : id_task[t] = id_task[s] => t = s
    BY <2>1 DEF OnceInv, OneCopy
  <2>4. id_task[s] \notin IdsOf(Joined) /\ id_task[s] \in HeldIds
    BY <2>1 DEF OnceInv, OneCopy, HeldIds
  <2> QED
    BY <1>3, <2>1, <2>2, <2>3, <2>4
<1> QED
  BY <1>5, <1>6

\* A slot that goes on with its task keeps it.
LEMMA OnceGoesOn ==
  ASSUME TypeInv, OnceInv, Processing' \subseteq Processing,
         UNCHANGED <<queue_tasks, queue_tasks_deferred, id_task>>, NoHandlerMoves
  PROVE  OnceInv' /\ HeldIds' \subseteq HeldIds \cup {NoTask}
<1>1. queue_tasks' \o queue_tasks_deferred' = Joined
  BY DEF Joined
<1>2. Distinct(Joined) /\ Range(queue_tasks_deferred') \subseteq Deferrable
  BY DEF OnceInv, OneCopy
<1> QED
  BY <1>1, <1>2, NothingNew DEF NoHandlerMoves

\* The loops over the slots.
LEMMA OnceSlotLoops ==
  ASSUME TypeInv, OnceInv, BatchSlot \/ DecodeSlot \/ FailSlot
  PROVE  OnceInv' /\ HeldIds' \subseteq HeldIds \cup {NoTask}
<1>1. UNCHANGED id_task /\ NoHandlerMoves
  BY DEF BatchSlot, DecodeSlot, FailSlot, NoHandlerMoves, httpVars
<1>2. \E s \in Slots :
        \/ Release(s)
        \/ UNCHANGED <<state, queue_tasks, queue_tasks_deferred>>
        \/ /\ state[s] # "idle" /\ \E p \in SlotStates : state' = [state EXCEPT ![s] = p]
           /\ UNCHANGED <<queue_tasks, queue_tasks_deferred>>
  <2>1. \A s \in todo : s \in Slots
    BY DEF TypeInv, TypeOK, ServerTypes
  <2> QED
    BY <2>1 DEF BatchSlot, BatchPrompt, ContextFull, DecodeSlot, ProcessToken, FailSlot, SlotStates
<1>3. ASSUME NEW s \in Slots, state[s] # "idle", NEW p \in SlotStates,
             state' = [state EXCEPT ![s] = p]
      PROVE  Processing' \subseteq Processing
  BY <1>3 DEF Processing, TypeInv, TypeOK, ServerTypes
<1>4. state' = state => Processing' \subseteq Processing
  BY DEF Processing
<1> QED
  BY <1>1, <1>2, <1>3, <1>4, OnceRelease, OnceGoesOn

\* A completion moves from the front of the queue to the slot that was idle.
LEMMA OnceLaunch ==
  ASSUME TypeInv, OnceInv, queue_tasks # <<>>, Head(queue_tasks).type = "completion",
         NEW s \in Idle, LaunchTask(Head(queue_tasks), s), NoHandlerMoves
  PROVE  /\ OnceInv' /\ HeldIds' \subseteq HeldIds \cup {NoTask}
         /\ Processing' \subseteq Processing =>
              Head(queue_tasks).id \in HeldIds \ HeldIds'
<1> DEFINE task == Head(queue_tasks)
           w    == Tail(Joined)
<1>1. /\ Joined \in Seq(TaskSet) /\ Joined # <<>> /\ Head(Joined) = task
      /\ Tail(queue_tasks) \o queue_tasks_deferred = w /\ Tail(queue_tasks) \in Seq(TaskSet)
  BY QueueTypes, TailOfJoined, HeadTailType DEF Joined
<1>2. /\ w \in Seq(TaskSet) /\ Distinct(w) /\ Range(w) \subseteq Range(Joined)
      /\ task \in Range(Joined) /\ (task.id # NoTask => task.id \notin IdsOf(w))
  BY <1>1, FrontOfDistinct DEF OnceInv, OneCopy
<1>3. task.id # NoTask /\ task.id \notin IdsOf(w) /\ task.id \in IdsOf(Joined)
  <2>1. task \in TaskSet
    BY QueueTypes, HeadTailType
  <2>2. task \in Deferrable
    BY <2>1 DEF Deferrable
  <2> QED
    BY <1>2, <2>2 DEF OnceInv, OneCopy, IdsOf
<1>4. PICK n \in Nat : queue_tasks' = Tail(queue_tasks) \o Popped(n) /\ queue_tasks_deferred' = Remaining(n)
  <2>1. IsFiniteSet(Slots) /\ Processing \subseteq Slots
    BY ConstantTypes, FS_Interval DEF Slots, Processing
  <2>2. Cardinality(Processing) \in Nat /\ Cardinality({}) \in Nat
    BY <2>1, FS_Subset, FS_CardinalityType, FS_EmptySet
  <2> QED
    BY <2>2 DEF LaunchTask
<1>5. Joined' = w /\ Range(queue_tasks_deferred') \subseteq Deferrable
  <2>1. /\ queue_tasks' \o queue_tasks_deferred' = w
        /\ Range(queue_tasks_deferred') \subseteq Range(queue_tasks_deferred)
    BY <1>1, <1>4, PoppedKeepsOnce
  <2> QED
    BY <2>1 DEF Joined, OnceInv, OneCopy
<1>6. /\ s \in Slots /\ s \notin Processing /\ Processing' \subseteq Processing \cup {s}
      /\ id_task'[s] = task.id /\ \A t \in Processing : id_task'[t] = id_task[t]
  BY DEF LaunchTask, Idle, Processing, TypeInv, TypeOK, ServerTypes
<1> HIDE DEF task, w
<1>7. IdsOf(w) \subseteq IdsOf(Joined)
  BY <1>2 DEF IdsOf
<1>8. \A t \in Processing : id_task[t] # NoTask /\ id_task[t] \notin IdsOf(Joined)
  BY DEF OnceInv, OneCopy
<1>9. OneCopy'
  <2>1. Distinct(Joined)'
    BY <1>2, <1>5
  <2>2. \A t \in Range(w) : t \in Deferrable => t.id # NoTask
    BY <1>2 DEF OnceInv, OneCopy
  <2>3. \A t, u \in Processing' : id_task'[t] = id_task'[u] => t = u
    <3>1. \A t, u \in Processing : id_task[t] = id_task[u] => t = u
      BY DEF OnceInv, OneCopy
    <3> QED
      BY <1>3, <1>6, <1>8, <3>1
  <2>4. \A t \in Processing' : id_task'[t] # NoTask /\ id_task'[t] \notin IdsOf(w)
    BY <1>3, <1>6, <1>7, <1>8
  <2> QED
    BY <1>5, <2>1, <2>2, <2>3, <2>4 DEF OneCopy, Deferrable
<1>10. HeldIds' \subseteq HeldIds \cup {NoTask}
  <2>1. HeldIds' = IdsOf(w) \cup {id_task'[t] : t \in Processing'}
    BY <1>5 DEF HeldIds
  <2> QED
    BY <1>3, <1>6, <1>7, <2>1 DEF HeldIds
<1>11. ASSUME Processing' \subseteq Processing
       PROVE  task.id \in HeldIds \ HeldIds'
  <2>1. HeldIds' = IdsOf(w) \cup {id_task'[t] : t \in Processing'}
    BY <1>5 DEF HeldIds
  <2>2. \A t \in Processing' : id_task'[t] # task.id
    BY <1>3, <1>6, <1>8, <1>11
  <2> QED
    BY <1>3, <2>1, <2>2 DEF HeldIds
<1> QED
  BY <1>9, <1>10, <1>11, FreshKept DEF OnceInv, NoHandlerMoves, task

\* A task that is answered, or a CANCEL, leaves the front of the queue, whatever it pops.
LEMMA OnceDropped ==
  ASSUME TypeInv, OnceInv, queue_tasks # <<>>, NEW n \in Nat,
         queue_tasks' = Tail(queue_tasks) \o Popped(n), queue_tasks_deferred' = Remaining(n),
         Processing' \subseteq Processing, UNCHANGED id_task, NoHandlerMoves
  PROVE  /\ OnceInv' /\ HeldIds' \subseteq HeldIds \cup {NoTask}
         /\ Head(queue_tasks).id # NoTask => Head(queue_tasks).id \in HeldIds \ HeldIds'
<1> DEFINE w == Tail(Joined)
<1>1. /\ Joined \in Seq(TaskSet) /\ Joined # <<>>
      /\ Tail(queue_tasks) \o queue_tasks_deferred = w /\ Tail(queue_tasks) \in Seq(TaskSet)
  BY QueueTypes, TailOfJoined, HeadTailType DEF Joined
<1>2. Distinct(w) /\ Range(w) \subseteq Range(Joined)
  BY <1>1, FrontOfDistinct DEF OnceInv, OneCopy
<1>3. /\ queue_tasks' \o queue_tasks_deferred' = w
      /\ Range(queue_tasks_deferred') \subseteq Range(queue_tasks_deferred)
  BY <1>1, PoppedKeepsOnce
<1>4. Range(queue_tasks_deferred') \subseteq Deferrable
  BY <1>3 DEF OnceInv, OneCopy
<1>5. /\ Head(queue_tasks) \in Range(Joined)
      /\ Head(queue_tasks).id # NoTask => Head(queue_tasks).id \notin IdsOf(w)
  <2>1. Head(Joined) = Head(queue_tasks)
    BY QueueTypes, TailOfJoined DEF Joined
  <2> QED
    BY <1>1, <2>1, FrontOfDistinct DEF OnceInv, OneCopy
<1> HIDE DEF w
<1>6. OnceInv' /\ HeldIds' \subseteq HeldIds \cup {NoTask}
  BY <1>2, <1>3, <1>4, NothingNew DEF NoHandlerMoves
<1>7. ASSUME Head(queue_tasks).id # NoTask
      PROVE  Head(queue_tasks).id \in HeldIds \ HeldIds'
  <2>1. HeldIds' = IdsOf(w) \cup {id_task[t] : t \in Processing'}
    BY <1>3 DEF HeldIds, Joined
  <2>2. Head(queue_tasks).id \in IdsOf(Joined)
    BY <1>5 DEF IdsOf
  <2>3. \A t \in Processing : id_task[t] \notin IdsOf(Joined)
    BY DEF OnceInv, OneCopy
  <2> QED
    BY <1>5, <1>7, <2>1, <2>2, <2>3 DEF HeldIds
<1> QED
  BY <1>6, <1>7

\* Nothing popped: the queue without its front, the deferred tasks as they are.
LEMMA PoppedNone ==
  ASSUME TypeInv
  PROVE  /\ \A q \in Seq(TaskSet) : q \o Popped(0) = q
         /\ Remaining(0) = queue_tasks_deferred
<1>1. queue_tasks_deferred \in Seq(TaskSet)
  BY QueueTypes
<1>2. Popped(0) = <<>> /\ Remaining(0) = queue_tasks_deferred
  BY <1>1 DEF Popped, Remaining
<1> QED
  BY <1>2, ConcatEmptySeq

\* defer(): the front of the queue becomes the last of the deferred tasks.
LEMMA OnceDeferred ==
  ASSUME TypeInv, OnceInv, queue_tasks # <<>>, Head(queue_tasks) \in Deferrable,
         DeferTask(Head(queue_tasks)), NoHandlerMoves
  PROVE  OnceInv' /\ HeldIds' \subseteq HeldIds \cup {NoTask}
<1> DEFINE w == Append(Tail(Joined), Head(Joined))
<1>1. /\ Joined \in Seq(TaskSet) /\ Joined # <<>> /\ Head(Joined) = Head(queue_tasks)
      /\ Tail(queue_tasks) \o Append(queue_tasks_deferred, Head(queue_tasks)) = w
  BY QueueTypes, TailOfJoined DEF Joined
<1>2. Distinct(w) /\ Range(w) \subseteq Range(Joined)
  BY <1>1, FrontOfDistinct DEF OnceInv, OneCopy
<1>3. /\ queue_tasks' \o queue_tasks_deferred' = w
      /\ queue_tasks_deferred' = Append(queue_tasks_deferred, Head(queue_tasks))
      /\ Processing' \subseteq Processing /\ UNCHANGED id_task
  BY <1>1 DEF DeferTask, slotVars, Processing
<1>4. Range(queue_tasks_deferred') \subseteq Deferrable
  <2>1. queue_tasks_deferred \in Seq(TaskSet) /\ <<Head(queue_tasks)>> \in Seq(TaskSet)
    BY QueueTypes, HeadTailType
  <2>2. Append(queue_tasks_deferred, Head(queue_tasks))
          = queue_tasks_deferred \o <<Head(queue_tasks)>>
    BY <2>1
  <2>3. Range(<<Head(queue_tasks)>>) = {Head(queue_tasks)}
    BY DEF Range
  <2>4. Range(queue_tasks_deferred \o <<Head(queue_tasks)>>)
          = Range(queue_tasks_deferred) \cup Range(<<Head(queue_tasks)>>)
    BY <2>1, RangeConcatenation
  <2> QED
    BY <1>3, <2>2, <2>3, <2>4 DEF OnceInv, OneCopy
<1> HIDE DEF w
<1> QED
  BY <1>2, <1>3, <1>4, NothingNew DEF NoHandlerMoves

\* process_single_task launches, defers or drops the task at the front.
LEMMA OnceProcessTask ==
  ASSUME TypeInv, OnceInv, ProcessTask
  PROVE  OnceInv' /\ HeldIds' \subseteq HeldIds \cup {NoTask}
<1> DEFINE task == Head(queue_tasks)
<1>1. queue_tasks # <<>> /\ NoHandlerMoves
  BY DEF ProcessTask, NoHandlerMoves, httpVars
<1>2. task \in TaskSet /\ Tail(queue_tasks) \in Seq(TaskSet)
  BY <1>1, QueueTypes, HeadTailType
<1>3. CASE ProcessCompletion(task)
  <2>1. task.type = "completion" /\ task \in Deferrable
    BY <1>2, <1>3 DEF ProcessCompletion, Deferrable
  <2>2. DeferTask(task) \/ \E s \in Idle : LaunchTask(task, s)
    BY <1>3 DEF ProcessCompletion, Available
  <2> QED
    BY <1>1, <2>1, <2>2, OnceDeferred, OnceLaunch
<1>4. CASE ProcessCancel(task)
  <2> DEFINE first    == {s \in Slots : /\ id_task[s] = task.id_target
                                        /\ \A t \in 0 .. s - 1 : id_task[t] # task.id_target}
             released == first \cap Processing
             n        == Cardinality(released)
  <2>1. n \in Nat
    <3>1. IsFiniteSet(Slots) /\ released \subseteq Slots
      BY ConstantTypes, FS_Interval DEF Slots
    <3> HIDE DEF released
    <3> QED
      BY <3>1, FS_Subset, FS_CardinalityType
  <2>2. /\ queue_tasks' = Tail(queue_tasks) \o Popped(n) /\ queue_tasks_deferred' = Remaining(n)
        /\ state' = [s \in Slots |-> IF s \in released THEN "idle" ELSE state[s]]
        /\ UNCHANGED id_task
    BY <1>4 DEF ProcessCancel
  <2> HIDE DEF n, released
  <2>3. Processing' \subseteq Processing
    BY <2>2 DEF Processing
  <2> QED
    BY <1>1, <2>1, <2>2, <2>3, OnceDropped
<1>5. ASSUME queue_tasks' = Tail(queue_tasks), UNCHANGED <<queue_tasks_deferred, slotVars>>
      PROVE  OnceInv' /\ HeldIds' \subseteq HeldIds \cup {NoTask}
  <2>1. queue_tasks' = Tail(queue_tasks) \o Popped(0) /\ queue_tasks_deferred' = Remaining(0)
    BY <1>2, <1>5, PoppedNone
  <2>2. Processing' \subseteq Processing /\ UNCHANGED id_task /\ 0 \in Nat
    BY <1>5 DEF Processing, slotVars
  <2> QED
    BY <1>1, <2>1, <2>2, OnceDropped
<1>6. CASE ProcessSlotAction(task)
  <2>1. task \in Deferrable
    BY <1>2, <1>6 DEF ProcessSlotAction, Deferrable
  <2> QED
    BY <1>1, <1>5, <1>6, <2>1, OnceDeferred DEF ProcessSlotAction
<1>7. CASE ProcessOther(task)
  BY <1>5, <1>7 DEF ProcessOther
<1> QED
  BY <1>3, <1>4, <1>6, <1>7 DEF ProcessTask

-----------------------------------------------------------------------------
(* The steps of the handlers, and NEXT_RESPONSE                            *)

\* Tasks with ids of their own, pushed at either end of the queue.
LEMMA OncePushed ==
  ASSUME TypeInv, OnceInv, NEW b \in Seq(TaskSet), Distinct(b),
         IdsOf(b) \cap HeldIds \subseteq {NoTask},
         \A t \in Range(b) : t \in Deferrable => t.id # NoTask,
         queue_tasks' = queue_tasks \o b \/ queue_tasks' = b \o queue_tasks,
         UNCHANGED <<queue_tasks_deferred, state, id_task>>
  PROVE  OneCopy' /\ HeldIds' \subseteq HeldIds \cup IdsOf(b)
<1>1. /\ queue_tasks \in Seq(TaskSet) /\ queue_tasks_deferred \in Seq(TaskSet)
      /\ Joined \in Seq(TaskSet) /\ <<>> \in Seq(TaskSet)
      /\ Joined = queue_tasks \o queue_tasks_deferred
      /\ Joined' = queue_tasks' \o queue_tasks_deferred
  BY QueueTypes DEF Joined
<1>2. Distinct(Joined) /\ IdsOf(b) \cap IdsOf(Joined) \subseteq {NoTask}
  BY DEF OnceInv, OneCopy, HeldIds
<1>3. Distinct(Joined') /\ Range(Joined') = Range(b) \cup Range(Joined)
  <2>1. CASE queue_tasks' = queue_tasks \o b
    BY <1>1, <1>2, <2>1, InsertDistinct
  <2>2. CASE queue_tasks' = b \o queue_tasks
    <3> DEFINE none == <<>>
    <3>1. Joined' = b \o Joined
      BY <1>1, <2>2, ConcatAssociative
    <3>2. none \o Joined = Joined /\ (none \o b) \o Joined = b \o Joined /\ none \in Seq(TaskSet)
      BY <1>1, ConcatEmptySeq
    <3> HIDE DEF none
    <3>3. Distinct(none \o Joined) /\ IdsOf(b) \cap IdsOf(none \o Joined) \subseteq {NoTask}
      BY <1>2, <3>2
    <3>4. /\ Distinct((none \o b) \o Joined)
          /\ Range((none \o b) \o Joined) = Range(b) \cup Range(none \o Joined)
      <4>1. Joined \in Seq(TaskSet)
        BY <1>1
      <4> QED
        BY <3>2, <3>3, <4>1, InsertDistinct
    <3> QED
      BY <3>1, <3>2, <3>4
  <2> QED
    BY <2>1, <2>2
<1>4. IdsOf(Joined') = IdsOf(b) \cup IdsOf(Joined)
  BY <1>3 DEF IdsOf
<1>5. Processing' = Processing
  BY DEF Processing
<1>6. OneCopy'
  <2>1. \A s \in Processing : /\ id_task[s] # NoTask /\ id_task[s] \notin IdsOf(Joined)
                              /\ id_task[s] \in HeldIds
    BY DEF OnceInv, OneCopy, HeldIds
  <2>2. \A s \in Processing : id_task[s] \notin IdsOf(Joined')
    BY <1>4, <2>1
  <2>3. \A t \in Range(Joined') : t \in Deferrable => t.id # NoTask
    BY <1>3 DEF OnceInv, OneCopy
  <2>4. \A s, t \in Processing : id_task[s] = id_task[t] => s = t
    BY DEF OnceInv, OneCopy
  <2>5. Range(queue_tasks_deferred) \subseteq Deferrable
    BY DEF OnceInv, OneCopy
  <2> QED
    BY <1>3, <1>5, <2>1, <2>2, <2>3, <2>4, <2>5 DEF OneCopy, Deferrable
<1>7. HeldIds' = IdsOf(Joined') \cup {id_task[s] : s \in Processing}
  BY <1>5 DEF HeldIds
<1> QED
  BY <1>4, <1>6, <1>7 DEF HeldIds

\* What a step leaves to be posted stays new.
LEMMA FreshMoved ==
  ASSUME OnceInv, NEW new, HeldIds' \subseteq HeldIds \cup new,
         next_id \in Int, next_id' \in Int, next_id <= next_id', \A id \in HeldIds : id \in Int,
         \A id \in new : id < next_id',
         \A d \in Unposted' : d \in Unposted /\ ids(d)' = ids(d) /\ ids(d) \cap new = {}
  PROVE  FreshIds'
<1>1. \A id \in HeldIds' : id < next_id'
  BY DEF OnceInv, FreshIds
<1>2. \A d \in Unposted' : ids(d)' \cap HeldIds' = {}
  BY DEF OnceInv, FreshIds
<1>3. \A c, d \in Unposted' : c # d => ids(c)' \cap ids(d)' = {}
  BY DEF OnceInv, FreshIds
<1> QED
  BY <1>1, <1>2, <1>3 DEF FreshIds

\* Ids are integers.
LEMMA HeldInt ==
  ASSUME TypeInv
  PROVE  /\ \A id \in HeldIds : id \in Int
         /\ next_id \in Nat /\ NoTask < next_id
         /\ \A c \in Clients : \A id \in ids(c) : id \in Nat /\ id < next_id
<1>1. HeldIds \subseteq TaskIds \cup {NoTask}
  <2>1. Range(Joined) \subseteq TaskSet
    BY QueueTypes, RangeAtPlaces
  <2>2. IdsOf(Joined) \subseteq TaskIds \cup {NoTask}
    BY <2>1 DEF IdsOf, TaskSet
  <2> QED
    BY <2>2 DEF HeldIds, Processing, TypeInv, TypeOK, ServerTypes
<1>2. \A c \in Clients : \A id \in ids(c) : id \in Nat /\ id < next_id
  <2> TAKE c \in Clients
  <2>1. CASE first_id[c] = NoTask
    BY <2>1 DEF ids
  <2>2. CASE first_id[c] # NoTask
    <3>1. /\ first_id[c] \in Nat /\ req[c] \in Requests /\ first_id[c] + req[c].n <= next_id
          /\ next_id \in Nat
      BY <2>2 DEF TypeInv, TypeOK, HandlerTypes, IdsDrawn, TaskIds
    <3>2. req[c].n \in Nat
      BY <3>1, ConstantTypes
    <3> QED
      BY <2>2, <3>1, <3>2 DEF ids
  <2> QED
    BY <2>1, <2>2
<1> QED
  BY <1>1, <1>2 DEF TypeInv, TypeOK, HandlerTypes, NoTask, TaskIds

\* update_slots posts a NEXT_RESPONSE task, which has no id.
LEMMA OnceUpdateSlots ==
  ASSUME TypeInv, OnceInv, UpdateSlots
  PROVE  OnceInv' /\ HeldIds' \subseteq HeldIds \cup {NoTask}
<1>1. /\ UNCHANGED <<queue_tasks_deferred, state, id_task>> /\ NoHandlerMoves
      /\ queue_tasks' = queue_tasks \/ queue_tasks' = Append(queue_tasks, NextResponse)
  BY DEF UpdateSlots, slotVars, httpVars, NoHandlerMoves
<1>2. CASE queue_tasks' = queue_tasks
  BY <1>1, <1>2, OnceGoesOn DEF Processing
<1>3. CASE queue_tasks' = Append(queue_tasks, NextResponse)
  <2> DEFINE b == <<NextResponse>>
  <2>1. NextResponse \in TaskSet /\ NextResponse.id = NoTask /\ NextResponse \notin Deferrable
    BY DEF NextResponse, Task, TaskSet, Deferrable
  <2>2. b \in Seq(TaskSet) /\ queue_tasks' = queue_tasks \o b
    BY <1>3, <2>1, QueueTypes
  <2>3. Distinct(b) /\ Range(b) = {NextResponse}
    BY DEF Distinct, Range
  <2> HIDE DEF b
  <2>4. IdsOf(b) = {NoTask}
    BY <2>1, <2>3 DEF IdsOf
  <2>5. OneCopy' /\ HeldIds' \subseteq HeldIds \cup {NoTask}
    BY <1>1, <2>1, <2>2, <2>3, <2>4, OncePushed
  <2> QED
    BY <1>1, <2>5, FreshKept DEF OnceInv, NoHandlerMoves
<1> QED
  BY <1>1, <1>2, <1>3

\* A request draws ids nobody has.
LEMMA OnceBeginRequest ==
  ASSUME TypeInv, OnceInv, NEW c \in Clients, NEW r \in Requests, BeginRequest(c, r)
  PROVE  OnceInv' /\ HeldIds' = HeldIds
<1>1. /\ UNCHANGED <<queue_tasks, queue_tasks_deferred, state, id_task>>
      /\ pc[c] = "idle" /\ req' = [req EXCEPT ![c] = r]
  BY DEF BeginRequest, slotVars
<1>2. OneCopy' /\ HeldIds' = HeldIds
  BY <1>1 DEF OnceInv, OneCopy, HeldIds, Joined, Processing, Distinct, IdsOf
<1>3. /\ r.n \in Nat /\ next_id \in Nat
      /\ pc \in [Clients -> Pcs] /\ req \in [Clients -> Requests \cup {NoData}]
      /\ first_id \in [Clients -> TaskIds \cup {NoTask}]
  BY ConstantTypes DEF TypeInv, TypeOK, HandlerTypes
<1>4. c \notin Unposted
  BY <1>1 DEF Unposted
<1>5. CASE /\ first_id' = [first_id EXCEPT ![c] = next_id] /\ next_id' = next_id + r.n
           /\ pc' = [pc EXCEPT ![c] = "add_waiting"]
  <2>1. \A d \in Unposted' : d = c \/ (d \in Unposted /\ ids(d)' = ids(d))
    BY <1>1, <1>3, <1>5 DEF Unposted, ids
  <2>2. \A id \in ids(c)' : id \in Int /\ next_id <= id
    BY <1>1, <1>3, <1>5 DEF ids
  <2>3. \A id \in HeldIds : id \in Int /\ id < next_id
    BY HeldInt DEF OnceInv, FreshIds
  <2>4. \A d \in Unposted : \A id \in ids(d) : id \in Nat /\ id < next_id
    BY HeldInt DEF Unposted
  <2>5. ids(c)' \cap HeldIds = {} /\ \A d \in Unposted : ids(c)' \cap ids(d) = {}
    BY <1>3, <2>2, <2>3, <2>4
  <2>6. \A id \in HeldIds : id < next_id'
    BY <1>3, <1>5, <2>3
  <2> QED
    BY <1>2, <1>4, <2>1, <2>5, <2>6 DEF OnceInv, FreshIds
<1>6. CASE /\ UNCHANGED <<first_id, next_id>>
           /\ pc' = [pc EXCEPT ![c] = "cancel"] \/ (PostsFirst(r) /\ pc' = [pc EXCEPT ![c] = "post"])
  <2>1. \A d \in Unposted' : d \in Unposted /\ ids(d)' = ids(d)
    BY <1>1, <1>3, <1>6 DEF Unposted, ids
  <2> QED
    BY <1>2, <1>6, <2>1 DEF OnceInv, FreshIds
<1> QED
  BY <1>5, <1>6 DEF BeginRequest

\* Between its post() and its end a handler moves no task and draws no id.
LEMMA OnceQuiet ==
  ASSUME TypeInv, OnceInv, NEW c \in Clients,
         AddWaiting(c) \/ Recv(c) \/ CancelSend(c) \/ CancelRemove(c) \/ RemoveWaiting(c)
  PROVE  OnceInv' /\ HeldIds' = HeldIds
<1>1. UNCHANGED <<queue_tasks, queue_tasks_deferred, state, id_task, next_id>>
  BY DEF AddWaiting, Recv, CancelSend, CancelRemove, RemoveWaiting, taskVars, slotVars
<1>2. OneCopy' /\ HeldIds' = HeldIds
  BY <1>1 DEF OnceInv, OneCopy, HeldIds, Joined, Processing, Distinct, IdsOf
<1>3. /\ pc \in [Clients -> Pcs] /\ req \in [Clients -> Requests \cup {NoData}]
      /\ first_id \in [Clients -> TaskIds \cup {NoTask}]
  BY DEF TypeInv, TypeOK, HandlerTypes
<1>4. /\ \A d \in Clients \ {c} : pc'[d] = pc[d] /\ req'[d] = req[d] /\ first_id'[d] = first_id[d]
      /\ \/ pc'[c] \notin {"add_waiting", "post"}
         \/ c \in Unposted /\ UNCHANGED <<req, first_id>>
  <2>1. CASE AddWaiting(c)
    BY <1>3, <2>1 DEF AddWaiting, Unposted
  <2>2. CASE Recv(c)
    <3>1. pc[c] = "recv"
      BY <2>2 DEF Recv
    <3>2. \/ UNCHANGED <<pc, req, first_id>>
          \/ \E p \in {"cancel", "remove"} : pc' = [pc EXCEPT ![c] = p] /\ UNCHANGED <<req, first_id>>
          \/ Finish(c)
      BY <2>2 DEF Recv, ReceiveStream, ReceivePlain, CountFinished, StartCancel
    <3> QED
      BY <1>3, <3>1, <3>2 DEF Finish
  <2>3. CASE CancelSend(c)
    BY <1>3, <2>3 DEF CancelSend
  <2>4. CASE CancelRemove(c)
    BY <1>3, <2>4 DEF CancelRemove
  <2>5. CASE RemoveWaiting(c)
    BY <1>3, <2>5 DEF RemoveWaiting, Finish
  <2> QED
    BY <2>1, <2>2, <2>3, <2>4, <2>5
<1>5. \A d \in Unposted' : d \in Unposted /\ ids(d)' = ids(d)
  BY <1>4 DEF Unposted, ids
<1> QED
  BY <1>1, <1>2, <1>5 DEF OnceInv, FreshIds

\* cancel_tasks() posts tasks that have a target and no id of their own.
LEMMA OncePostCancel ==
  ASSUME TypeInv, OnceInv, NEW c \in Clients, PostCancel(c)
  PROVE  OnceInv' /\ HeldIds' \subseteq HeldIds \cup {NoTask}
<1> DEFINE b == [i \in 1 .. Len(cancels[c]) |-> CancelTask(Reverse(cancels[c])[i])]
<1>1. /\ queue_tasks' = b \o queue_tasks /\ pc[c] = "post_cancel"
      /\ UNCHANGED <<queue_tasks_deferred, state, id_task, next_id>>
  BY DEF PostCancel, slotVars
<1>2. cancels[c] \in Seq(TaskIds) /\ Reverse(cancels[c]) \in Seq(TaskIds)
      /\ Len(Reverse(cancels[c])) = Len(cancels[c]) /\ Len(cancels[c]) \in Nat
  BY ReverseType DEF TypeInv, TypeOK, HandlerTypes
<1>3. \A i \in 1 .. Len(cancels[c]) :
        /\ CancelTask(Reverse(cancels[c])[i]) \in TaskSet \ Deferrable
        /\ CancelTask(Reverse(cancels[c])[i]).id = NoTask
  BY <1>2 DEF CancelTask, Task, TaskSet, Deferrable, Kinds
<1>4. /\ b \in Seq(TaskSet) /\ Len(b) = Len(cancels[c])
      /\ \A i \in 1 .. Len(b) : b[i] \notin Deferrable /\ b[i].id = NoTask
  BY <1>2, <1>3
<1> HIDE DEF b
<1>5. \A t \in Range(b) : t \notin Deferrable /\ t.id = NoTask
  BY <1>4, RangeAtPlaces
<1>6. Distinct(b) /\ IdsOf(b) \subseteq {NoTask}
  BY <1>4, <1>5 DEF Distinct, IdsOf
<1>7. OneCopy' /\ HeldIds' \subseteq HeldIds \cup {NoTask}
  BY <1>1, <1>4, <1>5, <1>6, OncePushed
<1>8. \A d \in Unposted' : d \in Unposted /\ ids(d)' = ids(d)
  <2>1. /\ pc \in [Clients -> Pcs] /\ req \in [Clients -> Requests \cup {NoData}]
        /\ first_id \in [Clients -> TaskIds \cup {NoTask}]
    BY DEF TypeInv, TypeOK, HandlerTypes
  <2>2. /\ pc'[c] \in {"idle", "remove"}
        /\ \A d \in Clients \ {c} : pc'[d] = pc[d] /\ req'[d] = req[d] /\ first_id'[d] = first_id[d]
    BY <2>1 DEF PostCancel, Finish
  <2> QED
    BY <2>2 DEF Unposted, ids
<1>9. \A d \in Unposted' : ids(d) \cap {NoTask} = {}
  BY <1>8, IdsType DEF Unposted, TaskIds, NoTask
<1>10. FreshIds'
  <2>1. /\ next_id \in Int /\ next_id' \in Int /\ next_id <= next_id'
        /\ \A id \in HeldIds : id \in Int
        /\ \A id \in {NoTask} : id < next_id'
    BY <1>1, HeldInt
  <2> QED
    BY <1>7, <1>8, <1>9, <2>1, FreshMoved
<1> QED
  BY <1>7, <1>10 DEF OnceInv

\* post() of the tasks whose ids were drawn before.
LEMMA OncePostDrawn ==
  ASSUME TypeInv, OnceInv, NEW c \in Clients, Post(c), ~PostsFirst(req[c])
  PROVE  OnceInv' /\ HeldIds' \subseteq HeldIds \cup ids(c)'
<1> DEFINE n == req[c].n
           f == first_id[c]
           b == [k \in 1 .. n |-> Task(req[c].kind, f + k - 1, NoTask, req[c])]
<1>1. /\ queue_tasks' = queue_tasks \o b \/ queue_tasks' = b \o queue_tasks
      /\ pc[c] = "post" /\ pc' = [pc EXCEPT ![c] = "recv"]
      /\ UNCHANGED <<queue_tasks_deferred, state, id_task, next_id, first_id, req>>
  BY DEF Post, slotVars
<1>2. req[c] \in Requests /\ n \in Nat /\ req[c].kind \in Kinds /\ f # NoTask /\ f \in TaskIds
  BY <1>1, ConstantTypes DEF TypeInv, TypeOK, HandlerTypes, IdsDrawn
<1>3. \A k \in 1 .. n : /\ Task(req[c].kind, f + k - 1, NoTask, req[c]) \in TaskSet
                        /\ Task(req[c].kind, f + k - 1, NoTask, req[c]).id = f + k - 1
                        /\ f + k - 1 \in ids(c)
  <2>1. \A k \in 1 .. n : f + k - 1 \in TaskIds
    BY <1>2, IdsType
  <2>2. \A k \in 1 .. n : f + k - 1 \in ids(c)
    BY <1>2 DEF ids, TaskIds
  <2> QED
    BY <1>2, <2>1, <2>2 DEF Task, TaskSet
<1>4. b \in Seq(TaskSet) /\ Len(b) = n /\ \A k \in 1 .. n : b[k].id = f + k - 1
  BY <1>2, <1>3
<1> HIDE DEF b
<1>5. \A t \in Range(b) : t.id \in ids(c)
  BY <1>3, <1>4, RangeAtPlaces
<1>6. NoTask \notin ids(c)
  BY IdsType DEF TaskIds, NoTask
<1>7. Distinct(b)
  BY <1>2, <1>4 DEF Distinct, TaskIds
<1>8. c \in Unposted
  BY <1>1 DEF Unposted
<1>9. IdsOf(b) \subseteq ids(c) /\ ids(c) \cap HeldIds = {}
  BY <1>5, <1>8 DEF IdsOf, OnceInv, FreshIds
<1>10. OneCopy' /\ HeldIds' \subseteq HeldIds \cup ids(c)
  <2>1. IdsOf(b) \cap HeldIds \subseteq {NoTask}
    BY <1>9
  <2>2. \A t \in Range(b) : t \in Deferrable => t.id # NoTask
    BY <1>5, <1>6
  <2> QED
    BY <1>1, <1>4, <1>7, <1>9, <2>1, <2>2, OncePushed
<1>11. \A d \in Unposted' : d \in Unposted /\ ids(d)' = ids(d) /\ d # c
  <2>1. pc \in [Clients -> Pcs]
    BY DEF TypeInv, TypeOK, HandlerTypes
  <2> QED
    BY <1>1, <2>1 DEF Unposted, ids
<1>12. \A d \in Unposted' : ids(d) \cap ids(c) = {}
  BY <1>8, <1>11 DEF OnceInv, FreshIds
<1>13. FreshIds'
  <2>1. /\ next_id \in Int /\ next_id' \in Int /\ next_id <= next_id'
        /\ \A id \in HeldIds : id \in Int
        /\ \A id \in ids(c) : id < next_id'
    BY <1>1, HeldInt
  <2> QED
    BY <1>10, <1>11, <1>12, <2>1, FreshMoved
<1>14. ids(c)' = ids(c)
  BY <1>1 DEF ids
<1> QED
  BY <1>10, <1>13, <1>14 DEF OnceInv

\* post() of a task whose id it draws itself.
LEMMA OncePostDraws ==
  ASSUME TypeInv, OnceInv, NEW c \in Clients, Post(c), PostsFirst(req[c])
  PROVE  OnceInv' /\ HeldIds' \subseteq HeldIds \cup ids(c)'
<1> DEFINE t == Task(req[c].kind, next_id, NoTask, req[c])
           b == <<t>>
<1>1. /\ queue_tasks' = Append(queue_tasks, t) /\ pc[c] = "post"
      /\ next_id' = next_id + 1 /\ first_id' = [first_id EXCEPT ![c] = next_id]
      /\ pc' = [pc EXCEPT ![c] = "add_waiting"]
      /\ UNCHANGED <<queue_tasks_deferred, state, id_task, req>>
  BY DEF Post, slotVars
<1>2. /\ req[c] \in Requests /\ req[c].kind \in Kinds /\ req[c].n = 1
      /\ pc \in [Clients -> Pcs] /\ first_id \in [Clients -> TaskIds \cup {NoTask}]
  BY <1>1, ConstantTypes DEF TypeInv, TypeOK, HandlerTypes, IdsDrawn
<1>3. next_id \in TaskIds /\ next_id # NoTask
  <2>1. c \in PendingPosts
    BY <1>1 DEF PendingPosts
  <2>2. IsFiniteSet(PendingPosts) /\ Cardinality(PendingPosts) \in Nat
    BY ServerAssumption, FS_Subset, FS_CardinalityType DEF PendingPosts
  <2>3. Cardinality(PendingPosts) # 0
    BY <2>1, <2>2, FS_EmptySet
  <2> QED
    BY <2>2, <2>3, ConstantTypes DEF TypeInv, TypeOK, HandlerTypes, IdsDrawn, TaskIds, NoTask
<1>4. t \in TaskSet /\ t.id = next_id
  BY <1>2, <1>3 DEF Task, TaskSet
<1> HIDE DEF t
<1>5. b \in Seq(TaskSet) /\ queue_tasks' = queue_tasks \o b
  BY <1>1, <1>4, QueueTypes
<1>6. Distinct(b) /\ Range(b) = {t}
  BY DEF Distinct, Range
<1> HIDE DEF b
<1>7. IdsOf(b) = {next_id}
  BY <1>4, <1>6 DEF IdsOf
<1>8. next_id \notin HeldIds
  BY HeldInt DEF OnceInv, FreshIds
<1>9. OneCopy' /\ HeldIds' \subseteq HeldIds \cup {next_id}
  <2>1. IdsOf(b) \cap HeldIds \subseteq {NoTask}
    BY <1>7, <1>8
  <2>2. \A u \in Range(b) : u \in Deferrable => u.id # NoTask
    BY <1>3, <1>4, <1>6
  <2> QED
    BY <1>1, <1>5, <1>6, <1>7, <2>1, <2>2, OncePushed
<1>10. \A d \in Unposted' : d \in Unposted /\ ids(d)' = ids(d)
  BY <1>1, <1>2 DEF Unposted, ids
<1>11. \A d \in Unposted' : ids(d) \cap {next_id} = {}
  <2>1. \A d \in Clients : \A id \in ids(d) : id \in Nat /\ id < next_id
    BY HeldInt
  <2>2. next_id \in Nat /\ \A d \in Unposted' : d \in Clients
    BY HeldInt DEF Unposted
  <2> QED
    BY <2>1, <2>2
<1>12. FreshIds'
  <2>1. /\ next_id \in Int /\ next_id' \in Int /\ next_id <= next_id'
        /\ \A id \in HeldIds : id \in Int
        /\ \A id \in {next_id} : id < next_id'
    BY <1>1, HeldInt
  <2> QED
    BY <1>9, <1>10, <1>11, <2>1, FreshMoved
<1>13. next_id \in ids(c)'
  <2>1. first_id'[c] = next_id /\ req'[c].n = 1
    BY <1>1, <1>2
  <2> QED
    BY <1>3, <2>1 DEF ids, TaskIds
<1> QED
  BY <1>9, <1>12, <1>13 DEF OnceInv

-----------------------------------------------------------------------------
(* The theorems                                                            *)

\* The server starts empty.
LEMMA OnceInit == Init => OnceInv
<1> SUFFICES ASSUME Init PROVE OnceInv
  OBVIOUS
<1>1. Joined = <<>> /\ Processing = {} /\ Unposted = {}
  BY DEF Init, Joined, Processing, Unposted
<1>2. Range(<<>>) = {} /\ Len(<<>>) = 0
  BY DEF Range
<1>3. OneCopy
  <2>1. Range(queue_tasks_deferred) = {}
    BY <1>2 DEF Init
  <2>2. Distinct(Joined)
    BY <1>1, <1>2 DEF Distinct
  <2> QED
    BY <1>1, <1>2, <2>1, <2>2 DEF OneCopy
<1>4. HeldIds = {}
  BY <1>1, <1>2 DEF HeldIds, IdsOf
<1> QED
  BY <1>1, <1>3, <1>4 DEF OnceInv, FreshIds

\* An id comes in with the post() of the handler it belongs to.
ComesFromPost(id) == id = NoTask \/ \E c \in Clients : pc[c] = "post" /\ id \in ids(c)'

\* Every step keeps one copy of each task, and only post() brings one in.
LEMMA OnceNext ==
  ASSUME TypeInv, OnceInv, [Next]_vars
  PROVE  OnceInv' /\ \A id \in HeldIds' \ HeldIds : ComesFromPost(id)
<1>1. ASSUME NEW c \in Clients, Client(c)
      PROVE  OnceInv' /\ \A id \in HeldIds' \ HeldIds : ComesFromPost(id)
  <2>1. CASE Post(c)
    <3>1. OnceInv' /\ HeldIds' \subseteq HeldIds \cup ids(c)'
      BY <2>1, OncePostDrawn, OncePostDraws
    <3>2. pc[c] = "post"
      BY <2>1 DEF Post
    <3> QED
      BY <3>1, <3>2 DEF ComesFromPost
  <2>2. CASE PostCancel(c)
    BY <2>2, OncePostCancel DEF ComesFromPost
  <2>3. CASE \E r \in Requests : BeginRequest(c, r)
    BY <2>3, OnceBeginRequest
  <2> QED
    BY <1>1, <2>1, <2>2, <2>3, OnceQuiet DEF Client
<1>2. CASE ProcessTask \/ UpdateSlots \/ BatchSlot \/ DecodeSlot \/ FailSlot
  BY <1>2, OnceProcessTask, OnceUpdateSlots, OnceSlotLoops DEF ComesFromPost
<1>3. CASE StartLoop \/ DecodeFail \/ CheckQueue \/ Wake \/ Terminate \/ UNCHANGED vars
  <2>1. UNCHANGED <<queue_tasks, queue_tasks_deferred, state, id_task>> /\ NoHandlerMoves
    BY <1>3 DEF StartLoop, DecodeFail, CheckQueue, Wake, Terminate, vars, taskVars, slotVars,
                httpVars, NoHandlerMoves
  <2> QED
    BY <2>1, OnceGoesOn DEF Processing, ComesFromPost
<1> QED
  BY <1>1, <1>2, <1>3 DEF Next, MainThread

\* What the invariant says of the queues and the slots one by one.
LEMMA OneCopyIsOnePlace ==
  ASSUME TypeInv, OnceInv
  PROVE  TaskInOnePlace
<1> DEFINE q == queue_tasks
           d == queue_tasks_deferred
<1>1. q \in Seq(TaskSet) /\ d \in Seq(TaskSet) /\ Joined = q \o d
  BY QueueTypes DEF Joined
<1>2. /\ Len(q) \in Nat /\ Len(d) \in Nat /\ Len(Joined) = Len(q) + Len(d)
      /\ DOMAIN q = 1 .. Len(q) /\ DOMAIN d = 1 .. Len(d)
  BY <1>1
<1>3. /\ \A i \in DOMAIN q : i \in 1 .. Len(Joined) /\ Joined[i] = q[i]
      /\ \A j \in DOMAIN d : Len(q) + j \in 1 .. Len(Joined) /\ Joined[Len(q) + j] = d[j]
  BY <1>1, <1>2
<1>4. \A i, j \in 1 .. Len(Joined) : Joined[i].id = Joined[j].id => i = j \/ Joined[i].id = NoTask
  BY DEF OnceInv, OneCopy, Distinct
<1>5. /\ \A i \in DOMAIN q : q[i] \in Range(Joined)
      /\ \A j \in DOMAIN d : d[j] \in Range(Joined) /\ d[j] \in Deferrable
  <2>1. Range(d) \subseteq Deferrable /\ Range(Joined) = Range(q) \cup Range(d)
    BY QueueTypes DEF OnceInv, OneCopy
  <2> QED
    BY <1>1, <1>2, <2>1, RangeAtPlaces
<1>6. \A j \in DOMAIN d : d[j].id # NoTask
  BY <1>5 DEF OnceInv, OneCopy
<1> HIDE DEF q, d
<1>7. \A i, j \in DOMAIN q : q[i].id = q[j].id => i = j \/ q[i].id = NoTask
  BY <1>3, <1>4
<1>8. \A i, j \in DOMAIN d : d[i].id = d[j].id => i = j
  <2> SUFFICES ASSUME NEW i \in DOMAIN d, NEW j \in DOMAIN d, d[i].id = d[j].id PROVE i = j
    OBVIOUS
  <2>1. Len(q) + i = Len(q) + j
    BY <1>3, <1>4, <1>6
  <2> QED
    BY <1>2, <2>1
<1>9. \A i \in DOMAIN q, j \in DOMAIN d : q[i].id # d[j].id
  <2> SUFFICES ASSUME NEW i \in DOMAIN q, NEW j \in DOMAIN d, q[i].id = d[j].id PROVE FALSE
    OBVIOUS
  <2>1. i = Len(q) + j
    BY <1>3, <1>4, <1>6
  <2> QED
    BY <1>2, <2>1
<1>10. \A s \in Processing : /\ \A i \in DOMAIN q : q[i].id # id_task[s]
                             /\ \A j \in DOMAIN d : d[j].id # id_task[s]
  BY <1>5 DEF OnceInv, OneCopy, IdsOf
<1>11. \A s, t \in Processing : id_task[s] = id_task[t] => s = t
  BY DEF OnceInv, OneCopy
<1> QED
  BY <1>7, <1>8, <1>9, <1>10, <1>11 DEF TaskInOnePlace, q, d

\* A task is queued once, deferred once or on one busy slot, through every deferral, pop,
\* release, cancellation and failure.
THEOREM TasksAreNotDuplicated == Spec => []TaskInOnePlace
<1>1. TypeInv /\ OnceInv /\ [Next]_vars => OnceInv'
  BY OnceNext
<1>2. TypeInv /\ OnceInv => TaskInOnePlace
  BY OneCopyIsOnePlace
<1> QED
  BY <1>1, <1>2, TypeInit, TypeNext, OnceInit, PTL DEF Spec

\* What the server holds came in by post(), once: nothing that was answered, cancelled or
\* released comes back.
THEOREM TasksEnterOnce == Spec => EntersByPostOnly
<1> DEFINE Enters == \A id \in Held' \ Held :
                       id = NoTask \/ \E c \in Clients : pc[c] = "post" /\ id \in ids(c)'
           Same   == HeldIds = Held
<1>1. TypeInv /\ OnceInv /\ [Next]_vars => OnceInv'
  BY OnceNext
<1>2. TypeInv => Same
  BY QueueTypes
<1>3. TypeInv' => Same'
  <2> HIDE DEF Same
  <2> QED
    BY <1>2, PTL
<1>4. TypeInv /\ TypeInv' /\ OnceInv /\ [Next]_vars => [Enters]_vars
  <2> SUFFICES ASSUME TypeInv, TypeInv', OnceInv, [Next]_vars PROVE Enters
    OBVIOUS
  <2>1. HeldIds = Held /\ HeldIds' = Held'
    BY <1>2, <1>3
  <2>2. \A id \in HeldIds' \ HeldIds : ComesFromPost(id)
    BY OnceNext
  <2> QED
    BY <2>1, <2>2 DEF ComesFromPost
<1>5. Spec => [][Enters]_vars
  <2> HIDE DEF Enters
  <2> QED
    BY <1>1, <1>4, TypeInit, TypeNext, OnceInit, PTL DEF Spec
<1> QED
  BY <1>5 DEF EntersByPostOnly

=============================================================================
