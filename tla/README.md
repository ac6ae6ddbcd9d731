# A verification project for agentaichat

The repository is a web application that talks to a language model: a FastAPI
backend (`src/backend/app`), a React front end (`src/frontend`), and
**prima.cpp** (`src/backend/prima.cpp`), a fork of llama.cpp that spreads a
model's layers over several devices in a ring. Nearly all the repository's own
state, concurrency and failure handling is in prima.cpp, so this project starts
there. Paths below are relative to `src/backend/prima.cpp` unless they start
with `src/`.

Each module is translated from the code; `PROJECT.json` maps every definition
that models code to the lines it stands for ("map"), lists what is hard to test
and which property covers it ("hazards"), and gives for every property a
plausible bug that breaks it ("mutants"; the mutated operator stands before the
one it replaces, under a comment "Mutant of ...").

## 1. Inventory

### Server request path: `examples/server/server.cpp`
*State.* `server_queue`: `queue_tasks`, `queue_tasks_deferred`, `id`, `running`
under `mutex_tasks`. `server_response`: `waiting_task_ids`, `queue_results`
under `mutex_results`. `server_slot` (state, `id_task`, parameters,
`n_decoded`), which only the main thread touches.
*Operations.* HTTP threads open ids (`add_waiting_tasks`), `post`, block in
`recv`, close ids; leaving or failing handlers run `cancel_tasks`. The main
thread runs `start_loop`: take every task (`process_single_task`: launch, defer
or answer), then `update_slots`, which posts NEXT_RESPONSE, builds a batch,
decodes it and sends results; `release` of a slot pops one deferred task. SIGINT
runs `terminate`.
*Hard.* Many threads, two mutexes and two condition variables; ids opened after
or before posting; results whose owner has left; deferral and its only wake-up;
decode failures that release every slot.
*Correct when* a task is in one place and is answered at most once, to somebody
who waits; the loop never sleeps on work; a deferred task has something to wait
for; every request is answered; SIGINT stops the loop.

### Server KV bookkeeping and mirroring: `server.cpp`, `src/llama.cpp`
*State.* Per slot `n_past`, `cache_tokens`, prompt; the batch and the loop over
its chunks; `system_tokens`; the master's KV cache and those of the workers.
*Operations.* Launch, cancel, save/restore/erase a slot, new system prompt,
context shift, truncation, prompt reuse, batch building, decoding in chunks with
retry in halves, the clear when the server is idle for the first time; each KV operation is done locally and sent to the workers, with
sequence ids one lower.
*Hard.* Three descriptions of the same tokens (`cache_tokens`, the master's
cells, the workers' cells) that many code paths must change alike; off-by-ones
when a context or the cache is full.
*Correct when* `cache_tokens` is what the cache holds, positions have no gap or
double, the cache suffices, and all devices attend to the same tokens.

### Local KV cache: `src/llama.cpp`, `include/llama.h`
*State.* Cells (position, sequences, delta), `head`, `used`, `has_shift`,
`do_defrag`. *Operations.* `find_slot`, `seq_rm/cp/keep/add/div`, `clear`,
deferred K-shift and defragmentation. *Hard.* Deferred work over cells that are
freed, reused and moved; a counter maintained everywhere; searches that wrap.
*Correct when* the operations do what `llama.h` promises, the counter is exact,
a shift reaches its token once, and defragmentation loses nothing.

### Ring set-up: `src/llama.cpp` 20467-20913, `common/common.cpp` 1663-1873
*State.* What every device knows of the layer windows and of the forwarders, its
sockets, its rank. *Operations.* Rounds of start-up arguments, device profiles
and layer windows; `llama_rebuild_topo`; renumbering; the STOP of
`llama_free_sockets`. *Hard.* No device has a global view; each decides from its
copy whom to connect to and whether to leave; one PULL socket takes messages of
several senders. *Correct when* one ring is left with every working device in
it, all agree on ranks, nobody waits for ever and no message is left over. The
rebuilding begins at the master, so it also has to have a layer.

### Ring transport and distributed decode: `src/llama.cpp` 17824-18700
*State.* Sockets, the messages in flight, each device's KV cache and position in
its decode loop. *Operations.* `llama_send_meta` / `llama_recv_meta` (batch
description, KV commands, STOP), `llama_send/recv_tensors`, forwarders, the
subgraph loop of `llama_decode_internal`. *Hard.* Meta data, tensors and KV
commands share one socket; a 1000 ms receive timeout; devices that disagree on
whether a batch fits. *Correct when* every worker applies the same commands in
the same order, each tensor meets the batch it belongs to, caches agree cell for
cell, a decode computes the layers in order and comes back, and everybody leaves
after a STOP.

### Layer assignment: `common/common.cpp` 860-1656
*State.* The devices that are left, their windows. *Operations.* Divide the
layers, through an integer program (HiGHS) or, in a build without it, in
proportion to memory; send away the devices with one layer and divide again; on
each device, map a layer to its place and its sub-graph. *Hard.* Roundings,
minimums and a correction in unsigned integers; arithmetic by turns of the ring
that every device does by itself. *Correct when* the windows add up (modulo 2^32), every kept
device has a layer, and no two layers of a device share a place.

### Command-line drivers: `examples/main`, `examples/speculative`
*State.* `n_past`, the input, the STOP flag. *Operations.* Prompts and inputs in
batches, context shift, drafts of which tokens are rejected, the same KV commands
as the server's on sequence 0; workers decode in a loop until they see the STOP.
*Hard.* Whatever is done to the cache must be sent as well; a batch that fails.

### Web backend: `src/backend/app`
*Accounts and items* (users, login, items, `crud.py`): rows in a database, each
request in a session; look-ups followed by inserts. *Agent chat*
(`api/routes/agent_chat.py`): a dictionary of sessions, a history file that is
read, extended after a call of the model and written back, one temporary audio
file, two web sockets, served by four processes (`src/backend/Dockerfile:43`).
*Hard.* Files that processes share without a lock, that a crash leaves torn, and
that a failed call leaves behind; a cache of the session in each process.
*Correct when* nothing that was saved is lost, a client is answered for what it
sent, and a session is read as it was written.

### Left out for good
Tensor kernels, sampling, tokenizers and grammars (numerical and text code, no
shared state), the front end and its generated client, e-mail templates,
vendored libraries (HiGHS, cpp-httplib, json).

### How they interact
An HTTP request becomes a task of the *request path*; `update_slots` keeps the
*KV bookkeeping* and calls `llama_decode` and the KV operations, which change
the *local KV cache* and are mirrored to the workers by the *ring transport*,
over the ring that *ring set-up* has built from the *layer assignment*. The web
backend calls a server over HTTP and shares nothing else with it.

## 2. Plan

| step | modules |
|---|---|
| A | `RequestBroker` (abstract), `ServerTasks` implements it, `ServerTasks_proofs`, `BrokerRefinement_proofs` |
| B | `KVCells` (operators), `KVStore` (abstract), `KVCache` implements it, `KVCells_proofs`, `KVCache_proofs`, `SlotCache` composes two caches with the slots, `SlotCache_proofs` |
| C | `RingSetup`, `RingSetup_proofs` |
| D | `LayerMap` (operators), `LayerOrder` (abstract), `RingDecode` composes the devices' caches (`KVCells`), the layers (`LayerMap`), the sockets and the drivers, and implements it, `RingDecode_proofs` |
| E | `LayerAssign`, on `LayerMap` |
| F | `AgentChat`, `AgentChat_proofs` |

All of it is done. What could follow: theorems about the divisions of layers (section 6, the last list), Self-Extend, saved contexts, and the composition of
`SlotCache` with `RingDecode`, whose product TLC cannot hold: the one checks that what the server
sends keeps the caches alike when it arrives in order, the other that it arrives
in order.

## 3. The modules

### ServerTasks, RequestBroker
One step is one critical section, since everything shared is read and written
under `mutex_tasks` or `mutex_results`; what the main thread does in between is
private to it. One coarser step: `Release` (pops a deferred task, under
`mutex_tasks`) and `Send` (under `mutex_results`) of one slot are one step. They
touch different state, and a handler's step touches one of the two only, so it
can be moved before or after the pair.

| module | code |
|---|---|
| `BeginRequest`, `AddWaiting`, `Post`, `Recv`, `RemoveWaiting` | the handlers: draw ids, open them, post, wait, close them; slot actions and LoRA changes post first (`PostsFirst`) |
| `StartCancel`, `CancelSend`, `CancelRemove`, `PostCancel` | `cancel_tasks`, and the ids a failing or leaving request still has |
| `ProcessTask` | `start_loop` takes a task: `process_single_task` with `LaunchTask`, `DeferTask`, `ProcessCancel`, ... |
| `UpdateSlots`, `BatchSlot`, `ContextFull`, `DecodeSlot`, `DecodeFail`, `FailSlot` | `update_slots`: NEXT_RESPONSE, a full context that must not be shifted, the batch, a result or a failure per slot |
| `StartLoop`, `CheckQueue`, `Wake`, `Terminate` | `start_loop`'s ends, the condition variable, SIGINT |

The slots are visited in any order (`todo`); the code's order is one of these.
Ids of NEXT_RESPONSE and CANCEL tasks are dropped: nothing looks at them. A
prompt is reduced to whether it is rejected and where, a token to whether it ends
the generation. Embeddings and reranking follow the server's own branches,
although the `llama_decode` of this fork refuses embedding models.
`RequestBroker` is what an HTTP client may rely on: ids are opened once, answered
at most once and only while open; with fairness none stays open while the server
runs. The refinement maps `open` to `waiting_task_ids`.

### KVCells, KVCache, KVStore
`KVCells` has one operator per function, from a cache to the cache it leaves.
A cell also records its token and the position its keys are rotated to, which the
code has in tensors; `KShift` and `Defrag` change them as the graphs would. The
loops of `find_slot` and `defrag` are recursive functions, so that theorems can
speak of them.
`KVCache` calls the operators in any order; `KVStore` says without cells what
`llama.h` promises. Only caches of models that attend to all tokens (not Mamba
or RWKV) are modelled.

### SlotCache
Two steps make an `update_slots` with work: `BeginUpdate` (system prompt, context
shift, sampled tokens, prompts) and `DecodeChunk`; between two of them tasks arrive.
With every slot idle it is `IdleUpdate`, which the first time, unless there is a
system prompt, clears the caches of all devices and leaves `cache_tokens`. The server
posts no task for itself before its loop starts, but HTTP threads may, so that
clear comes before or behind the first requests. `wiped` (history) says that it came
when a slot had tokens in the cache.
`Restored` is what reading a slot's file does; a file with no cells aborts
the server (`RestoreAsserts`), so `Restore` is guarded by it.
Each `...Both` operator is a KV operation on the master's cache and, with the
sequence id one lower, on a worker's. The worker is at rest between commands; that
commands arrive in order is what `RingDecode` shows. `StoreAll` and `InTurn` are the
loops over the physical batches and over the slots, as recursive functions. A request
with a negative `n_discard` is left out.

### RingSetup
`pc` says which receive a device is blocked in. `net[s][r]` is the messages from
`s` to `r` in the order they were sent; messages of different senders mix.
`auto`, `working` (devices with a layer) and `flags` (forwarders) are each
device's copy of what the rounds told it. `SendArgs ... PassSetup` are the two
halves of the rounds, `Rebuild` is `llama_rebuild_topo` up to the second receive,
`PassView` the rest; `new_rank`, `new_world`, `worker_rank`, `n_worker` are the
numbers `common.cpp` computes afterwards, and `SendStop`, `PassStop` the STOP.
Which devices get layers is left open: any non-empty set. The solver is given a
lower bound of 1 for the master; the division without it may leave the master
none (`LayerAssign`), and then the master leaves at the start of the rebuilding
(`MasterLeft`). Open too is, at each attempt, which ports can be reached. With windows given by the user every device
has one (`common/arg.cpp` 718-722 refuses zero).

### RingDecode, LayerMap, LayerOrder
`dev[r]` is what a device has on its stack: which receive it is in (`meta`,
`tensors`, `forward`) or, for the master, whether it is between two calls; the
sub-graph it is at, what is left of the batch, its cache. `ring[r]` is the
connection into device `r`, `direct` the `master_socket` of the worker with the
last layer. Between two receives a device does everything in one step, since
nobody else touches its state: `NextUbatch` finishes a physical batch, starts
the next or returns (`Returned`: what the warm-up, `main.cpp`, `speculative.cpp`
and a worker's loop do with the result).

| module | code |
|---|---|
| `Evaluate`, `Draft`, `WarmUp`, `Finish` | the drivers: what they do to the cache, announce and decode |
| `Call`, `Announcements` | `llama_send_kv_cache_*`, `llama_send_meta` |
| `ReceiveMeta`, `Timeout` | `llama_recv_meta` on a worker, handing on, `kv_cache_op`; a second in which nothing comes |
| `ComputeWorker`, `ComputeMaster`, `Output` | the loop over the sub-graphs, tensors to the next device or to the master |
| `Forward` | `llama_forward_messages` |
| `StopArrives` | `llama_free_sockets` in its thread: the STOP may come at any moment |

`Call` puts the announcements before a decode and its meta data on the ring in one
step, as the master does without a receive in between. `Draft` always decodes
after it has announced what it rejected; the last rejections of `speculative.cpp`
(421-430, then the `break` at 453) are followed by the STOP alone and are left out.

Tensors are reduced to the batch they belong to, how much of it is still to come,
and the last layer they have passed; `log` and the numbers of announcements are
history. ZeroMQ delivers in order on one connection and not between two, so
`Output` takes from either. A timeout matters only when a worker has seen the
STOP or is in its warm-up; elsewhere its loop calls again. `LayerMap` holds the
arithmetic of `this_layer_is_mine` and its like (`Owner` goes through the turns of
the devices until one brings layers beyond the one asked for); `SubGraphs` is the
cut of `build_llama`. `LayerOrder` says what one device would do: layers in order, once
each, then the output; the refinement maps to the last layer passed by whatever
is on its way.

### LayerAssign
One step is one division (`Assign`), one selection (`Select`) or the end
(`Place`, `Manual`). `std::round` in floating point is rounding of the exact
quotient; the floats themselves may decide a tie the other way.

### AgentChat
A handler calls blocking code, so a process serves one call at a time; what
another process can see in between are the files. Each step reads or writes one
file once. Opening for writing empties the file (`Torn`) and a second step writes
it; a failed call leaves its files as they are; a process that dies is replaced
(`fastapi run` supervises its workers) without its dictionary. Which exception is
raised is left out, and so is what a model answers.
The session's file is read by another shape than it is written in: `Stored` is
what is written of a list of turns (messages without a key `data`), and
`GetSession` goes on only if what is there is `Readable`; any text call of a
process that has to load a session with a turn fails. Two libraries are taken to do
what the caller expects: the pipeline for speech and the translator, which is handed
the pipeline's output (513) and is modelled as giving its text back. If the
translator refuses that output, which looks like a dictionary, every audio call fails there, which
is among the steps `Fail` has, and the later ones are not reached.

## 4. The runs

| run | instance | result |
|---|---|---|
| `server_faults` | 2 handlers, 2 slots, 2 tasks, every kind of request, decode failures, peers that leave, SIGINT | `TypeOK`, `TaskInOnePlace`, `NeverSleepsOnWork`, `EntersByPostOnly` hold (920k states) |
| `server_schedulable` | 2 handlers, 1 slot, 3 tasks of up to 2 tokens, contexts that fill up, system prompts, cancellations | `NoStrandedTask`, `AnswersInOrder`, `ImplementsBroker` hold (2.9M states) |
| `server_regular` | the same size, requests that end in an answer, with fairness | `NoOrphanResult`, `StopsAfterSignal`, `ImplementsFairBroker` hold |
| `kv_cache` | 3 cells, 4 tokens, 2 sequences; searches on 8 cells | `UsedIsExact`, `FindSlotExact`, `DefragCompacts`, `KeysFollowPositions`, `ImplementsStore` hold |
| `slot_cache` | 2 slots of 5 positions, 10 cells, batches of 3 in parts of 2, 3 tasks of up to 3 tokens | `TypeOK`, `CacheTokensStored`, `SlotPositions`, `NeverFull`, `WorkerAgrees` hold (249k states) |
| `slot_system` | a system prompt | `WorkerAgrees` fails |
| `ring_setup` | 6 devices | `TypeOK`, `AssertionsHold`, `Barriers`, `OneRing`, `OneLastWorker`, `NothingLeft`, `EveryDeviceSettles`, `StopGoesRound` hold (12k states) |
| `ring_decode` | 4 devices in 6 layouts, 6 cells, physical batches of 1 token, 5 calls | `TypeOK`, `AppliedInOrder`, `RightMessage`, `CachesAgree`, `DecodeReturns`, `EveryoneLeaves`, `ImplementsLayerOrder` hold (20k states) |
| `ring_warmup` | 3 devices, a master that is slow to warm up | `AssertionsHold` fails |
| `layer_assign` | 4 devices, 5 amounts of memory, 7 numbers of layers, windows up to 3 | `LayersAddUp`, `PlacedOnce` hold (386k states) |
| `layer_window` | 4 devices, 8 layers | `WindowsInRange` fails |
| `agent_chat` | 2 processes, 2 recordings, 2 texts, 4 calls, failures, crashes | `HistoryKept`, `OwnRecording`, `TurnsKept` hold (0.9M states up to symmetry) |

Six more configurations belong to the premises of the properties above, and to
findings 4 to 9 of section 5. TLC refutes their one property within a minute or two (`tlc -config
slot_start.cfg MCSlotCache`); they are not among the runs of `PROJECT.json`.

| configuration | module, instance | result |
|---|---|---|
| `slot_start.cfg` | `MCSlotCache`, requests before the loop has started, batches of 3 | `TokensStored` fails |
| `slot_retry.cfg` | `MCSlotCache`, batches of 4 in parts of 2 | `SlotPositions` fails |
| `slot_restore.cfg` | `MCSlotCache`, a slot is saved before it computes anything | `RestoreAsserts` fails |
| `slot_noshift.cfg` | `MCSlotCache`, context shift on or off | `StoppedBefore` fails |
| `ring_master.cfg` | `MCRingSetup`, 3 devices, the master without a layer | `OthersSettle` fails |
| `agent_restart.cfg` | `MCAgentChat`, one turn, then a process that has to load it | `SessionLoads` fails |

**Why these bounds.** *Server*: one slot and three tasks is the least at which a
release pops a task while another stays deferred; two tokens make a partial
result precede a final one; two slots and a request of two prompts make a failure
hit several tasks at once, and a stale `id_task` meet a live one. *KV cache*: 3
cells suffice for a hole between two used cells and for the head to wrap, and one
move per defragmentation leaves it incomplete; `find_slot` and `defrag`, which
are searches, are checked on all occupancies of 8 cells as well. *Slots*: a
context of 5 is the smallest the code's `n_ctx - 4` admits; prompts share
beginnings, fill a context and exceed it; a batch of 3 in parts of 2 makes a
prompt need two chunks. *Ring*: with 6 devices a run of up to five devices
without layers follows a worker, so that a forwarder picks a further one, runs
of leaving devices end at a forwarder, and two such runs occur in one ring.
*Decode*: in the layouts the last layer is on the master, on a worker in the
middle or on the last device, a forwarder is in the middle or last, and the ring
goes round once or twice; a batch of two tokens is two physical batches; with six
cells the context shift and the failing batch come within five calls. *Layers*: three devices are
what it takes for the smallest, the largest and the master to differ, four for the
minimums of three to exceed the model, so that the correction takes the smallest
window to zero and below, on the master and on a worker; memory and
layers are such that every rounding occurs. *Agent chat*: with two processes and
four calls a text and a recording fail, or their process dies, at every step, and
later calls still follow.

**Deadlock** is not checked: an idle server waits for requests, a slot with no
task left is done, a device that has stopped is finished.

**Fairness.** `ServerTasks!FairSpec`: the main thread and each handler keep
running (weak fairness; the operating system schedules threads), and a prompt
does not lose the competition for the batch for ever (strong fairness on
`PromptEnds`). The last is an assumption about load, which nothing in the code
enforces: the batch has `n_batch` places and sampled tokens come first. Peers
need not ask or leave. `RingSetup!FairSpec`: every device takes its next step
when it can; whether the master ever stops is left open. `RingDecode!FairSpec`:
every device goes on with what it has begun and messages arrive; the driver need
not call again nor finish. Weak fairness is spelled out there (`MasterReady`,
`DeviceReady`), because ENABLED would compute a whole step in each state.
`LayerOrder` asks that a batch under way goes on. The other
specifications are about safety only.

**What the passing runs leave out**, because with it the code does not keep the
property:

* `server_schedulable`: a completion that is rejected when launched, or a slot
  action, uses up the release that popped it; the next deferred task stays
  deferred beside idle slots (`NoStrandedTask`). A failed decode, which answers
  idle slots under their last ids once more (`ImplementsBroker`,
  `AnswersInOrder`).
* `server_regular`: slot actions and LoRA changes post their task before they
  wait for its id, so an answer in between is dropped and the handler blocks for
  ever (`ImplementsFairBroker`); `cancel_tasks` queues a cancellation for ids
  whose handler has left `recv`, nobody takes it, and from then on `recv` spins
  (`NoOrphanResult`); a rerank and a cancelled plain request leave their ids
  open.
* `slot_cache`: `CacheTokensStored` and `SlotPositions` say nothing once the idle
  server has cleared the cache under its slots (`wiped`; `slot_start.cfg` shows what
  follows), and the instance starts with the clear to come, so both orders are
  covered. With `NBatch = 4`, a batch of several physical batches that finds
  no room half-way is retried from its start, and tokens are stored twice
  (`SlotPositions`, `slot_retry.cfg`). A file without cells is not
  restored (`slot_restore.cfg`). A token outside the vocabulary, and a new system prompt,
  leave `cache_tokens` that were never computed (`CacheTokensStored`).
  `WorkerAgrees` is stated as long as no slot action has changed the master's
  cache alone, which SLOT_ERASE and SLOT_RESTORE do.
* `ring_setup`: sends and receives succeed (the code ignores their return values)
  and a leaving device's last message is delivered before `exit(0)`. A master
  without a layer leaves, and `EveryDeviceSettles` asks nothing of the others then
  (`ring_master.cfg` shows who waits).
* `layer_assign`: a window that the correction has taken below zero is near 2^32.
  `LayersAddUp` counts 2^32 too much for each (`Wrapped`), and `PlacedOnce` speaks of
  windows without one.
* `ring_decode`: the master warms up before a worker gives up waiting, every
  worker has a layer (windows given by the user may reach beyond the model), and
  the master does not end at a failed batch before it was to stop: `main.cpp`
  returns there without a STOP, and the workers wait for ever.
* `agent_chat`: recordings in two processes that overlap lose one of two requests
  or answer a client for another's recording; a second process that
  has the session before a turn is stored overwrites the first one's turns. The properties say so in their premises. A
  file torn by a crash stays unreadable, and so does every session file with a
  turn in it, for a process without it in memory (`agent_restart.cfg`):
  `TurnsKept` says that the file is not overwritten, not that it is read.

## 5. Where code and words differ

1. The system prompt is copied from sequence 0 on the workers, where it is in
   sequence -1 (`slot_system`).
2. A worker whose second of waiting for the warm-up batch is over takes it for an
   ordinary batch, after the master has cleared its cache. It keeps two cells
   more; when the cache is full it returns from a batch the others compute, takes
   the tensors for meta data, and an assertion ends it (`ring_warmup`).
3. "no 0 is allowed in w" (`common.cpp:1549`): the correction of the sum that
   follows takes layers from the device with least memory, down to zero or
   around, to a number near 2^32 that counts as more than one (`layer_window`;
   without ties, e.g. memory 6, 16, 16, 16, 26 and eight layers).
4. "Re-use KV cache from a previous request" (`examples/server/README.md:381`): the
   first time all slots are idle the server clears the cache and not `cache_tokens`.
   If a request was queued between READY (server.cpp 3580) and `start_loop` (3620),
   it is served first, and the next prompt that begins like it skips tokens that are gone
   (`slot_start.cfg`). Served later, requests find the clear behind them.
5. "retry with half the batch size" (`server.cpp:2445`): the physical batches of the
   chunk that did fit stay in the cache, and are stored again at the same positions
   (`slot_retry.cfg`; with the default sizes too, as a batch is four physical ones).
6. A slot without tokens can be saved; restoring the file runs into
   "GGML_ASSERT(kv_self.cells[kv_self.head].has_seq_id(dest_seq_id))"
   (`llama.cpp:23129`) and ends the server (`slot_restore.cfg`).
7. "prima.cpp will automatically discover and remove" weak devices (`README.md:75`).
   In a build without HiGHS, which the set-up guide asks for on rank 0
   (`README.md:154`), the weak device may be the master: with memory 2, 5, 9 and five
   layers it gets none and leaves, nobody begins the rebuilding, and the next device
   that works waits for ever (`ring_master.cfg`).
8. "Tải bộ nhớ từ file hoặc tạo mới", load the memory from the file or make a new one
   (`src/backend/app/api/routes/agent_chat.py:358`): what line 327 writes has no key `data`,
   which line 339 reads, so that a process that has to load a session with a turn fails
   (`agent_restart.cfg`).
9. "we should never get here, because generation should already stopped in
   process_token()" (`server.cpp:2037`): `process_token` counts the tokens generated and
   not the prompt, so with context shift off a request is failed in the middle of its
   answer (`slot_noshift.cfg`). `ServerTasks` has that branch as `ContextFull`.

## 6. The proofs

### ServerTasks_proofs
For every set of handlers, requests, number of slots and bounds that satisfy
`ServerAssumption`:

* `TypeCorrect`: `Spec => []TypeOK`. The inductive invariant `TypeInv` adds
  `IdsDrawn` (a request's ids have been handed out, so that what it posts, opens
  and cancels are ids) and `BudgetLeft` (ids handed out and those left add up to
  `MaxTasks`, so that drawing more stays in bounds). One lemma per action.
* `MainThreadStaysAwake`: `Spec => []NeverSleepsOnWork`. It holds at the end of
  `update_slots` only because NEXT_RESPONSE was posted at its beginning and
  nobody but the main thread takes tasks: `SleepInv` carries "the queue is not
  empty" through the batch, and `HandlersOnlyAdd` says what handlers do to the
  queue.
* `NoTaskStranded`: under `AllSchedulable` (no slot action, no completion that
  is rejected when launched, no slot that does not exist),
  `Spec => []NoStrandedTask`. `StrandInv` adds that only such completions are
  queued or deferred; without the assumption the theorem is false (section 4).

For every number of handlers, slots and tasks, with every kind of request,
decode failures, cancellations and peers that leave:

* `TasksAreNotDuplicated`: `Spec => []TaskInOnePlace`;
* `TasksEnterOnce`: `Spec => EntersByPostOnly`.

`TaskInOnePlace` is not inductive: a task that is posted must be one that nobody
holds yet. The inductive invariant `OnceInv` looks at both queues as one,
`Joined`, the deferred tasks behind the queued ones, whose ids are distinct and
not on a busy slot (`OneCopy`). Then `pop_deferred_task` changes nothing at all
(`PopKeepsJoined`), `defer` moves the front to the back (`OnceDeferred`), a
launch moves the front to a slot (`OnceLaunch`), and `post` inserts ids
(`InsertDistinct`) which, by `FreshIds`, were drawn for this request only and
are not held. The second theorem follows from what each step adds to the ids the
server holds (`OnceNext`).

### BrokerRefinement_proofs
* `ServerImplementsBroker`: if `llama_decode` does not fail (`~DecodeMayFail`),
  `Spec => ImplementsBroker`, for every number of handlers, slots and tasks and
  every kind of request;
* `AnswersComeLast`: under the same assumption, `Spec => []AnswersInOrder`;
* `EveryResultAwaited`: if moreover nothing is cancelled (`NothingCancelled`: no
  `/v1/cancel`, no peer that leaves, no completion that ends in an error),
  `Spec => []NoOrphanResult`, for plain, streamed and reranking requests of any
  number of prompts, empty prompts, slot actions, LoRA changes and metrics.

An answer is sent when a task leaves the server (`Answered`, from the lemmas
on released, dropped and launched tasks); `BrokerInv` says that an id the server has
yet to deal with, not drawn, not posted or held (`Untouched`), has no answer, and no
step makes an id untouched again. Handlers either open ids nobody else is about to open, or draw
ids, or close some (`HandlerMoves`). The order of the results follows: parts of
the text are sent for ids that are held, answers already queued are of ids that
are not (`AnswersLast`), and `recv` keeps the order of what it leaves. The
assumption is needed: after a failed decode `update_slots` also answers idle slots, under the id of a task they have
answered before (`FailSlot`), and a handler that still waits for the other
prompts of its request then gets a second answer.

`EveryResultAwaited` needs its premise too: each of the cancellations can leave
results behind (section 4, `server_faults`). Its invariant, `AwaitedInv`, ties
three things together: every task the server holds has a handler that asks for
it and will go on asking (`Owned`); a handler has counted exactly the answers it
took out of the queue (`Counted`, with `Taken`); and a part of a text whose task
is answered lies before that answer (`PartsFirst`). So when a handler counts its last answer
(`LastTaken`), the answers it took are those of all its ids, no other answer and
no part is left behind for one of them, and the server holds none of them.

### KVCells_proofs
What the operators of `KVCells` do, for every size of the cache (`SizeAssumption`).

* The loop of `find_slot` ends and finds a slot exactly when there is one
  (`FindSlotRight`). `Tested` is the invariant of the loop: at cell `h` with `t`
  cells tested, no run of free cells starts at a cell already passed, on either
  side of the end of the cache. The number of steps left falls, so the claim
  follows by complete induction (`NatSetComplete`).
* `defrag` is right about its first `n` cells for every `n` (`SeenTo`,
  `DefragRight`): they are in use unless the moves have run out; nothing is lost
  or doubled; every hole finds its cells, as `FillHoleRight` shows by counting
  the used cells behind it. With moves left the used cells are the first ones
  (`DefragCompact`).
* Each operation leaves a `Sound` cache (`SeqRmIs` ... `UpdateIs`, `StoreIs`), and
  the tokens it should. `Sound` says that the count is exact, that a cell has a
  position exactly when it belongs to a sequence, that its keys are where its
  position says or will be after the next shift, and that a cell, in use or
  not, holds a shift only while `has_shift` is set. The last is what the
  properties leave out and the proof needs: `seq_rm` frees a cell without
  clearing its `delta`, and the token that is stored there next would be shifted
  with it, were a batch not always preceded by the update that clears it.

Both loops recurse over data. A recursive function is given by its equation
(`IsSearch`, `IsDefrag`); that some function satisfies it, and what its values
are, is proved by induction over a set of numbers: `NatSetInduction` and
`NatSetComplete` take the set, not a predicate, as the parameter, and rest on the
library's theorem that `<` on the naturals is well-founded.

### KVCache_proofs
For every size of the cache, set of sequences, ranges, shifts, divisors, number
of tokens and bound on the moves (`KVCacheAssumption`), with the invariant `Inv`,
a `Sound` cache whose tokens have numbers that were given out:

* `CountIsExact`: `Spec => []UsedIsExact`; `KeysAreRight`: `Spec =>
  []KeysFollowPositions`;
* `StoreRefinement`: `Spec => ImplementsStore`. For each operation one lemma says
  what the stored tokens become (`SeqRmTokens` ... `SeqDivTokens`; `DecodeStep` for
  the batch, which adds its tokens and touches no other), and one that this is a
  step of `KVStore`;
* `SearchIsExact` and `DefragIsRight`: `FindSlotExact` and `DefragCompacts` for
  every `WideSize`, from the lemmas above for the cache of that size.

### SlotCache_proofs
For every number of slots, every size of the context, the cache and the batches, every
set of requests and tokens, with failures, retries in halves and cancellations, as long
as no request brings a system prompt (`Systems = {}`):

* `WorkersAgree`: `Spec => []WorkerAgrees`. Until a slot action changes the master's cache,
  a worker has the cache of the master with every sequence id one lower (`Lowered`),
  cell by cell, delta and head included (`Agree`). That this is preserved is shown for each
  operator of `KVCells` that is used (`LoweredRm`, `LoweredAdd`, `LoweredUpdate`,
  `LoweredStore`, which says too that both find room or neither), and carried through the
  loops over the physical batches (`LoweredStoreAll`) and over the slots (`ShiftStep`,
  `SampledStep`, `PromptStep`, each for one turn of one slot, and `TurnsKeep`).
* `TypesHold`: if moreover no request asks for more than the context holds to be
  discarded (`SmallDiscards`), `Spec => []TypeOK`: no prompt and no slot outgrows
  the context of a slot, and the logits a slot waits for are those of an entry of the
  batch. `SlotGood` says what a slot is in each state (a slot that is computing its prompt
  has computed less than all of it, one that generates has n_keep in bounds, ...), `Indexed`
  and `WaitsFrom` that none waits for an entry of a chunk that has been decoded.

Both premises are needed. With a system prompt the workers are told to copy sequence 0,
while theirs is -1 (section 5, finding 1). With an `n_discard` of more than the slot holds
`n_past` falls below zero (a hazard PROJECT.json lists at `server.cpp:2047`).

The other theorems are about where the tokens of a slot are. They speak of the time until
the idle server clears the cache under its slots (`~wiped`, finding 4): if it does not,
because every request came after the clear, that is always. `IdleUpdate` alone sets
`wiped`, and no step takes it back. Their assumptions:

* `Systems = {}`, as above: a system prompt leaves `cache_tokens` that are no longer stored.
* `RoomToShift`: what a request has a shift keep (`Kept`, with the bounds and the default of
  `update_slots`), the BOS and what it has it drop are together no more than a full slot.
  With more, the shift removes positions the slot does not have.
* `InVocabulary(n)`, for some `n`: sampled tokens are below `n`, the tokens of the prompts are
  in `1 .. n - 1`, and `InvalidToken` is not. A token outside fails the batch when its slot
  already counts it as computed. Token 0 is the one `vector::resize` makes up where
  `cache_tokens` was shorter than `n_past` (`Fill`): a prompt with it could be taken to share a
  beginning that was never computed.
* `[]Whole`, or `NBatch <= NUbatch + 1`: no chunk fails behind a physical batch that is stored.
  It is a condition on the behaviour in `PositionsKept`, `TokensKept` and `RoomKept`; in the
  theorems whose names end in `Whole` it follows from the sizes, for then a chunk of two
  physical batches has one token in the second. Without it the retry in halves stores
  the first tokens again (finding 5), so that the positions of a slot are no longer held
  once: the default sizes (`n_batch` 2048, `n_ubatch` 512) are among those for which it has to be assumed.

The run `slot_cache` meets all of them (`NBatch = 3`, `NUbatch = 2`, `n = 9`). Under them:

* `PositionsKept`, `PositionsKeptWhole`: `[]SlotPositions`. The cache holds
  `0 .. n_past - 1` for a slot, each position in one cell.
* `TokensKept`, `TokensKeptWhole`: `[]CacheTokensStored`. What a slot believes to have
  computed is there, at its position and rotated to it.
* `RoomKept`, `RoomKeptWhole`: `[](~wiped => NeverFull)`. A chunk of one token finds a cell: the slots hold
  fewer than `NSlots * NCtx` tokens (`OneEach`, `FilledIds`), and one free cell is room
  enough for one token however the cache is fragmented.

The invariant is `~wiped => Holds(n)`, beside `Inv` of the first two theorems (`HoldInvariance`, with
`WholeBatches` for the sizes). The properties are about the moments between two runs of
`update_slots`; in between, a slot counts tokens that only the batch has. `Holds` therefore
speaks of the *places* of a slot, which are what the cache has for it and what the rest of the batch
will store (`Places`), and is true in the middle of a run as well:

* `Laid`: every cell with a token of a slot has a position below `NCtx - 1`, a token of the
  vocabulary and keys that its position and the pending shift account for; the batch's entries
  are of one slot each, no two the same place, none a place the cache has already.
* `Stands`, for every slot: its places are the positions `0 .. m - 1`, one token each
  (`Counted`; `m` is `n_past` once the request has begun), `cache_tokens` up to the first
  made-up token is what is there (`Believed`), and with `cache_prompt` it is `n_past` long
  (`Computed`). Without it `cache_tokens` is empty or begins with a made-up token,
  for `resize(n_past)` comes after `n_past = 0` or fills from nothing: this is why an
  uncached request cannot make a later one reuse the wrong tokens.
* `Known`: the tokens are of the vocabulary, and the request leaves room to shift.
* `FileHolds`, when a slot is saved: the file has positions `0 .. len - 1`, each once, with
  the slot's tokens, whatever happened to the slot since.

One lemma per loop body says that it keeps the invariant: `ShiftHolds`, `SampledHolds`,
`PromptHolds` (with `PartStands`: reuse of a common part, truncation, the part of the prompt that fits),
`ChunkDone` (stored, failed and retried, failed for good), and one per slot action
(`SaveHolds`, `RestoreHolds`, `EraseHolds`); `HoldStep` puts them together.

### RingSetup_proofs
For every number of devices, whether or not the layers are assigned by the
program (`WorldAssumption`; `NoneAssumption`: "no device" is none of them):
`RoundsAreBarriers`, `Spec => []Barriers`. The property alone is not inductive:
that a device has passed the arguments on says nothing of the ones behind it.
`RoundInv` says where the set-up is: between two rounds nothing is on its way and
all workers wait for the same; in a round there is one message, on its way to
device `k` (`At`); the devices before it have done their part and know what the
master knows, those from it on wait (`ArgsRound`, `InfosRound`, `SetupRound`).
So in a round only the device at the message's end can do something
(`InARound`), and it moves the message one device on (`HandedOn`) or ends the
round (`TakenAtEnd`, `TakenAndSent`). The infos come back with one entry for every
device in the order of the ranks, so the check in `dev_info_set` never aborts.
After the rounds `AfterRounds` says no more than that no device goes back to
them, and all know the same layers, which the rebuilding and the STOP keep.

The ring, for every assignment of layers and every choice of ports that can be
reached: `KindsAreRight` (`TypeOK`), `AssertionsNeverFail` (`AssertionsHold`),
`RingIsRebuilt` (`OneRing`), `LastWorkerIsOne` (`OneLastWorker`) and
`SocketsAreEmpty` (`NothingLeft`). The properties speak of the end;
`Rebuilding(x, F)` says where `llama_rebuild_topo` stands on the way: device `x`
is the next to rebuild, and the devices of `F` have been connected to.

* Devices from `x` on have done nothing (`Untouched`); the ones of the new ring
  before `x` are connected each to the next (`Follows`, `Joined`); the ones
  between were passed over and leave one after the other (`Leaves`).
* What is on its way follows from that: one topology from the last device that
  was connected to `x` (`Called`), one to each device that is told to leave
  (`Told`), and once the ring is closed one that brings the flags to the next
  device (`Viewed`); nowhere two.
* The master may be the one without a layer. It leaves, and with it the devices behind
  it that have none; the first that has one is never connected to. `Deserted(x)` says so:
  the ones before `x` have left, those from `x` on have done nothing, and at most
  the message that tells `x` to leave is on its way (`DesertedFacts`, `DesertedKept`).
* A device that leaves decides by its own copy of the flags whether the next one
  has to leave. It may not know all forwarders, but it does know those up to the
  next device of the ring (`Agrees`), which is enough (`LeaverLeaves`).
* The farthest device that `Rebuild` connects to passes over nobody who works
  (`FollowingIs`), so every device with a layer is in the ring (`Reach`).

At the end `F` and the master are what is left (`WhenSettled`). The new ranks are
counts of devices: along a connection the count goes up by the one device that
is reached, and at the last it is one less than all (`RankGoesUp`).

### RingDecode_proofs
For every number of devices, every layout of layers and forwarders and every
number of calls (`RingAssumption`): `AppliedInMasterOrder`, `Spec =>
[]AppliedInOrder`. It is proved without knowing that meta data and tensors are
told apart: a device that takes tensors for an announcement logs nothing. The
inductive invariant `InOrder` says there is a set of announcements such that the
master's log numbers them (`Numbered`), and that what a device has logged and
what is on its way to it, one after the other, is what the device before it has
logged (`Handed`, `Ordered`); handing on moves an announcement from the one to
the other and leaves the whole unchanged. Tensors are invisible in it, so one
lemma (`ComputeInOrder`) serves all of `ComputeWorker`, `ComputeMaster` and
`Output`.

Four theorems need that no worker gives up waiting for the warm-up
(`~SlowMaster`; with a slow master they are false, `ring_warmup`), that the master
and some worker compute, and that every worker has one of the layers
(`SetupAssumption`), and hold for every such layout, whatever drivers, batches and
calls:

* `MessagesAreRight`: `RightMessage`. A device finds in its socket what it is about to
  receive, although no message says what it is.
* `CachesAreAlike`: `CachesAgree`. A worker that has taken everything has the cache of
  the master, cell for cell.
* `NobodyAborts`: `AssertionsHold`, the assertion of `llama_send_meta`.
* `LayersInOrder`: the devices' steps are steps of `LayerOrder` or none, which is
  `ImplementsLayerOrder` without its fairness.

None of these is inductive alone, nor are they together: that a worker is in the
right receive depends on whether it found cells for its batch, hence on its cache,
and its cache on having taken every announcement before the batch. The invariant
`InStepAlways` has `InOrder` and two parts more:

* `SetupIs`: what the layers look like, and why `SubGraphs` is right. The devices with
  layers take turns in the order of the ring (`TurnsAre`), and the sub-graphs of each
  are all of its layers, in order, each one a whole turn (`GraphsAre`). `Owner` and
  `SubGraphs` recurse over turns and layers; that functions with their equations exist
  follows from `Recursion`, and what they give by induction over a set of numbers:
  `RoundsGrow` (every round brings a layer, so a turn is found), `NextTurn` (between
  two turns that bring layers are only forwarders), `ExtendGraphs`.
* `InStep(at, u)`: the one physical batch has passed layer `u` and is at, or on its way
  to, place `at`. Each queue has the announcements its device has not taken yet, then
  the tensors if the batch is there (`Queues`). The batch is where the next layer is,
  or before it at a forwarder (`Flight`). A worker that has not passed its last layer
  is where the master is, with its cache; one that has passed it is already where the
  master will be when the output is done (`Onward`); one that waits will have the
  master's cache when it has taken what is announced (`Waiting`, `ComesTo`: the caches
  it goes through on the way are the ones the master went through). So it finds cells
  for exactly the batches the master found cells for.

One lemma for each action (`ReceiveInStep` ... `DraftInStep`) takes `InStep(at, u)` to
`InStep(to, v)`; `PassesOn` says what becomes of the layer, and is all that
`LayersInOrder` needs. The warm-up comes when the cache is empty and has two tokens,
which find room (`WarmUpFits`, `RingAssumption`); with the clearing after it on every
device the caches are equal again.

`DevicesTyped`, `Spec => [](TypeOK /\ AtSubGraphs)`, does not need `InStep` and holds with a
slow master too: a worker that takes tensors for an announcement, or gives up
waiting, is still a device. `TypeOK` is not inductive. Its invariant `TypeInv` has
the set-up (`SetupIs`: sub-graphs are in order and do not overlap, so there are at most
as many as layers, `GraphsFit`), and for each device that its cache is `Sound`
(`KVCells_proofs`), that the next position is a number, and that a worker that computes
is at a sub-graph it has. What is on its way is bounded too: no batch has more than
`MaxInput + 1` tokens, the one more being that of the warm-up when `MaxInput` is 1, and
the first physical batch takes at least one of them.

### AgentChat_proofs
For any number of processes and calls, with failures at every step and crashes:

* `HistoryIsKept`: `Spec => []HistoryKept`, and `RecordingIsOwn`: `Spec =>
  []OwnRecording`. As long as recordings do not overlap, at most one process is
  in an audio step (`Alone`), and what it has written, heard and loaded is what
  the files hold.
* `TurnsAreKept`: `Spec => []TurnsKept`. With one process in the session
  (`OneTalker`), its memory is the stored turns, with the one being stored while
  the file is open. A process that takes its place loads nothing, since a session
  with a turn is not `Readable`, and so writes nothing: the turns stay in the file.
  That they can be loaded is false (finding 8).

### Model-checked only
* Everything under fairness: liveness is out of the prover's reach
  (`StopsAfterSignal`, `ImplementsFairBroker`, `EveryDeviceSettles`,
  `StopGoesRound`, `DecodeReturns`, `EveryoneLeaves`), and with it
  the part of
  `ImplementsLayerOrder` that asks that a batch goes on.
* The divisions of layers (`LayersAddUp`, `PlacedOnce`), whose sums and
  corrections are folds over the devices.

## 7. Not modelled

* Data races on data that the models abstract (adapter scales), a signal inside
  a critical section (`terminate` locks a mutex in a handler), the end of `main`
  after the loop stops.
* Self-Extend in `main.cpp` and the server, the draft model, embeddings and
  infill, recurrent models' caches, saving whole contexts.
* Lost connections: ZeroMQ reconnects and resends under this code, which ignores
  its errors.
* The integer program for the layers (HiGHS) and the layers on a GPU.
* Accounts and items: the template's handlers, each one database transaction; the
  e-mail's unique index, not the code, decides between two of them.
* Tensor kernels, sampling, tokenizers and grammars, and the front end: nothing
  in them is about state that two actors share.
