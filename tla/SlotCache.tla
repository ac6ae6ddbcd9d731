----------------------------- MODULE SlotCache -----------------------------
(***************************************************************************)
(* What the server knows of the KV cache (server.cpp): every slot remembers*)
(* in cache_tokens which tokens it has computed, so that the next prompt   *)
(* with the same beginning need not compute them again, and every change   *)
(* of the master's cache is sent to the workers, whose sequence ids are    *)
(* one lower.  Requests are completions; the main thread is the only one   *)
(* that gets here, so update_slots is two steps: the batch is built, and   *)
(* decoded chunk by chunk.                                                 *)
(***************************************************************************)
EXTENDS KVCells

CONSTANTS
  NSlots,         \* params.n_parallel; every slot has its part of the Size cells
  NCtx,           \* server_slot::n_ctx
  NBatch,         \* llama_n_batch
  NUbatch,        \* llama_n_ubatch
  AddBos,         \* add_bos_token: 1 or 0
  NPredict,       \* n_predict of every request
  Requests,       \* [prompt, cache_prompt, n_keep, n_discard]; a negative n_discard is left out
  Systems,        \* the system prompts a request may bring, tokenized
  Sampled,        \* the tokens that the sampler may return
  InvalidToken,   \* a token id outside the vocabulary
  SlotActions,    \* the kinds of slot actions: a subset of {"save", "restore", "erase"}
  MaxTasks        \* bound: requests and slot actions

Completions == [prompt : Seq(Int), cache_prompt : BOOLEAN, n_keep : Int, n_discard : Nat]

ASSUME SlotAssumption ==
  /\ NSlots \in Nat \ {0} /\ NCtx \in Nat /\ NCtx > 4 /\ NBatch \in Nat \ {0}
  /\ NUbatch \in 1 .. NBatch /\ AddBos \in {0, 1} /\ MaxTasks \in Nat /\ NPredict \in Nat \ {0}
  /\ NSlots * NCtx <= Size
  /\ Requests \subseteq Completions /\ Nothing \notin Completions
  /\ Sampled \subseteq Int /\ Systems \subseteq Seq(Int) /\ Nothing \notin Seq(Int)

Slots == 0 .. NSlots - 1

VARIABLES
  slot,           \* server_slot, what matters here
  kv,             \* the master's cache; the sequence of slot s is s + 1, of the system prompt 0
  wkv,            \* a worker's cache; the sequence of slot s is s
  system,         \* [prompt, tokens, need_update]: system_prompt, _tokens and _need_update
  batch,          \* server_context::batch
  view,           \* [i, n_batch]: the loop over the chunks of the batch
  ctx_shift,      \* params.ctx_shift
  file,           \* the last slot that was saved: [cells, tokens]
  clean_kv_cache, \* server_context::clean_kv_cache
  n_tasks,        \* bound: the tasks so far
  master_only,    \* history: a slot action has changed the master's cache alone
  wiped           \* history: the cache was cleared when some slot had tokens in it

cleaning == <<clean_kv_cache, wiped>>
vars == <<slot, kv, wkv, system, batch, view, ctx_shift, file, n_tasks, master_only, cleaning>>

NoView == [i |-> -1, n_batch |-> 0]
Fill   == 0    \* what vector::resize appends to the tokens

Idle == [state |-> "idle", task |-> Nothing, prompt |-> <<>>, n_past |-> 0, cache_tokens |-> <<>>,
         sampled |-> Fill, i_batch |-> -1, n_decoded |-> 0]

Init ==
  /\ slot = [s \in Slots |-> Idle]
  /\ kv = EmptyCache /\ wkv = EmptyCache
  /\ system = [prompt |-> <<>>, tokens |-> <<>>, need_update |-> FALSE]
  /\ batch = <<>> /\ view = NoView
  /\ ctx_shift \in BOOLEAN
  /\ file = Nothing
  /\ clean_kv_cache = TRUE
  /\ n_tasks = 0 /\ master_only = FALSE /\ wiped = FALSE

-----------------------------------------------------------------------------
(* The two caches                                                          *)

\* What the operators below pass on: the slots, both caches and the batch.
World == [slot |-> slot, kv |-> kv, wkv |-> wkv, batch |-> batch]

\* Mutant of RmBoth: the removal starts one position late.
RmBothLate(w, s, p0, p1) ==
  [w EXCEPT !.kv = SeqRm(@, s + 1, p0 + 1, p1), !.wkv = SeqRm(@, s, p0 + 1, p1)]

\* Mutant of AddBoth: the workers are not told.
AddBothMaster(w, s, p0, p1, delta) == [w EXCEPT !.kv = SeqAdd(@, s + 1, p0, p1, delta)]

\* A command for the master's sequence of slot s and its message to the workers.
RmBoth(w, s, p0, p1) ==
  [w EXCEPT !.kv = SeqRm(@, s + 1, p0, p1), !.wkv = SeqRm(@, s, p0, p1)]

AddBoth(w, s, p0, p1, delta) ==
  [w EXCEPT !.kv = SeqAdd(@, s + 1, p0, p1, delta), !.wkv = SeqAdd(@, s, p0, p1, delta)]

ClearBoth(w) == [w EXCEPT !.kv = Cleared(@), !.wkv = Cleared(@)]

\* llama_decode on one device: the physical batches one after the other, until one finds no
\* slot; what was stored before stays.
StoreAll(c, tokens) ==
  LET n == (Len(tokens) + NUbatch - 1) \div NUbatch
      part(k) == SubSeq(tokens, (k - 1) * NUbatch + 1, Min({k * NUbatch, Len(tokens)}))
      after[k \in 0 .. n] == IF k = 0 THEN [ok |-> TRUE, cache |-> c]
                             ELSE IF ~after[k - 1].ok THEN after[k - 1]
                             ELSE Store(Update(after[k - 1].cache, 1), part(k))
  IN  after[n]

\* llama_decode on the master, and on a worker that is sent the batch with its sequence ids
\* aligned; an invalid token is found before anything is sent or stored.
DecodeBoth(w, tokens) ==
  LET aligned == [k \in DOMAIN tokens |-> [tokens[k] EXCEPT !.seq = @ - 1]]
      m == StoreAll(w.kv, tokens)
  IN  IF \E k \in DOMAIN tokens : tokens[k].tok = InvalidToken THEN [ret |-> -1, w |-> w]
      ELSE [ret |-> IF m.ok THEN 0 ELSE 1,
            w   |-> [w EXCEPT !.kv = m.cache, !.wkv = StoreAll(@, aligned).cache]]

-----------------------------------------------------------------------------
(* Tasks, between two runs of update_slots                                 *)

Processing(s) == slot[s].state # "idle"
Release(sl)   == [sl EXCEPT !.state = "idle"]
NewTask       == view = NoView /\ n_tasks < MaxTasks /\ n_tasks' = n_tasks + 1

\* A completion is launched on an idle slot; one with a system prompt releases all the others.
Launch(s, r, sys) ==
  /\ NewTask /\ ~Processing(s)
  /\ slot' = [t \in Slots |->
                IF t = s THEN [slot[s] EXCEPT !.state = "prompt", !.task = r, !.prompt = <<>>,
                                              !.n_past = 0]
                ELSE IF sys = Nothing THEN slot[t] ELSE [Release(slot[t]) EXCEPT !.n_past = 0]]
  /\ system' = IF sys = Nothing THEN system
                                ELSE [system EXCEPT !.prompt = sys, !.need_update = TRUE]
  /\ UNCHANGED <<kv, wkv, batch, view, ctx_shift, file, master_only, cleaning>>

Cancel(s) ==
  /\ view = NoView /\ Processing(s)
  /\ slot' = [slot EXCEPT ![s] = Release(@)]
  /\ UNCHANGED <<kv, wkv, system, batch, view, ctx_shift, file, n_tasks, master_only, cleaning>>

\* SLOT_SAVE: the cells of the sequence in the order they lie in, and the tokens.
Save(s) ==
  LET ids    == {i \in CellIds : s + 1 \in kv.cells[i].seqs}
      nth(k) == CHOOSE i \in ids : Cardinality({j \in ids : j < i}) = k - 1
  IN  /\ "save" \in SlotActions /\ NewTask /\ ~Processing(s)
      /\ file' = [cells  |-> [k \in 1 .. Cardinality(ids) |-> kv.cells[nth(k)]],
                  tokens |-> slot[s].cache_tokens]
      /\ UNCHANGED <<slot, kv, wkv, system, batch, view, ctx_shift, master_only, cleaning>>

\* The cache of a sequence that is restored, once it has been emptied: the saved cells, if they
\* find room in a row.
Restored(c, s, g) ==
  LET n == Len(g.cells)
      f == FindSlot(c, n)
      saved(i) == g.cells[i - f.head + 1]
  IN  IF ~f.ok THEN [c EXCEPT !.head = f.head]
      ELSE [c EXCEPT !.head = f.head, !.used = @ + n,
                     !.cells = [i \in CellIds |->
                                  IF i - f.head \in 0 .. n - 1
                                    THEN [saved(i) EXCEPT !.seqs = {s + 1}, !.delta = c.cells[i].delta]
                                    ELSE c.cells[i]]]

\* SLOT_RESTORE: the slot is left empty when there is no room.  No other device is told.  A file
\* without cells ends the process (RestoreAsserts).
Restore(s) ==
  LET c == SeqRm(kv, s + 1, -1, -1)
  IN  /\ "restore" \in SlotActions /\ file # Nothing /\ Len(file.cells) > 0 /\ NewTask /\ ~Processing(s)
      /\ kv' = Restored(c, s, file)
      /\ slot' = [slot EXCEPT ![s].cache_tokens = IF FindSlot(c, Len(file.cells)).ok THEN file.tokens
                                                                                      ELSE <<>>]
      /\ master_only' = TRUE
      /\ UNCHANGED <<wkv, system, batch, view, ctx_shift, file, cleaning>>

\* SLOT_ERASE: no other device is told.
Erase(s) ==
  /\ "erase" \in SlotActions /\ NewTask /\ ~Processing(s)
  /\ kv' = SeqRm(kv, s + 1, -1, -1)
  /\ slot' = [slot EXCEPT ![s].cache_tokens = <<>>]
  /\ master_only' = (master_only \/ kv' # kv)
  /\ UNCHANGED <<wkv, system, batch, view, ctx_shift, file, cleaning>>

-----------------------------------------------------------------------------
(* update_slots: building the batch                                        *)

n_system == Len(system.tokens)

\* system_prompt_update: everything is cleared, the prompt computed for sequence 0 and given to
\* every slot.  The workers are told to copy 0 to i - 1, although their sequence is -1.
SystemUpdate(w) ==
  LET n == Len(system.prompt)
      chunk(k) == [j \in 1 .. Min({NBatch, n - k}) |->
                     [tok |-> system.prompt[k + j], pos |-> k + j - 1, seq |-> 0]]
      compute(r, k) == IF r.ret # 0 \/ k % NBatch # 0 THEN r ELSE DecodeBoth(r.w, chunk(k))
      r == FoldLeft(compute, [ret |-> 0, w |-> ClearBoth(w)], [k \in 1 .. n |-> k - 1])
      copy(x, i) == [x EXCEPT !.kv  = SeqCp(@, 0, i, -1, -1),
                              !.wkv = SeqCp(@, 0, i - 1, -1, -1)]
  IN  [ok |-> r.ret = 0,
       w  |-> IF r.ret = 0 THEN FoldLeft(copy, r.w, [i \in 1 .. NSlots |-> i]) ELSE r.w]

\* Mutant of Shift: the context is not shifted.
ShiftNever(w, s, sys) == w

\* A slot whose context is full drops some of its tokens after n_keep and moves the rest up;
\* it is released when the context must not be shifted.
Shift(w, s, sys) ==
  LET sl        == w.slot[s]
      end       == sys + sl.n_past
      n_keep    == sl.task.n_keep + AddBos
      n_discard == IF sl.task.n_discard # 0 THEN sl.task.n_discard ELSE (end - n_keep) \div 2
      moved     == [k \in 1 .. Len(sl.cache_tokens) - n_discard |->
                      sl.cache_tokens[IF k > n_keep THEN k + n_discard ELSE k]]
  IN  IF sl.state = "idle" \/ end < NCtx - 1 THEN w
      ELSE IF ~ctx_shift THEN [w EXCEPT !.slot[s] = Release(@)]
      ELSE [AddBoth(RmBoth(w, s, n_keep, n_keep + n_discard), s, n_keep + n_discard, end, -n_discard)
              EXCEPT !.slot[s].n_past = @ - n_discard,
                     !.slot[s].cache_tokens = IF sl.task.cache_prompt THEN moved ELSE @]

\* The token that was sampled last joins the batch.
AddSampled(w, s, sys) ==
  LET sl == w.slot[s]
  IN  IF sl.state # "generating" THEN w
      ELSE [w EXCEPT !.batch = Append(@, [tok |-> sl.sampled, pos |-> sys + sl.n_past, seq |-> s + 1]),
                     !.slot[s] = [sl EXCEPT !.i_batch = Len(w.batch),
                                            !.n_past = @ + 1,
                                            !.cache_tokens = IF sl.task.cache_prompt
                                                               THEN Append(@, sl.sampled) ELSE @]]

\* Mutant of Truncated: a block too many is kept.
TruncatedTwoBlocks(prompt, n_keep) ==
  LET block  == (NCtx - n_keep) \div 2
      erased == (Len(prompt) - n_keep - 2 * block) \div block
  IN  SubSeq(prompt, 1, n_keep) \o SubSeq(prompt, n_keep + erased * block + 1, Len(prompt))

\* A prompt that does not fit is cut after its first n_keep tokens, in blocks.
Truncated(prompt, n_keep) ==
  LET block  == (NCtx - n_keep) \div 2
      erased == (Len(prompt) - n_keep - block) \div block
  IN  SubSeq(prompt, 1, n_keep) \o SubSeq(prompt, n_keep + erased * block + 1, Len(prompt))

\* common_part: the length of the common beginning.
CommonPart(a, b) == Max({n \in 0 .. Min({Len(a), Len(b)}) : \A k \in 1 .. n : a[k] = b[k]})

\* The prompt of a slot, and how much of it has been computed already; at least one token must
\* be computed.  An empty prompt, or one that is too long, releases the slot.
Tokenized(sl, sys) ==
  LET given  == sl.task.prompt
      n_keep == Min({NCtx - 4, IF sl.task.n_keep < 0 THEN sys + Len(given) + 3 ELSE sl.task.n_keep})
      prompt == IF Len(given) >= NCtx THEN Truncated(given, n_keep) ELSE given
      common == IF sl.task.cache_prompt THEN CommonPart(sl.cache_tokens, prompt) ELSE 0
  IN  IF given = <<>> \/ (~ctx_shift /\ sys + Len(given) >= NCtx) THEN Release(sl)
      ELSE [sl EXCEPT !.prompt = prompt, !.task.n_keep = n_keep,
                      !.n_past = IF common = Len(prompt) THEN common - 1 ELSE common]

\* Mutant of Resize: what follows the common part stays.
ResizeNever(tokens, n) == tokens

\* vector::resize.
Resize(tokens, n) == [k \in 1 .. n |-> IF k <= Len(tokens) THEN tokens[k] ELSE Fill]

\* The next part of a prompt joins the batch, and what is cached behind it is removed.  The
\* first slot is looked at even when the batch is full.
AddPrompt(w, s, sys) ==
  LET sl  == IF w.slot[s].prompt = <<>> THEN Tokenized(w.slot[s], sys) ELSE w.slot[s]
      p0  == sys + sl.n_past
      n   == Max({0, Min({Len(sl.prompt) - sl.n_past, NBatch - Len(w.batch)})})
      new == SubSeq(sl.prompt, sl.n_past + 1, sl.n_past + n)
      done == sl.n_past + n = Len(sl.prompt)
  IN  IF w.slot[s].state # "prompt" \/ (s > 0 /\ Len(w.batch) >= NBatch) THEN w
      ELSE IF sl.state = "idle" THEN [w EXCEPT !.slot[s] = sl]
      ELSE [RmBoth(w, s, p0, -1) EXCEPT
              !.batch = @ \o [k \in 1 .. n |-> [tok |-> new[k], pos |-> p0 + k - 1, seq |-> s + 1]],
              !.slot[s] = [sl EXCEPT
                !.n_past       = @ + n,
                !.cache_tokens = Resize(@, sl.n_past) \o IF sl.task.cache_prompt THEN new ELSE <<>>,
                !.state        = IF done THEN "done" ELSE @,
                !.i_batch      = IF done THEN Len(w.batch) + n - 1 ELSE @,
                !.n_decoded    = IF done THEN 0 ELSE @]]

\* Every slot in turn.
InTurn(Op(_, _, _), w, sys) ==
  LET after[k \in 0 .. NSlots] == IF k = 0 THEN w ELSE Op(after[k - 1], k - 1, sys)
  IN  after[NSlots]

AllIdle == \A s \in Slots : ~Processing(s)

\* A run of update_slots that finds a slot at work builds a batch.
BeginUpdate ==
  LET u   == IF system.need_update THEN SystemUpdate(World) ELSE [ok |-> TRUE, w |-> World]
      sys == IF system.need_update THEN Len(system.prompt) ELSE n_system
      w   == InTurn(AddPrompt, InTurn(AddSampled, InTurn(Shift, [u.w EXCEPT !.batch = <<>>], sys), sys),
                    sys)
  IN  /\ view = NoView /\ ~AllIdle
      /\ slot' = w.slot /\ kv' = w.kv /\ wkv' = w.wkv /\ batch' = w.batch
      /\ view' = IF w.batch = <<>> THEN NoView ELSE [i |-> 0, n_batch |-> NBatch]
      /\ system' = IF system.need_update THEN [system EXCEPT !.tokens = system.prompt,
                                                             !.need_update = ~u.ok]
                                         ELSE system
      /\ clean_kv_cache' = (clean_kv_cache /\ ~system.need_update)
      /\ UNCHANGED <<ctx_shift, file, n_tasks, master_only, wiped>>

\* One that finds all slots idle clears the cache, unless it has been cleared before or there is
\* a system prompt; the slots keep their tokens.
IdleUpdate ==
  LET u     == IF system.need_update THEN SystemUpdate(World) ELSE [ok |-> TRUE, w |-> World]
      clean == clean_kv_cache /\ ~system.need_update /\ system.prompt = <<>>
      w     == IF clean THEN ClearBoth(u.w) ELSE u.w
  IN  /\ view = NoView /\ AllIdle
      /\ kv' = w.kv /\ wkv' = w.wkv
      /\ system' = IF system.need_update THEN [system EXCEPT !.tokens = system.prompt,
                                                             !.need_update = ~u.ok]
                                         ELSE system
      /\ clean_kv_cache' = (clean_kv_cache /\ ~system.need_update /\ ~clean)
      /\ wiped' = (wiped \/ (clean /\ \E s \in Slots : slot[s].cache_tokens # <<>>))
      /\ UNCHANGED <<slot, batch, view, ctx_shift, file, n_tasks, master_only>>

-----------------------------------------------------------------------------
(* update_slots: decoding a chunk of the batch                             *)

Chunk == SubSeq(batch, view.i + 1, Min({view.i + view.n_batch, Len(batch)}))

\* The slots whose logits are in the chunk.
Ready == {s \in Slots : /\ slot[s].state \in {"done", "generating"}
                        /\ slot[s].i_batch \in view.i .. view.i + Len(Chunk) - 1}

\* A token is sampled; the slot is released at a stop word, at the end, or at its limit.
Sample(sl, tok, stop) ==
  [sl EXCEPT !.state = IF stop \/ sl.n_decoded + 1 >= Min({NPredict, NCtx}) THEN "idle" ELSE "generating",
             !.sampled = tok, !.i_batch = -1, !.n_decoded = @ + 1]

\* A chunk is decoded.  Without room it is tried again in halves; a single token without room,
\* and any other error, fails every request.
DecodeChunk ==
  LET r == DecodeBoth(World, Chunk)
  IN  /\ view # NoView
      /\ kv' = r.w.kv /\ wkv' = r.w.wkv
      /\ IF r.ret < 0 \/ (r.ret # 0 /\ view.n_batch = 1)
           THEN slot' = [s \in Slots |-> Release(slot[s])] /\ view' = NoView
         ELSE IF r.ret # 0
           THEN view' = [view EXCEPT !.n_batch = @ \div 2] /\ UNCHANGED slot
         ELSE /\ view' = IF view.i + view.n_batch >= Len(batch) THEN NoView
                                                                ELSE [view EXCEPT !.i = @ + view.n_batch]
              /\ \E toks \in [Ready -> Sampled], stops \in SUBSET Ready :
                   slot' = [s \in Slots |-> IF s \in Ready THEN Sample(slot[s], toks[s], s \in stops)
                                                           ELSE slot[s]]
      /\ batch' = IF view' = NoView THEN <<>> ELSE batch
      /\ UNCHANGED <<system, ctx_shift, file, n_tasks, master_only, cleaning>>

Next ==
  \/ \E s \in Slots :
       \/ \E r \in Requests, sys \in Systems \cup {Nothing} : Launch(s, r, sys)
       \/ Cancel(s) \/ Save(s) \/ Restore(s) \/ Erase(s)
  \/ BeginUpdate \/ IdleUpdate \/ DecodeChunk

Spec == Init /\ [][Next]_vars

-----------------------------------------------------------------------------
(* Properties                                                              *)

\* The slots and the loop over the batch keep their types, and no prompt and no slot outgrows
\* the context of a slot.
TypeOK ==
  /\ \A s \in Slots :
       /\ slot[s].state \in {"idle", "prompt", "done", "generating"}
       /\ slot[s].state # "idle" => slot[s].task # Nothing
       /\ Len(slot[s].prompt) < NCtx /\ slot[s].n_past \in 0 .. NCtx - 1
       /\ slot[s].state \in {"done", "generating"} => slot[s].i_batch \in -1 .. Len(batch) - 1
       /\ slot[s].n_decoded \in 0 .. NPredict
  /\ view = NoView \/ (view.i \in 0 .. Len(batch) - 1 /\ view.n_batch \in 1 .. NBatch)

Cells(c, q) == {c.cells[i] : i \in {j \in CellIds : q \in c.cells[j].seqs}}

\* What a slot believes to have computed is in the cache, at its place and rotated to it, so
\* that a prompt with the same beginning may start behind it.
TokensStored ==
  view = NoView =>
    \A s \in Slots :
      LET own == Cells(kv, s + 1)
      IN  \A k \in DOMAIN slot[s].cache_tokens :
            (\A j \in 1 .. k : slot[s].cache_tokens[j] # Fill) =>
               \E c \in own : /\ c.pos = n_system + k - 1 /\ c.tok = slot[s].cache_tokens[k]
                              /\ c.rot + c.delta = c.pos

\* The same, as long as the idle server has not cleared the cache under its slots
\* (update_slots, clean_kv_cache).
CacheTokensStored == ~wiped => TokensStored

\* The cache holds every position of a slot once and without a gap, as many as n_past says,
\* under the same condition.
SlotPositions ==
  ~wiped /\ view = NoView =>
    \A s \in Slots :
      LET ids == {i \in CellIds : s + 1 \in kv.cells[i].seqs}
      IN  /\ {kv.cells[i].pos : i \in ids} = 0 .. Cardinality(ids) - 1
          /\ Processing(s) /\ slot[s].prompt # <<>> => Cardinality(ids) = n_system + slot[s].n_past

\* "we should never get here, because generation should already stopped in process_token()"
\* (update_slots): with context shift off, no slot at work has a full context.
StoppedBefore ==
  view = NoView /\ ~ctx_shift => \A s \in Slots : Processing(s) => n_system + slot[s].n_past < NCtx - 1

\* What a slot was saved with can be restored to any slot: behind a search that succeeds, the
\* cell at the head is of the sequence (the assertions of read_kv_cache_meta).
RestoreAsserts ==
  file # Nothing =>
    \A s \in Slots :
      LET c == SeqRm(kv, s + 1, -1, -1)
          d == Restored(c, s, file)
      IN  FindSlot(c, Len(file.cells)).ok => d.head \in CellIds /\ s + 1 \in d.cells[d.head].seqs

\* With a context per slot, the batch always finds room, in single tokens at the worst: no
\* request fails for want of cache.
NeverFull ==
  view # NoView /\ view.n_batch = 1 => DecodeBoth(World, Chunk).ret # 1

\* Every worker attends to the same tokens as the master, as long as all that changed the
\* master's cache was sent.
WorkerAgrees ==
  ~master_only => \A s \in Slots :
    {[pos |-> c.pos, tok |-> c.tok, rot |-> c.rot + c.delta] : c \in Cells(kv, s + 1)} =
    {[pos |-> c.pos, tok |-> c.tok, rot |-> c.rot + c.delta] : c \in Cells(wkv, s)}

=============================================================================
