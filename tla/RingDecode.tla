----------------------------- MODULE RingDecode -----------------------------
(***************************************************************************)
(* llama_decode on a ring of devices (llama.cpp).  The master announces a  *)
(* batch, or a change of the KV cache, to the next device, and that to the *)
(* one after it, up to the last worker; then the tensors of one physical   *)
(* batch at a time go round the ring, from sub-graph to sub-graph.  Both   *)
(* come through the same sockets, and a device tells them apart only by    *)
(* where it is in its code.  The master is driven by main.cpp, with its    *)
(* context shift, or by speculative.cpp, with its rejected drafts.         *)
(***************************************************************************)
EXTENDS KVCells, LayerMap

CONSTANTS
  NWorld,      \* n_world, forwarders included
  Setups,      \* the windows and numbers of layers, the drivers, and whether there is a warm-up
  NUbatch,     \* n_ubatch
  NKeep,       \* n_keep of main.cpp
  MaxInput,    \* n_batch, the largest input of main.cpp
  MaxCalls,    \* bound: calls of the master
  SlowMaster   \* whether the master may take longer to warm up than a worker waits

Ranks == 0 .. NWorld - 1

Drivers == {"main", "speculative"}

\* n_ctx is a multiple of 32 (GGML_PAD in llama_new_context_with_model): the two tokens of the
\* warm-up find room.
ASSUME RingAssumption ==
  /\ NWorld \in Nat /\ NWorld > 1 /\ Size > 1
  /\ NUbatch \in Nat \ {0} /\ NKeep \in Nat /\ MaxInput \in Nat \ {0} /\ MaxCalls \in Nat

\* The master and at least one worker compute, and every worker has some of the layers.
ASSUME SetupAssumption ==
  \A s \in Setups :
    /\ s \in [window : [Ranks -> Nat], n_layer : Nat \ {0}, driver : Drivers, warmup : BOOLEAN]
    /\ s.window[0] > 0 /\ \E r \in Ranks \ {0} : s.window[r] > 0
    /\ \A r \in Ranks \ {0} :
         s.window[r] > 0 => \E il \in 0 .. s.n_layer - 1 : ThisLayerIsMine(s.window, r, il)

VARIABLES
  setup,     \* one of Setups, with the sub-graphs of every device
  dev,       \* the devices
  log,       \* history: the announcements each device has taken, in their order
  ring,      \* ring[r]: what is on its way to device r from the one before it
  direct,    \* the master_socket of the worker with the last layer
  n_past,    \* the master's count of tokens
  calls,     \* history: the calls of the master
  stop_at    \* the device whose signal_socket the STOP reaches next; none before it is sent

vars == <<setup, dev, log, ring, direct, n_past, calls, stop_at>>

None == -1

NextRank(r) == (r + 1) % NWorld

window  == setup.window
n_layer == setup.n_layer

Forwarders == {r \in Ranks \ {0} : window[r] = 0}
Workers    == {r \in Ranks \ {0} : window[r] > 0}

\* Mutant of IsLastDev: the last rank is meant, although a forwarder may have it.
IsLastRank(r) == r = NWorld - 1

\* Mutant of IsLastDev: the device before the last one is meant.
IsBeforeLastDev(r) == \A q \in Ranks : q > NextRank(r) => window[q] = 0

\* worker_rank = n_worker - 1
IsLastDev(r) == \A q \in Ranks : q > r => window[q] = 0

Graphs(r) == setup.graphs[r]

\* A device is in recv_meta ("meta") or in recv_tensors ("tensors"); the master is between two
\* calls ("ready"), or has the last layer itself ("output").
Idle(r) ==
  [pc |-> IF r = 0 THEN "ready" ELSE IF r \in Forwarders THEN "forward" ELSE "meta",
   warm |-> setup.warmup /\ r \notin Forwarders,   \* in the decode of the warm-up
   stop |-> FALSE,        \* stop_signal is "STOP"
   sub  |-> 1,            \* the next sub-graph with layers
   left |-> 0,            \* tokens of the batch that no physical batch has had yet
   pos  |-> 0,            \* and their first position
   cache |-> EmptyCache]

Init ==
  /\ \E s \in Setups :
       setup = [window |-> s.window, n_layer |-> s.n_layer, driver |-> s.driver,
                warmup |-> s.warmup,
                graphs |-> [r \in Ranks |-> SubGraphs(s.window, s.n_layer, r)]]
  /\ dev = [r \in Ranks |-> Idle(r)]
  /\ log = [r \in Ranks |-> <<>>]
  /\ ring = [r \in Ranks |-> <<>>]
  /\ direct = <<>>
  /\ n_past = 0 /\ calls = 0 /\ stop_at = None

-----------------------------------------------------------------------------
(* Announcements                                                           *)

Rm(s, p0, p1)         == [op |-> "rm", seq |-> s, p0 |-> p0, p1 |-> p1]
Add(s, p0, p1, delta) == [op |-> "add", seq |-> s, p0 |-> p0, p1 |-> p1, delta |-> delta]
Keep(s)               == [op |-> "keep", seq |-> s]
Cp(src, dst, p0, p1)  == [op |-> "cp", src |-> src, dst |-> dst, p0 |-> p0, p1 |-> p1]
Meta(n, p0)           == [op |-> "meta", n |-> n, p0 |-> p0]

\* What is sent: an announcement, numbered for the properties, or the tensors of a physical
\* batch, of which they name the announcement, the tokens still to come and the last layer.
Announced(id, c)        == [kind |-> "announcement", id |-> id, c |-> c]
Tensors(id, left, upto) == [kind |-> "tensors", id |-> id, left |-> left, upto |-> upto]

\* Mutant of Announcements: the second one is sent before the first.
AnnouncementsSwapped(n, cs) ==
  [k \in DOMAIN cs |-> LET j == IF k <= 2 /\ Len(cs) > 1 THEN 3 - k ELSE k
                       IN  Announced(n + j, cs[j])]

Announcements(n, cs) == [k \in DOMAIN cs |-> Announced(n + k, cs[k])]

\* The log of a device that has taken the message m, which may be none that it can log.
Logged(l, m) == IF m.kind = "announcement" THEN Append(l, m) ELSE l

\* A device after an announcement: the cache is changed (kv_cache_op), or the batch is kept.
Took(d, c) ==
  [d EXCEPT !.left = IF c.op = "meta" THEN c.n ELSE @,
            !.pos = IF c.op = "meta" THEN c.p0 ELSE @,
            !.cache = CASE c.op = "rm"   -> SeqRm(@, c.seq, c.p0, c.p1)
                        [] c.op = "add"  -> SeqAdd(@, c.seq, c.p0, c.p1, c.delta)
                        [] c.op = "keep" -> SeqKeep(@, c.seq)
                        [] c.op = "cp"   -> SeqCp(@, c.src, c.dst, c.p0, c.p1)
                        [] c.op = "meta" -> @]

\* A device after several of them.
TookAll(d, cs) ==
  LET took[k \in 0 .. Len(cs)] == IF k = 0 THEN d ELSE Took(took[k - 1], cs[k])
  IN  took[Len(cs)]

-----------------------------------------------------------------------------
(* The loop over physical batches, which is the same on every device       *)

\* A physical batch gets its cells, or llama_decode returns 1.
StartUbatch(d) ==
  LET n     == IF d.left < NUbatch THEN d.left ELSE NUbatch
      batch == [k \in 1 .. n |-> [tok |-> 0, pos |-> d.pos + k - 1, seq |-> 0]]
      r     == Store(Update(d.cache, 0), batch)
  IN  [d EXCEPT !.cache = r.cache, !.left = @ - n, !.pos = @ + n, !.sub = 1,
                !.pc = IF r.ok THEN "tensors" ELSE "failed"]

\* Mutant of Returned: only the master clears its cache after the warm-up.
ReturnedMasterClears(r, d) ==
  [d EXCEPT !.warm = FALSE, !.left = 0,
            !.cache = IF d.warm /\ r = 0 THEN Cleared(@) ELSE @,
            !.pc = IF r # 0 THEN IF d.stop /\ ~d.warm THEN "left" ELSE "meta"
                   ELSE IF d.pc = "failed" /\ ~d.warm /\ setup.driver = "main" THEN "failed"
                   ELSE "ready"]

\* llama_decode is back.  After the warm-up the cache is cleared, here only, and nothing else is
\* looked at; main.cpp returns when a batch failed, speculative.cpp goes on; a worker leaves its
\* loop when it sees the STOP.
Returned(r, d) ==
  [d EXCEPT !.warm = FALSE, !.left = 0,
            !.cache = IF d.warm THEN Cleared(@) ELSE @,
            !.pc = IF r # 0 THEN IF d.stop /\ ~d.warm THEN "left" ELSE "meta"
                   ELSE IF d.pc = "failed" /\ ~d.warm /\ setup.driver = "main" THEN "failed"
                   ELSE "ready"]

NextUbatch(r, d) ==
  IF d.left = 0 THEN Returned(r, d)
  ELSE LET s == StartUbatch(d) IN IF s.pc = "failed" THEN Returned(r, s) ELSE s

\* The master's input layer is a sub-graph of its own, sent as soon as a batch has its cells.
Embedded(d, id) == IF d.pc = "tensors" THEN <<Tensors(id, d.left, -1)>> ELSE <<>>

-----------------------------------------------------------------------------
(* The master between two calls                                            *)

\* The master makes changes of the cache and decodes a batch; it announces each of them.
Call(cs) ==
  LET d == TookAll(dev[0], cs)
      e == NextUbatch(0, d)
      sent == Announcements(Len(log[0]), cs)
  IN  /\ dev[0].pc = "ready"
      /\ dev' = [dev EXCEPT ![0] = e]
      /\ log' = [log EXCEPT ![0] = @ \o [k \in DOMAIN cs |-> Announced(Len(@) + k, cs[k])]]
      /\ ring' = [ring EXCEPT ![1] = @ \o (sent \o Embedded(e, Len(log[0]) + Len(cs)))]
      /\ UNCHANGED <<setup, direct, stop_at>>

\* The batch of the warm-up is BOS and EOS.
WarmUp ==
  /\ dev[0].warm
  /\ Call(<<Meta(2, 0)>>)
  /\ UNCHANGED <<n_past, calls>>

ContextShift(n_discard) ==
  <<Rm(0, NKeep, NKeep + n_discard), Add(0, NKeep + n_discard, n_past, -n_discard)>>

\* main.cpp: a prompt, which has the tokens to keep, an input, or a token that was sampled.
\* When the context is full, half of what need not be kept is discarded.
Evaluate(n) ==
  LET full      == n_past + n >= Size
      n_discard == (n_past - NKeep) \div 2
      past      == IF full THEN n_past - n_discard ELSE n_past
  IN  /\ setup.driver = "main" /\ ~dev[0].warm
      /\ calls < MaxCalls /\ (n_past = 0 => n >= NKeep)
      /\ Call((IF full THEN ContextShift(n_discard) ELSE <<>>) \o <<Meta(n, past)>>)
      /\ n_past' = past + n /\ calls' = calls + 1

\* speculative.cpp, with one draft at a time: the tokens from position k on were rejected.
Rejected(k) == <<Rm(0, k, -1), Keep(0), Cp(0, 0, -1, -1), Keep(0)>>

\* The target evaluates the prompt but for its last token, that token, and then again and again
\* n tokens: one that it has sampled itself, which stays, and drafts.
Draft(n, k) ==
  /\ setup.driver = "speculative" /\ ~dev[0].warm
  /\ calls < MaxCalls
  /\ calls = 0 => k = 0
  /\ calls = 1 => k = n_past /\ n = 1
  /\ calls > 1 => k > Last(log[0]).c.p0
  /\ Call((IF calls < 2 THEN <<>> ELSE Rejected(k) \o <<Keep(0)>>) \o <<Meta(n, k)>>)
  /\ n_past' = k + n /\ calls' = calls + 1

\* The driver is done and calls llama_free_sockets.
Finish ==
  /\ dev[0].pc = "ready" /\ ~dev[0].warm
  /\ dev' = [dev EXCEPT ![0].pc = "stopping"]
  /\ stop_at' = 1
  /\ UNCHANGED <<setup, log, ring, direct, n_past, calls>>

-----------------------------------------------------------------------------
(* The workers and forwarders                                              *)

\* A worker takes what it believes to be an announcement and hands it on, unless it is the last.
\* Tensors look like a batch without tokens: the last worker has swallowed them, any other
\* aborts (the assertion of llama_send_meta).
ReceiveMeta(r) ==
  LET m == Head(ring[r])
      known == m.kind = "announcement"
      d == IF known THEN NextUbatch(r, Took(dev[r], m.c))
           ELSE IF IsLastDev(r) THEN Returned(r, dev[r]) ELSE [dev[r] EXCEPT !.pc = "aborted"]
  IN  /\ dev[r].pc = "meta" /\ ring[r] # <<>>
      /\ dev' = [dev EXCEPT ![r] = d]
      /\ log' = [log EXCEPT ![r] = Logged(@, m)]
      /\ ring' = [ring EXCEPT ![r] = Tail(@),
                              ![NextRank(r)] = IF IsLastDev(r) \/ ~known THEN @ ELSE Append(@, m)]
      /\ UNCHANGED <<setup, direct, n_past, calls, stop_at>>

\* llama_recv_meta gives up after a second in which nothing came.  In the main loop that is the
\* moment to see the STOP; in the warm-up the worker goes on as if it had decoded.
Timeout(r) ==
  /\ dev[r].pc = "meta" /\ ring[r] = <<>>
  /\ dev[r].stop \/ (dev[r].warm /\ SlowMaster)
  /\ dev' = [dev EXCEPT ![r] = Returned(r, @)]
  /\ UNCHANGED <<setup, log, ring, direct, n_past, calls, stop_at>>

IsToMaster(r, g) == r # 0 /\ g.last = n_layer - 1

\* What a sub-graph makes of the message it gets: the tensors of its last layer, or nothing
\* that is of any use.
Through(g, m) ==
  IF m.kind = "tensors" /\ m.upto = g.first - 1 THEN Tensors(m.id, m.left, g.last)
                                                ELSE Tensors(0, 0, None)

\* A sub-graph of a worker; after its last one the next physical batch is begun.
ComputeWorker(r) ==
  LET d   == dev[r]
      g   == Graphs(r)[d.sub]
      out == Through(g, Head(ring[r]))
      last == d.sub = Len(Graphs(r))
  IN  /\ r # 0 /\ d.pc = "tensors" /\ ring[r] # <<>>
      /\ dev' = [dev EXCEPT ![r] = IF last THEN NextUbatch(r, d) ELSE [d EXCEPT !.sub = @ + 1]]
      /\ IF IsToMaster(r, g)
           THEN direct' = Append(direct, out) /\ ring' = [ring EXCEPT ![r] = Tail(@)]
           ELSE ring' = [ring EXCEPT ![r] = Tail(@), ![NextRank(r)] = Append(@, out)] /\ UNCHANGED direct
      /\ UNCHANGED <<setup, log, n_past, calls, stop_at>>

\* A sub-graph of the master that has layers.  It keeps the last layer to itself.
ComputeMaster ==
  LET d == dev[0]
      g == Graphs(0)[d.sub]
      out == Through(g, Head(ring[0]))
      last == g.last = n_layer - 1
  IN  /\ d.pc = "tensors" /\ d.sub <= Len(Graphs(0)) /\ ring[0] # <<>>
      /\ dev' = [dev EXCEPT ![0].sub = @ + 1, ![0].pc = IF last THEN "output" ELSE @]
      /\ ring' = [ring EXCEPT ![0] = Tail(@), ![1] = IF last THEN @ ELSE Append(@, out)]
      /\ UNCHANGED <<setup, log, direct, n_past, calls, stop_at>>

\* The output layer, with what the master or a worker has computed.  Two connections lead to the
\* master's socket.
Output ==
  LET d == dev[0]
      e == NextUbatch(0, d)
  IN  /\ \/ d.pc = "output" /\ UNCHANGED direct /\ ring' = [ring EXCEPT ![1] = @ \o Embedded(e, Len(log[0]))]
         \/ /\ d.pc = "tensors" /\ d.sub > Len(Graphs(0))
            /\ \/ /\ direct # <<>> /\ direct' = Tail(direct)
                  /\ ring' = [ring EXCEPT ![1] = @ \o Embedded(e, Len(log[0]))]
               \/ /\ ring[0] # <<>> /\ UNCHANGED direct
                  /\ ring' = [ring EXCEPT ![0] = Tail(@), ![1] = @ \o Embedded(e, Len(log[0]))]
      /\ dev' = [dev EXCEPT ![0] = e]
      /\ UNCHANGED <<setup, log, n_past, calls, stop_at>>

\* llama_forward_messages
Forward(r) ==
  /\ dev[r].pc = "forward" /\ ring[r] # <<>>
  /\ log' = [log EXCEPT ![r] = Logged(@, Head(ring[r]))]
  /\ ring' = [ring EXCEPT ![r] = Tail(@), ![NextRank(r)] = Append(@, Head(ring[r]))]
  /\ UNCHANGED <<setup, dev, direct, n_past, calls, stop_at>>

\* Mutant of StopArrives: a forwarder does not hand the STOP on.
StopArrivesWorkers(r) ==
  /\ stop_at = r
  /\ stop_at' = IF r = 0 \/ r \in Forwarders THEN None ELSE NextRank(r)
  /\ dev' = [dev EXCEPT ![r].stop = TRUE,
                        ![r].pc = IF r = 0 THEN "left" ELSE IF @ = "forward" THEN "left" ELSE @]
  /\ UNCHANGED <<setup, log, ring, direct, n_past, calls>>

\* llama_free_sockets: the STOP is handed on and noted; a forwarder leaves, the master is done
\* when it is back.
StopArrives(r) ==
  /\ stop_at = r
  /\ stop_at' = IF r = 0 THEN None ELSE NextRank(r)
  /\ dev' = [dev EXCEPT ![r].stop = TRUE,
                        ![r].pc = IF r = 0 THEN "left" ELSE IF @ = "forward" THEN "left" ELSE @]
  /\ UNCHANGED <<setup, log, ring, direct, n_past, calls>>

Master == ComputeMaster \/ Output

Device(r) == ReceiveMeta(r) \/ Timeout(r) \/ ComputeWorker(r) \/ Forward(r)

Stop == \E r \in Ranks : StopArrives(r)

Next ==
  \/ WarmUp
  \/ \E n \in 1 .. MaxInput : Evaluate(n) \/ \E k \in 0 .. n_past : Draft(n, k)
  \/ Master \/ Finish \/ Stop
  \/ \E r \in Ranks \ {0} : Device(r)

Spec == Init /\ [][Next]_vars

\* What a device needs to take its next step.
MasterReady ==
  \/ dev[0].pc = "output"
  \/ /\ dev[0].pc = "tensors"
     /\ ring[0] # <<>> \/ (direct # <<>> /\ dev[0].sub > Len(Graphs(0)))

DeviceReady(r) ==
  \/ dev[r].pc \in {"meta", "tensors", "forward"} /\ ring[r] # <<>>
  \/ dev[r].pc = "meta" /\ (dev[r].stop \/ (dev[r].warm /\ SlowMaster))

\* Every device goes on with what it has begun, and what is sent arrives; nobody must use the
\* model again, or be done with it.  This is WF_vars of Master and of every Device(r), with
\* what enables them spelled out: ENABLED would compute a step in every state.
Fairness ==
  /\ []<>~MasterReady \/ []<><<Master>>_vars
  /\ \A r \in Ranks \ {0} : []<>~DeviceReady(r) \/ []<><<Device(r)>>_vars
  /\ WF_vars(Stop)

FairSpec == Spec /\ Fairness

-----------------------------------------------------------------------------
(* Properties                                                              *)

AnnouncementMsgs ==
  [kind : {"announcement"}, id : Nat \ {0},
   c : [op : {"rm"}, seq : Int, p0 : Int, p1 : Int] \cup [op : {"keep"}, seq : Int]
         \cup [op : {"add"}, seq : Int, p0 : Int, p1 : Int, delta : Int]
         \cup [op : {"cp"}, src : Int, dst : Int, p0 : Int, p1 : Int]
         \cup [op : {"meta"}, n : Nat \ {0}, p0 : Nat]]

TensorMsgs == [kind : {"tensors"}, id : Nat, left : Nat, upto : Int]

\* The type of every variable.
TypeOK ==
  /\ \A r \in Ranks :
       /\ dev[r].pc \in {"ready", "output", "failed", "stopping", "forward", "meta", "tensors",
                        "aborted", "left"}
       /\ dev[r].warm \in BOOLEAN /\ dev[r].stop \in BOOLEAN
       /\ dev[r].sub \in 1 .. n_layer + 1 /\ dev[r].left \in 0 .. MaxInput
       /\ dev[r].cache.used = Cardinality(Used(dev[r].cache.cells))
       /\ log[r] \in Seq(AnnouncementMsgs)
       /\ ring[r] \in Seq(AnnouncementMsgs \cup TensorMsgs)
  /\ direct \in Seq(TensorMsgs)
  /\ n_past \in Nat /\ calls \in 0 .. MaxCalls /\ stop_at \in Ranks \cup {None}

\* Whatever happens to the tensors, every device takes the changes of the cache and the batches
\* in the order in which the master made them, each at most once and only after the device
\* before it (sync_meta through one socket after the other).
AppliedInOrder ==
  \A r \in Ranks \ {0} :
    /\ \A i, j \in DOMAIN log[r] : i < j => log[r][i].id < log[r][j].id
    /\ \A i \in DOMAIN log[r] :
         /\ log[r][i].id \in DOMAIN log[0] /\ log[0][log[r][i].id] = log[r][i]
         /\ \E j \in DOMAIN log[r - 1] : log[r - 1][j] = log[r][i]

\* A device tells meta data and tensors apart by where it is in its code only: what it finds in
\* its socket is always the next announcement, or the tensors of the physical batch it is at,
\* computed up to the layer before its own; and the master finds nothing between two calls.
RightMessage ==
  /\ \A r \in Ranks \ {0} :
       LET m == Head(ring[r]) IN
       /\ dev[r].pc = "meta" /\ ring[r] # <<>>
            => m.kind = "announcement" /\ m.id = Len(log[r]) + 1
       /\ dev[r].pc = "tensors" /\ ring[r] # <<>>
            => m = Tensors(Len(log[r]), dev[r].left, Graphs(r)[dev[r].sub].first - 1)
  /\ LET g == Graphs(0)
         upto == IF dev[0].sub > Len(g) THEN n_layer - 1 ELSE g[dev[0].sub].first - 1
     IN  ring[0] \o direct # <<>>
           => /\ dev[0].pc = "tensors"
              /\ ring[0] \o direct = <<Tensors(Len(log[0]), dev[0].left, upto)>>

\* A worker that has taken everything the master has announced has the cache of the master, cell
\* for cell: its next batch will find the same cells, or none.
CachesAgree ==
  \A r \in Workers :
    dev[0].pc = "ready" /\ dev[r].pc = "meta" /\ log[r] = log[0] /\ dev[r].warm = dev[0].warm
      => dev[r].cache = dev[0].cache

\* GGML_ASSERT(meta->n_tokens != 0), llama_send_meta.
AssertionsHold == \A r \in Ranks : dev[r].pc # "aborted"

\* llama_decode comes back to the master.
DecodeReturns == dev[0].pc \in {"tensors", "output"} ~> dev[0].pc \in {"ready", "failed"}

\* When the master is done, every device leaves.
EveryoneLeaves == dev[0].pc = "stopping" ~> \A r \in Ranks : dev[r].pc = "left"

\* The tensors on their way are those of one physical batch, which passes the layers in order.
InFlight ==
  {m \in UNION {ToSet(q) : q \in {ring[r] : r \in Ranks} \cup {direct}} : m.kind = "tensors"}

Passed ==
  IF dev[0].pc = "output" THEN n_layer - 1
  ELSE IF InFlight = {} THEN -1 ELSE (CHOOSE m \in InFlight : TRUE).upto

Order == INSTANCE LayerOrder
           WITH n_layer <- setup.n_layer, upto <- Passed, busy <- dev[0].pc \in {"tensors", "output"}

\* On however many devices the layers are, a decode computes them as one device would.
ImplementsLayerOrder == Order!Spec

=============================================================================
