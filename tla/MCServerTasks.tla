---------------------------- MODULE MCServerTasks ----------------------------
(***************************************************************************)
(* Instances of ServerTasks for TLC: the sets of requests that the runs    *)
(* let the clients make.                                                   *)
(***************************************************************************)
EXTENDS ServerTasks

\* A plain completion that any slot may take; the requests below vary it.
Plain == [kind |-> "completion", n |-> 1, stream |-> FALSE, embd |-> FALSE, rerank |-> FALSE,
          slot |-> AnySlot, defect |-> "none", system_prompt |-> FALSE]

Streamed     == [Plain EXCEPT !.stream = TRUE]
Embedding    == [Plain EXCEPT !.embd = TRUE]
TwoPrompts   == [Plain EXCEPT !.n = 2]
StreamedPair == [TwoPrompts EXCEPT !.stream = TRUE]
Rerank       == [TwoPrompts EXCEPT !.embd = TRUE, !.rerank = TRUE]
Pinned(s)    == [Plain EXCEPT !.slot = s]
Rejected     == [Plain EXCEPT !.defect = "launch"]
TooLarge     == [Streamed EXCEPT !.defect = "prompt"]
NoTokens     == [Plain EXCEPT !.defect = "empty"]
Outgrows     == [Plain EXCEPT !.defect = "context"]
SystemPrompt == [Plain EXCEPT !.system_prompt = TRUE]
Metrics      == [Plain EXCEPT !.kind = "metrics"]
SlotAction(s) == [Plain EXCEPT !.kind = "slot_action", !.slot = s]
SetLora      == [Plain EXCEPT !.kind = "set_lora"]
CancelOne    == [Plain EXCEPT !.kind = "cancel"]

\* Everything a client may send, good or bad (to fill a context takes more tokens than one).
AllRequests == {Streamed, StreamedPair, Rerank, Pinned(NSlots), Rejected, TooLarge, NoTokens,
                SystemPrompt, Metrics, SlotAction(0), SetLora, CancelOne}

\* Completions that launch_slot_with_task and the loop over the prompts accept, and cancellations.
Schedulable == {Streamed, TwoPrompts, Rerank, Outgrows, SystemPrompt, CancelOne}

\* Requests that end in an answer, however they are interleaved.
Regular == {Plain, StreamedPair, Embedding, Metrics}

\* The handlers are interchangeable; no run that checks liveness uses this.
ClientSymmetry == Permutations(Clients)

=============================================================================
