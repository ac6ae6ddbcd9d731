----------------------------- MODULE LayerOrder -----------------------------
(***************************************************************************)
(* What a decode promises, on however many devices it runs: a physical     *)
(* batch passes through the layers in their order, each of them once, and  *)
(* only then the output is computed and the next batch may start.          *)
(***************************************************************************)
EXTENDS Integers

VARIABLES
  n_layer,   \* the layers of the model
  upto,      \* the last layer the batch has passed, -1 for its embeddings
  busy       \* a batch is being computed

vars == <<n_layer, upto, busy>>

Init == n_layer \in Nat /\ upto = -1 /\ busy = FALSE

Embed == ~busy /\ busy' = TRUE /\ UNCHANGED <<n_layer, upto>>

Layers ==
  /\ busy
  /\ upto' \in upto + 1 .. n_layer - 1
  /\ UNCHANGED <<n_layer, busy>>

Output ==
  /\ busy /\ upto = n_layer - 1
  /\ upto' = -1 /\ busy' \in BOOLEAN
  /\ UNCHANGED n_layer

Next == Embed \/ Layers \/ Output

Spec == Init /\ [][Next]_vars /\ WF_vars(Layers \/ Output)

=============================================================================
