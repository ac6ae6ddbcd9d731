------------------------------ MODULE LayerMap ------------------------------
(***************************************************************************)
(* Which device computes which layers (llama.cpp).  The devices take turns *)
(* in the order 1, 2, ..., n_world - 1, 0; at each turn a device takes as  *)
(* many layers as its window has.  Windows are functions from ranks.       *)
(***************************************************************************)
EXTENDS Integers, Sequences, FiniteSets, SequencesExt, FiniteSetsExt

World(window) == Cardinality(DOMAIN window)

\* The devices take turns from rank 1 on; the layer belongs to the one whose turn brings the
\* layers beyond it.  Some window must have a layer, or the turns go on for ever.
Owner(window, il) ==
  LET cumulative_layers[k \in Nat] ==
        IF k = 0 THEN 0 ELSE cumulative_layers[k - 1] + window[k % World(window)]
      turn == CHOOSE k \in 1 .. World(window) * (il + 1) :
                cumulative_layers[k - 1] <= il /\ il < cumulative_layers[k]
  IN  turn % World(window)

ThisLayerIsMine(window, r, il) == Owner(window, il) = r

Cycle(window) == MapThenSumSet(LAMBDA r : window[r], DOMAIN window)

\* The layers of a cycle that come before those of device r.
Before(window, r) == MapThenSumSet(LAMBDA q : window[q], 1 .. (r - 1) % World(window))

\* Mutant of MapLayerToLocalId: the layers of earlier cycles are forgotten.
MapLayerToLocalIdInCycle(window, r, il) ==
  IF ThisLayerIsMine(window, r, il) THEN (il % Cycle(window)) - Before(window, r) ELSE -1

\* Where a device keeps the tensors and the KV cells of one of its layers.
MapLayerToLocalId(window, r, il) ==
  IF ThisLayerIsMine(window, r, il)
    THEN (il % Cycle(window)) - Before(window, r) + (il \div Cycle(window)) * window[r] ELSE -1

\* Which of its sub-graphs a device puts a layer in; the master's first is the input layer.
MapLayerToSubgfId(window, r, il) ==
  IF ThisLayerIsMine(window, r, il)
    THEN il \div Cycle(window) + (IF r = 0 THEN 1 ELSE 0) ELSE -1

\* Mutant of SubGraphs: every layer is a sub-graph of its own.
SubGraphsByLayer(window, n_layer, r) ==
  LET mine == SelectSeq([k \in 1 .. n_layer |-> k - 1], LAMBDA il : ThisLayerIsMine(window, r, il))
  IN  [k \in DOMAIN mine |-> [first |-> mine[k], last |-> mine[k]]]

\* The sub-graphs of build_llama that hold layers, in their order: one for every run of
\* neighbouring layers of the device.
SubGraphs(window, n_layer, r) ==
  LET extend(graphs, il) ==
        IF ~ThisLayerIsMine(window, r, il) THEN graphs
        ELSE IF graphs # <<>> /\ Last(graphs).last = il - 1
          THEN [graphs EXCEPT ![Len(graphs)].last = il]
        ELSE Append(graphs, [first |-> il, last |-> il])
      built[il \in 0 .. n_layer] == IF il = 0 THEN <<>> ELSE extend(built[il - 1], il - 1)
  IN  built[n_layer]

=============================================================================
