---------------------------- MODULE LayerAssign ----------------------------
(***************************************************************************)
(* How many layers each device computes at a time (common.cpp): either the *)
(* user says so, or the layers are divided by the memory of the devices,   *)
(* those that get one layer are sent away and the rest is divided again.   *)
(* This is the division of a build without the HiGHS solver.               *)
(***************************************************************************)
EXTENDS LayerMap, Functions

CONSTANTS
  NWorld,      \* n_world
  Layers,      \* the values of n_layer
  MemBudgets,  \* the memory a device may have, in some unit
  MaxWindow,   \* bound: the largest window of the user
  U32          \* 2^32, or less: n_layer_window is unsigned

ASSUME AssignAssumption ==
  /\ NWorld \in Nat /\ NWorld > 1 /\ Layers \subseteq Nat \ {0} /\ MemBudgets \subseteq Nat \ {0}
  /\ MaxWindow \in Nat \ {0} /\ U32 \in Nat /\ \A n \in Layers : n + MaxWindow < U32

Ranks == 0 .. NWorld - 1

VARIABLES
  n_layer, mem_budget,
  auto,            \* auto_schedule
  devices,         \* dev_infos_temp: the ranks of the devices that are left
  w,               \* the layers of each of them
  n_layer_window,  \* the windows, in the end, by rank
  pc

vars == <<n_layer, mem_budget, auto, devices, w, n_layer_window, pc>>

Total(s) == FoldLeft(+, 0, s)

\* The first place of the largest, and of the smallest, as max_element and min_element find it.
MaxElement(s) == Min({i \in DOMAIN s : \A j \in DOMAIN s : s[j] <= s[i]})
MinElement(s) == Min({i \in DOMAIN s : \A j \in DOMAIN s : s[j] >= s[i]})

Init ==
  /\ n_layer \in Layers
  /\ mem_budget \in [Ranks -> MemBudgets]
  /\ auto \in BOOLEAN
  /\ devices = [i \in 1 .. NWorld |-> i - 1]
  /\ w = <<>>
  /\ n_layer_window = [r \in Ranks |-> 0]
  /\ pc = IF auto THEN "assign" ELSE "manual"

-----------------------------------------------------------------------------
(* assign_layers_to_device                                                 *)

\* In proportion to the memory, rounded to the nearest, halves up.
Proportional(mem) ==
  [m \in DOMAIN mem |-> (2 * mem[m] * n_layer + Total(mem)) \div (2 * Total(mem))]

\* A device without a layer gets one of those of the device with most, if that has two.
NoZero(s) ==
  LET give(t, m) ==
        LET u == [t EXCEPT ![m] = 1]
            i == MaxElement(u)
        IN  IF t[m] # 0 THEN t ELSE IF u[i] > 1 THEN [u EXCEPT ![i] = @ - 1] ELSE u
  IN  FoldLeft(give, s, [m \in DOMAIN s |-> m])

\* Mutant of Adjusted: only layers that are missing are given out.
AdjustedUp(s, mem) ==
  LET diff == n_layer - Total(s)
  IN  IF diff > 0 THEN [s EXCEPT ![MaxElement(mem)] = @ + diff] ELSE s

\* The device with most memory gets the layers that are missing; the one with least loses those
\* that are too many.
Adjusted(s, mem) ==
  LET diff == n_layer - Total(s)
  IN  [s EXCEPT ![IF diff > 0 THEN MaxElement(mem) ELSE MinElement(mem)] = @ + diff]

Assign ==
  LET mem == [m \in DOMAIN devices |-> mem_budget[devices[m]]]
      s   == Adjusted(NoZero(Proportional(mem)), mem)
  IN  /\ pc = "assign"
      /\ w' = [m \in DOMAIN s |-> s[m] % U32]
      /\ pc' = "select"
      /\ UNCHANGED <<n_layer, mem_budget, auto, devices, n_layer_window>>

-----------------------------------------------------------------------------
(* assign_layers_and_select_devices                                        *)

\* The first of the devices is the master.
Kept(m) == w[m] > 1 \/ m = 1

\* The devices with one layer are sent away, and if there were any the layers are divided again.
Select ==
  LET left == SelectSeq([m \in DOMAIN devices |-> m], Kept)
  IN  /\ pc = "select"
      /\ devices' = [k \in DOMAIN left |-> devices[left[k]]]
      /\ w' = [k \in DOMAIN left |-> w[left[k]]]
      /\ pc' = IF Len(left) = Len(devices) THEN "place" ELSE "assign"
      /\ UNCHANGED <<n_layer, mem_budget, auto, n_layer_window>>

Place ==
  /\ pc = "place"
  /\ n_layer_window' =
       [r \in Ranks |-> IF r \in Range(devices) THEN w[CHOOSE k \in DOMAIN devices : devices[k] = r] ELSE 0]
  /\ pc' = "done"
  /\ UNCHANGED <<n_layer, mem_budget, auto, devices, w>>

\* --n-layer-window: a value for every device, none of them zero.
Manual ==
  /\ pc = "manual"
  /\ n_layer_window' \in [Ranks -> 1 .. MaxWindow]
  /\ pc' = "done"
  /\ UNCHANGED <<n_layer, mem_budget, auto, devices, w>>

Next == Assign \/ Select \/ Place \/ Manual

Spec == Init /\ [][Next]_vars

-----------------------------------------------------------------------------
(* Properties                                                              *)

\* The windows that the correction has taken below zero, which are huge numbers now.
Wrapped == {m \in DOMAIN w : w[m] > n_layer}

\* When the division is over, the windows hold every layer once, so that one turn of the ring
\* computes the model, but for the correction that wrapped: then their sum is 2^32 too large for
\* every such window, and n_layer as an unsigned number.  The devices left are those with layers,
\* and nobody but the master has a single one ("Remove device ... with only" one layer).
LayersAddUp ==
  pc = "done" /\ auto =>
    /\ Total(w) = n_layer + U32 * Cardinality(Wrapped)
    /\ \A r \in Ranks \ {0} : n_layer_window[r] # 1
    /\ Range(devices) \ {0} = {r \in Ranks \ {0} : n_layer_window[r] > 0}

\* "no 0 is allowed in w, it must be at least 1" (assign_layers_to_device): every device that
\* takes part has a window, of some of the layers.
WindowsInRange == pc = "select" => \A m \in DOMAIN w : w[m] \in 1 .. n_layer

\* Windows of the user need not divide the layers.  Still the layers of a device have its tensors
\* and cells 0, 1, 2, ... in their order, whatever turn they belong to, and the sub-graph a layer
\* is counted to is the one it is built into.  (Of windows that have wrapped this is not said.)
PlacedOnce ==
  pc = "done" /\ Wrapped = {} =>
    \A r \in Ranks :
      LET mine   == {il \in 0 .. n_layer - 1 : ThisLayerIsMine(n_layer_window, r, il)}
          graphs == SubGraphs(n_layer_window, n_layer, r)
      IN  /\ \A il \in mine :
               MapLayerToLocalId(n_layer_window, r, il) = Cardinality({j \in mine : j < il})
          /\ \A k \in DOMAIN graphs : \A il \in graphs[k].first .. graphs[k].last :
               MapLayerToSubgfId(n_layer_window, r, il) = k - 1 + (IF r = 0 THEN 1 ELSE 0)

=============================================================================
