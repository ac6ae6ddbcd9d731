---------------------------- MODULE MCRingDecode ----------------------------
(***************************************************************************)
(* Instances of RingDecode for TLC.                                        *)
(***************************************************************************)
EXTENDS RingDecode

Setup(windows, layers, driver, warmup) ==
  [window |-> [r \in Ranks |-> windows[r + 1]], n_layer |-> layers, driver |-> driver,
   warmup |-> warmup]

\* The last layer is on a worker in the middle, on the master, on the last device; a forwarder is
\* in the middle, or has the last rank; one of the rings is warmed up.
Rings == {<<<<1, 1, 0, 1>>, 4>>, <<<<1, 2, 1, 0>>, 4>>, <<<<1, 1, 1, 1>>, 3>>, <<<<2, 1, 1, 0>>, 6>>}

SomeSetups ==
  {Setup(x[1], x[2], "main", FALSE) : x \in Rings}
    \cup {Setup(<<1, 1, 0, 1>>, 4, "main", TRUE), Setup(<<1, 2, 1, 0>>, 4, "speculative", FALSE)}

\* Three devices and one layer each, with a warm-up.
OneRing == {Setup(<<1, 1, 1>>, 3, "main", TRUE)}

=============================================================================
