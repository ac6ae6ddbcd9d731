--------------------------- MODULE MCLayerAssign ---------------------------
(***************************************************************************)
(* Instances of LayerAssign for TLC.                                       *)
(***************************************************************************)
EXTENDS LayerAssign

=============================================================================
