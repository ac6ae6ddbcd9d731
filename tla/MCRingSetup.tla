---------------------------- MODULE MCRingSetup ----------------------------
(***************************************************************************)
(* Instances of RingSetup for TLC.                                         *)
(***************************************************************************)
EXTENDS RingSetup

=============================================================================
