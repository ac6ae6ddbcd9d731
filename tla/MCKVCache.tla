----------------------------- MODULE MCKVCache -----------------------------
(***************************************************************************)
(* An instance of KVCache for TLC: a negative bound cannot be written in   *)
(* the configuration.                                                      *)
(***************************************************************************)
EXTENDS KVCache

OpenOrOne == {-1, 1}
UpOrDown  == {-1, 1}

=============================================================================
