---------------------------- MODULE MCSlotCache ----------------------------
(***************************************************************************)
(* Instances of SlotCache for TLC.                                         *)
(***************************************************************************)
EXTENDS SlotCache

Request(prompt, cache, keep, discard) ==
  [prompt |-> prompt, cache_prompt |-> cache, n_keep |-> keep, n_discard |-> discard]

\* Prompts with common beginnings, too long ones, and one that is not cached.
ShortAndLong ==
  {Request(<<1, 1>>, TRUE, 0, 0), Request(<<1, 1, 2, 1>>, TRUE, 1, 0), Request(<<2, 1, 1>>, FALSE, 0, 0),
   Request(<<1, 1, 2, 2, 1, 2, 2>>, TRUE, -1, 1), Request(<<>>, TRUE, 0, 0)}

OnePrompt == {Request(<<1, 2>>, TRUE, 0, 0)}

NoSystems == {}
OneSystem == {<<1>>}

=============================================================================
