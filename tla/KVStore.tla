------------------------------ MODULE KVStore ------------------------------
(***************************************************************************)
(* What the KV cache promises (include/llama.h), without cells: a set of   *)
(* stored tokens, each with a position and the sequences it belongs to.    *)
(***************************************************************************)
EXTENDS Integers, FiniteSets

CONSTANTS
  Seqs,        \* sequence ids
  Bounds,      \* the bounds of ranges, -1 for none
  Deltas,      \* the shifts of seq_add
  Divisors,    \* the divisors of seq_div
  MaxBatch     \* bound: tokens stored at once

VARIABLES
  stored,      \* the tokens: [tok, pos, seqs]
  n_stored     \* tokens stored so far; they are numbered

storeVars == <<stored, n_stored>>

Init == stored = {} /\ n_stored = 0

\* The tokens of sequence s (of any sequence when s is negative) in [p0, p1).
In(t, s, p0, p1) ==
  (s < 0 \/ s \in t.seqs) /\ t.pos >= p0 /\ (p1 < 0 \/ t.pos < p1)

\* A batch of k new tokens is stored, nothing else changes.
Store(k) ==
  /\ n_stored' = n_stored + k
  /\ stored \subseteq stored'
  /\ {t.tok : t \in stored' \ stored} = n_stored .. n_stored + k - 1
  /\ Cardinality(stored' \ stored) = k

Clear == stored' = {} /\ UNCHANGED n_stored

SeqRm(s, p0, p1) ==
  /\ stored' = {t \in {IF In(u, s, p0, p1) THEN [u EXCEPT !.seqs = IF s < 0 THEN {} ELSE @ \ {s}]
                                            ELSE u : u \in stored} : t.seqs # {}}
  /\ UNCHANGED n_stored

SeqCp(src, dst, p0, p1) ==
  /\ stored' = {IF In(u, src, p0, p1) THEN [u EXCEPT !.seqs = @ \cup {dst}] ELSE u : u \in stored}
  /\ UNCHANGED n_stored

SeqKeep(s) ==
  /\ stored' = {[u EXCEPT !.seqs = {s}] : u \in {t \in stored : s \in t.seqs}}
  /\ UNCHANGED n_stored

SeqAdd(s, p0, p1, delta) ==
  /\ stored' = {t \in {IF In(u, s, p0, p1) THEN [u EXCEPT !.pos = @ + delta] ELSE u : u \in stored} :
                  t.pos >= 0}
  /\ UNCHANGED n_stored

SeqDiv(s, p0, p1, d) ==
  /\ stored' = {IF In(u, s, p0, p1) THEN [u EXCEPT !.pos = @ \div d] ELSE u : u \in stored}
  /\ UNCHANGED n_stored

Next ==
  \/ \E k \in 1 .. MaxBatch : Store(k)
  \/ Clear
  \/ \E s \in Seqs \cup {-1}, p0, p1 \in Bounds : SeqRm(s, p0, p1)
  \/ \E s \in Seqs : SeqKeep(s)
  \/ \E s \in Seqs, p0, p1 \in Bounds :
       \/ \E dst \in Seqs : SeqCp(s, dst, p0, p1)
       \/ \E delta \in Deltas : SeqAdd(s, p0, p1, delta)
       \/ \E d \in Divisors : SeqDiv(s, p0, p1, d)

Spec == Init /\ [][Next]_storeVars

=============================================================================
