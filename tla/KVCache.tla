------------------------------ MODULE KVCache ------------------------------
(***************************************************************************)
(* One KV cache under every sequence of calls its users make: batches that *)
(* llama_decode stores, the operations on sequences, and the deferred      *)
(* defragmentation of llama_kv_cache_update.                               *)
(***************************************************************************)
EXTENDS KVCells

CONSTANTS
  Seqs,        \* sequence ids
  Bounds,      \* the bounds of ranges, -1 for none
  Deltas,      \* the shifts of seq_add
  Divisors,    \* the divisors of seq_div
  MaxBatch,    \* n_ubatch
  MaxMoves,    \* the moves of one defragmentation
  MaxPos,      \* bound: the largest position
  MaxShift,    \* bound: the largest shift that is deferred
  MaxTokens,   \* bound: tokens stored
  WideSize     \* the cells that the searches of find_slot and defrag are checked on

ASSUME KVCacheAssumption ==
  /\ Seqs \subseteq Nat /\ Bounds \subseteq Int /\ Deltas \subseteq Int /\ Divisors \subseteq Nat \ {0}
  /\ MaxBatch \in Nat /\ MaxMoves \in Nat /\ WideSize \in Nat \ {0}

VARIABLES
  cache,       \* llama_context::kv_self
  n_stored     \* history: the tokens stored so far, which numbers them

vars == <<cache, n_stored>>

Init == cache = EmptyCache /\ n_stored = 0

\* llama_decode of one physical batch; without a slot it returns 1.  After a batch that was
\* stored the fragmentation, which is left open here, decides about a defragmentation.
Decode(seq, pos, fragmented) ==
  LET n     == Len(seq)
      batch == [k \in 1 .. n |-> [tok |-> n_stored + k - 1, pos |-> pos + k - 1, seq |-> seq[k]]]
      r     == Store(Update(cache, MaxMoves), batch)
  IN  /\ pos + n - 1 <= MaxPos /\ n_stored + n <= MaxTokens
      /\ cache' = [r.cache EXCEPT !.do_defrag = r.ok /\ fragmented]
      /\ n_stored' = IF r.ok THEN n_stored + n ELSE n_stored

Clear == cache' = Cleared(cache) /\ UNCHANGED n_stored

Change(c) ==
  /\ \A i \in CellIds : c.cells[i].pos <= MaxPos /\ c.cells[i].delta \in -MaxShift .. MaxShift
  /\ cache' = c
  /\ UNCHANGED n_stored

Sequence ==
  \/ \E s \in Seqs \cup {-1}, p0, p1 \in Bounds : Change(SeqRm(cache, s, p0, p1))
  \/ \E s \in Seqs : Change(SeqKeep(cache, s))
  \/ \E s \in Seqs, p0, p1 \in Bounds :
       \/ \E dst \in Seqs : Change(SeqCp(cache, s, dst, p0, p1))
       \/ \E delta \in Deltas : Change(SeqAdd(cache, s, p0, p1, delta))
       \/ \E d \in Divisors : Change(SeqDiv(cache, s, p0, p1, d))

\* llama_kv_cache_update, which some programs call themselves.
KvUpdate == Change(Update(cache, MaxMoves))

Next ==
  \/ \E n \in 1 .. MaxBatch, pos \in 0 .. MaxPos : \E seq \in [1 .. n -> Seqs] :
       \E fragmented \in BOOLEAN : Decode(seq, pos, fragmented)
  \/ Clear \/ Sequence \/ KvUpdate

Spec == Init /\ [][Next]_vars

-----------------------------------------------------------------------------
(* Properties                                                              *)

\* The count that find_slot, defrag and the full-cache heuristics rely on is exact, and a
\* cell has a position exactly when it belongs to a sequence.
UsedIsExact ==
  /\ cache.used = Cardinality(Used(cache.cells))
  /\ \A i \in CellIds : cache.cells[i].pos >= 0 <=> cache.cells[i].seqs # {}

\* Every cache of WideSize cells with the given cells in use, a search starting at any of them.
Wide == INSTANCE KVCells WITH Size <- WideSize
Occupied(used, head) ==
  [Wide!EmptyCache EXCEPT
     !.cells = [i \in Wide!CellIds |->
                  IF i \in used THEN [Wide!Free EXCEPT !.pos = i, !.seqs = {0}, !.tok = i, !.rot = i]
                                ELSE Wide!Free],
     !.head = head, !.used = Cardinality(used)]

\* A batch finds a slot whenever that many free cells lie in a row, wherever the used cells
\* are and the search starts, and the cells it is given are free.
FindSlotExact ==
  cache = EmptyCache =>
    \A used \in SUBSET Wide!CellIds, head \in Wide!CellIds, n \in 1 .. WideSize + 1 :
      LET FreeRun(h) == h + n <= WideSize /\ h .. h + n - 1 \subseteq Wide!CellIds \ used
          f == Wide!FindSlot(Occupied(used, head), n)
      IN  /\ f.ok <=> \E h \in Wide!CellIds : FreeRun(h)
          /\ f.ok => FreeRun(f.head)

\* Wherever the used cells are, every hole finds its cells (the assertion of defrag), no token
\* is lost or doubled, and when the moves suffice no hole is left.
DefragCompacts ==
  cache = EmptyCache =>
    \A used \in SUBSET Wide!CellIds, moves \in 1 .. WideSize :
      LET d == Wide!Defrag(Occupied(used, 0), moves)
          after == Wide!Used(d.cache.cells)
      IN  /\ d.found
          /\ Cardinality(after) = Cardinality(used) /\ {d.cache.cells[i].tok : i \in after} = used
          /\ d.moves < moves => after = 0 .. Cardinality(used) - 1

\* The keys of a token are where its position says, or the next update brings them there:
\* no shift is lost, applied twice, or left behind in a cell for its next token.
KeysFollowPositions ==
  \A i \in Used(cache.cells) :
    LET cell == cache.cells[i]
    IN  cell.rot + cell.delta = cell.pos /\ (cell.delta # 0 => cache.has_shift)

\* What is stored, whatever cells it is in.
Stored == {[tok |-> cache.cells[i].tok, pos |-> cache.cells[i].pos, seqs |-> cache.cells[i].seqs] :
             i \in Used(cache.cells)}

Promise == INSTANCE KVStore WITH stored <- Stored, n_stored <- n_stored

\* Storing never overwrites a token, defragmentation moves them only, and the operations
\* do to the tokens of a sequence what llama.h says.
ImplementsStore == Promise!Spec

=============================================================================
