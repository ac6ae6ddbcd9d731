------------------------------ MODULE KVCells ------------------------------
(***************************************************************************)
(* The local KV cache of llama.cpp (struct llama_kv_cache) for models that *)
(* attend to every token: a row of cells, each with a position and the set *)
(* of the sequences it belongs to.  The operators return the cache that a  *)
(* call leaves behind.                                                     *)
(***************************************************************************)
EXTENDS Integers, Sequences, FiniteSets, SequencesExt, FiniteSetsExt

CONSTANTS
  Size,      \* llama_kv_cache::size
  Nothing    \* what a free cell holds; a used one holds the keys and values of a token

ASSUME SizeAssumption == Size \in Nat \ {0}

CellIds == 0 .. Size - 1

\* A cell: the position and the sequences of its token, the token, the position its keys are
\* rotated to, and by how much they have still to be shifted.
Free == [pos |-> -1, seqs |-> {}, tok |-> Nothing, rot |-> -1, delta |-> 0]

\* A cell that is given up keeps its delta.
Freed(cell) == [Free EXCEPT !.delta = cell.delta]

\* A cache is the cells, the cell where the next search starts, the count of used cells, and
\* whether the next update has keys to shift and cells to move.
EmptyCache == [cells |-> [i \in CellIds |-> Free], head |-> 0, used |-> 0,
               has_shift |-> FALSE, do_defrag |-> FALSE]

\* Mutant of Cleared: the count of used cells is not reset.
ClearedNotUsed(c) ==
  [c EXCEPT !.cells = [i \in CellIds |-> Freed(c.cells[i])], !.head = 0]

\* llama_kv_cache_clear leaves what is deferred as it is.
Cleared(c) == [c EXCEPT !.cells = [i \in CellIds |-> Freed(c.cells[i])], !.head = 0, !.used = 0]

\* Positions from p0 on and before p1; a negative bound is open.
InRange(pos, p0, p1) == pos >= 0 /\ pos >= p0 /\ (p1 < 0 \/ pos < p1)

\* A range that is empty by its bounds makes seq_add return early.
EmptyRange(p0, p1) == p1 >= 0 /\ p1 = IF p0 < 0 THEN 0 ELSE p0

\* The cells of sequence s in the range, of every sequence when s is negative.
Selected(c, s, p0, p1) ==
  {i \in CellIds : (s < 0 \/ s \in c.cells[i].seqs) /\ InRange(c.cells[i].pos, p0, p1)}

\* The first freed cell is where the next search starts, when it is before the head.
FreedHead(c, freed) == IF freed # {} /\ Min(freed) < c.head THEN Min(freed) ELSE c.head

-----------------------------------------------------------------------------
(* The operations on sequences                                             *)

\* Mutant of SeqRm: the count of used cells falls by the cells that lost a sequence.
SeqRmCountHit(c, s, p0, p1) ==
  LET hit     == Selected(c, s, p0, p1)
      left(i) == IF s < 0 THEN {} ELSE c.cells[i].seqs \ {s}
      freed   == {i \in hit : left(i) = {}}
  IN  [c EXCEPT
         !.cells = [i \in CellIds |-> IF i \in freed THEN Freed(c.cells[i])
                                      ELSE IF i \in hit THEN [c.cells[i] EXCEPT !.seqs = left(i)]
                                      ELSE c.cells[i]],
         !.head  = FreedHead(c, freed),
         !.used  = @ - Cardinality(hit)]

SeqRm(c, s, p0, p1) ==
  LET hit     == Selected(c, s, p0, p1)
      left(i) == IF s < 0 THEN {} ELSE c.cells[i].seqs \ {s}
      freed   == {i \in hit : left(i) = {}}
  IN  [c EXCEPT
         !.cells = [i \in CellIds |-> IF i \in freed THEN Freed(c.cells[i])
                                      ELSE IF i \in hit THEN [c.cells[i] EXCEPT !.seqs = left(i)]
                                      ELSE c.cells[i]],
         !.head  = FreedHead(c, freed),
         !.used  = @ - Cardinality(freed)]

SeqCp(c, src, dst, p0, p1) ==
  LET hit == {i \in Selected(c, src, p0, p1) : src \in c.cells[i].seqs}
  IN  IF src = dst THEN c
      ELSE [c EXCEPT !.head  = 0,
                     !.cells = [i \in CellIds |->
                                  IF i \in hit THEN [c.cells[i] EXCEPT !.seqs = @ \cup {dst}]
                                               ELSE c.cells[i]]]

\* The search restarts at the first cell that is not of the sequence, used or not.
SeqKeep(c, s) ==
  LET dropped == {i \in CellIds : s \notin c.cells[i].seqs}
  IN  [c EXCEPT
         !.cells = [i \in CellIds |-> IF i \in dropped THEN Freed(c.cells[i])
                                                        ELSE [c.cells[i] EXCEPT !.seqs = {s}]],
         !.head  = FreedHead(c, dropped),
         !.used  = @ - Cardinality({i \in dropped : c.cells[i].pos >= 0})]

\* A cell at another position: its keys are shifted by the next update.
Moved(cell, pos) == [cell EXCEPT !.pos = pos, !.delta = @ + pos - cell.pos]

\* A cell that several sequences share is shifted for all of them; one that is shifted
\* below zero is freed.
SeqAdd(c, s, p0, p1, delta) ==
  LET hit   == {i \in Selected(c, s, p0, p1) : s \in c.cells[i].seqs}
      freed == {i \in hit : c.cells[i].pos + delta < 0}
      to(i) == Moved(c.cells[i], c.cells[i].pos + delta)
  IN  IF delta = 0 \/ EmptyRange(p0, p1) THEN c
      ELSE [c EXCEPT
              !.cells = [i \in CellIds |-> IF i \in freed THEN Freed(to(i))
                                           ELSE IF i \in hit THEN to(i) ELSE c.cells[i]],
              !.head  = IF freed = {} THEN 0 ELSE Min(freed),
              !.used  = @ - Cardinality(freed),
              !.has_shift = @ \/ hit # {}]

SeqDiv(c, s, p0, p1, d) ==
  LET hit == {i \in Selected(c, s, p0, p1) : s \in c.cells[i].seqs}
  IN  IF d = 1 \/ EmptyRange(p0, p1) THEN c
      ELSE [c EXCEPT !.cells = [i \in CellIds |->
                                  IF i \in hit THEN Moved(c.cells[i], c.cells[i].pos \div d)
                                               ELSE c.cells[i]],
                     !.has_shift = @ \/ hit # {}]

-----------------------------------------------------------------------------
(* Storing tokens                                                          *)

\* Mutant of FindSlot: the search stops when it is back at the last cell it may start from.
FindSlotShort(c, n) ==
  LET search[at \in (0 .. Size) \X Nat] ==
        LET h    == at[1]
            t    == at[2]
            busy == {i \in 0 .. n - 1 : c.cells[h + i].pos >= 0}
            skip == Min(busy) + 1
        IN  IF h + n > Size THEN search[<<0, t + Size - h>>]
            ELSE IF busy = {} THEN [ok |-> TRUE, head |-> h]
            ELSE IF t + skip + n >= Size THEN [ok |-> FALSE, head |-> h + skip]
            ELSE search[<<h + skip, t + skip>>]
  IN  IF n > Size THEN [ok |-> FALSE, head |-> c.head] ELSE search[<<c.head, 0>>]

\* llama_kv_cache_find_slot: n free cells in a row, from the head on and round the end; at cell h
\* t cells have been tested.  A failed search leaves the head where it gave up.
FindSlot(c, n) ==
  LET search[at \in (0 .. Size) \X Nat] ==
        LET h    == at[1]
            t    == at[2]
            busy == {i \in 0 .. n - 1 : c.cells[h + i].pos >= 0}
            skip == Min(busy) + 1
        IN  IF h + n > Size THEN search[<<0, t + Size - h>>]
            ELSE IF busy = {} THEN [ok |-> TRUE, head |-> h]
            ELSE IF t + skip >= Size THEN [ok |-> FALSE, head |-> h + skip]
            ELSE search[<<h + skip, t + skip>>]
  IN  IF n > Size THEN [ok |-> FALSE, head |-> c.head] ELSE search[<<c.head, 0>>]

\* The tokens of a physical batch are put in the cells that were found, their keys rotated to
\* their positions; entries are [tok, pos, seq].  The delta of the cell is not touched.
Put(c, batch) ==
  LET n == Len(batch)
  IN  [c EXCEPT
         !.cells = [i \in CellIds |->
                      IF i - c.head \in 0 .. n - 1
                        THEN LET b == batch[i - c.head + 1]
                             IN  [pos |-> b.pos, seqs |-> {b.seq}, tok |-> b.tok, rot |-> b.pos,
                                  delta |-> c.cells[i].delta]
                        ELSE c.cells[i]],
         !.used  = @ + n]

\* Mutant of Store: the tokens are put at the head without a search.
StoreAtHead(c, batch) ==
  LET n == Len(batch)
      p == Put([c EXCEPT !.head = IF @ + n > Size THEN 0 ELSE @], batch)
  IN  [ok |-> TRUE, cache |-> [p EXCEPT !.head = IF @ + n >= Size THEN 0 ELSE @ + n]]

\* llama_decode for one physical batch: a head far behind the used cells goes back to the
\* start, a slot is looked for, and after the computation the head passes the new cells.
Store(c, batch) ==
  LET n == Len(batch)
      r == [c EXCEPT !.head = IF @ > c.used + 2 * n THEN 0 ELSE @]
      f == FindSlot(r, n)
      p == Put([r EXCEPT !.head = f.head], batch)
  IN  [ok    |-> f.ok,
       cache |-> IF f.ok THEN [p EXCEPT !.head = IF @ + n >= Size THEN 0 ELSE @ + n]
                         ELSE [r EXCEPT !.head = f.head]]

-----------------------------------------------------------------------------
(* Defragmentation                                                         *)

Used(cells) == {i \in CellIds : cells[i].seqs # {}}

\* Mutant of Hole: the hole is not cut off at the count of used cells.
HoleToEnd(cells, i0, n) ==
  {i \in i0 .. Size - 1 : \A j \in i0 .. i : cells[j].seqs = {}}

\* The hole that starts at cell i0, within the first n cells.
Hole(cells, i0, n) ==
  {i \in i0 .. n - 1 : \A j \in i0 .. i : cells[j].seqs = {}}

\* The last k used cells behind cell i0.
LastUsed(cells, i0, k) ==
  {i \in Used(cells) : i > i0 /\ Cardinality({j \in Used(cells) : j > i}) < k}

\* The cells of a set, counted by runs of neighbours: the first m runs of it.
RunStarts(S)    == {i \in S : i - 1 \notin S}
FirstRuns(S, m) == {i \in S : Cardinality({j \in RunStarts(S) : j <= i}) <= m}

\* One hole is filled with the last used cells, in their order; every run of neighbours
\* that is moved counts, and at most max_moves runs are moved.
FillHole(d, i0, max_moves) ==
  LET hole  == Hole(d.cache.cells, i0, d.n_used)
      src   == LastUsed(d.cache.cells, i0, Cardinality(hole))
      moved == FirstRuns(src, max_moves - d.moves)
      from(i) == CHOOSE j \in moved : Cardinality({k \in moved : k < j}) = i - i0
  IN  [d EXCEPT !.cache.cells =
                  [i \in CellIds |->
                     IF i \in moved THEN Free
                     ELSE IF i - i0 \in 0 .. Cardinality(moved) - 1 THEN d.cache.cells[from(i)]
                     ELSE d.cache.cells[i]],
                !.cache.head = d.n_used,
                !.moves = @ + Cardinality(RunStarts(moved)),
                !.found = @ /\ Cardinality(src) = Cardinality(hole)]

\* llama_kv_cache_defrag_internal goes through the first n_used cells; found is the assertion
\* that every hole found its cells.
Defrag(c, max_moves) ==
  LET filled[n \in 0 .. c.used] ==
        IF n = 0 THEN [cache |-> c, moves |-> 0, found |-> TRUE, n_used |-> c.used]
        ELSE LET d == filled[n - 1]
             IN  IF d.cache.cells[n - 1].seqs = {} /\ d.moves < max_moves
                   THEN FillHole(d, n - 1, max_moves) ELSE d
  IN  filled[c.used]

-----------------------------------------------------------------------------
(* The update that comes before every physical batch                       *)

\* Mutant of KShift: only the cells that are in use are done with.
KShiftUsed(c) ==
  [c EXCEPT !.has_shift = FALSE,
            !.cells = [i \in CellIds |-> IF c.cells[i].seqs = {} THEN c.cells[i]
                                         ELSE [c.cells[i] EXCEPT !.rot = @ + c.cells[i].delta,
                                                                 !.delta = 0]]]

\* The keys of every cell are rotated by its delta.
KShift(c) ==
  [c EXCEPT !.has_shift = FALSE,
            !.cells = [i \in CellIds |->
                         [c.cells[i] EXCEPT !.rot = IF c.cells[i].seqs = {} THEN @
                                                    ELSE @ + c.cells[i].delta,
                                            !.delta = 0]]]

\* llama_kv_cache_update_internal: first the shift, then the defragmentation.
Update(c, max_moves) ==
  LET s == IF c.has_shift THEN KShift(c) ELSE c
  IN  IF c.do_defrag THEN [Defrag(s, max_moves).cache EXCEPT !.do_defrag = FALSE] ELSE s

=============================================================================
