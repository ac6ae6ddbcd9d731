-------------------------- MODULE SlotCache_proofs --------------------------
(***************************************************************************)
(* What the server knows of the KV cache, for any number of slots, any     *)
(* sizes and any requests: the workers' caches follow the master's, and a  *)
(* slot's tokens are where it believes them to be.                         *)
(***************************************************************************)
EXTENDS SlotCache, KVCells_proofs, SequenceTheorems

-----------------------------------------------------------------------------
(* A worker's cache: the master's, with every sequence id one lower        *)

LowerSeqs(S) == {q - 1 : q \in S}

LowerCell(x) == CellOf(x.pos, LowerSeqs(x.seqs), x.tok, x.rot, x.delta)

Lowered(c) ==
  CacheOf([i \in CellIds |-> LowerCell(c.cells[i])], c.head, c.used, c.has_shift, c.do_defrag)

LEMMA CellFields ==
  ASSUME NEW x \in Cell
  PROVE  /\ x = CellOf(x.pos, x.seqs, x.tok, x.rot, x.delta)
         /\ x.pos \in Int /\ x.seqs \in SUBSET Int /\ x.tok \in Int \cup {Nothing} /\ x.rot \in Int
         /\ x.delta \in Int
BY DEF Cell, CellOf

LEMMA CellOfType ==
  ASSUME NEW pos \in Int, NEW seqs \in SUBSET Int, NEW tok \in Int \cup {Nothing}, NEW rot \in Int,
         NEW delta \in Int
  PROVE  CellOf(pos, seqs, tok, rot, delta) \in Cell
BY DEF Cell, CellOf

LEMMA LowerSeqsIs ==
  ASSUME NEW S \in SUBSET Int
  PROVE  /\ LowerSeqs(S) \in SUBSET Int
         /\ \A s \in Int : s \in LowerSeqs(S) <=> s + 1 \in S
         /\ LowerSeqs(S) = {} <=> S = {}
         /\ \A s \in Int : LowerSeqs(S \ {s + 1}) = LowerSeqs(S) \ {s} /\ LowerSeqs({s + 1}) = {s}
<1>1. \A s \in Int : s \in LowerSeqs(S) <=> s + 1 \in S
  BY DEF LowerSeqs
<1>2. LowerSeqs(S) \in SUBSET Int
  BY DEF LowerSeqs
<1>3. LowerSeqs(S) = {} <=> S = {}
  BY DEF LowerSeqs
<1>4. ASSUME NEW s \in Int
      PROVE  LowerSeqs(S \ {s + 1}) = LowerSeqs(S) \ {s} /\ LowerSeqs({s + 1}) = {s}
  BY DEF LowerSeqs
<1> QED
  BY <1>1, <1>2, <1>3, <1>4

LEMMA LowerCellIs ==
  ASSUME NEW x \in Cell
  PROVE  /\ LowerCell(x) \in Cell
         /\ LowerCell(x).pos = x.pos /\ LowerCell(x).tok = x.tok /\ LowerCell(x).rot = x.rot
         /\ LowerCell(x).delta = x.delta /\ LowerCell(x).seqs = LowerSeqs(x.seqs)
         /\ \A s \in Int : s \in LowerCell(x).seqs <=> s + 1 \in x.seqs
         /\ LowerCell(x).seqs = {} <=> x.seqs = {}
<1>1. x.pos \in Int /\ x.seqs \in SUBSET Int /\ x.tok \in Int \cup {Nothing} /\ x.rot \in Int /\ x.delta \in Int
  BY CellFields
<1>2. LowerSeqs(x.seqs) \in SUBSET Int
  BY <1>1, LowerSeqsIs
<1>3. LowerCell(x) \in Cell
  BY <1>1, <1>2, CellOfType DEF LowerCell
<1>4. /\ LowerCell(x).pos = x.pos /\ LowerCell(x).tok = x.tok /\ LowerCell(x).rot = x.rot
      /\ LowerCell(x).delta = x.delta /\ LowerCell(x).seqs = LowerSeqs(x.seqs)
  BY CellOfFields DEF LowerCell
<1> QED
  BY <1>1, <1>3, <1>4, LowerSeqsIs

\* What the operations make of a cell, they make of the lowered one.
LEMMA LowerCellForms ==
  ASSUME NEW x \in Cell
  PROVE  /\ Freed(x) \in Cell /\ LowerCell(Freed(x)) = Freed(LowerCell(x))
         /\ \A S \in SUBSET Int : /\ WithSeqs(x, S) \in Cell
                                  /\ LowerCell(WithSeqs(x, S)) = WithSeqs(LowerCell(x), LowerSeqs(S))
         /\ \A pos \in Int : Moved(x, pos) \in Cell /\ LowerCell(Moved(x, pos)) = Moved(LowerCell(x), pos)
         /\ ShiftedCell(x) \in Cell /\ LowerCell(ShiftedCell(x)) = ShiftedCell(LowerCell(x))
<1> DEFINE y == LowerCell(x)
<1>1. x.pos \in Int /\ x.seqs \in SUBSET Int /\ x.tok \in Int \cup {Nothing} /\ x.rot \in Int /\ x.delta \in Int
  BY CellFields
<1>2. /\ y \in Cell /\ y.pos = x.pos /\ y.tok = x.tok /\ y.rot = x.rot /\ y.delta = x.delta
      /\ y.seqs = LowerSeqs(x.seqs) /\ (y.seqs = {} <=> x.seqs = {})
  BY LowerCellIs
<1> HIDE DEF y
<1>3. Freed(x) \in Cell /\ LowerCell(Freed(x)) = Freed(y)
  <2>1. Freed(x) = CellOf(-1, {}, Nothing, -1, x.delta) /\ Freed(y) = CellOf(-1, {}, Nothing, -1, y.delta)
    BY <1>2, CellForms
  <2>2. LowerSeqs({}) = {}
    BY DEF LowerSeqs
  <2>3. Freed(x) \in Cell
    BY <1>1, <2>1 DEF Cell, CellOf
  <2>4. LowerCell(Freed(x)) = CellOf(-1, LowerSeqs({}), Nothing, -1, x.delta)
    BY <2>1, CellOfFields DEF LowerCell
  <2> QED
    BY <1>2, <2>1, <2>2, <2>3, <2>4
<1>4. ASSUME NEW S \in SUBSET Int
      PROVE  WithSeqs(x, S) \in Cell /\ LowerCell(WithSeqs(x, S)) = WithSeqs(y, LowerSeqs(S))
  <2>1. WithSeqs(x, S) = CellOf(x.pos, S, x.tok, x.rot, x.delta)
    BY CellForms, Zenon DEF WithSeqs
  <2>2. WithSeqs(y, LowerSeqs(S)) = CellOf(y.pos, LowerSeqs(S), y.tok, y.rot, y.delta)
    BY <1>2, CellForms, Zenon DEF WithSeqs
  <2>3. WithSeqs(x, S) \in Cell
    <3>1. CellOf(x.pos, S, x.tok, x.rot, x.delta) \in Cell
      BY <1>1, CellOfType, Zenon
    <3> QED
      BY <2>1, <3>1, Zenon
  <2>4. LowerCell(WithSeqs(x, S)) = CellOf(x.pos, LowerSeqs(S), x.tok, x.rot, x.delta)
    BY <2>1, CellOfFields DEF LowerCell
  <2> QED
    BY <1>2, <2>2, <2>3, <2>4
<1>5. ASSUME NEW pos \in Int
      PROVE  Moved(x, pos) \in Cell /\ LowerCell(Moved(x, pos)) = Moved(y, pos)
  <2>1. Moved(x, pos) = CellOf(pos, x.seqs, x.tok, x.rot, x.delta + pos - x.pos)
        /\ Moved(y, pos) = CellOf(pos, y.seqs, y.tok, y.rot, y.delta + pos - y.pos)
    BY <1>2, CellForms
  <2>2. x.delta + pos - x.pos \in Int
    BY <1>1
  <2>3. Moved(x, pos) \in Cell
    <3>1. CellOf(pos, x.seqs, x.tok, x.rot, x.delta + pos - x.pos) \in Cell
      BY <1>1, <2>2, CellOfType, Zenon
    <3> QED
      BY <2>1, <3>1, Zenon
  <2>4. LowerCell(Moved(x, pos)) = CellOf(pos, LowerSeqs(x.seqs), x.tok, x.rot, x.delta + pos - x.pos)
    BY <2>1, CellOfFields DEF LowerCell
  <2> QED
    BY <1>2, <2>1, <2>3, <2>4
<1>6. ShiftedCell(x) \in Cell /\ LowerCell(ShiftedCell(x)) = ShiftedCell(y)
  <2> DEFINE rot == IF x.seqs = {} THEN x.rot ELSE x.rot + x.delta
             low == IF y.seqs = {} THEN y.rot ELSE y.rot + y.delta
  <2>1. rot \in Int /\ low = rot
    BY <1>1, <1>2
  <2>2. ShiftedCell(x) = [x EXCEPT !.rot = rot, !.delta = 0] /\ ShiftedCell(y) = [y EXCEPT !.rot = low, !.delta = 0]
    BY Zenon DEF ShiftedCell
  <2> HIDE DEF rot, low
  <2>3. ShiftedCell(x) = CellOf(x.pos, x.seqs, x.tok, rot, 0)
    BY <2>1, <2>2, CellForms
  <2>4. ShiftedCell(y) = CellOf(y.pos, y.seqs, y.tok, rot, 0)
    BY <1>2, <2>1, <2>2, CellForms
  <2>5. ShiftedCell(x) \in Cell
    BY <1>1, <2>1, <2>3 DEF Cell, CellOf
  <2>6. LowerCell(ShiftedCell(x)) = CellOf(x.pos, LowerSeqs(x.seqs), x.tok, rot, 0)
    BY <2>3, CellOfFields DEF LowerCell
  <2> QED
    BY <1>2, <2>4, <2>5, <2>6
<1> QED
  BY <1>3, <1>4, <1>5, <1>6 DEF y

LEMMA LoweredIs ==
  ASSUME NEW c \in Caches(Cell)
  PROVE  /\ Lowered(c) \in Caches(Cell)
         /\ \A i \in CellIds : Lowered(c).cells[i] = LowerCell(c.cells[i]) /\ c.cells[i] \in Cell
         /\ Lowered(c).head = c.head /\ Lowered(c).used = c.used
         /\ Lowered(c).has_shift = c.has_shift /\ Lowered(c).do_defrag = c.do_defrag
<1> DEFINE cells == [i \in CellIds |-> LowerCell(c.cells[i])]
<1>1. /\ c.cells \in [CellIds -> Cell] /\ c.head \in Int /\ c.used \in Int
      /\ c.has_shift \in BOOLEAN /\ c.do_defrag \in BOOLEAN
  BY CacheFields
<1>2. \A i \in CellIds : c.cells[i] \in Cell /\ LowerCell(c.cells[i]) \in Cell
  BY <1>1, LowerCellIs
<1>3. cells \in [CellIds -> Cell] /\ \A i \in CellIds : cells[i] = LowerCell(c.cells[i])
  BY <1>2
<1>4. Lowered(c) = CacheOf(cells, c.head, c.used, c.has_shift, c.do_defrag)
  BY Zenon DEF Lowered
<1> HIDE DEF cells
<1>5. Lowered(c) \in Caches(Cell)
  BY <1>1, <1>3, <1>4 DEF Caches, CacheOf
<1>6. /\ Lowered(c).cells = cells /\ Lowered(c).head = c.head /\ Lowered(c).used = c.used
      /\ Lowered(c).has_shift = c.has_shift /\ Lowered(c).do_defrag = c.do_defrag
  BY <1>4, CacheOfFields
<1> QED
  BY <1>2, <1>3, <1>5, <1>6

\* A cache that is made from one, cell by cell, and the one made from it lowered.
LEMMA LoweredCacheOf ==
  ASSUME NEW cells, NEW low, NEW head \in Int, NEW used \in Int,
         NEW has_shift \in BOOLEAN, NEW do_defrag \in BOOLEAN,
         cells = [i \in CellIds |-> cells[i]], low = [i \in CellIds |-> low[i]],
         \A i \in CellIds : cells[i] \in Cell /\ low[i] = LowerCell(cells[i])
  PROVE  /\ CacheOf(cells, head, used, has_shift, do_defrag) \in Caches(Cell)
         /\ CacheOf(low, head, used, has_shift, do_defrag)
              = Lowered(CacheOf(cells, head, used, has_shift, do_defrag))
<1> DEFINE c == CacheOf(cells, head, used, has_shift, do_defrag)
<1>1. cells \in [CellIds -> Cell]
  OBVIOUS
<1>2. c \in Caches(Cell)
  BY <1>1, CacheFields
<1>3. c.cells = cells /\ c.head = head /\ c.used = used /\ c.has_shift = has_shift /\ c.do_defrag = do_defrag
  BY CacheOfFields
<1> HIDE DEF c
<1>4. [i \in CellIds |-> low[i]] = [i \in CellIds |-> LowerCell(c.cells[i])]
  BY <1>3
<1>5. Lowered(c) = CacheOf(low, head, used, has_shift, do_defrag)
  BY <1>3, <1>4 DEF Lowered
<1> QED
  BY <1>2, <1>5 DEF c

\* A cache with its head in place, that nobody has asked to be defragmented.
Plain(c) == c \in Caches(Cell) /\ c.head \in 0 .. Size /\ c.do_defrag = FALSE

\* The changes that count cells, on a cache of cells of any contents.
LEMMA CountFreed ==
  ASSUME NEW c, Plain(c), NEW freed \in SUBSET CellIds
  PROVE  /\ FreedHead(c, freed) \in 0 .. Size /\ (freed # {} => Min(freed) \in 0 .. Size)
         /\ c.used - Cardinality(freed) \in Int
<1>1. c.head \in 0 .. Size /\ c.used \in Int
  BY CacheFields DEF Plain
<1>2. FreedHead(c, freed) \in 0 .. Size /\ (freed # {} => Min(freed) \in 0 .. Size)
  BY <1>1, FreedHeadType, SizeAssumption DEF CellIds
<1>3. Cardinality(freed) \in Int
  BY CellIdsFinite, SizeAssumption
<1> QED
  BY <1>1, <1>2, <1>3

LEMMA LoweredSelected ==
  ASSUME NEW c \in Caches(Cell), NEW s \in Nat, NEW p0, NEW p1
  PROVE  /\ Selected(Lowered(c), s, p0, p1) = Selected(c, s + 1, p0, p1)
         /\ CpHit(Lowered(c), s, p0, p1) = CpHit(c, s + 1, p0, p1)
         /\ Selected(c, s + 1, p0, p1) \in SUBSET CellIds /\ CpHit(c, s + 1, p0, p1) \in SUBSET CellIds
<1>1. \A i \in CellIds : /\ Lowered(c).cells[i].pos = c.cells[i].pos
                         /\ s \in Lowered(c).cells[i].seqs <=> s + 1 \in c.cells[i].seqs
  BY LoweredIs, LowerCellIs
<1>2. ~(s < 0) /\ ~(s + 1 < 0)
  OBVIOUS
<1>3. Selected(Lowered(c), s, p0, p1) = Selected(c, s + 1, p0, p1)
  BY <1>1, <1>2 DEF Selected
<1>4. CpHit(Lowered(c), s, p0, p1) = CpHit(c, s + 1, p0, p1)
  BY <1>1, <1>3 DEF CpHit, Selected
<1> QED
  BY <1>3, <1>4 DEF Selected, CpHit

\* A removal reaches the same cells on both sides.
LEMMA LoweredRm ==
  ASSUME NEW c, Plain(c), NEW s \in Nat, NEW p0, NEW p1
  PROVE  /\ SeqRm(Lowered(c), s, p0, p1) = Lowered(SeqRm(c, s + 1, p0, p1))
         /\ Plain(SeqRm(c, s + 1, p0, p1))
<1> DEFINE d == Lowered(c)
           freed == RmFreed(c, s + 1, p0, p1)
           cells == [i \in CellIds |-> RmCell(c, s + 1, p0, p1, i)]
           low == [i \in CellIds |-> RmCell(d, s, p0, p1, i)]
           head == FreedHead(c, freed)
           used == c.used - Cardinality(freed)
<1>1. /\ d \in Caches(Cell) /\ d.head = c.head /\ d.used = c.used /\ d.has_shift = c.has_shift
      /\ d.do_defrag = c.do_defrag /\ \A i \in CellIds : d.cells[i] = LowerCell(c.cells[i]) /\ c.cells[i] \in Cell
  BY LoweredIs DEF Plain
<1>2. Selected(d, s, p0, p1) = Selected(c, s + 1, p0, p1) /\ Selected(c, s + 1, p0, p1) \in SUBSET CellIds
  BY LoweredSelected DEF Plain
<1>3. c.has_shift \in BOOLEAN /\ c.do_defrag \in BOOLEAN /\ c.do_defrag = FALSE
  BY CacheFields DEF Plain
<1> HIDE DEF d
<1>4. ASSUME NEW i \in CellIds
      PROVE  /\ RmSeqs(c, s + 1, i) \in SUBSET Int /\ RmSeqs(d, s, i) = LowerSeqs(RmSeqs(c, s + 1, i))
             /\ RmSeqs(d, s, i) = {} <=> RmSeqs(c, s + 1, i) = {}
  <2>1. c.cells[i].seqs \in SUBSET Int /\ d.cells[i].seqs = LowerSeqs(c.cells[i].seqs)
    BY <1>1, CellFields, LowerCellIs
  <2>2. RmSeqs(c, s + 1, i) = c.cells[i].seqs \ {s + 1} /\ RmSeqs(d, s, i) = d.cells[i].seqs \ {s}
    BY DEF RmSeqs
  <2>3. RmSeqs(d, s, i) = LowerSeqs(RmSeqs(c, s + 1, i)) /\ RmSeqs(c, s + 1, i) \in SUBSET Int
    BY <2>1, <2>2, LowerSeqsIs
  <2> QED
    BY <2>3, LowerSeqsIs
<1>5. RmFreed(d, s, p0, p1) = freed /\ freed \in SUBSET CellIds
  BY <1>2, <1>4 DEF RmFreed
<1>6. ASSUME NEW i \in CellIds
      PROVE  cells[i] \in Cell /\ low[i] = LowerCell(cells[i])
  <2>1. cells[i] = RmCell(c, s + 1, p0, p1, i) /\ low[i] = RmCell(d, s, p0, p1, i)
    OBVIOUS
  <2> HIDE DEF cells, low, freed
  <2>2. c.cells[i] \in Cell /\ d.cells[i] = LowerCell(c.cells[i])
    BY <1>1
  <2>3. CASE i \in freed
    <3>1. cells[i] = Freed(c.cells[i]) /\ low[i] = Freed(d.cells[i])
      BY <1>5, <2>1, <2>3 DEF RmCell, freed
    <3> QED
      BY <2>2, <3>1, LowerCellForms
  <2>4. CASE i \in Selected(c, s + 1, p0, p1) /\ i \notin freed
    <3>1. cells[i] = WithSeqs(c.cells[i], RmSeqs(c, s + 1, i)) /\ low[i] = WithSeqs(d.cells[i], RmSeqs(d, s, i))
      BY <1>2, <1>5, <2>1, <2>4, Zenon DEF RmCell, freed, WithSeqs
    <3> QED
      BY <1>4, <2>2, <3>1, LowerCellForms
  <2>5. CASE i \notin Selected(c, s + 1, p0, p1) /\ i \notin freed
    <3>1. cells[i] = c.cells[i] /\ low[i] = d.cells[i]
      BY <1>2, <1>5, <2>1, <2>5 DEF RmCell, freed
    <3> QED
      BY <2>2, <3>1
  <2> QED
    BY <2>3, <2>4, <2>5
<1>7. head \in 0 .. Size /\ head \in Int /\ used \in Int
  BY <1>5, CountFreed, SizeAssumption
<1>8. FreedHead(d, freed) = head
  BY <1>1 DEF FreedHead
<1>9. SeqRm(c, s + 1, p0, p1) = WithCellsHeadUsed(c, cells, head, used)
  BY Zenon DEF SeqRm, WithCellsHeadUsed, RmCell, RmFreed, RmSeqs
<1>10. SeqRm(d, s, p0, p1) = WithCellsHeadUsed(d, low, FreedHead(d, RmFreed(d, s, p0, p1)),
                                              d.used - Cardinality(RmFreed(d, s, p0, p1)))
  BY Zenon DEF SeqRm, WithCellsHeadUsed, RmCell, RmFreed, RmSeqs
<1>11. cells = [i \in CellIds |-> cells[i]] /\ low = [i \in CellIds |-> low[i]]
  OBVIOUS
<1> HIDE DEF cells, low, freed, head
<1>12. SeqRm(d, s, p0, p1) = WithCellsHeadUsed(d, low, head, used)
  BY <1>1, <1>5, <1>8, <1>10
<1> HIDE DEF used
<1>13. SeqRm(c, s + 1, p0, p1) = CacheOf(cells, head, used, c.has_shift, c.do_defrag)
  BY <1>9, CellsHeadUsedForm DEF Plain
<1>14. SeqRm(d, s, p0, p1) = CacheOf(low, head, used, c.has_shift, c.do_defrag)
  BY <1>1, <1>12, CellsHeadUsedForm DEF Plain
<1>15. /\ CacheOf(cells, head, used, c.has_shift, c.do_defrag) \in Caches(Cell)
       /\ CacheOf(low, head, used, c.has_shift, c.do_defrag)
            = Lowered(CacheOf(cells, head, used, c.has_shift, c.do_defrag))
  BY <1>3, <1>6, <1>7, <1>11, LoweredCacheOf
<1>16. Plain(SeqRm(c, s + 1, p0, p1))
  BY <1>3, <1>7, <1>13, <1>15, CacheOfFields DEF Plain
<1> QED
  BY <1>13, <1>14, <1>15, <1>16 DEF d

\* So does a shift of positions.
LEMMA LoweredAdd ==
  ASSUME NEW c, Plain(c), NEW s \in Nat, NEW p0, NEW p1, NEW delta \in Int
  PROVE  /\ SeqAdd(Lowered(c), s, p0, p1, delta) = Lowered(SeqAdd(c, s + 1, p0, p1, delta))
         /\ Plain(SeqAdd(c, s + 1, p0, p1, delta))
<1>0. CASE delta = 0 \/ EmptyRange(p0, p1)
  BY <1>0 DEF SeqAdd
<1> SUFFICES ASSUME ~(delta = 0 \/ EmptyRange(p0, p1))
             PROVE  /\ SeqAdd(Lowered(c), s, p0, p1, delta) = Lowered(SeqAdd(c, s + 1, p0, p1, delta))
                    /\ Plain(SeqAdd(c, s + 1, p0, p1, delta))
  BY <1>0
<1> DEFINE d == Lowered(c)
           hit == CpHit(c, s + 1, p0, p1)
           freed == AddFreed(c, s + 1, p0, p1, delta)
           cells == [i \in CellIds |-> AddCell(c, s + 1, p0, p1, delta, i)]
           low == [i \in CellIds |-> AddCell(d, s, p0, p1, delta, i)]
           head == IF freed = {} THEN 0 ELSE Min(freed)
           used == c.used - Cardinality(freed)
           shifting == c.has_shift \/ hit # {}
<1>1. /\ d \in Caches(Cell) /\ d.head = c.head /\ d.used = c.used /\ d.has_shift = c.has_shift
      /\ d.do_defrag = c.do_defrag /\ \A i \in CellIds : d.cells[i] = LowerCell(c.cells[i]) /\ c.cells[i] \in Cell
  BY LoweredIs DEF Plain
<1>2. CpHit(d, s, p0, p1) = hit /\ hit \in SUBSET CellIds
  BY LoweredSelected DEF Plain
<1>3. c.has_shift \in BOOLEAN /\ c.do_defrag \in BOOLEAN /\ c.do_defrag = FALSE
  BY CacheFields DEF Plain
<1> HIDE DEF d, hit
<1>4. \A i \in CellIds : d.cells[i].pos = c.cells[i].pos /\ c.cells[i].pos \in Int
  BY <1>1, CellFields, LowerCellIs
<1>5. AddFreed(d, s, p0, p1, delta) = freed /\ freed \in SUBSET CellIds
  BY <1>2, <1>4 DEF AddFreed, hit
<1>6. ASSUME NEW i \in CellIds
      PROVE  cells[i] \in Cell /\ low[i] = LowerCell(cells[i])
  <2>1. cells[i] = AddCell(c, s + 1, p0, p1, delta, i) /\ low[i] = AddCell(d, s, p0, p1, delta, i)
    OBVIOUS
  <2> HIDE DEF cells, low, freed
  <2>2. /\ c.cells[i] \in Cell /\ d.cells[i] = LowerCell(c.cells[i]) /\ c.cells[i].pos + delta \in Int
        /\ d.cells[i].pos = c.cells[i].pos
    BY <1>1, <1>4
  <2> DEFINE pos == c.cells[i].pos + delta
  <2>3. /\ AddMoved(c, delta, i) = Moved(c.cells[i], pos) /\ AddMoved(d, delta, i) = Moved(d.cells[i], pos)
    BY <2>2 DEF AddMoved
  <2> HIDE DEF pos
  <2>4. AddMoved(c, delta, i) \in Cell /\ AddMoved(d, delta, i) = LowerCell(AddMoved(c, delta, i))
    <3>1. pos \in Int
      BY <2>2 DEF pos
    <3> QED
      BY <2>2, <2>3, <3>1, LowerCellForms
  <2>5. CASE i \in freed
    <3>1. cells[i] = Freed(AddMoved(c, delta, i)) /\ low[i] = Freed(AddMoved(d, delta, i))
      BY <1>5, <2>1, <2>5 DEF AddCell, freed
    <3> QED
      BY <2>4, <3>1, LowerCellForms
  <2>6. CASE i \in hit /\ i \notin freed
    <3>1. cells[i] = AddMoved(c, delta, i) /\ low[i] = AddMoved(d, delta, i)
      BY <1>2, <1>5, <2>1, <2>6 DEF AddCell, freed, hit
    <3> QED
      BY <2>4, <3>1
  <2>7. CASE i \notin hit /\ i \notin freed
    <3>1. cells[i] = c.cells[i] /\ low[i] = d.cells[i]
      BY <1>2, <1>5, <2>1, <2>7 DEF AddCell, freed, hit
    <3> QED
      BY <2>2, <3>1
  <2> QED
    BY <2>5, <2>6, <2>7
<1>7. head \in 0 .. Size /\ head \in Int /\ used \in Int /\ shifting \in BOOLEAN
  BY <1>3, <1>5, CountFreed, SizeAssumption
<1>8. SeqAdd(c, s + 1, p0, p1, delta) = WithCellsHeadUsedShift(c, cells, head, used, shifting)
  BY Zenon DEF SeqAdd, WithCellsHeadUsedShift, AddCell, AddFreed, AddMoved, CpHit, hit
<1> DEFINE free == AddFreed(d, s, p0, p1, delta)
<1>9. SeqAdd(d, s, p0, p1, delta)
        = WithCellsHeadUsedShift(d, low, IF free = {} THEN 0 ELSE Min(free), d.used - Cardinality(free),
                                 d.has_shift \/ CpHit(d, s, p0, p1) # {})
  BY Zenon DEF SeqAdd, WithCellsHeadUsedShift, AddCell, AddFreed, AddMoved, CpHit
<1>10. cells = [i \in CellIds |-> cells[i]] /\ low = [i \in CellIds |-> low[i]]
  OBVIOUS
<1> HIDE DEF cells, low, freed
<1>11. SeqAdd(d, s, p0, p1, delta) = WithCellsHeadUsedShift(d, low, head, used, shifting)
  BY <1>1, <1>2, <1>5, <1>9
<1> HIDE DEF used, head, shifting
<1>12. SeqAdd(c, s + 1, p0, p1, delta) = CacheOf(cells, head, used, shifting, c.do_defrag)
  BY <1>8, CellsHeadUsedShiftForm DEF Plain
<1>13. SeqAdd(d, s, p0, p1, delta) = CacheOf(low, head, used, shifting, c.do_defrag)
  BY <1>1, <1>11, CellsHeadUsedShiftForm DEF Plain
<1>14. /\ CacheOf(cells, head, used, shifting, c.do_defrag) \in Caches(Cell)
       /\ CacheOf(low, head, used, shifting, c.do_defrag)
            = Lowered(CacheOf(cells, head, used, shifting, c.do_defrag))
  BY <1>3, <1>6, <1>7, <1>10, LoweredCacheOf
<1>15. Plain(SeqAdd(c, s + 1, p0, p1, delta))
  BY <1>3, <1>7, <1>12, <1>14, CacheOfFields DEF Plain
<1> QED
  BY <1>12, <1>13, <1>14, <1>15 DEF d

\* The update before a batch.
LEMMA LoweredUpdate ==
  ASSUME NEW c, Plain(c), NEW m
  PROVE  Update(Lowered(c), m) = Lowered(Update(c, m)) /\ Plain(Update(c, m))
<1> DEFINE d == Lowered(c)
           cells == [i \in CellIds |-> ShiftedCell(c.cells[i])]
           low == [i \in CellIds |-> ShiftedCell(d.cells[i])]
<1>1. /\ d \in Caches(Cell) /\ d.head = c.head /\ d.used = c.used /\ d.has_shift = c.has_shift
      /\ d.do_defrag = FALSE /\ \A i \in CellIds : d.cells[i] = LowerCell(c.cells[i]) /\ c.cells[i] \in Cell
  BY LoweredIs DEF Plain
<1>2. c \in Caches(Cell) /\ c.head \in 0 .. Size /\ c.head \in Int /\ c.used \in Int /\ c.has_shift \in BOOLEAN
      /\ c.do_defrag = FALSE
  BY CacheFields DEF Plain
<1> HIDE DEF d
<1>3. \A i \in CellIds : cells[i] \in Cell /\ low[i] = LowerCell(cells[i])
  BY <1>1, LowerCellForms
<1>4. KShift(c) = WithShiftCells(c, FALSE, cells) /\ KShift(d) = WithShiftCells(d, FALSE, low)
  BY Zenon DEF KShift, WithShiftCells, ShiftedCell
<1>5. cells = [i \in CellIds |-> cells[i]] /\ low = [i \in CellIds |-> low[i]]
  OBVIOUS
<1> HIDE DEF cells, low
<1> DEFINE no == FALSE
<1>0. no \in BOOLEAN /\ no = FALSE
  OBVIOUS
<1> HIDE DEF no
<1>6. KShift(c) = CacheOf(cells, c.head, c.used, no, no)
  BY <1>0, <1>2, <1>4, ShiftCellsForm
<1>7. KShift(d) = CacheOf(low, c.head, c.used, no, no)
  BY <1>0, <1>1, <1>4, ShiftCellsForm
<1>8. /\ CacheOf(cells, c.head, c.used, no, no) \in Caches(Cell)
      /\ CacheOf(low, c.head, c.used, no, no) = Lowered(CacheOf(cells, c.head, c.used, no, no))
  BY <1>0, <1>2, <1>3, <1>5, LoweredCacheOf
<1>9. Plain(KShift(c)) /\ KShift(d) = Lowered(KShift(c))
  <2>1. KShift(c).head = c.head /\ KShift(c).do_defrag = no
    BY <1>6, CacheOfFields
  <2> QED
    BY <1>0, <1>2, <1>6, <1>7, <1>8, <2>1 DEF Plain
<1>10. Update(c, m) = (IF c.has_shift THEN KShift(c) ELSE c) /\ Update(d, m) = IF c.has_shift THEN KShift(d) ELSE d
  BY <1>1, <1>2, Zenon DEF Update
<1> QED
  BY <1>2, <1>9, <1>10 DEF d

\* The clearing of both.
LEMMA LoweredCleared ==
  ASSUME NEW c, Plain(c)
  PROVE  Cleared(Lowered(c)) = Lowered(Cleared(c)) /\ Plain(Cleared(c))
<1> DEFINE d == Lowered(c)
           cells == [i \in CellIds |-> Freed(c.cells[i])]
           low == [i \in CellIds |-> Freed(d.cells[i])]
<1>1. /\ d \in Caches(Cell) /\ d.has_shift = c.has_shift /\ d.do_defrag = FALSE
      /\ \A i \in CellIds : d.cells[i] = LowerCell(c.cells[i]) /\ c.cells[i] \in Cell
  BY LoweredIs DEF Plain
<1>2. c \in Caches(Cell) /\ c.has_shift \in BOOLEAN /\ c.do_defrag = FALSE
  BY CacheFields DEF Plain
<1> HIDE DEF d
<1>3. \A i \in CellIds : cells[i] \in Cell /\ low[i] = LowerCell(cells[i])
  BY <1>1, LowerCellForms
<1>4. Cleared(c) = WithCellsHeadUsed(c, cells, 0, 0) /\ Cleared(d) = WithCellsHeadUsed(d, low, 0, 0)
  BY Zenon DEF Cleared, WithCellsHeadUsed
<1>5. cells = [i \in CellIds |-> cells[i]] /\ low = [i \in CellIds |-> low[i]]
  OBVIOUS
<1> HIDE DEF cells, low
<1> DEFINE no == FALSE
           none == 0
<1>0. no \in BOOLEAN /\ no = FALSE /\ none \in Int /\ none = 0 /\ none \in 0 .. Size
  BY SizeAssumption
<1> HIDE DEF no, none
<1>6. Cleared(c) = CacheOf(cells, none, none, c.has_shift, no)
  BY <1>0, <1>2, <1>4, CellsHeadUsedForm
<1>7. Cleared(d) = CacheOf(low, none, none, c.has_shift, no)
  BY <1>0, <1>1, <1>4, CellsHeadUsedForm
<1>8. /\ CacheOf(cells, none, none, c.has_shift, no) \in Caches(Cell)
      /\ CacheOf(low, none, none, c.has_shift, no) = Lowered(CacheOf(cells, none, none, c.has_shift, no))
  BY <1>0, <1>2, <1>3, <1>5, LoweredCacheOf
<1>9. Cleared(c).head = none /\ Cleared(c).do_defrag = no
  BY <1>6, CacheOfFields
<1>10. Plain(Cleared(c))
  BY <1>0, <1>6, <1>8, <1>9 DEF Plain
<1>11. Cleared(d) = Lowered(Cleared(c))
  BY <1>6, <1>7, <1>8, Zenon
<1> QED
  BY <1>10, <1>11 DEF d

\* The search for a slot looks at which cells are used, and at nothing else.
SameUse(c, d) == \A i \in CellIds : c.cells[i].pos >= 0 <=> d.cells[i].pos >= 0

LEMMA SameStep ==
  ASSUME NEW c, NEW d, SameUse(c, d), NEW n \in 1 .. Size, NEW f, NEW at \in Starts
  PROVE  SearchStep(c, n, f, at) = SearchStep(d, n, f, at)
<1>1. at[1] \in 0 .. Size /\ at[2] \in Nat
  BY StepsType
<1>2. CASE at[1] + n > Size
  BY <1>2 DEF SearchStep
<1>3. CASE ~(at[1] + n > Size)
  <2>1. \A i \in 0 .. n - 1 : at[1] + i \in CellIds
    BY <1>1, <1>3, SizeAssumption DEF CellIds
  <2>2. Busy(c, n, at[1]) = Busy(d, n, at[1])
    BY <2>1 DEF Busy, SameUse
  <2> QED
    BY <2>2 DEF SearchStep
<1> QED
  BY <1>2, <1>3

LEMMA SameSearch ==
  ASSUME NEW c, NEW d, SameUse(c, d), NEW n \in 1 .. Size
  PROVE  Search(c, n) = Search(d, n)
<1> DEFINE f == Search(c, n)
           g == Search(d, n)
           T == {m \in Nat : \A at \in Starts : Steps(n, at) = m => f[at] = g[at]}
<1>1. f = [at \in Starts |-> SearchStep(c, n, f, at)] /\ g = [at \in Starts |-> SearchStep(d, n, g, at)]
  BY SearchExists DEF IsSearch
<1> HIDE DEF f, g
<1>2. \A at \in Starts : f[at] = SearchStep(c, n, f, at) /\ g[at] = SearchStep(d, n, g, at)
  BY <1>1
<1>3. ASSUME NEW m \in Nat, \A k \in Nat : k < m => k \in T
      PROVE  m \in T
  <2> SUFFICES ASSUME NEW at \in Starts, Steps(n, at) = m
               PROVE  f[at] = g[at]
    OBVIOUS
  <2>1. ASSUME NEW y \in Starts, Steps(n, y) < m
        PROVE  f[y] = g[y]
    BY <1>3, <2>1, StepsType
  <2>2. SearchStep(c, n, f, at) = SearchStep(c, n, g, at)
    BY <2>1, SearchStepSame
  <2>3. SearchStep(c, n, g, at) = SearchStep(d, n, g, at)
    BY SameStep
  <2> QED
    BY <1>2, <2>2, <2>3
<1> HIDE DEF T
<1>4. \A m \in Nat : m \in T
  BY <1>3, NatSetComplete
<1>5. \A at \in Starts : f[at] = g[at]
  BY <1>4, StepsType DEF T
<1>6. [at \in Starts |-> f[at]] = [at \in Starts |-> g[at]]
  BY <1>5
<1>7. f = [at \in Starts |-> f[at]] /\ g = [at \in Starts |-> g[at]]
  BY <1>1
<1> QED
  BY <1>6, <1>7 DEF f, g

LEMMA SameSlot ==
  ASSUME NEW c, NEW d, SameUse(c, d), c.head = d.head, NEW n \in Nat \ {0}
  PROVE  FindSlot(c, n) = FindSlot(d, n)
<1>1. CASE n > Size
  BY <1>1, FindSlotIs
<1>2. CASE n \in 1 .. Size
  BY <1>2, FindSlotIs, SameSearch
<1> QED
  BY <1>1, <1>2, SizeAssumption

-----------------------------------------------------------------------------
(* A batch on the master and on a worker                                   *)

Entry == [tok : Int, pos : Int, seq : Int]

LowerEntry(b) == [b EXCEPT !.seq = @ - 1]
LowerBatch(tokens) == [k \in DOMAIN tokens |-> LowerEntry(tokens[k])]

LEMMA LowerBatchIs ==
  ASSUME NEW tokens \in Seq(Entry)
  PROVE  /\ LowerBatch(tokens) \in Seq(Entry) /\ Len(LowerBatch(tokens)) = Len(tokens)
         /\ \A k \in 1 .. Len(tokens) :
              /\ tokens[k] \in Entry /\ LowerBatch(tokens)[k] = LowerEntry(tokens[k])
              /\ LowerEntry(tokens[k]).tok = tokens[k].tok /\ LowerEntry(tokens[k]).pos = tokens[k].pos
              /\ LowerEntry(tokens[k]).seq = tokens[k].seq - 1
<1>1. Len(tokens) \in Nat /\ DOMAIN tokens = 1 .. Len(tokens) /\ \A k \in 1 .. Len(tokens) : tokens[k] \in Entry
  OBVIOUS
<1>2. ASSUME NEW b \in Entry
      PROVE  /\ LowerEntry(b) \in Entry /\ LowerEntry(b).tok = b.tok /\ LowerEntry(b).pos = b.pos
             /\ LowerEntry(b).seq = b.seq - 1
  <2>1. b.tok \in Int /\ b.pos \in Int /\ b.seq \in Int /\ b.seq - 1 \in Int
    BY DEF Entry
  <2>2. LowerEntry(b) = [tok |-> b.tok, pos |-> b.pos, seq |-> b.seq - 1]
    <3>1. b = [tok |-> b.tok, pos |-> b.pos, seq |-> b.seq]
      BY DEF Entry
    <3>2. \A v : [b EXCEPT !.seq = v] = [tok |-> b.tok, pos |-> b.pos, seq |-> v]
      BY <3>1
    <3> QED
      BY <3>2, Zenon DEF LowerEntry
  <2> QED
    BY <2>1, <2>2 DEF Entry
<1>3. LowerBatch(tokens) = [k \in 1 .. Len(tokens) |-> LowerEntry(tokens[k])]
  BY <1>1 DEF LowerBatch
<1> QED
  BY <1>1, <1>2, <1>3

LEMMA LowerBatchPart ==
  ASSUME NEW tokens \in Seq(Entry), NEW a \in Nat \ {0}, NEW b \in Int, b <= Len(tokens)
  PROVE  /\ LowerBatch(SubSeq(tokens, a, b)) = SubSeq(LowerBatch(tokens), a, b)
         /\ SubSeq(tokens, a, b) \in Seq(Entry)
         /\ Len(SubSeq(tokens, a, b)) = IF a <= b THEN b - a + 1 ELSE 0
<1> DEFINE n == IF a <= b THEN b - a + 1 ELSE 0
           part == SubSeq(tokens, a, b)
           low == SubSeq(LowerBatch(tokens), a, b)
<1>1. /\ Len(tokens) \in Nat /\ LowerBatch(tokens) \in Seq(Entry) /\ Len(LowerBatch(tokens)) = Len(tokens)
      /\ \A k \in 1 .. Len(tokens) : tokens[k] \in Entry /\ LowerBatch(tokens)[k] = LowerEntry(tokens[k])
  BY LowerBatchIs
<1>2. n \in Nat /\ \A k \in 1 .. n : a + k - 1 \in 1 .. Len(tokens)
  BY <1>1
<1>3. part = [k \in 1 .. n |-> tokens[a + k - 1]] /\ low = [k \in 1 .. n |-> LowerBatch(tokens)[a + k - 1]]
  BY <1>1
<1> HIDE DEF part, low, n
<1>4. \A k \in 1 .. n : part[k] \in Entry /\ low[k] = LowerEntry(part[k])
  BY <1>1, <1>2, <1>3
<1>5. part \in Seq(Entry) /\ Len(part) = n
  BY <1>2, <1>3, <1>4
<1>6. LowerBatch(part) = [k \in 1 .. n |-> LowerEntry(part[k])]
  BY <1>5 DEF LowerBatch
<1>7. LowerBatch(part) = low
  BY <1>3, <1>4, <1>6
<1> QED
  BY <1>5, <1>7 DEF part, low, n

LEMMA LoweredHead ==
  ASSUME NEW c, Plain(c), NEW head \in 0 .. Size
  PROVE  /\ Plain(WithHead(c, head)) /\ WithHead(c, head).head = head
         /\ WithHead(Lowered(c), head) = Lowered(WithHead(c, head))
         /\ WithHead(c, head).cells = c.cells /\ WithHead(c, head).used = c.used
<1>1. c \in Caches(Cell) /\ c.cells \in [CellIds -> Cell] /\ c.used \in Int /\ c.has_shift \in BOOLEAN
      /\ c.do_defrag \in BOOLEAN /\ c.do_defrag = FALSE /\ head \in Int
  BY CacheFields, SizeAssumption DEF Plain
<1> DEFINE e == WithHead(c, head)
           d == Lowered(c)
<1>2. e = CacheOf(c.cells, head, c.used, c.has_shift, c.do_defrag)
  BY <1>1, HeadForm
<1>3. /\ d \in Caches(Cell) /\ d.head = c.head /\ d.used = c.used /\ d.has_shift = c.has_shift
      /\ d.do_defrag = c.do_defrag
  BY <1>1, LoweredIs
<1>4. WithHead(d, head) = CacheOf(d.cells, head, c.used, c.has_shift, c.do_defrag)
  BY <1>3, HeadForm
<1>5. d.cells = [i \in CellIds |-> LowerCell(c.cells[i])]
  BY CacheOfFields DEF Lowered
<1>6. /\ e.cells = c.cells /\ e.head = head /\ e.used = c.used /\ e.has_shift = c.has_shift
      /\ e.do_defrag = c.do_defrag
  BY <1>2, CacheOfFields
<1>7. e \in Caches(Cell)
  BY <1>1, <1>2 DEF Caches, CacheOf
<1> HIDE DEF d, e
<1>8. Lowered(e) = CacheOf([i \in CellIds |-> LowerCell(c.cells[i])], head, c.used, c.has_shift, c.do_defrag)
  BY <1>6, Zenon DEF Lowered
<1> QED
  BY <1>1, <1>4, <1>5, <1>6, <1>7, <1>8 DEF Plain, d, e

LEMMA LoweredPut ==
  ASSUME NEW c, Plain(c), NEW tokens \in Seq(Entry)
  PROVE  /\ Plain(Put(c, tokens)) /\ Put(c, tokens).head = c.head
         /\ Put(Lowered(c), LowerBatch(tokens)) = Lowered(Put(c, tokens))
<1> DEFINE d == Lowered(c)
           n == Len(tokens)
           cells == PutCells(c, tokens, c.head)
           low == PutCells(d, LowerBatch(tokens), c.head)
<1>1. /\ d \in Caches(Cell) /\ d.head = c.head /\ d.used = c.used /\ d.has_shift = c.has_shift
      /\ d.do_defrag = c.do_defrag /\ \A i \in CellIds : d.cells[i] = LowerCell(c.cells[i]) /\ c.cells[i] \in Cell
  BY LoweredIs DEF Plain
<1>2. c \in Caches(Cell) /\ c.head \in 0 .. Size /\ c.head \in Int /\ c.used \in Int /\ c.has_shift \in BOOLEAN
      /\ c.do_defrag \in BOOLEAN /\ c.do_defrag = FALSE
  BY CacheFields DEF Plain
<1>3. /\ n \in Nat /\ Len(LowerBatch(tokens)) = n
      /\ \A k \in 1 .. n : /\ tokens[k] \in Entry /\ LowerBatch(tokens)[k].tok = tokens[k].tok
                           /\ LowerBatch(tokens)[k].pos = tokens[k].pos
                           /\ LowerBatch(tokens)[k].seq = tokens[k].seq - 1
  BY LowerBatchIs
<1> HIDE DEF d, n
<1>4. ASSUME NEW i \in CellIds
      PROVE  cells[i] \in Cell /\ low[i] = LowerCell(cells[i])
  <2>1. c.cells[i] \in Cell /\ d.cells[i] = LowerCell(c.cells[i])
    BY <1>1
  <2>2. CASE i - c.head \in 0 .. n - 1
    <3> DEFINE k == i - c.head + 1
    <3>1. k \in 1 .. n
      BY <1>2, <1>3, <2>2 DEF CellIds
    <3>2. cells[i] = PutCell(c, tokens[k], i) /\ low[i] = PutCell(d, LowerBatch(tokens)[k], i)
      BY <1>3, <2>2 DEF PutCells, n
    <3> HIDE DEF k, cells, low
    <3> DEFINE b == tokens[k]
               l == LowerBatch(tokens)[k]
    <3>3. b.pos \in Int /\ b.tok \in Int /\ b.seq \in Int /\ l.tok = b.tok /\ l.pos = b.pos /\ l.seq = b.seq - 1
      BY <1>3, <3>1 DEF Entry
    <3>4. c.cells[i].delta \in Int /\ d.cells[i].delta = c.cells[i].delta
      BY <2>1, CellFields, LowerCellIs
    <3> HIDE DEF b, l
    <3>5. cells[i] = CellOf(b.pos, {b.seq}, b.tok, b.pos, c.cells[i].delta)
      BY <3>2 DEF PutCell, b
    <3>6. low[i] = CellOf(b.pos, {b.seq - 1}, b.tok, b.pos, c.cells[i].delta)
      BY <3>2, <3>3, <3>4 DEF PutCell, l
    <3>7. cells[i] \in Cell
      BY <3>3, <3>4, <3>5 DEF Cell, CellOf
    <3>8. LowerSeqs({b.seq}) = {b.seq - 1}
      BY <3>3 DEF LowerSeqs
    <3>9. LowerCell(cells[i]) = CellOf(b.pos, LowerSeqs({b.seq}), b.tok, b.pos, c.cells[i].delta)
      BY <3>5, CellOfFields DEF LowerCell
    <3> QED
      BY <3>6, <3>7, <3>8, <3>9
  <2>3. CASE ~(i - c.head \in 0 .. n - 1)
    <3>1. cells[i] = c.cells[i] /\ low[i] = d.cells[i]
      BY <1>3, <2>3 DEF PutCells, n
    <3> QED
      BY <2>1, <3>1
  <2> QED
    BY <2>2, <2>3
<1>5. Put(c, tokens) = WithCellsUsed(c, cells, c.used + n)
  BY Zenon DEF Put, WithCellsUsed, PutCells, PutCell, CellOf, n
<1>6. Put(d, LowerBatch(tokens)) = WithCellsUsed(d, low, c.used + n)
  <2>1. Put(d, LowerBatch(tokens))
          = WithCellsUsed(d, PutCells(d, LowerBatch(tokens), d.head), d.used + Len(LowerBatch(tokens)))
    BY Zenon DEF Put, WithCellsUsed, PutCells, PutCell, CellOf
  <2> QED
    BY <1>1, <1>3, <2>1
<1>7. cells = [i \in CellIds |-> cells[i]] /\ low = [i \in CellIds |-> low[i]]
  BY DEF PutCells
<1>8. c.used + n \in Int
  BY <1>2, <1>3
<1> HIDE DEF cells, low
<1> DEFINE used == c.used + n
<1>9. Put(c, tokens) = CacheOf(cells, c.head, used, c.has_shift, c.do_defrag)
  BY <1>2, <1>5, CellsUsedForm
<1>10. Put(d, LowerBatch(tokens)) = CacheOf(low, c.head, used, c.has_shift, c.do_defrag)
  BY <1>1, <1>6, CellsUsedForm
<1> HIDE DEF used
<1>11. /\ CacheOf(cells, c.head, used, c.has_shift, c.do_defrag) \in Caches(Cell)
       /\ CacheOf(low, c.head, used, c.has_shift, c.do_defrag)
            = Lowered(CacheOf(cells, c.head, used, c.has_shift, c.do_defrag))
  BY <1>2, <1>4, <1>7, <1>8, LoweredCacheOf DEF used
<1>12. Put(c, tokens).head = c.head /\ Put(c, tokens).do_defrag = c.do_defrag
  BY <1>9, CacheOfFields
<1> QED
  BY <1>2, <1>9, <1>10, <1>11, <1>12 DEF Plain, d

LEMMA LoweredStore ==
  ASSUME NEW c, Plain(c), NEW tokens \in Seq(Entry), Len(tokens) # 0
  PROVE  /\ Plain(Store(c, tokens).cache) /\ Store(c, tokens).ok \in BOOLEAN
         /\ Store(Lowered(c), LowerBatch(tokens)).ok = Store(c, tokens).ok
         /\ Store(Lowered(c), LowerBatch(tokens)).cache = Lowered(Store(c, tokens).cache)
<1> DEFINE n == Len(tokens)
           d == Lowered(c)
           low == LowerBatch(tokens)
           start == IF c.head > c.used + 2 * n THEN 0 ELSE c.head
           r == WithHead(c, start)
           f == FindSlot(r, n)
           t == WithHead(r, f.head)
           p == Put(t, tokens)
           end == IF f.head + n >= Size THEN 0 ELSE f.head + n
<1>1. n \in Nat \ {0} /\ Len(low) = n /\ Size \in Nat
  BY LowerBatchIs, SizeAssumption
<1>2. c.head \in 0 .. Size /\ c.used \in Int /\ d.head = c.head /\ d.used = c.used
  BY CacheFields, LoweredIs DEF Plain
<1>3. start \in 0 .. Size
  BY <1>1, <1>2
<1>4. Store(c, tokens) = [ok |-> f.ok, cache |-> IF f.ok THEN WithHead(p, IF p.head + n >= Size THEN 0 ELSE p.head + n)
                                                 ELSE WithHead(r, f.head)]
  BY Zenon DEF Store, WithHead
<1> DEFINE dstart == IF d.head > d.used + 2 * Len(low) THEN 0 ELSE d.head
           dr == WithHead(d, dstart)
           df == FindSlot(dr, Len(low))
           dp == Put(WithHead(dr, df.head), low)
<1>5. Store(d, low)
        = [ok |-> df.ok, cache |-> IF df.ok THEN WithHead(dp, IF dp.head + Len(low) >= Size THEN 0 ELSE dp.head + Len(low))
                                   ELSE WithHead(dr, df.head)]
  BY Zenon DEF Store, WithHead
<1>6. dstart = start
  BY <1>1, <1>2
<1> HIDE DEF n, low, d, start, dstart
<1>7. Plain(r) /\ r.head = start /\ dr = Lowered(r)
  BY <1>3, <1>6, LoweredHead DEF d
<1> HIDE DEF r, dr
<1>8. Right(r, n, f)
  BY <1>1, <1>7, FindSlotRight DEF Plain
<1>9. df = f
  <2>1. dr.head = r.head /\ \A i \in CellIds : dr.cells[i] = LowerCell(r.cells[i]) /\ r.cells[i] \in Cell
    BY <1>7, LoweredIs DEF Plain
  <2>2. \A i \in CellIds : dr.cells[i].pos = r.cells[i].pos
    BY <2>1, LowerCellIs
  <2>3. SameUse(dr, r)
    BY <2>2 DEF SameUse
  <2>4. FindSlot(dr, n) = FindSlot(r, n)
    BY <1>1, <2>1, <2>3, SameSlot
  <2> QED
    BY <1>1, <2>4
<1>10. f.ok \in BOOLEAN /\ f.head \in 0 .. Size
  BY <1>8 DEF Right
<1> HIDE DEF f, df
<1>11. Plain(t) /\ t.head = f.head /\ WithHead(dr, df.head) = Lowered(t)
  BY <1>7, <1>9, <1>10, LoweredHead
<1> HIDE DEF t
<1>12. Plain(p) /\ p.head = f.head /\ dp = Lowered(p) /\ dp.head = f.head
  <2>1. Plain(p) /\ p.head = t.head /\ dp = Lowered(p)
    BY <1>11, LoweredPut DEF low
  <2>2. dp.head = p.head
    BY <2>1, LoweredIs DEF Plain
  <2> QED
    BY <1>11, <2>1, <2>2
<1> HIDE DEF p, dp
<1>13. end \in 0 .. Size
  BY <1>1, <1>10
<1>14. Plain(WithHead(p, end)) /\ WithHead(dp, end) = Lowered(WithHead(p, end))
  BY <1>12, <1>13, LoweredHead
<1>15. Store(c, tokens) = [ok |-> f.ok, cache |-> IF f.ok THEN WithHead(p, end) ELSE WithHead(r, f.head)]
  BY <1>4, <1>12
<1>16. Store(d, low) = [ok |-> f.ok, cache |-> IF f.ok THEN WithHead(dp, end) ELSE WithHead(dr, f.head)]
  BY <1>1, <1>5, <1>9, <1>12
<1>17. Plain(WithHead(r, f.head)) /\ WithHead(dr, f.head) = Lowered(WithHead(r, f.head))
  BY <1>7, <1>10, LoweredHead
<1> HIDE DEF end
<1>18. Store(c, tokens).ok = f.ok /\ Store(d, low).ok = f.ok
  BY <1>15, <1>16
<1>19. CASE f.ok
  BY <1>10, <1>14, <1>15, <1>16, <1>18, <1>19 DEF d, low
<1>20. CASE ~f.ok
  BY <1>10, <1>15, <1>16, <1>17, <1>18, <1>20 DEF d, low
<1> QED
  BY <1>10, <1>19, <1>20

-----------------------------------------------------------------------------
(* Whole batches, in physical ones                                         *)

LEMMA LeastOfTwo ==
  ASSUME NEW a \in Int, NEW b \in Int
  PROVE  Min({a, b}) = IF a <= b THEN a ELSE b
<1> DEFINE m == IF a <= b THEN a ELSE b
<1>1. m \in {a, b} /\ \A y \in {a, b} : m <= y
  OBVIOUS
<1>2. \A x \in {a, b} : (\A y \in {a, b} : x <= y) => x = m
  OBVIOUS
<1> HIDE DEF m
<1>3. Min({a, b}) = m
  BY <1>1, <1>2 DEF Min
<1> QED
  BY <1>3 DEF m

LEMMA GreatestOfTwo ==
  ASSUME NEW a \in Int, NEW b \in Int
  PROVE  Max({a, b}) = IF a <= b THEN b ELSE a
<1> DEFINE m == IF a <= b THEN b ELSE a
<1>1. m \in {a, b} /\ \A y \in {a, b} : m >= y
  OBVIOUS
<1>2. \A x \in {a, b} : (\A y \in {a, b} : x >= y) => x = m
  OBVIOUS
<1> HIDE DEF m
<1>3. Max({a, b}) = m
  BY <1>1, <1>2 DEF Max
<1> QED
  BY <1>3 DEF m

LEMMA Quotient ==
  ASSUME NEW a \in Nat, NEW u \in Nat \ {0}
  PROVE  /\ a \div u \in Nat /\ (a \div u) * u \in Nat
         /\ (a \div u) * u <= a /\ a < (a \div u) * u + u
OBVIOUS

LEMMA TimesMore ==
  ASSUME NEW u \in Nat, NEW a \in Int, NEW b \in Int, a <= b
  PROVE  a * u <= b * u
OBVIOUS

LEMMA TimesLess ==
  ASSUME NEW u \in Nat, NEW a \in Nat
  PROVE  a * u \in Nat /\ (a - 1) * u = a * u - u /\ (a + 1) * u = a * u + u
OBVIOUS

Parts(tokens) == (Len(tokens) + NUbatch - 1) \div NUbatch
PartFrom(k)       == (k - 1) * NUbatch + 1
PartTo(tokens, k) == Min({k * NUbatch, Len(tokens)})
Part(tokens, k)   == SubSeq(tokens, PartFrom(k), PartTo(tokens, k))

LEMMA SizesAre ==
  /\ NSlots \in Nat \ {0} /\ NCtx \in Nat /\ NCtx > 4 /\ NBatch \in Nat \ {0} /\ NUbatch \in Nat \ {0}
  /\ AddBos \in {0, 1} /\ MaxTasks \in Nat /\ NPredict \in Nat \ {0}
BY SlotAssumption

\* A part is never empty, and they are all there is: part by part, the whole batch.
LEMMA PartsAre ==
  ASSUME NEW tokens, Len(tokens) \in Nat
  PROVE  /\ Parts(tokens) \in Nat
         /\ \A k \in 1 .. Parts(tokens) :
              /\ PartFrom(k) \in Nat \ {0} /\ PartTo(tokens, k) \in Nat
              /\ PartFrom(k) <= PartTo(tokens, k) /\ PartTo(tokens, k) <= Len(tokens)
         /\ Parts(tokens) = 0 => Len(tokens) = 0
         /\ Parts(tokens) # 0 => PartFrom(1) = 1 /\ PartTo(tokens, Parts(tokens)) = Len(tokens)
         /\ \A k \in 1 .. Parts(tokens) - 1 : PartTo(tokens, k) + 1 = PartFrom(k + 1)
<1> DEFINE n == Len(tokens)
           m == Parts(tokens)
<1>1. n \in Nat /\ NUbatch \in Nat \ {0} /\ n + NUbatch - 1 \in Nat
  BY SizesAre
<1>2. m \in Nat /\ m * NUbatch \in Nat /\ m * NUbatch <= n + NUbatch - 1 /\ n + NUbatch - 1 < m * NUbatch + NUbatch
  BY <1>1, Quotient DEF Parts
<1> HIDE DEF n, m
<1>3. ASSUME NEW k \in 1 .. m
      PROVE  /\ k * NUbatch \in Nat /\ PartFrom(k) = k * NUbatch - NUbatch + 1
             /\ k * NUbatch >= NUbatch /\ k * NUbatch <= m * NUbatch
             /\ PartTo(tokens, k) = IF k * NUbatch <= n THEN k * NUbatch ELSE n
             /\ k < m => k * NUbatch <= m * NUbatch - NUbatch
             /\ PartFrom(k + 1) = k * NUbatch + 1
  <2>1. k \in Nat /\ 1 <= k /\ k <= m
    BY <1>2
  <2>2. k * NUbatch \in Nat /\ (k - 1) * NUbatch = k * NUbatch - NUbatch
    BY <1>1, <2>1, TimesLess
  <2>3. 1 * NUbatch <= k * NUbatch /\ k * NUbatch <= m * NUbatch
    BY <1>1, <1>2, <2>1, TimesMore
  <2>4. k < m => k * NUbatch <= (m - 1) * NUbatch
    BY <1>1, <1>2, <2>1, TimesMore
  <2>5. (m - 1) * NUbatch = m * NUbatch - NUbatch
    BY <1>1, <1>2, TimesLess
  <2>6. k * NUbatch \in Int /\ n \in Int
    BY <1>1, <2>2
  <2> HIDE DEF PartTo
  <2>7. PartTo(tokens, k) = IF k * NUbatch <= n THEN k * NUbatch ELSE n
    BY <2>6, LeastOfTwo DEF PartTo, n
  <2>8. (k + 1) - 1 = k
    BY <2>1
  <2> QED
    BY <1>1, <1>2, <2>2, <2>3, <2>4, <2>5, <2>7, <2>8 DEF PartFrom
<1>4. ASSUME NEW k \in 1 .. m
      PROVE  /\ PartFrom(k) \in Nat \ {0} /\ PartTo(tokens, k) \in Nat
             /\ PartFrom(k) <= PartTo(tokens, k) /\ PartTo(tokens, k) <= n
             /\ k < m => PartTo(tokens, k) + 1 = PartFrom(k + 1)
             /\ k = m => PartTo(tokens, k) = n
  <2> DEFINE p == k * NUbatch
             q == m * NUbatch
  <2>1. /\ p \in Nat /\ PartFrom(k) = p - NUbatch + 1 /\ p >= NUbatch /\ p <= q
        /\ PartTo(tokens, k) = IF p <= n THEN p ELSE n
        /\ k < m => p <= q - NUbatch
        /\ PartFrom(k + 1) = p + 1 /\ (k = m => p = q)
    BY <1>3
  <2>2. q \in Nat /\ q <= n + NUbatch - 1 /\ n + NUbatch - 1 < q + NUbatch
    BY <1>2
  <2> HIDE DEF p, q
  <2> QED
    BY <1>1, <2>1, <2>2
<1>5. m = 0 => n = 0
  BY <1>1, <1>2
<1>6. m # 0 => PartFrom(1) = 1 /\ PartTo(tokens, m) = n
  <2>1. m # 0 => m \in 1 .. m
    BY <1>2
  <2>2. (1 - 1) * NUbatch + 1 = 1
    BY <1>1
  <2> QED
    BY <1>4, <2>1, <2>2 DEF PartFrom
<1>7. \A k \in 1 .. m - 1 : k \in 1 .. m /\ k < m
  BY <1>2
<1> QED
  BY <1>2, <1>4, <1>5, <1>6, <1>7 DEF n, m

\* llama_decode, a physical batch at a time.
StoreStep(c, tokens, f, k) ==
  IF k = 0 THEN [ok |-> TRUE, cache |-> c]
  ELSE IF ~f[k - 1].ok THEN f[k - 1]
  ELSE Store(Update(f[k - 1].cache, 1), Part(tokens, k))

IsStoreAll(c, tokens, f) == f = [k \in 0 .. Parts(tokens) |-> StoreStep(c, tokens, f, k)]

StoreSteps(c, tokens) == CHOOSE f : IsStoreAll(c, tokens, f)

LEMMA StoreAllIs ==
  ASSUME NEW c, NEW tokens
  PROVE  StoreAll(c, tokens) = StoreSteps(c, tokens)[Parts(tokens)]
BY Zenon DEF StoreAll, StoreSteps, IsStoreAll, StoreStep, Parts, Part, PartFrom, PartTo

LEMMA StoreAllExists ==
  ASSUME NEW c, NEW tokens, Len(tokens) \in Nat
  PROVE  IsStoreAll(c, tokens, StoreSteps(c, tokens))
<1> DEFINE S == 0 .. Parts(tokens)
           Upto(k, f) == \A n \in S : n < k => f[n] = StoreStep(c, tokens, f, n)
           T == {k \in Nat : \E f : Upto(k, f)}
<1>n. Parts(tokens) \in Nat
  BY PartsAre
<1>0. ASSUME NEW n \in S, NEW f, NEW g, n # 0 => f[n - 1] = g[n - 1]
      PROVE  StoreStep(c, tokens, f, n) = StoreStep(c, tokens, g, n)
  <2>1. CASE n = 0
    BY <2>1, Zenon DEF StoreStep
  <2>2. CASE n # 0
    <3>1. f[n - 1] = g[n - 1]
      BY <1>0, <2>2
    <3> QED
      BY <2>2, <3>1, Zenon DEF StoreStep
  <2> QED
    BY <2>1, <2>2
<1>1. 0 \in T
  <2>1. ~(\E n \in S : n < 0)
    OBVIOUS
  <2> QED
    BY <2>1
<1>2. ASSUME NEW k \in Nat, k \in T
      PROVE  k + 1 \in T
  <2>1. PICK f : Upto(k, f)
    BY <1>2
  <2> DEFINE g == [n \in S |-> StoreStep(c, tokens, f, n)]
  <2>2. ASSUME NEW n \in S, n < k + 1
        PROVE  g[n] = StoreStep(c, tokens, g, n)
    <3>1. n # 0 => f[n - 1] = g[n - 1]
      <4> SUFFICES ASSUME n # 0 PROVE f[n - 1] = g[n - 1]
        OBVIOUS
      <4>1. n - 1 \in S /\ n - 1 < k
        BY <1>n, <2>2
      <4> QED
        BY <2>1, <4>1
    <3> HIDE DEF g
    <3>2. StoreStep(c, tokens, f, n) = StoreStep(c, tokens, g, n)
      BY <1>0, <3>1
    <3> QED
      BY <3>2 DEF g
  <2>3. Upto(k + 1, g)
    BY <2>2
  <2> HIDE DEF g, Upto
  <2> QED
    BY <2>3
<1> HIDE DEF T
<1>3. Parts(tokens) + 1 \in T
  <2>1. \A k \in Nat : k \in T
    BY <1>1, <1>2, NatSetInduction
  <2> QED
    BY <1>n, <2>1
<1>4. PICK f : Upto(Parts(tokens) + 1, f)
  BY <1>3 DEF T
<1> DEFINE g == [n \in S |-> StoreStep(c, tokens, f, n)]
<1>5. \A n \in S : f[n] = g[n]
  BY <1>n, <1>4
<1>6. ASSUME NEW n \in S
      PROVE  g[n] = StoreStep(c, tokens, g, n)
  <2> HIDE DEF g
  <2>1. n # 0 => n - 1 \in S
    BY <1>n
  <2>2. n # 0 => f[n - 1] = g[n - 1]
    BY <1>5, <2>1
  <2>3. StoreStep(c, tokens, f, n) = StoreStep(c, tokens, g, n)
    BY <1>0, <2>2
  <2> QED
    BY <2>3 DEF g
<1>7. g = [n \in S |-> StoreStep(c, tokens, g, n)]
  <2>1. [n \in S |-> g[n]] = [n \in S |-> StoreStep(c, tokens, g, n)]
    BY <1>6
  <2> QED
    BY <2>1
<1> HIDE DEF g
<1>8. IsStoreAll(c, tokens, g)
  BY <1>7 DEF IsStoreAll
<1> QED
  BY <1>8, Zenon DEF StoreSteps

LEMMA StoreStepsAre ==
  ASSUME NEW c, NEW tokens, Len(tokens) \in Nat
  PROVE  LET f == StoreSteps(c, tokens)
         IN  \A k \in 0 .. Parts(tokens) : f[k] = StoreStep(c, tokens, f, k)
<1> DEFINE f == StoreSteps(c, tokens)
<1>1. f = [k \in 0 .. Parts(tokens) |-> StoreStep(c, tokens, f, k)]
  BY StoreAllExists DEF IsStoreAll
<1> HIDE DEF f
<1>2. \A k \in 0 .. Parts(tokens) : f[k] = StoreStep(c, tokens, f, k)
  BY <1>1
<1> QED
  BY <1>2 DEF f

\* A batch that is decoded by both: a worker finds a slot when the master does, and the same one.
LEMMA LoweredStoreAll ==
  ASSUME NEW c, Plain(c), NEW tokens \in Seq(Entry)
  PROVE  /\ StoreAll(c, tokens).ok \in BOOLEAN /\ Plain(StoreAll(c, tokens).cache)
         /\ StoreAll(Lowered(c), LowerBatch(tokens)).cache = Lowered(StoreAll(c, tokens).cache)
<1> DEFINE low == LowerBatch(tokens)
           d == Lowered(c)
           n == Parts(tokens)
           f == StoreSteps(c, tokens)
           g == StoreSteps(d, low)
           Same(k) == /\ f[k].ok \in BOOLEAN /\ Plain(f[k].cache)
                      /\ g[k].ok = f[k].ok /\ g[k].cache = Lowered(f[k].cache)
           T == {k \in Nat : k <= n => Same(k)}
<1>1. Len(tokens) \in Nat /\ Len(low) = Len(tokens)
  BY LowerBatchIs
<1>2. Parts(low) = n /\ \A k : PartTo(low, k) = PartTo(tokens, k)
  BY <1>1 DEF Parts, PartTo
<1>3. n \in Nat
  BY <1>1, PartsAre
<1>4. \A k \in 0 .. n : f[k] = StoreStep(c, tokens, f, k) /\ g[k] = StoreStep(d, low, g, k)
  BY <1>1, <1>2, StoreStepsAre
<1>5. ASSUME NEW k \in 1 .. n
      PROVE  Part(tokens, k) \in Seq(Entry) /\ Len(Part(tokens, k)) # 0 /\ Part(low, k) = LowerBatch(Part(tokens, k))
  <2>1. /\ PartFrom(k) \in Nat \ {0} /\ PartTo(tokens, k) \in Int
        /\ PartFrom(k) <= PartTo(tokens, k) /\ PartTo(tokens, k) <= Len(tokens)
    BY <1>1, PartsAre
  <2>2. Part(low, k) = SubSeq(low, PartFrom(k), PartTo(tokens, k))
    BY <1>2 DEF Part
  <2> DEFINE a == PartFrom(k)
             b == PartTo(tokens, k)
  <2> HIDE DEF a, b
  <2>3. /\ LowerBatch(SubSeq(tokens, a, b)) = SubSeq(low, a, b) /\ SubSeq(tokens, a, b) \in Seq(Entry)
        /\ Len(SubSeq(tokens, a, b)) = IF a <= b THEN b - a + 1 ELSE 0
    BY <2>1, LowerBatchPart DEF a, b
  <2>4. Len(SubSeq(tokens, a, b)) # 0
    BY <2>1, <2>3 DEF a, b
  <2> QED
    BY <2>2, <2>3, <2>4 DEF Part, a, b
<1> HIDE DEF f, g, n, low, d
<1>6. 0 \in T
  <2>0. 0 \in 0 .. n
    BY <1>3
  <2>1. f[0] = [ok |-> TRUE, cache |-> c] /\ g[0] = [ok |-> TRUE, cache |-> d]
    BY <1>4, <2>0, Zenon DEF StoreStep
  <2>2. f[0].ok = TRUE /\ f[0].cache = c /\ g[0].ok = TRUE /\ g[0].cache = d
    BY <2>1
  <2> QED
    BY <2>2 DEF d
<1>7. ASSUME NEW k \in Nat, k \in T
      PROVE  k + 1 \in T
  <2> SUFFICES ASSUME k + 1 <= n PROVE Same(k + 1)
    OBVIOUS
  <2>1. k + 1 \in 1 .. n /\ k + 1 \in 0 .. n /\ k + 1 # 0 /\ k + 1 - 1 = k /\ Same(k)
    BY <1>3, <1>7
  <2> DEFINE p == Part(tokens, k + 1)
             u == Update(f[k].cache, 1)
  <2>2. f[k + 1] = IF ~f[k].ok THEN f[k] ELSE Store(u, p)
    BY <1>4, <2>1 DEF StoreStep
  <2>3. g[k + 1] = IF ~g[k].ok THEN g[k] ELSE Store(Update(g[k].cache, 1), LowerBatch(p))
    BY <1>4, <1>5, <2>1 DEF StoreStep
  <2>4. CASE ~f[k].ok
    BY <2>1, <2>2, <2>3, <2>4
  <2>5. CASE f[k].ok
    <3>1. Plain(u) /\ Update(g[k].cache, 1) = Lowered(u)
      BY <2>1, LoweredUpdate
    <3>2. p \in Seq(Entry) /\ Len(p) # 0
      BY <1>5, <2>1
    <3>3. f[k + 1] = Store(u, p) /\ g[k + 1] = Store(Lowered(u), LowerBatch(p))
      BY <2>1, <2>2, <2>3, <2>5, <3>1
    <3> HIDE DEF u, p
    <3> QED
      BY <3>1, <3>2, <3>3, LoweredStore
  <2> QED
    BY <2>1, <2>4, <2>5
<1> HIDE DEF T
<1>8. n \in T
  BY <1>3, <1>6, <1>7, NatSetInduction
<1>9. Same(n)
  BY <1>3, <1>8 DEF T
<1>10. StoreAll(c, tokens) = f[n] /\ StoreAll(d, low) = g[n]
  BY <1>2, StoreAllIs DEF f, g, n
<1> QED
  BY <1>9, <1>10 DEF d, low

\* The two caches of a pair, and what decoding makes of them.
Twins(w) == Plain(w.kv) /\ w.wkv = Lowered(w.kv)

WorldOf(slots, kvs, wkvs, tokens) == [slot |-> slots, kv |-> kvs, wkv |-> wkvs, batch |-> tokens]
IsWorld(w) == w = WorldOf(w.slot, w.kv, w.wkv, w.batch)

LEMMA WorldOfFields ==
  ASSUME NEW slots, NEW kvs, NEW wkvs, NEW tokens
  PROVE  LET w == WorldOf(slots, kvs, wkvs, tokens)
         IN  w.slot = slots /\ w.kv = kvs /\ w.wkv = wkvs /\ w.batch = tokens /\ IsWorld(w)
BY DEF WorldOf, IsWorld

\* What the operators do to a world, one field at a time.
WithSlots(w, slots)      == [w EXCEPT !.slot = slots]
WithBatch(w, tokens)     == [w EXCEPT !.batch = tokens]
WithCaches(w, kvs, wkvs) == [w EXCEPT !.kv = kvs, !.wkv = wkvs]

LEMMA WorldForms ==
  ASSUME NEW w, IsWorld(w)
  PROVE  /\ \A x : WithSlots(w, x) = WorldOf(x, w.kv, w.wkv, w.batch)
         /\ \A x : WithBatch(w, x) = WorldOf(w.slot, w.kv, w.wkv, x)
         /\ \A x, y : WithCaches(w, x, y) = WorldOf(w.slot, x, y, w.batch)
<1> DEFINE s == w.slot
           a == w.kv
           b == w.wkv
           t == w.batch
<1>1. w = [slot |-> s, kv |-> a, wkv |-> b, batch |-> t]
  BY DEF IsWorld, WorldOf
<1> HIDE DEF s, a, b, t
<1>2. \A x : [w EXCEPT !.slot = x] = [slot |-> x, kv |-> a, wkv |-> b, batch |-> t]
  BY <1>1
<1>3. \A x : [w EXCEPT !.batch = x] = [slot |-> s, kv |-> a, wkv |-> b, batch |-> x]
  BY <1>1
<1>4. \A x, y : [w EXCEPT !.kv = x, !.wkv = y] = [slot |-> s, kv |-> x, wkv |-> y, batch |-> t]
  <2> TAKE x, y
  <2> DEFINE v == [w EXCEPT !.kv = x]
  <2>1. v = [slot |-> s, kv |-> x, wkv |-> b, batch |-> t]
    BY <1>1
  <2>2. [w EXCEPT !.kv = x, !.wkv = y] = [v EXCEPT !.wkv = y]
    BY Zenon
  <2> HIDE DEF v
  <2> QED
    BY <2>1, <2>2
<1> QED
  BY <1>2, <1>3, <1>4 DEF WithSlots, WithBatch, WithCaches, WorldOf, s, a, b, t

LEMMA DecodeIs ==
  ASSUME NEW w, IsWorld(w), NEW tokens
  PROVE  LET r == DecodeBoth(w, tokens)
             m == StoreAll(w.kv, tokens)
             invalid == \E k \in DOMAIN tokens : tokens[k].tok = InvalidToken
         IN  /\ r.ret = IF invalid THEN -1 ELSE IF m.ok THEN 0 ELSE 1
             /\ r.w.kv = IF invalid THEN w.kv ELSE m.cache
             /\ r.w.wkv = IF invalid THEN w.wkv ELSE StoreAll(w.wkv, LowerBatch(tokens)).cache
             /\ r.w.slot = w.slot /\ r.w.batch = w.batch
<1> DEFINE r == DecodeBoth(w, tokens)
           m == StoreAll(w.kv, tokens)
           y == StoreAll(w.wkv, LowerBatch(tokens)).cache
           invalid == \E k \in DOMAIN tokens : tokens[k].tok = InvalidToken
           aligned == [k \in DOMAIN tokens |-> [tokens[k] EXCEPT !.seq = @ - 1]]
<1>1. aligned = LowerBatch(tokens)
  BY Zenon DEF LowerBatch, LowerEntry
<1>2. [w EXCEPT !.kv = m.cache, !.wkv = StoreAll(@, aligned).cache] = WithCaches(w, m.cache, y)
  BY <1>1, Zenon DEF WithCaches
<1>3. r = IF invalid THEN [ret |-> -1, w |-> w]
          ELSE [ret |-> IF m.ok THEN 0 ELSE 1, w |-> WithCaches(w, m.cache, y)]
  BY <1>2, Zenon DEF DecodeBoth
<1> HIDE DEF invalid, m, y, r
<1>4. WithCaches(w, m.cache, y) = WorldOf(w.slot, m.cache, y, w.batch)
  BY WorldForms
<1>5. CASE invalid
  BY <1>3, <1>5 DEF r, m, y, invalid
<1>6. CASE ~invalid
  <2> DEFINE v == WithCaches(w, m.cache, y)
  <2>1. v.slot = w.slot /\ v.kv = m.cache /\ v.wkv = y /\ v.batch = w.batch
    BY <1>4, WorldOfFields
  <2> HIDE DEF v
  <2>2. r.ret = (IF m.ok THEN 0 ELSE 1) /\ r.w = v
    BY <1>3, <1>6 DEF v
  <2>3. /\ r.ret = IF invalid THEN -1 ELSE IF m.ok THEN 0 ELSE 1
        /\ r.w.kv = (IF invalid THEN w.kv ELSE m.cache)
        /\ r.w.wkv = (IF invalid THEN w.wkv ELSE y)
        /\ r.w.slot = w.slot /\ r.w.batch = w.batch
    BY <1>6, <2>1, <2>2
  <2> QED
    BY <2>3 DEF r, m, y, invalid
<1> QED
  BY <1>5, <1>6

LEMMA DecodeTwins ==
  ASSUME NEW w, IsWorld(w), Twins(w), NEW tokens \in Seq(Entry)
  PROVE  Plain(DecodeBoth(w, tokens).w.kv) /\ DecodeBoth(w, tokens).w.wkv = Lowered(DecodeBoth(w, tokens).w.kv)
<1> DEFINE r == DecodeBoth(w, tokens)
           m == StoreAll(w.kv, tokens)
           invalid == \E k \in DOMAIN tokens : tokens[k].tok = InvalidToken
<1>1. /\ r.w.kv = IF invalid THEN w.kv ELSE m.cache
      /\ r.w.wkv = IF invalid THEN w.wkv ELSE StoreAll(w.wkv, LowerBatch(tokens)).cache
  BY DecodeIs
<1> HIDE DEF r, m, invalid
<1>2. Plain(m.cache) /\ StoreAll(w.wkv, LowerBatch(tokens)).cache = Lowered(m.cache)
  BY LoweredStoreAll DEF Twins, m
<1> QED
  BY <1>1, <1>2 DEF Twins, r

-----------------------------------------------------------------------------
(* A slot, and what the operations make of one                             *)

States == {"idle", "prompt", "done", "generating"}

SlotRecords ==
  [state : States, task : Completions \cup {Nothing}, prompt : Seq(Int), n_past : Int,
   cache_tokens : Seq(Int), sampled : Int, i_batch : Int, n_decoded : Int]

SlotOf(state, task, prompt, n_past, cache_tokens, sampled, i_batch, n_decoded) ==
  [state |-> state, task |-> task, prompt |-> prompt, n_past |-> n_past, cache_tokens |-> cache_tokens,
   sampled |-> sampled, i_batch |-> i_batch, n_decoded |-> n_decoded]

LEMMA SlotFields ==
  ASSUME NEW sl \in SlotRecords
  PROVE  /\ sl = SlotOf(sl.state, sl.task, sl.prompt, sl.n_past, sl.cache_tokens, sl.sampled, sl.i_batch,
                        sl.n_decoded)
         /\ sl.state \in States /\ sl.task \in Completions \cup {Nothing} /\ sl.prompt \in Seq(Int)
         /\ sl.n_past \in Int /\ sl.cache_tokens \in Seq(Int) /\ sl.sampled \in Int /\ sl.i_batch \in Int
         /\ sl.n_decoded \in Int
BY DEF SlotRecords, SlotOf

LEMMA SlotOfFields ==
  ASSUME NEW a, NEW b, NEW c, NEW d, NEW e, NEW f, NEW g, NEW h
  PROVE  LET sl == SlotOf(a, b, c, d, e, f, g, h)
         IN  /\ sl.state = a /\ sl.task = b /\ sl.prompt = c /\ sl.n_past = d /\ sl.cache_tokens = e
             /\ sl.sampled = f /\ sl.i_batch = g /\ sl.n_decoded = h
BY DEF SlotOf

LEMMA SlotOfType ==
  ASSUME NEW a, NEW b, NEW c, NEW d, NEW e, NEW f, NEW g, NEW h
  PROVE  /\ a \in States /\ b \in Completions \cup {Nothing} /\ c \in Seq(Int) /\ d \in Int
         /\ e \in Seq(Int) /\ f \in Int /\ g \in Int /\ h \in Int
         => SlotOf(a, b, c, d, e, f, g, h) \in SlotRecords
BY DEF SlotRecords, SlotOf

SetState(sl, x) == [sl EXCEPT !.state = x]
SetTask(sl, x) == [sl EXCEPT !.task = x]
SetPrompt(sl, x) == [sl EXCEPT !.prompt = x]
SetPast(sl, x) == [sl EXCEPT !.n_past = x]
SetTokens(sl, x) == [sl EXCEPT !.cache_tokens = x]
SetSampled(sl, x) == [sl EXCEPT !.sampled = x]
SetBatch(sl, x) == [sl EXCEPT !.i_batch = x]
SetDecoded(sl, x) == [sl EXCEPT !.n_decoded = x]

LEMMA SlotSets ==
  ASSUME NEW a, NEW b, NEW c, NEW d, NEW e, NEW f, NEW g, NEW h, NEW x
  PROVE  LET sl == SlotOf(a, b, c, d, e, f, g, h)
         IN  /\ SetState(sl, x) = SlotOf(x, b, c, d, e, f, g, h)
             /\ SetTask(sl, x) = SlotOf(a, x, c, d, e, f, g, h)
             /\ SetPrompt(sl, x) = SlotOf(a, b, x, d, e, f, g, h)
             /\ SetPast(sl, x) = SlotOf(a, b, c, x, e, f, g, h)
             /\ SetTokens(sl, x) = SlotOf(a, b, c, d, x, f, g, h)
             /\ SetSampled(sl, x) = SlotOf(a, b, c, d, e, x, g, h)
             /\ SetBatch(sl, x) = SlotOf(a, b, c, d, e, f, x, h)
             /\ SetDecoded(sl, x) = SlotOf(a, b, c, d, e, f, g, x)
<1>1. SetState(SlotOf(a, b, c, d, e, f, g, h), x) = SlotOf(x, b, c, d, e, f, g, h)
  BY DEF SetState, SlotOf
<1>2. SetTask(SlotOf(a, b, c, d, e, f, g, h), x) = SlotOf(a, x, c, d, e, f, g, h)
  BY DEF SetTask, SlotOf
<1>3. SetPrompt(SlotOf(a, b, c, d, e, f, g, h), x) = SlotOf(a, b, x, d, e, f, g, h)
  BY DEF SetPrompt, SlotOf
<1>4. SetPast(SlotOf(a, b, c, d, e, f, g, h), x) = SlotOf(a, b, c, x, e, f, g, h)
  BY DEF SetPast, SlotOf
<1>5. SetTokens(SlotOf(a, b, c, d, e, f, g, h), x) = SlotOf(a, b, c, d, x, f, g, h)
  BY DEF SetTokens, SlotOf
<1>6. SetSampled(SlotOf(a, b, c, d, e, f, g, h), x) = SlotOf(a, b, c, d, e, x, g, h)
  BY DEF SetSampled, SlotOf
<1>7. SetBatch(SlotOf(a, b, c, d, e, f, g, h), x) = SlotOf(a, b, c, d, e, f, x, h)
  BY DEF SetBatch, SlotOf
<1>8. SetDecoded(SlotOf(a, b, c, d, e, f, g, h), x) = SlotOf(a, b, c, d, e, f, g, x)
  BY DEF SetDecoded, SlotOf
<1> QED
  BY <1>1, <1>2, <1>3, <1>4, <1>5, <1>6, <1>7, <1>8

\* What the operations do to a slot, one field after the other.
WithState(sl, x) == SetState(sl, x)
WithTokens(sl, x) == SetTokens(sl, x)
WithLaunch(sl, x) == SetPast(SetPrompt(SetTask(SetState(sl, "prompt"), x), <<>>), 0)
WithPast(sl, x, y) == SetTokens(SetPast(sl, x), y)
WithSampled(sl, x, y, z) == SetTokens(SetPast(SetBatch(sl, x), y), z)
WithPrompt(sl, x, y, z) == SetPast(SetTask(SetPrompt(sl, x), y), z)
WithPart(sl, x, y, z, u, v) == SetDecoded(SetBatch(SetState(SetTokens(SetPast(sl, x), y), z), u), v)
WithSample(sl, x, y, z, u) == SetDecoded(SetBatch(SetSampled(SetState(sl, x), y), z), u)

LEMMA SlotForms ==
  ASSUME NEW sl \in SlotRecords
  PROVE  LET a == sl.state
             b == sl.task
             c == sl.prompt
             d == sl.n_past
             e == sl.cache_tokens
             f == sl.sampled
             g == sl.i_batch
             h == sl.n_decoded
         IN  /\ \A x : WithState(sl, x) = SlotOf(x, b, c, d, e, f, g, h)
             /\ \A x : WithTokens(sl, x) = SlotOf(a, b, c, d, x, f, g, h)
             /\ \A x : WithLaunch(sl, x) = SlotOf("prompt", x, <<>>, 0, e, f, g, h)
             /\ \A x, y : WithPast(sl, x, y) = SlotOf(a, b, c, x, y, f, g, h)
             /\ \A x, y, z : WithSampled(sl, x, y, z) = SlotOf(a, b, c, y, z, f, x, h)
             /\ \A x, y, z : WithPrompt(sl, x, y, z) = SlotOf(a, y, x, z, e, f, g, h)
             /\ \A x, y, z, u, v : WithPart(sl, x, y, z, u, v) = SlotOf(z, b, c, x, y, f, u, v)
             /\ \A x, y, z, u : WithSample(sl, x, y, z, u) = SlotOf(x, b, c, d, e, y, z, u)
<1> DEFINE a == sl.state
           b == sl.task
           c == sl.prompt
           d == sl.n_past
           e == sl.cache_tokens
           f == sl.sampled
           g == sl.i_batch
           h == sl.n_decoded
<1>1. sl = SlotOf(a, b, c, d, e, f, g, h)
  BY SlotFields
<1> HIDE DEF a, b, c, d, e, f, g, h
<1>2. \A x : WithState(sl, x) = SlotOf(x, b, c, d, e, f, g, h)
  BY <1>1, SlotSets DEF WithState
<1>3. \A x : WithTokens(sl, x) = SlotOf(a, b, c, d, x, f, g, h)
  BY <1>1, SlotSets DEF WithTokens
<1>4. \A x : WithLaunch(sl, x) = SlotOf("prompt", x, <<>>, 0, e, f, g, h)
  BY <1>1, SlotSets DEF WithLaunch
<1>5. \A x, y : WithPast(sl, x, y) = SlotOf(a, b, c, x, y, f, g, h)
  BY <1>1, SlotSets DEF WithPast
<1>6. \A x, y, z : WithSampled(sl, x, y, z) = SlotOf(a, b, c, y, z, f, x, h)
  BY <1>1, SlotSets DEF WithSampled
<1>7. \A x, y, z : WithPrompt(sl, x, y, z) = SlotOf(a, y, x, z, e, f, g, h)
  BY <1>1, SlotSets DEF WithPrompt
<1>8. \A x, y, z, u, v : WithPart(sl, x, y, z, u, v) = SlotOf(z, b, c, x, y, f, u, v)
  BY <1>1, SlotSets DEF WithPart
<1>9. \A x, y, z, u : WithSample(sl, x, y, z, u) = SlotOf(x, b, c, d, e, y, z, u)
  BY <1>1, SlotSets DEF WithSample
<1> QED
  BY <1>2, <1>3, <1>4, <1>5, <1>6, <1>7, <1>8, <1>9 DEF a, b, c, d, e, f, g, h

\* The parts of Shift.
ShiftKeep(sl)        == sl.task.n_keep + AddBos
ShiftEnd(sl, sys)    == sys + sl.n_past
ShiftBy(sl, sys)     ==
  IF sl.task.n_discard # 0 THEN sl.task.n_discard ELSE (ShiftEnd(sl, sys) - ShiftKeep(sl)) \div 2
ShiftTokens(sl, sys) ==
  [k \in 1 .. Len(sl.cache_tokens) - ShiftBy(sl, sys) |->
     sl.cache_tokens[IF k > ShiftKeep(sl) THEN k + ShiftBy(sl, sys) ELSE k]]
ShiftSlot(sl, sys) ==
  WithPast(sl, sl.n_past - ShiftBy(sl, sys),
           IF sl.task.cache_prompt THEN ShiftTokens(sl, sys) ELSE sl.cache_tokens)
ShiftCache(c, q, sl, sys) ==
  SeqAdd(SeqRm(c, q, ShiftKeep(sl), ShiftKeep(sl) + ShiftBy(sl, sys)), q,
         ShiftKeep(sl) + ShiftBy(sl, sys), ShiftEnd(sl, sys), -ShiftBy(sl, sys))

LEMMA ShiftIs ==
  ASSUME NEW w, IsWorld(w), NEW s \in Slots, w.slot \in [Slots -> SlotRecords], NEW sys
  PROVE  LET sl == w.slot[s]
         IN  Shift(w, s, sys) =
               IF sl.state = "idle" \/ ShiftEnd(sl, sys) < NCtx - 1 THEN w
               ELSE IF ~ctx_shift
                 THEN WorldOf([w.slot EXCEPT ![s] = WithState(sl, "idle")], w.kv, w.wkv, w.batch)
               ELSE WorldOf([w.slot EXCEPT ![s] = ShiftSlot(sl, sys)],
                            ShiftCache(w.kv, s + 1, sl, sys), ShiftCache(w.wkv, s, sl, sys), w.batch)
<1> DEFINE sl == w.slot[s]
           keep == ShiftKeep(sl)
           by == ShiftBy(sl, sys)
           end == ShiftEnd(sl, sys)
           u == RmBoth(w, s, keep, keep + by)
           v == AddBoth(u, s, keep + by, end, -by)
           tokens == IF sl.task.cache_prompt THEN ShiftTokens(sl, sys) ELSE sl.cache_tokens
           r == [w EXCEPT !.slot[s] = Release(@)]
           x == [v EXCEPT !.slot[s].n_past = @ - by,
                          !.slot[s].cache_tokens = IF sl.task.cache_prompt THEN ShiftTokens(sl, sys) ELSE @]
<1>1. Shift(w, s, sys) = IF sl.state = "idle" \/ end < NCtx - 1 THEN w ELSE IF ~ctx_shift THEN r ELSE x
  BY Zenon DEF Shift, ShiftKeep, ShiftBy, ShiftEnd, ShiftTokens
<1>2. r = WorldOf([w.slot EXCEPT ![s] = WithState(sl, "idle")], w.kv, w.wkv, w.batch)
  <2>1. r = WithSlots(w, [w.slot EXCEPT ![s] = WithState(sl, "idle")])
    BY Zenon DEF WithSlots, WithState, SetState, Release
  <2> QED
    BY <2>1, WorldForms
<1>3. u = WorldOf(w.slot, SeqRm(w.kv, s + 1, keep, keep + by), SeqRm(w.wkv, s, keep, keep + by), w.batch)
  <2>1. u = WithCaches(w, SeqRm(w.kv, s + 1, keep, keep + by), SeqRm(w.wkv, s, keep, keep + by))
    BY Zenon DEF RmBoth, WithCaches
  <2> QED
    BY <2>1, WorldForms
<1>4. v = WorldOf(w.slot, ShiftCache(w.kv, s + 1, sl, sys), ShiftCache(w.wkv, s, sl, sys), w.batch)
  <2>1. v = WithCaches(u, SeqAdd(u.kv, s + 1, keep + by, end, -by), SeqAdd(u.wkv, s, keep + by, end, -by))
    BY Zenon DEF AddBoth, WithCaches
  <2> HIDE DEF u, keep, by, end, sl
  <2>2. /\ IsWorld(u) /\ u.slot = w.slot /\ u.batch = w.batch /\ u.kv = SeqRm(w.kv, s + 1, keep, keep + by)
        /\ u.wkv = SeqRm(w.wkv, s, keep, keep + by)
    BY <1>3, WorldOfFields
  <2>3. v = WorldOf(w.slot, SeqAdd(u.kv, s + 1, keep + by, end, -by), SeqAdd(u.wkv, s, keep + by, end, -by),
                    w.batch)
    BY <2>1, <2>2, WorldForms
  <2> QED
    BY <2>2, <2>3, Zenon DEF ShiftCache, keep, by, end, sl
<1>5. x = WorldOf([w.slot EXCEPT ![s] = ShiftSlot(sl, sys)],
                  ShiftCache(w.kv, s + 1, sl, sys), ShiftCache(w.wkv, s, sl, sys), w.batch)
  <2>1. /\ IsWorld(v) /\ v.slot = w.slot /\ v.batch = w.batch /\ v.kv = ShiftCache(w.kv, s + 1, sl, sys)
        /\ v.wkv = ShiftCache(w.wkv, s, sl, sys)
    BY <1>4, WorldOfFields
  <2>2. sl \in SlotRecords /\ DOMAIN w.slot = Slots /\ w.slot = [t \in Slots |-> w.slot[t]]
    OBVIOUS
  <2> HIDE DEF v, by
  <2> DEFINE n == [v EXCEPT !.slot[s].n_past = @ - by]
             a == [sl EXCEPT !.n_past = @ - by]
  <2>3. x = [n EXCEPT !.slot[s].cache_tokens = IF sl.task.cache_prompt THEN ShiftTokens(sl, sys) ELSE @]
    BY Zenon
  <2>4. n = WithSlots(v, [w.slot EXCEPT ![s] = a])
    BY <2>1, Zenon DEF WithSlots
  <2>5. n = WorldOf([w.slot EXCEPT ![s] = a], v.kv, v.wkv, w.batch)
    BY <2>1, <2>4, WorldForms
  <2>6. a = SlotOf(sl.state, sl.task, sl.prompt, sl.n_past - by, sl.cache_tokens, sl.sampled, sl.i_batch,
                   sl.n_decoded)
    <3>1. a = SetPast(sl, sl.n_past - by)
      BY Zenon DEF SetPast
    <3>2. sl = SlotOf(sl.state, sl.task, sl.prompt, sl.n_past, sl.cache_tokens, sl.sampled, sl.i_batch,
                      sl.n_decoded)
      BY <2>2, SlotFields
    <3> HIDE DEF a, sl
    <3> QED
      BY <3>1, <3>2, SlotSets
  <2>7. a.cache_tokens = sl.cache_tokens /\ a.task = sl.task
    BY <2>6, SlotOfFields
  <2> HIDE DEF n, a
  <2>8. n.slot = [w.slot EXCEPT ![s] = a] /\ n.slot[s] = a /\ n.kv = v.kv /\ n.wkv = v.wkv /\ n.batch = w.batch
        /\ IsWorld(n)
    <3> DEFINE slots == [w.slot EXCEPT ![s] = a]
    <3>1. slots[s] = a
      BY <2>2
    <3> HIDE DEF slots
    <3>2. n.slot = slots /\ n.kv = v.kv /\ n.wkv = v.wkv /\ n.batch = w.batch /\ IsWorld(n)
      BY <2>5, WorldOfFields DEF slots
    <3> QED
      BY <3>1, <3>2 DEF slots
  <2> DEFINE b == [a EXCEPT !.cache_tokens = tokens]
  <2>9. x = WithSlots(n, [n.slot EXCEPT ![s] = b])
    BY <2>3, <2>7, <2>8, Zenon DEF WithSlots
  <2>10. [n.slot EXCEPT ![s] = b] = [w.slot EXCEPT ![s] = b]
    BY <2>2, <2>8
  <2>11. b = ShiftSlot(sl, sys)
    BY <2>7, Zenon DEF ShiftSlot, WithPast, SetPast, SetTokens, a, by
  <2> QED
    BY <2>1, <2>8, <2>9, <2>10, <2>11, WorldForms
<1> QED
  BY <1>1, <1>2, <1>5, Zenon

\* The parts of AddSampled.
SampledEntry(sl, s, sys) == [tok |-> sl.sampled, pos |-> sys + sl.n_past, seq |-> s + 1]
SampledSlot(sl, i) ==
  WithSampled(sl, i, sl.n_past + 1,
              IF sl.task.cache_prompt THEN Append(sl.cache_tokens, sl.sampled) ELSE sl.cache_tokens)

LEMMA AddSampledIs ==
  ASSUME NEW w, IsWorld(w), NEW s \in Slots, w.slot \in [Slots -> SlotRecords], NEW sys
  PROVE  LET sl == w.slot[s]
         IN  AddSampled(w, s, sys) =
               IF sl.state # "generating" THEN w
               ELSE WorldOf([w.slot EXCEPT ![s] = SampledSlot(sl, Len(w.batch))], w.kv, w.wkv,
                            Append(w.batch, SampledEntry(sl, s, sys)))
<1> DEFINE sl == w.slot[s]
           a == [sl EXCEPT !.i_batch = Len(w.batch), !.n_past = @ + 1,
                           !.cache_tokens = IF sl.task.cache_prompt THEN Append(@, sl.sampled) ELSE @]
           u == WithBatch(w, Append(w.batch, SampledEntry(sl, s, sys)))
           v == [w EXCEPT !.batch = Append(@, SampledEntry(sl, s, sys)), !.slot[s] = a]
<1>1. AddSampled(w, s, sys) = IF sl.state # "generating" THEN w ELSE v
  BY Zenon DEF AddSampled, SampledEntry
<1>2. /\ IsWorld(u) /\ u.slot = w.slot /\ u.kv = w.kv /\ u.wkv = w.wkv
      /\ u.batch = Append(w.batch, SampledEntry(sl, s, sys))
  <2> DEFINE t == Append(w.batch, SampledEntry(sl, s, sys))
             b == WithBatch(w, t)
  <2> HIDE DEF t
  <2>1. b = WorldOf(w.slot, w.kv, w.wkv, t)
    BY WorldForms
  <2> HIDE DEF b
  <2>2. IsWorld(b) /\ b.slot = w.slot /\ b.kv = w.kv /\ b.wkv = w.wkv /\ b.batch = t
    BY <2>1, WorldOfFields
  <2> QED
    BY <2>2, Zenon DEF t, b
<1>3. v = [u EXCEPT !.slot[s] = a]
  BY Zenon DEF WithBatch
<1>4. a = SampledSlot(sl, Len(w.batch))
  <2> DEFINE b == SetBatch(sl, Len(w.batch))
             c == [b EXCEPT !.n_past = @ + 1]
  <2>1. a = [c EXCEPT !.cache_tokens = IF sl.task.cache_prompt THEN Append(@, sl.sampled) ELSE @]
    BY Zenon DEF SetBatch
  <2>2. sl = SlotOf(sl.state, sl.task, sl.prompt, sl.n_past, sl.cache_tokens, sl.sampled, sl.i_batch,
                    sl.n_decoded)
    BY SlotFields
  <2>3. b = SlotOf(sl.state, sl.task, sl.prompt, sl.n_past, sl.cache_tokens, sl.sampled, Len(w.batch),
                   sl.n_decoded)
    <3> HIDE DEF sl
    <3> QED
      BY <2>2, SlotSets
  <2> HIDE DEF b
  <2>4. b.n_past = sl.n_past /\ b.cache_tokens = sl.cache_tokens
    BY <2>3, SlotOfFields
  <2>5. c = SetPast(b, sl.n_past + 1)
    BY <2>4, Zenon DEF SetPast
  <2>6. c = SlotOf(sl.state, sl.task, sl.prompt, sl.n_past + 1, sl.cache_tokens, sl.sampled, Len(w.batch),
                   sl.n_decoded)
    <3> HIDE DEF sl, c
    <3> QED
      BY <2>3, <2>5, SlotSets
  <2> HIDE DEF c
  <2>7. c.cache_tokens = sl.cache_tokens
    BY <2>6, SlotOfFields
  <2>8. a = SetTokens(c, IF sl.task.cache_prompt THEN Append(sl.cache_tokens, sl.sampled) ELSE sl.cache_tokens)
    BY <2>1, <2>7, Zenon DEF SetTokens
  <2> QED
    BY <2>5, <2>8, Zenon DEF SampledSlot, WithSampled, b
<1> HIDE DEF u, a, v
<1>5. v = WithSlots(u, [w.slot EXCEPT ![s] = a])
  BY <1>2, <1>3, Zenon DEF WithSlots
<1>6. v = WorldOf([w.slot EXCEPT ![s] = a], w.kv, w.wkv, Append(w.batch, SampledEntry(sl, s, sys)))
  BY <1>2, <1>5, WorldForms
<1> QED
  BY <1>1, <1>4, <1>6, Zenon

\* The parts of Tokenized.
TokenizedKeep(sl, sys) ==
  Min({NCtx - 4, IF sl.task.n_keep < 0 THEN sys + Len(sl.task.prompt) + 3 ELSE sl.task.n_keep})
TokenizedPrompt(sl, sys) ==
  IF Len(sl.task.prompt) >= NCtx THEN Truncated(sl.task.prompt, TokenizedKeep(sl, sys)) ELSE sl.task.prompt
TokenizedCommon(sl, sys) ==
  IF sl.task.cache_prompt THEN CommonPart(sl.cache_tokens, TokenizedPrompt(sl, sys)) ELSE 0
TokenizedPast(sl, sys) ==
  IF TokenizedCommon(sl, sys) = Len(TokenizedPrompt(sl, sys)) THEN TokenizedCommon(sl, sys) - 1
                                                              ELSE TokenizedCommon(sl, sys)
Refused(sl, sys) == sl.task.prompt = <<>> \/ (~ctx_shift /\ sys + Len(sl.task.prompt) >= NCtx)

WithKeep(task, n_keep) == [task EXCEPT !.n_keep = n_keep]

LEMMA WithKeepIs ==
  ASSUME NEW task \in Completions, NEW n_keep \in Int
  PROVE  /\ WithKeep(task, n_keep) \in Completions /\ WithKeep(task, n_keep).n_keep = n_keep
         /\ WithKeep(task, n_keep).prompt = task.prompt
         /\ WithKeep(task, n_keep).cache_prompt = task.cache_prompt
         /\ WithKeep(task, n_keep).n_discard = task.n_discard
<1> DEFINE t == WithKeep(task, n_keep)
<1>1. t = [prompt |-> task.prompt, cache_prompt |-> task.cache_prompt, n_keep |-> n_keep,
           n_discard |-> task.n_discard]
  BY DEF WithKeep, Completions
<1> HIDE DEF t
<1> QED
  BY <1>1 DEF t, Completions

LEMMA TokenizedIs ==
  ASSUME NEW sl \in SlotRecords, NEW sys
  PROVE  Tokenized(sl, sys) =
           IF Refused(sl, sys) THEN WithState(sl, "idle")
           ELSE WithPrompt(sl, TokenizedPrompt(sl, sys), WithKeep(sl.task, TokenizedKeep(sl, sys)),
                           TokenizedPast(sl, sys))
<1> DEFINE prompt == TokenizedPrompt(sl, sys)
           keep == TokenizedKeep(sl, sys)
           past == TokenizedPast(sl, sys)
           a == [sl EXCEPT !.prompt = prompt, !.task.n_keep = keep, !.n_past = past]
<1>1. Tokenized(sl, sys) = IF Refused(sl, sys) THEN Release(sl) ELSE a
  BY Zenon DEF Tokenized, Refused, TokenizedPrompt, TokenizedKeep, TokenizedPast, TokenizedCommon
<1>2. Release(sl) = WithState(sl, "idle")
  BY Zenon DEF Release, WithState, SetState
<1> HIDE DEF prompt, keep, past
<1>3. a = WithPrompt(sl, prompt, WithKeep(sl.task, keep), past)
  <2> DEFINE b == SetPrompt(sl, prompt)
             c == [b EXCEPT !.task.n_keep = keep]
  <2>1. a = [c EXCEPT !.n_past = past]
    BY Zenon DEF SetPrompt
  <2>2. b.task = sl.task
    <3>1. b = SlotOf(sl.state, sl.task, prompt, sl.n_past, sl.cache_tokens, sl.sampled, sl.i_batch,
                     sl.n_decoded)
      BY SlotFields, SlotSets
    <3> QED
      BY <3>1, SlotOfFields
  <2>3. c = SetTask(b, WithKeep(sl.task, keep))
    BY <2>2, Zenon DEF SetTask, WithKeep
  <2> QED
    BY <2>1, <2>3, Zenon DEF WithPrompt, SetPast
<1> QED
  BY <1>1, <1>2, <1>3, Zenon DEF prompt, keep, past

\* The parts of AddPrompt.
ToCompute(sl, sys) == IF sl.prompt = <<>> THEN Tokenized(sl, sys) ELSE sl
PartLen(sl, tokens) == Max({0, Min({Len(sl.prompt) - sl.n_past, NBatch - Len(tokens)})})
PartNew(sl, n)      == SubSeq(sl.prompt, sl.n_past + 1, sl.n_past + n)
PartEntries(sl, s, sys, n) ==
  [k \in 1 .. n |-> [tok |-> PartNew(sl, n)[k], pos |-> sys + sl.n_past + k - 1, seq |-> s + 1]]
PartDone(sl, n)     == sl.n_past + n = Len(sl.prompt)
PartSlot(sl, n, i)  ==
  WithPart(sl, sl.n_past + n,
           Resize(sl.cache_tokens, sl.n_past) \o IF sl.task.cache_prompt THEN PartNew(sl, n) ELSE <<>>,
           IF PartDone(sl, n) THEN "done" ELSE sl.state,
           IF PartDone(sl, n) THEN i ELSE sl.i_batch,
           IF PartDone(sl, n) THEN 0 ELSE sl.n_decoded)

LEMMA PartSlotIs ==
  ASSUME NEW sl \in SlotRecords, NEW n, NEW i
  PROVE  [sl EXCEPT
            !.n_past       = @ + n,
            !.cache_tokens = Resize(@, sl.n_past) \o IF sl.task.cache_prompt THEN PartNew(sl, n) ELSE <<>>,
            !.state        = IF PartDone(sl, n) THEN "done" ELSE @,
            !.i_batch      = IF PartDone(sl, n) THEN i ELSE @,
            !.n_decoded    = IF PartDone(sl, n) THEN 0 ELSE @] = PartSlot(sl, n, i)
<1> DEFINE tokens == Resize(sl.cache_tokens, sl.n_past) \o IF sl.task.cache_prompt THEN PartNew(sl, n) ELSE <<>>
           state == IF PartDone(sl, n) THEN "done" ELSE sl.state
           batch_i == IF PartDone(sl, n) THEN i ELSE sl.i_batch
           a == SetPast(sl, sl.n_past + n)
           b == SetTokens(a, tokens)
           c == SetState(b, state)
           d == SetBatch(c, batch_i)
<1>1. sl = SlotOf(sl.state, sl.task, sl.prompt, sl.n_past, sl.cache_tokens, sl.sampled, sl.i_batch,
                  sl.n_decoded)
  BY SlotFields
<1>2. a.cache_tokens = sl.cache_tokens /\ b.state = sl.state /\ c.i_batch = sl.i_batch /\ d.n_decoded = sl.n_decoded
  <2> HIDE DEF tokens, state, batch_i
  <2>1. a = SlotOf(sl.state, sl.task, sl.prompt, sl.n_past + n, sl.cache_tokens, sl.sampled, sl.i_batch, sl.n_decoded)
    BY <1>1, SlotSets
  <2> HIDE DEF a
  <2>2. b = SlotOf(sl.state, sl.task, sl.prompt, sl.n_past + n, tokens, sl.sampled, sl.i_batch, sl.n_decoded)
    BY <2>1, SlotSets
  <2> HIDE DEF b
  <2>3. c = SlotOf(state, sl.task, sl.prompt, sl.n_past + n, tokens, sl.sampled, sl.i_batch, sl.n_decoded)
    BY <2>2, SlotSets
  <2> HIDE DEF c
  <2>4. d = SlotOf(state, sl.task, sl.prompt, sl.n_past + n, tokens, sl.sampled, batch_i, sl.n_decoded)
    BY <2>3, SlotSets
  <2> HIDE DEF d
  <2> QED
    BY <2>1, <2>2, <2>3, <2>4, SlotOfFields
<1> DEFINE e == [sl EXCEPT
                  !.n_past       = @ + n,
                  !.cache_tokens = Resize(@, sl.n_past) \o IF sl.task.cache_prompt THEN PartNew(sl, n) ELSE <<>>,
                  !.state        = IF PartDone(sl, n) THEN "done" ELSE @,
                  !.i_batch      = IF PartDone(sl, n) THEN i ELSE @,
                  !.n_decoded    = IF PartDone(sl, n) THEN 0 ELSE @]
           e1 == [sl EXCEPT !.n_past = @ + n]
           e2 == [e1 EXCEPT !.cache_tokens = Resize(@, sl.n_past) \o IF sl.task.cache_prompt THEN PartNew(sl, n) ELSE <<>>]
           e3 == [e2 EXCEPT !.state = IF PartDone(sl, n) THEN "done" ELSE @]
           e4 == [e3 EXCEPT !.i_batch = IF PartDone(sl, n) THEN i ELSE @]
<1>3. e = [e4 EXCEPT !.n_decoded = IF PartDone(sl, n) THEN 0 ELSE @]
  BY Zenon
<1>4. e1 = a
  BY Zenon DEF SetPast
<1> HIDE DEF e1, a
<1>5. e2 = b
  BY <1>2, <1>4, Zenon DEF SetTokens
<1> HIDE DEF e2, b
<1>6. e3 = c
  BY <1>2, <1>5, Zenon DEF SetState
<1> HIDE DEF e3, c
<1>7. e4 = d
  BY <1>2, <1>6, Zenon DEF SetBatch
<1> HIDE DEF e4
<1>8. e = SetDecoded(d, IF PartDone(sl, n) THEN 0 ELSE sl.n_decoded)
  <2> HIDE DEF d, e
  <2> QED
    BY <1>2, <1>3, <1>7, Zenon DEF SetDecoded
<1> HIDE DEF e
<1>9. e = PartSlot(sl, n, i)
  BY <1>8, Zenon DEF PartSlot, WithPart, a, b, c, d
<1> QED
  BY <1>9, Zenon DEF e

LEMMA AddPromptIs ==
  ASSUME NEW w, IsWorld(w), NEW s \in Slots, w.slot \in [Slots -> SlotRecords], NEW sys,
         ToCompute(w.slot[s], sys) \in SlotRecords
  PROVE  LET sl == ToCompute(w.slot[s], sys)
             n  == PartLen(sl, w.batch)
         IN  AddPrompt(w, s, sys) =
               IF w.slot[s].state # "prompt" \/ (s > 0 /\ Len(w.batch) >= NBatch) THEN w
               ELSE IF sl.state = "idle" THEN WorldOf([w.slot EXCEPT ![s] = sl], w.kv, w.wkv, w.batch)
               ELSE WorldOf([w.slot EXCEPT ![s] = PartSlot(sl, n, Len(w.batch) + n - 1)],
                            SeqRm(w.kv, s + 1, sys + sl.n_past, -1), SeqRm(w.wkv, s, sys + sl.n_past, -1),
                            w.batch \o PartEntries(sl, s, sys, n))
<1> DEFINE sl == ToCompute(w.slot[s], sys)
           n  == PartLen(sl, w.batch)
           p0 == sys + sl.n_past
           i  == Len(w.batch) + n - 1
           u  == RmBoth(w, s, p0, -1)
           e  == PartEntries(sl, s, sys, n)
           a  == [sl EXCEPT
                   !.n_past       = @ + n,
                   !.cache_tokens = Resize(@, sl.n_past) \o IF sl.task.cache_prompt THEN PartNew(sl, n) ELSE <<>>,
                   !.state        = IF PartDone(sl, n) THEN "done" ELSE @,
                   !.i_batch      = IF PartDone(sl, n) THEN i ELSE @,
                   !.n_decoded    = IF PartDone(sl, n) THEN 0 ELSE @]
           x  == [w EXCEPT !.slot[s] = sl]
           y  == [u EXCEPT !.batch = @ \o e, !.slot[s] = a]
<1>1. AddPrompt(w, s, sys) =
        IF w.slot[s].state # "prompt" \/ (s > 0 /\ Len(w.batch) >= NBatch) THEN w
        ELSE IF sl.state = "idle" THEN x ELSE y
  BY Zenon DEF AddPrompt, ToCompute, PartLen, PartNew, PartEntries, PartDone
<1>2. a = PartSlot(sl, n, i)
  <2> HIDE DEF sl, n, i
  <2> QED
    BY PartSlotIs DEF sl
<1> HIDE DEF sl, n, a, e, i
<1>3. x = WorldOf([w.slot EXCEPT ![s] = sl], w.kv, w.wkv, w.batch)
  <2>1. x = WithSlots(w, [w.slot EXCEPT ![s] = sl])
    BY Zenon DEF WithSlots
  <2> QED
    BY <2>1, WorldForms
<1>4. u = WorldOf(w.slot, SeqRm(w.kv, s + 1, p0, -1), SeqRm(w.wkv, s, p0, -1), w.batch)
  <2>1. u = WithCaches(w, SeqRm(w.kv, s + 1, p0, -1), SeqRm(w.wkv, s, p0, -1))
    BY Zenon DEF RmBoth, WithCaches
  <2> QED
    BY <2>1, WorldForms
<1> HIDE DEF p0
<1>5. /\ IsWorld(u) /\ u.slot = w.slot /\ u.batch = w.batch /\ u.kv = SeqRm(w.kv, s + 1, p0, -1)
      /\ u.wkv = SeqRm(w.wkv, s, p0, -1)
  BY <1>4, WorldOfFields
<1> HIDE DEF u
<1>6. y = WorldOf([w.slot EXCEPT ![s] = a], u.kv, u.wkv, w.batch \o e)
  <2> DEFINE t == w.batch \o e
             v == WithBatch(u, t)
  <2>1. y = [v EXCEPT !.slot[s] = a]
    BY <1>5, Zenon DEF WithBatch
  <2> HIDE DEF t
  <2>2. v = WorldOf(u.slot, u.kv, u.wkv, t)
    BY <1>5, WorldForms
  <2>3. IsWorld(v) /\ v.slot = w.slot /\ v.kv = u.kv /\ v.wkv = u.wkv /\ v.batch = t
    BY <1>5, <2>2, WorldOfFields
  <2> HIDE DEF v
  <2>4. y = WithSlots(v, [w.slot EXCEPT ![s] = a])
    BY <2>1, <2>3, Zenon DEF WithSlots
  <2>5. WithSlots(v, [w.slot EXCEPT ![s] = a]) = WorldOf([w.slot EXCEPT ![s] = a], v.kv, v.wkv, v.batch)
    BY <2>3, WorldForms
  <2> QED
    BY <2>3, <2>4, <2>5, Zenon DEF t
<1> QED
  BY <1>1, <1>2, <1>3, <1>5, <1>6, Zenon DEF sl, n, e, p0, i

\* The parts of Sample.
SampleState(sl, stop) == IF stop \/ sl.n_decoded + 1 >= Min({NPredict, NCtx}) THEN "idle" ELSE "generating"

LEMMA SampleIs ==
  ASSUME NEW sl \in SlotRecords, NEW tok, NEW stop
  PROVE  Sample(sl, tok, stop) = WithSample(sl, SampleState(sl, stop), tok, -1, sl.n_decoded + 1)
<1> DEFINE state == SampleState(sl, stop)
           c == SetBatch(SetSampled(SetState(sl, state), tok), -1)
           e == [sl EXCEPT !.state = state, !.sampled = tok, !.i_batch = -1]
<1>1. Sample(sl, tok, stop) = [e EXCEPT !.n_decoded = @ + 1]
  BY Zenon DEF Sample, SampleState
<1>2. e = c
  BY Zenon DEF SetBatch, SetSampled, SetState
<1> HIDE DEF state
<1>3. c.n_decoded = sl.n_decoded
  <2> DEFINE a == SetState(sl, state)
             b == SetSampled(a, tok)
  <2>1. a = SlotOf(state, sl.task, sl.prompt, sl.n_past, sl.cache_tokens, sl.sampled, sl.i_batch, sl.n_decoded)
    BY SlotFields, SlotSets
  <2> HIDE DEF a
  <2>2. b = SlotOf(state, sl.task, sl.prompt, sl.n_past, sl.cache_tokens, tok, sl.i_batch, sl.n_decoded)
    BY <2>1, SlotSets
  <2> HIDE DEF b
  <2>3. c = SlotOf(state, sl.task, sl.prompt, sl.n_past, sl.cache_tokens, tok, -1, sl.n_decoded)
    BY <2>2, SlotSets DEF a, b
  <2> HIDE DEF c
  <2> QED
    BY <2>3, SlotOfFields
<1> HIDE DEF e, c
<1>4. Sample(sl, tok, stop) = SetDecoded(c, sl.n_decoded + 1)
  BY <1>1, <1>2, <1>3, Zenon DEF SetDecoded
<1> QED
  BY <1>4, Zenon DEF WithSample, c, state

-----------------------------------------------------------------------------
(* What the tokens of a slot and of a prompt become                        *)

LEMMA GreatestUpto ==
  ASSUME NEW m \in Nat, NEW S \in SUBSET (0 .. m), S # {}
  PROVE  Max(S) \in S /\ \A y \in S : y <= Max(S)
<1> DEFINE T == {m - x : x \in S}
<1>1. T \in SUBSET Nat /\ T # {} /\ \A x \in S : x \in 0 .. m /\ m - x \in T
  <2>1. \A x \in S : x \in 0 .. m /\ m - x \in Nat /\ m - x \in T
    OBVIOUS
  <2>2. T # {}
    BY <2>1
  <2>3. \A y \in T : y \in Nat
    BY <2>1
  <2> QED
    BY <2>1, <2>2, <2>3
<1>2. PICK t \in T : \A y \in T : t <= y
  <2> HIDE DEF T
  <2> QED
    BY <1>1, LeastNat
<1>3. PICK x \in S : t = m - x
  OBVIOUS
<1> HIDE DEF T
<1>4. \A y \in S : x >= y
  <2> SUFFICES ASSUME NEW y \in S PROVE x >= y
    OBVIOUS
  <2>1. m - x <= m - y /\ x \in 0 .. m /\ y \in 0 .. m
    BY <1>1, <1>2, <1>3
  <2> QED
    BY <2>1
<1>5. Max(S) \in S /\ \A y \in S : Max(S) >= y
  BY <1>4, Zenon DEF Max
<1> QED
  BY <1>1, <1>5

LEMMA CommonPartIs ==
  ASSUME NEW a \in Seq(Int), NEW b \in Seq(Int)
  PROVE  /\ CommonPart(a, b) \in Nat /\ CommonPart(a, b) <= Len(a) /\ CommonPart(a, b) <= Len(b)
         /\ \A k \in 1 .. CommonPart(a, b) : a[k] = b[k]
<1> DEFINE m == Min({Len(a), Len(b)})
           S == {n \in 0 .. m : \A k \in 1 .. n : a[k] = b[k]}
<1>1. Len(a) \in Nat /\ Len(b) \in Nat
  OBVIOUS
<1>2. m \in Nat /\ m <= Len(a) /\ m <= Len(b)
  <2> DEFINE p == Len(a)
             q == Len(b)
  <2>1. p \in Nat /\ q \in Nat
    BY <1>1
  <2> HIDE DEF p, q
  <2>2. Min({p, q}) = IF p <= q THEN p ELSE q
    BY <2>1, LeastOfTwo
  <2>3. Min({p, q}) \in Nat /\ Min({p, q}) <= p /\ Min({p, q}) <= q
    BY <2>1, <2>2
  <2> QED
    BY <2>3 DEF p, q
<1> HIDE DEF m
<1>3. 0 \in S /\ S \in SUBSET (0 .. m)
  BY <1>2
<1>4. CommonPart(a, b) = Max(S)
  BY Zenon DEF CommonPart, m
<1>5. Max(S) \in S
  <2> HIDE DEF S
  <2> QED
    BY <1>2, <1>3, GreatestUpto
<1>6. Max(S) \in 0 .. m /\ \A k \in 1 .. Max(S) : a[k] = b[k]
  BY <1>5
<1> HIDE DEF S
<1> QED
  BY <1>1, <1>2, <1>4, <1>6

LEMMA ResizeIs ==
  ASSUME NEW tokens \in Seq(Int), NEW n \in Nat
  PROVE  /\ Resize(tokens, n) \in Seq(Int) /\ Len(Resize(tokens, n)) = n
         /\ \A k \in 1 .. n : Resize(tokens, n)[k] = IF k <= Len(tokens) THEN tokens[k] ELSE Fill
<1>1. \A k \in 1 .. n : (IF k <= Len(tokens) THEN tokens[k] ELSE Fill) \in Int
  BY DEF Fill
<1> QED
  BY <1>1 DEF Resize

\* The blocks that a long prompt loses leave at least one block, and fewer than two.
LEMMA Blocks ==
  ASSUME NEW keep \in 0 .. NCtx - 4, NEW len \in Nat, len >= NCtx
  PROVE  LET block == (NCtx - keep) \div 2
             lost  == ((len - keep - block) \div block) * block
         IN  /\ block \in Nat \ {0} /\ lost \in Nat /\ keep + lost + block <= len
             /\ keep + (len - keep - lost) < NCtx
<1> DEFINE block == (NCtx - keep) \div 2
           rest == len - keep - block
           lost == (rest \div block) * block
<1>1. NCtx \in Nat /\ keep \in Nat /\ NCtx - keep \in Nat /\ NCtx - keep >= 4
  BY SizesAre
<1>2. block \in Nat \ {0} /\ 2 * block <= NCtx - keep
  BY <1>1
<1> HIDE DEF block
<1>3. rest \in Nat
  BY <1>1, <1>2
<1>4. lost \in Nat /\ lost <= rest /\ rest < lost + block
  <2> HIDE DEF rest
  <2> QED
    BY <1>2, <1>3, Quotient
<1> HIDE DEF lost
<1>5. keep + lost + block <= len /\ keep + (len - keep - lost) < NCtx
  BY <1>1, <1>2, <1>3, <1>4
<1> QED
  BY <1>2, <1>4, <1>5 DEF block, lost

LEMMA TruncatedIs ==
  ASSUME NEW prompt \in Seq(Int), Len(prompt) >= NCtx, NEW keep \in 0 .. NCtx - 4
  PROVE  /\ Truncated(prompt, keep) \in Seq(Int)
         /\ Len(Truncated(prompt, keep)) > 0 /\ Len(Truncated(prompt, keep)) < NCtx
         /\ \A k \in 1 .. Len(Truncated(prompt, keep)) :
              \E j \in 1 .. Len(prompt) : Truncated(prompt, keep)[k] = prompt[j]
<1> DEFINE block == (NCtx - keep) \div 2
           lost  == ((Len(prompt) - keep - block) \div block) * block
           len == Len(prompt)
           a == SubSeq(prompt, 1, keep)
           b == SubSeq(prompt, keep + lost + 1, len)
           t == Truncated(prompt, keep)
<1>1. len \in Nat /\ keep \in Nat /\ NCtx \in Nat /\ len >= NCtx /\ keep <= NCtx - 4
  BY SizesAre
<1>2. /\ block \in Nat \ {0} /\ lost \in Nat /\ keep + lost + block <= len
      /\ keep + (len - keep - lost) < NCtx
  BY <1>1, Blocks
<1>3. t = a \o b
  BY Zenon DEF Truncated
<1> HIDE DEF block, lost, t
<1>4. /\ a \in Seq(Int) /\ Len(a) = keep /\ \A k \in 1 .. keep : a[k] = prompt[k]
  BY <1>1
<1>5. /\ b \in Seq(Int) /\ Len(b) = len - keep - lost
      /\ \A k \in 1 .. len - keep - lost : b[k] = prompt[keep + lost + k]
  <2> DEFINE from == keep + lost + 1
  <2>1. from \in Nat \ {0} /\ from <= len
    BY <1>1, <1>2
  <2> HIDE DEF from
  <2>2. SubSeq(prompt, from, len) \in Seq(Int) /\ Len(SubSeq(prompt, from, len)) = len - from + 1
    BY <2>1
  <2>3. \A k \in 1 .. len - from + 1 : SubSeq(prompt, from, len)[k] = prompt[from + k - 1]
    BY <2>1
  <2>4. len - from + 1 = len - keep - lost /\ \A k \in Int : from + k - 1 = keep + lost + k
    BY <1>1, <1>2 DEF from
  <2>5. b = SubSeq(prompt, from, len)
    BY DEF from
  <2> HIDE DEF b
  <2>6. \A k \in 1 .. len - keep - lost : k \in Int
    BY <1>1, <1>2
  <2> QED
    BY <2>2, <2>3, <2>4, <2>5, <2>6
<1> HIDE DEF a, b, len
<1>6. /\ t \in Seq(Int) /\ Len(t) = keep + (len - keep - lost)
      /\ \A k \in 1 .. Len(t) : t[k] = IF k <= keep THEN a[k] ELSE b[k - keep]
  <2>1. /\ t \in Seq(Int) /\ Len(t) = Len(a) + Len(b)
        /\ \A k \in 1 .. Len(a) + Len(b) : t[k] = IF k <= Len(a) THEN a[k] ELSE b[k - Len(a)]
    BY <1>3, <1>4, <1>5, ConcatProperties
  <2> QED
    BY <1>4, <1>5, <2>1
<1>7. Len(t) > 0 /\ Len(t) < NCtx
  BY <1>1, <1>2, <1>6
<1>8. ASSUME NEW k \in 1 .. Len(t)
      PROVE  \E j \in 1 .. len : t[k] = prompt[j]
  <2>1. CASE k <= keep
    <3>1. t[k] = a[k] /\ k \in 1 .. keep /\ k \in 1 .. len
      BY <1>1, <1>2, <1>3, <1>4, <1>5, <1>6, <2>1
    <3> QED
      BY <1>4, <3>1
  <2>2. CASE k > keep
    <3>1. t[k] = b[k - keep] /\ k - keep \in 1 .. len - keep - lost
      BY <1>1, <1>2, <1>6, <2>2
    <3>2. keep + lost + (k - keep) \in 1 .. len
      BY <1>1, <1>2, <3>1
    <3> QED
      BY <1>5, <3>1, <3>2
  <2> QED
    BY <1>1, <1>6, <2>1, <2>2
<1> QED
  BY <1>6, <1>7, <1>8 DEF t, len

-----------------------------------------------------------------------------
(* The slots keep their types                                              *)

\* No request asks a shift to drop more tokens than a full slot holds.
SmallDiscards == \A r \in Requests : r.n_discard <= NCtx - 1

GoodTask(task) == task \in Completions /\ (SmallDiscards => task.n_discard <= NCtx - 1)

SlotGood(sl) ==
  /\ sl \in SlotRecords
  /\ sl.state # "idle" => GoodTask(sl.task)
  /\ Len(sl.prompt) < NCtx
  /\ SmallDiscards => sl.n_past \in 0 .. NCtx - 1
  /\ sl.state = "prompt" => /\ sl.n_past \in Nat
                            /\ IF sl.prompt = <<>> THEN sl.n_past = 0 ELSE sl.n_past < Len(sl.prompt)
  /\ sl.state \in {"done", "generating"} => sl.prompt # <<>>
  /\ sl.state # "idle" /\ sl.prompt # <<>> => sl.task.n_keep \in 0 .. NCtx - 4
  /\ sl.n_decoded \in 0 .. NPredict
  /\ sl.state = "done" => sl.n_decoded = 0
  /\ sl.state = "generating" => sl.n_decoded < NPredict

LEMMA IdleIsGood ==
  SlotGood(Idle)
<1>1. Idle = SlotOf("idle", Nothing, <<>>, 0, <<>>, Fill, -1, 0)
  BY DEF Idle, SlotOf
<1>2. <<>> \in Seq(Int) /\ Len(<<>>) = 0 /\ Fill \in Int /\ "idle" \in States
  BY DEF Fill, States
<1>3. Idle \in SlotRecords
  <2>1. Nothing \in Completions \cup {Nothing} /\ 0 \in Int /\ -1 \in Int
    OBVIOUS
  <2> QED
    BY <1>1, <1>2, <2>1, SlotOfType, Zenon
<1>4. Idle.state = "idle" /\ Idle.prompt = <<>> /\ Idle.n_past = 0 /\ Idle.n_decoded = 0
  BY <1>1, SlotOfFields
<1> HIDE DEF Idle
<1> QED
  BY <1>2, <1>3, <1>4, SizesAre DEF SlotGood

LEMMA ReleaseIsGood ==
  ASSUME NEW sl, SlotGood(sl)
  PROVE  /\ Release(sl) = WithState(sl, "idle") /\ SlotGood(Release(sl)) /\ Release(sl).state = "idle"
         /\ Release(sl).prompt = sl.prompt /\ Release(sl).cache_tokens = sl.cache_tokens
         /\ Release(sl).n_past = sl.n_past
<1>1. Release(sl) = WithState(sl, "idle")
  BY Zenon DEF Release, WithState, SetState
<1> DEFINE r == WithState(sl, "idle")
<1>2. r = SlotOf("idle", sl.task, sl.prompt, sl.n_past, sl.cache_tokens, sl.sampled, sl.i_batch, sl.n_decoded)
  BY SlotForms DEF SlotGood
<1>3. r \in SlotRecords
  BY <1>2, SlotOfType, SlotFields DEF SlotGood, States
<1>4. r.state = "idle" /\ r.prompt = sl.prompt /\ r.n_past = sl.n_past /\ r.n_decoded = sl.n_decoded
      /\ r.cache_tokens = sl.cache_tokens
  BY <1>2, SlotOfFields
<1> HIDE DEF r
<1>5. SlotGood(r)
  BY <1>3, <1>4 DEF SlotGood
<1> QED
  BY <1>1, <1>4, <1>5 DEF r

LEMMA TokensAreGood ==
  ASSUME NEW sl, SlotGood(sl), NEW tokens \in Seq(Int)
  PROVE  /\ WithTokens(sl, tokens) = [sl EXCEPT !.cache_tokens = tokens] /\ SlotGood(WithTokens(sl, tokens))
         /\ WithTokens(sl, tokens).state = sl.state /\ WithTokens(sl, tokens).i_batch = sl.i_batch
         /\ WithTokens(sl, tokens).prompt = sl.prompt /\ WithTokens(sl, tokens).n_past = sl.n_past
         /\ WithTokens(sl, tokens).task = sl.task /\ WithTokens(sl, tokens).cache_tokens = tokens
<1> DEFINE r == WithTokens(sl, tokens)
<1>1. r = [sl EXCEPT !.cache_tokens = tokens]
  BY Zenon DEF WithTokens, SetTokens
<1>2. r = SlotOf(sl.state, sl.task, sl.prompt, sl.n_past, tokens, sl.sampled, sl.i_batch, sl.n_decoded)
  BY SlotForms DEF SlotGood
<1>3. r \in SlotRecords
  BY <1>2, SlotOfType, SlotFields DEF SlotGood
<1>4. /\ r.state = sl.state /\ r.task = sl.task /\ r.prompt = sl.prompt /\ r.n_past = sl.n_past
      /\ r.n_decoded = sl.n_decoded /\ r.i_batch = sl.i_batch /\ r.cache_tokens = tokens
  BY <1>2, SlotOfFields
<1> HIDE DEF r
<1>5. SlotGood(r)
  BY <1>3, <1>4 DEF SlotGood
<1> QED
  BY <1>1, <1>4, <1>5 DEF r

LEMMA LaunchIsGood ==
  ASSUME NEW sl, SlotGood(sl), NEW r \in Requests
  PROVE  LET l == [sl EXCEPT !.state = "prompt", !.task = r, !.prompt = <<>>, !.n_past = 0]
         IN  /\ SlotGood(l) /\ l.state = "prompt" /\ l.task = r /\ l.prompt = <<>> /\ l.n_past = 0
             /\ l.cache_tokens = sl.cache_tokens
<1> DEFINE l == WithLaunch(sl, r)
<1>1. l = [sl EXCEPT !.state = "prompt", !.task = r, !.prompt = <<>>, !.n_past = 0]
  BY Zenon DEF WithLaunch, SetState, SetTask, SetPrompt, SetPast
<1>2. l = SlotOf("prompt", r, <<>>, 0, sl.cache_tokens, sl.sampled, sl.i_batch, sl.n_decoded)
  BY SlotForms DEF SlotGood
<1>3. r \in Completions /\ "prompt" \in States /\ <<>> \in Seq(Int) /\ Len(<<>>) = 0
  BY SlotAssumption DEF States
<1>4. l \in SlotRecords
  <2>1. /\ r \in Completions \cup {Nothing} /\ 0 \in Int /\ sl.cache_tokens \in Seq(Int) /\ sl.sampled \in Int
        /\ sl.i_batch \in Int /\ sl.n_decoded \in Int
    BY <1>3, SlotFields DEF SlotGood
  <2> QED
    BY <1>2, <1>3, <2>1, SlotOfType, Zenon
<1>5. l.state = "prompt" /\ l.task = r /\ l.prompt = <<>> /\ l.n_past = 0 /\ l.n_decoded = sl.n_decoded
      /\ l.cache_tokens = sl.cache_tokens
  BY <1>2, SlotOfFields
<1> HIDE DEF l
<1>6. GoodTask(r)
  BY <1>3 DEF GoodTask, SmallDiscards
<1>7. SlotGood(l)
  BY <1>3, <1>4, <1>5, <1>6, SizesAre DEF SlotGood
<1> QED
  BY <1>1, <1>5, <1>7

\* A shift is due for a full slot that has computed its prompt, and drops at least one token.
ShiftDue(sl) == sl.state # "idle" /\ ~(ShiftEnd(sl, 0) < NCtx - 1)

LEMMA ShiftByIs ==
  ASSUME NEW sl, SlotGood(sl), ShiftDue(sl)
  PROVE  /\ sl.state \in {"done", "generating"} /\ sl.n_past \in Int /\ ShiftEnd(sl, 0) = sl.n_past
         /\ sl.n_past >= NCtx - 1
         /\ ShiftKeep(sl) \in 0 .. NCtx - 3 /\ ShiftBy(sl, 0) \in Nat \ {0}
         /\ SmallDiscards => sl.n_past = NCtx - 1 /\ ShiftBy(sl, 0) <= NCtx - 1
<1> DEFINE end == ShiftEnd(sl, 0)
           keep == ShiftKeep(sl)
           by == ShiftBy(sl, 0)
           past == sl.n_past
<1>1. past \in Int /\ NCtx \in Nat /\ NCtx > 4 /\ AddBos \in {0, 1}
  BY SizesAre, SlotFields DEF SlotGood
<1>2. end = past
  BY <1>1 DEF ShiftEnd
<1>3. past >= NCtx - 1
  BY <1>1, <1>2 DEF ShiftDue
<1>4. sl.state # "prompt"
  <2>1. Len(sl.prompt) \in Nat /\ Len(sl.prompt) < NCtx
    BY SlotFields DEF SlotGood
  <2> QED
    BY <1>1, <1>3, <2>1 DEF SlotGood
<1>5. sl.state \in {"done", "generating"}
  BY <1>4 DEF SlotGood, SlotRecords, States, ShiftDue
<1>6. sl.task.n_keep \in 0 .. NCtx - 4 /\ GoodTask(sl.task)
  BY <1>5 DEF SlotGood
<1>7. keep \in 0 .. NCtx - 3
  BY <1>1, <1>6 DEF ShiftKeep
<1>8. sl.task.n_discard \in Nat /\ (SmallDiscards => sl.task.n_discard <= NCtx - 1)
  BY <1>6 DEF GoodTask, Completions
<1>9. by = IF sl.task.n_discard # 0 THEN sl.task.n_discard ELSE (past - keep) \div 2
  BY <1>2 DEF ShiftBy
<1>10. SmallDiscards => past = NCtx - 1
  <2>1. SmallDiscards => past \in 0 .. NCtx - 1
    BY DEF SlotGood
  <2> QED
    BY <1>1, <1>3, <2>1
<1> HIDE DEF end, keep, by, past
<1>11. by \in Nat \ {0} /\ (SmallDiscards => by <= NCtx - 1)
  <2>1. past - keep \in Nat /\ past - keep >= 2
    BY <1>1, <1>3, <1>7
  <2>2. (past - keep) \div 2 \in Nat \ {0} /\ (past - keep) \div 2 <= past - keep
    BY <2>1
  <2> QED
    BY <1>1, <1>7, <1>8, <1>9, <1>10, <2>1, <2>2
<1> QED
  BY <1>1, <1>2, <1>3, <1>5, <1>7, <1>10, <1>11 DEF end, keep, by, past

LEMMA ShiftTokensIs ==
  ASSUME NEW sl, SlotGood(sl), ShiftDue(sl)
  PROVE  LET n == Len(sl.cache_tokens) - ShiftBy(sl, 0)
         IN  /\ ShiftTokens(sl, 0) \in Seq(Int) /\ Len(ShiftTokens(sl, 0)) = IF n >= 0 THEN n ELSE 0
             /\ \A k \in 1 .. n : ShiftTokens(sl, 0)[k]
                                    = sl.cache_tokens[IF k > ShiftKeep(sl) THEN k + ShiftBy(sl, 0) ELSE k]
<1> DEFINE tokens == sl.cache_tokens
           by == ShiftBy(sl, 0)
           keep == ShiftKeep(sl)
           n == Len(tokens) - by
           at(k) == tokens[IF k > keep THEN k + by ELSE k]
<1>1. tokens \in Seq(Int) /\ Len(tokens) \in Nat /\ by \in Nat \ {0} /\ keep \in Int
  BY ShiftByIs, SlotFields, SizesAre DEF SlotGood
<1>2. ShiftTokens(sl, 0) = [k \in 1 .. n |-> at(k)]
  BY DEF ShiftTokens
<1> HIDE DEF tokens, by, keep
<1>3. \A k \in 1 .. n : at(k) \in Int
  BY <1>1
<1>4. n \in Int
  BY <1>1
<1> HIDE DEF n
<1>5. CASE n >= 0
  <2>1. n \in Nat
    BY <1>4, <1>5
  <2> HIDE DEF at
  <2> DEFINE t == [k \in 1 .. n |-> at(k)]
  <2>2. t \in Seq(Int) /\ Len(t) = n /\ \A k \in 1 .. n : t[k] = at(k)
    BY <1>3, <2>1
  <2> QED
    BY <1>2, <1>5, <2>2 DEF n, tokens, by, keep, at
<1>6. CASE n < 0
  <2>1. \A k \in 1 .. n : FALSE
    BY <1>4, <1>6
  <2> HIDE DEF at
  <2>2. [k \in 1 .. n |-> at(k)] = <<>>
    BY <1>4, <1>6
  <2>3. ShiftTokens(sl, 0) \in Seq(Int) /\ Len(ShiftTokens(sl, 0)) = 0 /\ ~(n >= 0)
    BY <1>2, <1>4, <1>6, <2>2
  <2> QED
    BY <2>1, <2>3 DEF n, tokens, by
<1> QED
  BY <1>4, <1>5, <1>6

LEMMA ShiftIsGood ==
  ASSUME NEW sl, SlotGood(sl), ShiftDue(sl)
  PROVE  LET r == ShiftSlot(sl, 0)
         IN  /\ SlotGood(r) /\ r.state = sl.state /\ r.i_batch = sl.i_batch /\ r.prompt = sl.prompt
             /\ r.task = sl.task /\ r.n_past = sl.n_past - ShiftBy(sl, 0)
             /\ r.cache_tokens = IF sl.task.cache_prompt THEN ShiftTokens(sl, 0) ELSE sl.cache_tokens
             /\ SmallDiscards => r.n_past <= NCtx - 2
<1> DEFINE r == ShiftSlot(sl, 0)
           past == sl.n_past - ShiftBy(sl, 0)
           tokens == IF sl.task.cache_prompt THEN ShiftTokens(sl, 0) ELSE sl.cache_tokens
<1>1. r = SlotOf(sl.state, sl.task, sl.prompt, past, tokens, sl.sampled, sl.i_batch, sl.n_decoded)
  BY SlotForms DEF SlotGood, ShiftSlot
<1>2. past \in Int /\ (SmallDiscards => past \in 0 .. NCtx - 2)
  <2>1. sl.n_past \in Int /\ ShiftBy(sl, 0) \in Nat \ {0} /\ NCtx \in Nat
        /\ (SmallDiscards => sl.n_past = NCtx - 1 /\ ShiftBy(sl, 0) <= NCtx - 1)
    BY ShiftByIs, SizesAre
  <2> QED
    BY <2>1
<1>3. tokens \in Seq(Int)
  BY ShiftTokensIs, SlotFields DEF SlotGood
<1> HIDE DEF past, tokens
<1>4. r \in SlotRecords
  BY <1>1, <1>2, <1>3, SlotOfType, SlotFields, SMTT(30) DEF SlotGood
<1>5. /\ r.state = sl.state /\ r.task = sl.task /\ r.prompt = sl.prompt /\ r.n_past = past
      /\ r.cache_tokens = tokens /\ r.n_decoded = sl.n_decoded /\ r.i_batch = sl.i_batch
  BY <1>1, SlotOfFields
<1> HIDE DEF r
<1>6. sl.state # "prompt"
  BY ShiftByIs
<1>7. SmallDiscards => past \in 0 .. NCtx - 1 /\ past <= NCtx - 2
  BY <1>2, SizesAre
<1>8. SlotGood(r)
  BY <1>4, <1>5, <1>6, <1>7 DEF SlotGood
<1> QED
  BY <1>5, <1>7, <1>8 DEF r, past, tokens

LEMMA SampledIsGood ==
  ASSUME NEW sl, SlotGood(sl), sl.state = "generating", SmallDiscards => sl.n_past <= NCtx - 2, NEW i \in Int
  PROVE  LET r == SampledSlot(sl, i)
         IN  /\ SlotGood(r) /\ r.state = "generating" /\ r.i_batch = i /\ r.prompt = sl.prompt
             /\ r.task = sl.task /\ r.n_past = sl.n_past + 1
             /\ r.cache_tokens = IF sl.task.cache_prompt THEN Append(sl.cache_tokens, sl.sampled)
                                                         ELSE sl.cache_tokens
<1> DEFINE r == SampledSlot(sl, i)
           past == sl.n_past + 1
           tokens == IF sl.task.cache_prompt THEN Append(sl.cache_tokens, sl.sampled) ELSE sl.cache_tokens
<1>1. r = SlotOf(sl.state, sl.task, sl.prompt, past, tokens, sl.sampled, i, sl.n_decoded)
  BY SlotForms DEF SlotGood, SampledSlot
<1>2. past \in Int /\ (SmallDiscards => past \in 0 .. NCtx - 1)
  <2>1. sl.n_past \in Int /\ NCtx \in Nat /\ (SmallDiscards => sl.n_past \in 0 .. NCtx - 1)
    BY SlotFields, SizesAre DEF SlotGood
  <2> QED
    BY <2>1
<1>3. tokens \in Seq(Int)
  <2>1. sl.cache_tokens \in Seq(Int) /\ sl.sampled \in Int
    BY SlotFields DEF SlotGood
  <2>2. Append(sl.cache_tokens, sl.sampled) \in Seq(Int)
    BY <2>1
  <2> QED
    BY <2>1, <2>2
<1> HIDE DEF past, tokens
<1>4. r \in SlotRecords
  <2>1. /\ sl.state \in States /\ sl.task \in Completions \cup {Nothing} /\ sl.prompt \in Seq(Int)
        /\ sl.sampled \in Int /\ sl.n_decoded \in Int
    BY SlotFields DEF SlotGood
  <2> QED
    BY <1>1, <1>2, <1>3, <2>1, SlotOfType, Zenon
<1>5. /\ r.state = sl.state /\ r.task = sl.task /\ r.prompt = sl.prompt /\ r.n_past = past
      /\ r.cache_tokens = tokens /\ r.n_decoded = sl.n_decoded /\ r.i_batch = i
  BY <1>1, SlotOfFields
<1> HIDE DEF r
<1>6. SlotGood(r)
  BY <1>2, <1>4, <1>5 DEF SlotGood
<1> QED
  BY <1>5, <1>6 DEF r, past, tokens

LEMMA TokenizedIsGood ==
  ASSUME NEW sl, SlotGood(sl), sl.state = "prompt"
  PROVE  LET r == Tokenized(sl, 0)
         IN  /\ SlotGood(r) /\ r.i_batch = sl.i_batch /\ r.cache_tokens = sl.cache_tokens
             /\ Refused(sl, 0) => r.state = "idle" /\ r.prompt = sl.prompt /\ r.n_past = sl.n_past
             /\ ~Refused(sl, 0) =>
                  /\ r.state = "prompt" /\ r.prompt = TokenizedPrompt(sl, 0) /\ r.prompt # <<>>
                  /\ r.task.cache_prompt = sl.task.cache_prompt
                  /\ ~r.task.cache_prompt => r.n_past = 0
                  /\ r.n_past <= Len(sl.cache_tokens)
                  /\ r.task.cache_prompt => \A k \in 1 .. r.n_past : sl.cache_tokens[k] = r.prompt[k]
             /\ \A k \in 1 .. Len(TokenizedPrompt(sl, 0)) : \E j \in 1 .. Len(sl.task.prompt) :
                  TokenizedPrompt(sl, 0)[k] = sl.task.prompt[j]
             /\ sl.task \in Completions
<1> DEFINE r == Tokenized(sl, 0)
           prompt == TokenizedPrompt(sl, 0)
           keep == TokenizedKeep(sl, 0)
           common == TokenizedCommon(sl, 0)
           past == TokenizedPast(sl, 0)
           given == sl.task.prompt
           task == WithKeep(sl.task, keep)
<1>1. /\ sl \in SlotRecords /\ sl.task \in Completions /\ GoodTask(sl.task) /\ sl.cache_tokens \in Seq(Int)
      /\ sl.state \in States /\ sl.sampled \in Int /\ sl.i_batch \in Int /\ sl.n_decoded \in Int
  BY SlotFields DEF SlotGood, GoodTask
<1>2. given \in Seq(Int) /\ sl.task.n_keep \in Int /\ sl.task.cache_prompt \in BOOLEAN
  BY <1>1 DEF Completions
<1>3. keep \in 0 .. NCtx - 4
  <2> DEFINE m == IF sl.task.n_keep < 0 THEN 0 + Len(given) + 3 ELSE sl.task.n_keep
             c == NCtx - 4
  <2>1. m \in Nat /\ c \in Nat
    BY <1>2, SizesAre
  <2>2. keep = Min({c, m})
    BY DEF TokenizedKeep
  <2> HIDE DEF m, c, keep
  <2>3. keep = IF c <= m THEN c ELSE m
    BY <2>1, <2>2, LeastOfTwo
  <2> QED
    BY <2>1, <2>3 DEF c
<1>4. prompt = IF Len(given) >= NCtx THEN Truncated(given, keep) ELSE given
  BY DEF TokenizedPrompt
<1>5. task \in Completions /\ task.n_keep = keep /\ task.cache_prompt = sl.task.cache_prompt /\ GoodTask(task)
  <2> HIDE DEF keep
  <2>1. keep \in Int
    BY <1>3, SizesAre
  <2>2. /\ task \in Completions /\ task.n_keep = keep /\ task.cache_prompt = sl.task.cache_prompt
        /\ task.n_discard = sl.task.n_discard
    BY <1>1, <2>1, WithKeepIs, Zenon
  <2> HIDE DEF task
  <2> QED
    BY <1>1, <2>2 DEF GoodTask
<1> HIDE DEF keep, task, given
<1>6. /\ prompt \in Seq(Int) /\ Len(prompt) < NCtx /\ (given # <<>> => prompt # <<>>)
      /\ \A k \in 1 .. Len(prompt) : \E j \in 1 .. Len(given) : prompt[k] = given[j]
  <2> HIDE DEF prompt
  <2>1. CASE Len(given) >= NCtx
    <3>1. prompt = Truncated(given, keep)
      BY <1>4, <2>1
    <3>2. /\ prompt \in Seq(Int) /\ Len(prompt) > 0 /\ Len(prompt) < NCtx
          /\ \A k \in 1 .. Len(prompt) : \E j \in 1 .. Len(given) : prompt[k] = given[j]
      BY <1>2, <1>3, <2>1, <3>1, TruncatedIs
    <3> QED
      BY <3>2
  <2>2. CASE ~(Len(given) >= NCtx)
    <3>1. prompt = given /\ Len(given) \in Nat /\ NCtx \in Nat
      BY <1>2, <1>4, <2>2, SizesAre
    <3> QED
      BY <1>2, <2>2, <3>1
  <2> QED
    BY <2>1, <2>2
<1>7. common = IF sl.task.cache_prompt THEN CommonPart(sl.cache_tokens, prompt) ELSE 0
  BY DEF TokenizedCommon
<1>8. past = IF common = Len(prompt) THEN common - 1 ELSE common
  BY DEF TokenizedPast
<1> HIDE DEF prompt, common, past
<1>9. /\ common \in Nat /\ common <= Len(prompt) /\ common <= Len(sl.cache_tokens)
      /\ sl.task.cache_prompt => \A k \in 1 .. common : sl.cache_tokens[k] = prompt[k]
      /\ ~sl.task.cache_prompt => common = 0
  <2>1. CASE sl.task.cache_prompt
    <3>1. common = CommonPart(sl.cache_tokens, prompt)
      BY <1>7, <2>1
    <3> QED
      BY <1>1, <1>6, <2>1, <3>1, CommonPartIs
  <2>2. CASE ~sl.task.cache_prompt
    <3>1. common = 0 /\ Len(prompt) \in Nat /\ Len(sl.cache_tokens) \in Nat
      BY <1>1, <1>6, <1>7, <2>2
    <3> QED
      BY <2>2, <3>1
  <2> QED
    BY <2>1, <2>2
<1>10. Len(prompt) \in Nat /\ (prompt # <<>> => Len(prompt) # 0) /\ Len(sl.cache_tokens) \in Nat
  BY <1>1, <1>6
<1>11. CASE Refused(sl, 0)
  <2>1. r = Release(sl)
    BY <1>1, <1>11, TokenizedIs, ReleaseIsGood
  <2>2. r.i_batch = sl.i_batch
    BY <2>1, <1>1, ReleaseIsGood, SlotForms, SlotOfFields
  <2> HIDE DEF r
  <2> QED
    BY <1>1, <1>6, <1>11, <2>1, <2>2, ReleaseIsGood DEF r, prompt, given
<1>12. CASE ~Refused(sl, 0)
  <2>1. prompt # <<>>
    BY <1>6, <1>12 DEF Refused, given
  <2>2. past \in Nat /\ past < Len(prompt) /\ past <= common
    BY <1>8, <1>9, <1>10, <2>1
  <2>3. r = WithPrompt(sl, prompt, task, past)
    BY <1>1, <1>12, TokenizedIs DEF prompt, task, past, keep
  <2>4. r = SlotOf(sl.state, task, prompt, past, sl.cache_tokens, sl.sampled, sl.i_batch, sl.n_decoded)
    BY <1>1, <2>3, SlotForms
  <2> HIDE DEF r
  <2>5. r \in SlotRecords
    BY <1>1, <1>5, <1>6, <2>2, <2>4, SlotOfType
  <2>6. /\ r.state = sl.state /\ r.task = task /\ r.prompt = prompt /\ r.n_past = past
        /\ r.cache_tokens = sl.cache_tokens /\ r.n_decoded = sl.n_decoded /\ r.i_batch = sl.i_batch
    BY <2>4, SlotOfFields
  <2>7. past \in 0 .. NCtx - 1
    BY <1>6, <1>10, <2>2, SizesAre
  <2>8. SlotGood(r)
    BY <1>3, <1>5, <1>6, <2>1, <2>2, <2>5, <2>6, <2>7 DEF SlotGood
  <2>9. past = 0 \/ sl.task.cache_prompt
    BY <1>9, <2>2
  <2>10. past <= Len(sl.cache_tokens) /\ (sl.task.cache_prompt => \A k \in 1 .. past : sl.cache_tokens[k] = prompt[k])
    BY <1>9, <1>10, <2>2
  <2> QED
    BY <1>1, <1>5, <1>6, <1>12, <2>1, <2>6, <2>8, <2>9, <2>10 DEF r, prompt, given
<1> QED
  BY <1>11, <1>12

LEMMA PartLenIs ==
  ASSUME NEW sl, SlotGood(sl), sl.state = "prompt", sl.prompt # <<>>, NEW tokens, Len(tokens) \in Nat
  PROVE  LET n == PartLen(sl, tokens)
         IN  /\ n \in Nat /\ sl.n_past + n <= Len(sl.prompt) /\ sl.n_past \in Nat
             /\ Len(tokens) < NBatch => n >= 1 /\ Len(tokens) + n <= NBatch
             /\ Len(tokens) >= NBatch => n = 0
             /\ PartNew(sl, n) \in Seq(Int) /\ Len(PartNew(sl, n)) = n
             /\ \A k \in 1 .. n : PartNew(sl, n)[k] = sl.prompt[sl.n_past + k] /\ sl.n_past + k \in 1 .. Len(sl.prompt)
<1> DEFINE len == Len(sl.prompt)
           past == sl.n_past
           left == len - past
           room == NBatch - Len(tokens)
           m == Min({left, room})
           n == PartLen(sl, tokens)
<1>1. sl.prompt \in Seq(Int) /\ len \in Nat /\ past \in Nat /\ past < len /\ NBatch \in Nat \ {0}
  BY SlotFields, SizesAre DEF SlotGood
<1>2. left \in Int /\ room \in Int /\ left > 0
  BY <1>1
<1>3. n = Max({0, m})
  BY DEF PartLen
<1> HIDE DEF left, room, n
<1>4. m = IF left <= room THEN left ELSE room
  BY <1>2, LeastOfTwo
<1> HIDE DEF m
<1>5. m \in Int
  BY <1>2, <1>4
<1>6. n = IF 0 <= m THEN m ELSE 0
  BY <1>3, <1>5, GreatestOfTwo
<1>7. n \in Nat /\ n <= left /\ (room > 0 => n >= 1 /\ n <= room) /\ (room <= 0 => n = 0)
  BY <1>2, <1>4, <1>6
<1>8. /\ past + n <= len /\ (Len(tokens) < NBatch => n >= 1 /\ Len(tokens) + n <= NBatch)
      /\ Len(tokens) >= NBatch => n = 0
  BY <1>1, <1>7 DEF left, room
<1>9. /\ PartNew(sl, n) \in Seq(Int) /\ Len(PartNew(sl, n)) = n
      /\ \A k \in 1 .. n : PartNew(sl, n)[k] = sl.prompt[past + k]
  <2> DEFINE p == sl.prompt
  <2>1. p \in Seq(Int) /\ past + 1 \in Nat \ {0} /\ past + n \in Nat /\ past + n <= Len(p) /\ n \in Nat
    BY <1>1, <1>7, <1>8
  <2>2. PartNew(sl, n) = SubSeq(p, past + 1, past + n)
    BY DEF PartNew
  <2> HIDE DEF p, past
  <2> DEFINE from == past + 1
             to == past + n
  <2>3. past \in Nat /\ from \in Nat \ {0} /\ to \in Nat /\ to <= Len(p)
    BY <1>1, <2>1 DEF past
  <2>4. /\ from <= to => Len(SubSeq(p, from, to)) = to - from + 1
        /\ from > to => Len(SubSeq(p, from, to)) = 0
        /\ SubSeq(p, from, to) \in Seq(Int)
        /\ \A k \in 1 .. to - from + 1 : SubSeq(p, from, to)[k] = p[from + k - 1]
    <3> HIDE DEF from, to
    <3> QED
      BY <2>1, <2>3
  <2>5. to - from + 1 = n /\ (from > to => n = 0) /\ \A k \in 1 .. n : from + k - 1 = past + k
    BY <2>1, <2>3
  <2>6. \A k \in 1 .. n : SubSeq(p, from, to)[k] = p[past + k]
    BY <2>4, <2>5
  <2>7. SubSeq(p, from, to) \in Seq(Int) /\ Len(SubSeq(p, from, to)) = n
    <3> HIDE DEF from, to
    <3> QED
      BY <2>1, <2>3, <2>4, <2>5
  <2>8. PartNew(sl, n) = SubSeq(p, from, to)
    BY <2>2
  <2> HIDE DEF from, to
  <2> QED
    BY <2>6, <2>7, <2>8, Zenon DEF p, past
<1>10. \A k \in 1 .. n : past + k \in 1 .. len
  BY <1>1, <1>7, <1>8, SMTT(30)
<1> QED
  BY <1>1, <1>7, <1>8, <1>9, <1>10 DEF n

LEMMA PartIsGood ==
  ASSUME NEW sl, SlotGood(sl), sl.state = "prompt", sl.prompt # <<>>, NEW tokens, Len(tokens) \in Nat
  PROVE  LET n == PartLen(sl, tokens)
             r == PartSlot(sl, n, Len(tokens) + n - 1)
         IN  /\ SlotGood(r) /\ r.prompt = sl.prompt /\ r.task = sl.task /\ r.n_past = sl.n_past + n
             /\ r.cache_tokens = Resize(sl.cache_tokens, sl.n_past)
                                   \o IF sl.task.cache_prompt THEN PartNew(sl, n) ELSE <<>>
             /\ IF sl.n_past + n = Len(sl.prompt)
                  THEN r.state = "done" /\ r.i_batch = Len(tokens) + n - 1 /\ n >= 1
                  ELSE r.state = "prompt" /\ r.i_batch = sl.i_batch
<1> DEFINE n == PartLen(sl, tokens)
           i == Len(tokens) + n - 1
           r == PartSlot(sl, n, i)
           past == sl.n_past + n
           new == IF sl.task.cache_prompt THEN PartNew(sl, n) ELSE <<>>
           cached == Resize(sl.cache_tokens, sl.n_past) \o new
           state == IF PartDone(sl, n) THEN "done" ELSE sl.state
           batch_i == IF PartDone(sl, n) THEN i ELSE sl.i_batch
           decoded == IF PartDone(sl, n) THEN 0 ELSE sl.n_decoded
<1>1. n \in Nat /\ sl.n_past \in Nat /\ past <= Len(sl.prompt) /\ PartNew(sl, n) \in Seq(Int)
  BY PartLenIs
<1>2. /\ sl \in SlotRecords /\ sl.task \in Completions \cup {Nothing} /\ sl.prompt \in Seq(Int) /\ sl.cache_tokens \in Seq(Int)
      /\ sl.state \in States /\ sl.sampled \in Int /\ sl.i_batch \in Int /\ sl.n_decoded \in Int
  BY SlotFields DEF SlotGood
<1>3. r = SlotOf(state, sl.task, sl.prompt, past, cached, sl.sampled, batch_i, decoded)
  BY <1>2, SlotForms DEF PartSlot
<1> HIDE DEF n
<1>4. cached \in Seq(Int)
  <2>1. Resize(sl.cache_tokens, sl.n_past) \in Seq(Int) /\ new \in Seq(Int)
    BY <1>1, <1>2, ResizeIs
  <2> HIDE DEF new
  <2> QED
    BY <2>1, ConcatProperties
<1>5. past \in Nat /\ i \in Int /\ Len(sl.prompt) \in Nat /\ Len(sl.prompt) < NCtx /\ sl.n_past < Len(sl.prompt)
  <2>1. Len(sl.prompt) < NCtx /\ sl.n_past < Len(sl.prompt)
    BY DEF SlotGood
  <2> QED
    BY <1>1, <1>2, <2>1
<1>6. PartDone(sl, n) <=> past = Len(sl.prompt)
  BY DEF PartDone
<1>7. state \in States /\ batch_i \in Int /\ decoded \in Int
  BY <1>2, <1>5 DEF States
<1> HIDE DEF cached, i, past, r, new
<1>8. r \in SlotRecords
  <2>1. past \in Int
    BY <1>5
  <2> HIDE DEF state, batch_i, decoded
  <2> QED
    BY <1>2, <1>3, <1>4, <1>7, <2>1, SlotOfType, Zenon
<1>9. /\ r.state = state /\ r.task = sl.task /\ r.prompt = sl.prompt /\ r.n_past = past
      /\ r.cache_tokens = cached /\ r.n_decoded = decoded /\ r.i_batch = batch_i
  <2> HIDE DEF state, batch_i, decoded
  <2> QED
    BY <1>3, SlotOfFields
<1>10. past \in 0 .. NCtx - 1
  BY <1>1, <1>5, SizesAre
<1>11. SlotGood(r)
  <2>1. CASE PartDone(sl, n)
    <3>1. r.state = "done" /\ r.n_decoded = 0
      BY <1>9, <2>1
    <3>2. 0 \in 0 .. NPredict
      BY SizesAre
    <3> QED
      BY <1>8, <1>9, <1>10, <3>1, <3>2 DEF SlotGood
  <2>2. CASE ~PartDone(sl, n)
    <3>1. r.state = "prompt" /\ r.n_decoded = sl.n_decoded
      BY <1>9, <2>2
    <3>2. past < Len(sl.prompt)
      BY <1>1, <1>5, <1>6, <2>2
    <3> QED
      BY <1>5, <1>8, <1>9, <1>10, <3>1, <3>2 DEF SlotGood
  <2> QED
    BY <2>1, <2>2
<1>12. past = Len(sl.prompt) => n >= 1
  BY <1>1, <1>5 DEF past
<1> QED
  BY <1>6, <1>9, <1>11, <1>12 DEF r, n, i, past, cached, new

\* The entries that join the batch.
LEMMA PartEntriesAre ==
  ASSUME NEW sl, SlotGood(sl), sl.state = "prompt", sl.prompt # <<>>, NEW tokens, Len(tokens) \in Nat,
         NEW s \in Slots
  PROVE  LET n == PartLen(sl, tokens)
             e == PartEntries(sl, s, 0, n)
         IN  /\ e \in Seq(Entry) /\ Len(e) = n
             /\ \A k \in 1 .. n : /\ e[k].tok = sl.prompt[sl.n_past + k] /\ e[k].pos = sl.n_past + k - 1
                                  /\ e[k].seq = s + 1
<1> DEFINE n == PartLen(sl, tokens)
           e == PartEntries(sl, s, 0, n)
           at(k) == [tok |-> PartNew(sl, n)[k], pos |-> 0 + sl.n_past + k - 1, seq |-> s + 1]
<1>1. /\ n \in Nat /\ sl.n_past \in Nat /\ s \in Int /\ PartNew(sl, n) \in Seq(Int) /\ Len(PartNew(sl, n)) = n
      /\ \A k \in 1 .. n : PartNew(sl, n)[k] = sl.prompt[sl.n_past + k]
  BY PartLenIs, SizesAre DEF Slots
<1>2. e = [k \in 1 .. n |-> at(k)]
  BY DEF PartEntries
<1> HIDE DEF n
<1>3. ASSUME NEW k \in 1 .. n
      PROVE  /\ at(k) \in Entry /\ at(k).tok = sl.prompt[sl.n_past + k] /\ at(k).pos = sl.n_past + k - 1
             /\ at(k).seq = s + 1
  <2>1. PartNew(sl, n)[k] \in Int /\ 0 + sl.n_past + k - 1 \in Int /\ s + 1 \in Int
    BY <1>1
  <2>2. at(k) \in Entry
    BY <2>1 DEF Entry
  <2> QED
    BY <1>1, <2>2, SMTT(30)
<1> HIDE DEF at, e
<1>4. e \in Seq(Entry) /\ Len(e) = n /\ \A k \in 1 .. n : e[k] = at(k)
  <2>1. n \in Nat /\ \A k \in 1 .. n : at(k) \in Entry
    BY <1>1, <1>3
  <2> QED
    BY <1>2, <2>1
<1> QED
  BY <1>3, <1>4 DEF n, e

LEMMA SampleIsGood ==
  ASSUME NEW sl, SlotGood(sl), sl.state \in {"done", "generating"}, NEW tok \in Int, NEW stop
  PROVE  LET r == Sample(sl, tok, stop)
         IN  /\ SlotGood(r) /\ r.state \in {"idle", "generating"} /\ r.i_batch = -1 /\ r.prompt = sl.prompt
             /\ r.task = sl.task /\ r.n_past = sl.n_past /\ r.cache_tokens = sl.cache_tokens
             /\ r.sampled = tok
<1> DEFINE r == Sample(sl, tok, stop)
           state == SampleState(sl, stop)
           decoded == sl.n_decoded + 1
<1>1. /\ sl \in SlotRecords /\ sl.task \in Completions \cup {Nothing} /\ sl.prompt \in Seq(Int) /\ sl.cache_tokens \in Seq(Int)
      /\ sl.state \in States /\ sl.n_past \in Int /\ sl.n_decoded \in Int
  BY SlotFields DEF SlotGood
<1>2. r = SlotOf(state, sl.task, sl.prompt, sl.n_past, sl.cache_tokens, tok, -1, decoded)
  BY <1>1, SampleIs, SlotForms
<1>3. sl.n_decoded \in Nat /\ sl.n_decoded < NPredict /\ NPredict \in Nat \ {0} /\ NCtx \in Nat
  BY SizesAre DEF SlotGood
<1>4. state \in {"idle", "generating"} /\ (state = "generating" => decoded < NPredict)
  <2>1. Min({NPredict, NCtx}) = IF NPredict <= NCtx THEN NPredict ELSE NCtx
    BY <1>3, LeastOfTwo
  <2> QED
    BY <1>3, <2>1 DEF SampleState
<1>5. decoded \in 0 .. NPredict /\ decoded \in Int
  BY <1>3
<1> HIDE DEF state, decoded, r
<1>6. r \in SlotRecords
  <2>1. state \in States /\ -1 \in Int
    BY <1>4 DEF States
  <2> QED
    BY <1>1, <1>2, <1>5, <2>1, SlotOfType, Zenon
<1>7. /\ r.state = state /\ r.task = sl.task /\ r.prompt = sl.prompt /\ r.n_past = sl.n_past
      /\ r.cache_tokens = sl.cache_tokens /\ r.n_decoded = decoded /\ r.i_batch = -1 /\ r.sampled = tok
  BY <1>2, SlotOfFields
<1>8. SlotGood(r)
  BY <1>4, <1>5, <1>6, <1>7 DEF SlotGood
<1> QED
  BY <1>4, <1>7, <1>8 DEF r

-----------------------------------------------------------------------------
(* The turns of the slots                                                  *)

TurnOp(kind, w, s, sys) ==
  IF kind = "shift" THEN Shift(w, s, sys)
  ELSE IF kind = "sampled" THEN AddSampled(w, s, sys)
  ELSE AddPrompt(w, s, sys)

TurnStep(kind, w, sys, f, k) == IF k = 0 THEN w ELSE TurnOp(kind, f[k - 1], k - 1, sys)

LEMMA TurnsExist ==
  ASSUME NEW kind, NEW w, NEW sys
  PROVE  \E f : f = [k \in 0 .. NSlots |-> TurnStep(kind, w, sys, f, k)]
<1> DEFINE S == 0 .. NSlots
           Upto(k, f) == \A n \in S : n < k => f[n] = TurnStep(kind, w, sys, f, n)
           T == {k \in Nat : \E f : Upto(k, f)}
<1>n. NSlots \in Nat
  BY SizesAre
<1>0. ASSUME NEW n \in S, NEW f, NEW g, n # 0 => f[n - 1] = g[n - 1]
      PROVE  TurnStep(kind, w, sys, f, n) = TurnStep(kind, w, sys, g, n)
  <2>1. CASE n = 0
    BY <2>1, Zenon DEF TurnStep
  <2>2. CASE n # 0
    <3>1. f[n - 1] = g[n - 1]
      BY <1>0, <2>2
    <3> QED
      BY <2>2, <3>1, Zenon DEF TurnStep
  <2> QED
    BY <2>1, <2>2
<1>1. 0 \in T
  <2>1. ~(\E n \in S : n < 0)
    OBVIOUS
  <2> QED
    BY <2>1
<1>2. ASSUME NEW k \in Nat, k \in T
      PROVE  k + 1 \in T
  <2>1. PICK f : Upto(k, f)
    BY <1>2
  <2> DEFINE g == [n \in S |-> TurnStep(kind, w, sys, f, n)]
  <2>2. ASSUME NEW n \in S, n < k + 1
        PROVE  g[n] = TurnStep(kind, w, sys, g, n)
    <3>1. n # 0 => f[n - 1] = g[n - 1]
      <4> SUFFICES ASSUME n # 0 PROVE f[n - 1] = g[n - 1]
        OBVIOUS
      <4>1. n - 1 \in S /\ n - 1 < k
        BY <1>n, <2>2
      <4> QED
        BY <2>1, <4>1
    <3> HIDE DEF g
    <3>2. TurnStep(kind, w, sys, f, n) = TurnStep(kind, w, sys, g, n)
      BY <1>0, <3>1
    <3> QED
      BY <3>2 DEF g
  <2>3. Upto(k + 1, g)
    BY <2>2
  <2> HIDE DEF g, Upto
  <2> QED
    BY <2>3
<1> HIDE DEF T
<1>3. NSlots + 1 \in T
  <2>1. \A k \in Nat : k \in T
    BY <1>1, <1>2, NatSetInduction
  <2> QED
    BY <1>n, <2>1
<1>4. PICK f : Upto(NSlots + 1, f)
  BY <1>3 DEF T
<1> DEFINE g == [n \in S |-> TurnStep(kind, w, sys, f, n)]
<1>5. \A n \in S : f[n] = g[n]
  BY <1>n, <1>4
<1>6. ASSUME NEW n \in S
      PROVE  g[n] = TurnStep(kind, w, sys, g, n)
  <2> HIDE DEF g
  <2>1. n # 0 => n - 1 \in S
    BY <1>n
  <2>2. n # 0 => f[n - 1] = g[n - 1]
    BY <1>5, <2>1
  <2>3. TurnStep(kind, w, sys, f, n) = TurnStep(kind, w, sys, g, n)
    BY <1>0, <2>2
  <2> QED
    BY <2>3 DEF g
<1>7. g = [n \in S |-> TurnStep(kind, w, sys, g, n)]
  <2>1. [n \in S |-> g[n]] = [n \in S |-> TurnStep(kind, w, sys, g, n)]
    BY <1>6
  <2> QED
    BY <2>1
<1> HIDE DEF g
<1> QED
  BY <1>7

\* Slot by slot, from the world before the turns to the one after.
IsTurns(kind, w, sys, f) ==
  /\ f[0] = w
  /\ \A s \in Slots : s \in 0 .. NSlots /\ s + 1 \in 0 .. NSlots /\ f[s + 1] = TurnOp(kind, f[s], s, sys)

LEMMA TurnsAre ==
  ASSUME NEW kind, NEW w, NEW sys, NEW f, f = [k \in 0 .. NSlots |-> TurnStep(kind, w, sys, f, k)]
  PROVE  IsTurns(kind, w, sys, f)
<1>1. NSlots \in Nat
  BY SizesAre
<1>2. \A k \in 0 .. NSlots : f[k] = TurnStep(kind, w, sys, f, k)
  OBVIOUS
<1>3. f[0] = w
  BY <1>1, <1>2 DEF TurnStep
<1>4. ASSUME NEW s \in Slots
      PROVE  s \in 0 .. NSlots /\ s + 1 \in 0 .. NSlots /\ f[s + 1] = TurnOp(kind, f[s], s, sys)
  <2>1. s \in 0 .. NSlots /\ s + 1 \in 0 .. NSlots /\ s + 1 # 0 /\ s + 1 - 1 = s
    BY <1>1 DEF Slots
  <2> QED
    BY <1>2, <2>1 DEF TurnStep
<1> QED
  BY <1>3, <1>4 DEF IsTurns

LEMMA InTurnIs ==
  ASSUME NEW w, NEW sys
  PROVE  /\ \E f : IsTurns("shift", w, sys, f) /\ f[NSlots] = InTurn(Shift, w, sys)
         /\ \E f : IsTurns("sampled", w, sys, f) /\ f[NSlots] = InTurn(AddSampled, w, sys)
         /\ \E f : IsTurns("prompt", w, sys, f) /\ f[NSlots] = InTurn(AddPrompt, w, sys)
<1>1. \E f : IsTurns("shift", w, sys, f) /\ f[NSlots] = InTurn(Shift, w, sys)
  <2> DEFINE Is(f) == f = [k \in 0 .. NSlots |-> IF k = 0 THEN w ELSE Shift(f[k - 1], k - 1, sys)]
             g == CHOOSE f : Is(f)
  <2>1. InTurn(Shift, w, sys) = g[NSlots]
    BY Zenon DEF InTurn
  <2>2. \A f, k : TurnStep("shift", w, sys, f, k) = IF k = 0 THEN w ELSE Shift(f[k - 1], k - 1, sys)
    BY DEF TurnStep, TurnOp
  <2>3. \A f : [k \in 0 .. NSlots |-> TurnStep("shift", w, sys, f, k)]
                 = [k \in 0 .. NSlots |-> IF k = 0 THEN w ELSE Shift(f[k - 1], k - 1, sys)]
    BY <2>2
  <2>4. \E f : Is(f)
    <3>1. PICK f : f = [k \in 0 .. NSlots |-> TurnStep("shift", w, sys, f, k)]
      BY TurnsExist
    <3>2. Is(f)
      BY <2>3, <3>1
    <3> QED
      BY <3>2
  <2>5. Is(g)
    BY <2>4, Zenon
  <2> HIDE DEF g
  <2>6. g = [k \in 0 .. NSlots |-> TurnStep("shift", w, sys, g, k)]
    BY <2>3, <2>5
  <2> QED
    BY <2>1, <2>6, TurnsAre
<1>2. \E f : IsTurns("sampled", w, sys, f) /\ f[NSlots] = InTurn(AddSampled, w, sys)
  <2> DEFINE Is(f) == f = [k \in 0 .. NSlots |-> IF k = 0 THEN w ELSE AddSampled(f[k - 1], k - 1, sys)]
             g == CHOOSE f : Is(f)
  <2>1. InTurn(AddSampled, w, sys) = g[NSlots]
    BY Zenon DEF InTurn
  <2>2. \A f, k : TurnStep("sampled", w, sys, f, k) = IF k = 0 THEN w ELSE AddSampled(f[k - 1], k - 1, sys)
    BY DEF TurnStep, TurnOp
  <2>3. \A f : [k \in 0 .. NSlots |-> TurnStep("sampled", w, sys, f, k)]
                 = [k \in 0 .. NSlots |-> IF k = 0 THEN w ELSE AddSampled(f[k - 1], k - 1, sys)]
    BY <2>2
  <2>4. \E f : Is(f)
    <3>1. PICK f : f = [k \in 0 .. NSlots |-> TurnStep("sampled", w, sys, f, k)]
      BY TurnsExist
    <3>2. Is(f)
      BY <2>3, <3>1
    <3> QED
      BY <3>2
  <2>5. Is(g)
    BY <2>4, Zenon
  <2> HIDE DEF g
  <2>6. g = [k \in 0 .. NSlots |-> TurnStep("sampled", w, sys, g, k)]
    BY <2>3, <2>5
  <2> QED
    BY <2>1, <2>6, TurnsAre
<1>3. \E f : IsTurns("prompt", w, sys, f) /\ f[NSlots] = InTurn(AddPrompt, w, sys)
  <2> DEFINE Is(f) == f = [k \in 0 .. NSlots |-> IF k = 0 THEN w ELSE AddPrompt(f[k - 1], k - 1, sys)]
             g == CHOOSE f : Is(f)
  <2>1. InTurn(AddPrompt, w, sys) = g[NSlots]
    BY Zenon DEF InTurn
  <2>2. \A f, k : TurnStep("prompt", w, sys, f, k) = IF k = 0 THEN w ELSE AddPrompt(f[k - 1], k - 1, sys)
    BY DEF TurnStep, TurnOp
  <2>3. \A f : [k \in 0 .. NSlots |-> TurnStep("prompt", w, sys, f, k)]
                 = [k \in 0 .. NSlots |-> IF k = 0 THEN w ELSE AddPrompt(f[k - 1], k - 1, sys)]
    BY <2>2
  <2>4. \E f : Is(f)
    <3>1. PICK f : f = [k \in 0 .. NSlots |-> TurnStep("prompt", w, sys, f, k)]
      BY TurnsExist
    <3>2. Is(f)
      BY <2>3, <3>1
    <3> QED
      BY <3>2
  <2>5. Is(g)
    BY <2>4, Zenon
  <2> HIDE DEF g
  <2>6. g = [k \in 0 .. NSlots |-> TurnStep("prompt", w, sys, g, k)]
    BY <2>3, <2>5
  <2> QED
    BY <2>1, <2>6, TurnsAre
<1> QED
  BY <1>1, <1>2, <1>3

-----------------------------------------------------------------------------
(* What a world is, turn by turn                                           *)

GoodWorld(w) ==
  /\ IsWorld(w) /\ w.slot \in [Slots -> SlotRecords] /\ w.batch \in Seq(Entry)
  /\ \A s \in Slots : SlotGood(w.slot[s])

\* The logits a slot waits for are those of one of n entries.
Indexed(sl, n) ==
  sl.state \in {"done", "generating"} => sl.i_batch \in -1 .. n - 1 /\ (sl.state = "done" => sl.i_batch >= 0)

\* There is room for one more token.
Roomy(sl) == SmallDiscards /\ sl.state = "generating" => sl.n_past <= NCtx - 2

LEMMA GoodUpdate ==
  ASSUME NEW w, GoodWorld(w), NEW s \in Slots, NEW sl, SlotGood(sl), NEW kvs, NEW wkvs,
         NEW tokens \in Seq(Entry)
  PROVE  LET v == WorldOf([w.slot EXCEPT ![s] = sl], kvs, wkvs, tokens)
         IN  /\ GoodWorld(v) /\ v.slot[s] = sl /\ \A t \in Slots : t # s => v.slot[t] = w.slot[t]
             /\ v.kv = kvs /\ v.wkv = wkvs /\ v.batch = tokens
<1> DEFINE slots == [w.slot EXCEPT ![s] = sl]
           v == WorldOf(slots, kvs, wkvs, tokens)
<1>1. /\ slots \in [Slots -> SlotRecords] /\ slots[s] = sl
      /\ \A t \in Slots : t # s => slots[t] = w.slot[t]
  BY DEF GoodWorld, SlotGood
<1> HIDE DEF slots
<1>2. v.slot = slots /\ v.kv = kvs /\ v.wkv = wkvs /\ v.batch = tokens /\ IsWorld(v)
  BY WorldOfFields
<1> HIDE DEF v
<1>3. \A t \in Slots : SlotGood(v.slot[t])
  BY <1>1, <1>2 DEF GoodWorld
<1>4. GoodWorld(v)
  BY <1>1, <1>2, <1>3 DEF GoodWorld
<1> QED
  BY <1>1, <1>2, <1>4 DEF v, slots

\* The first k slots have had their turns to shift.
Shifted(w, k) ==
  /\ GoodWorld(w) /\ w.batch = <<>>
  /\ \A s \in Slots : Indexed(w.slot[s], 0) /\ (s < k => Roomy(w.slot[s]))

LEMMA ShiftStep ==
  ASSUME NEW s \in Slots, NEW w, Shifted(w, s)
  PROVE  Shifted(Shift(w, s, 0), s + 1) /\ (Twins(w) => Twins(Shift(w, s, 0)))
<1> DEFINE sl == w.slot[s]
           v == Shift(w, s, 0)
<1>1. /\ IsWorld(w) /\ w.slot \in [Slots -> SlotRecords] /\ GoodWorld(w) /\ SlotGood(sl) /\ w.batch = <<>>
      /\ w.batch \in Seq(Entry) /\ Indexed(sl, 0)
      /\ s \in Nat /\ \A t \in Slots : t \in Nat /\ (t < s + 1 => t = s \/ t < s)
  BY SizesAre DEF Shifted, GoodWorld, Slots
<1>2. v = IF ~ShiftDue(sl) THEN w
          ELSE IF ~ctx_shift
            THEN WorldOf([w.slot EXCEPT ![s] = WithState(sl, "idle")], w.kv, w.wkv, w.batch)
          ELSE WorldOf([w.slot EXCEPT ![s] = ShiftSlot(sl, 0)],
                       ShiftCache(w.kv, s + 1, sl, 0), ShiftCache(w.wkv, s, sl, 0), w.batch)
  <2>1. sl.state = "idle" \/ ShiftEnd(sl, 0) < NCtx - 1 <=> ~ShiftDue(sl)
    BY DEF ShiftDue
  <2> HIDE DEF v
  <2> QED
    BY <1>1, <2>1, ShiftIs DEF v
<1> HIDE DEF v, sl
<1>3. ASSUME NEW r, SlotGood(r), Indexed(r, 0), Roomy(r), v.slot[s] = r, v.batch = <<>>, GoodWorld(v),
             \A t \in Slots : t # s => v.slot[t] = w.slot[t]
      PROVE  Shifted(v, s + 1)
  BY <1>1, <1>3 DEF Shifted
<1>4. CASE ~ShiftDue(sl)
  <2>1. v = w
    BY <1>2, <1>4
  <2>2. Roomy(sl)
    <3>1. SmallDiscards /\ sl.state = "generating" => sl.n_past \in 0 .. NCtx - 1 /\ 0 + sl.n_past < NCtx - 1
      BY <1>1, <1>4 DEF ShiftDue, ShiftEnd, SlotGood
    <3> QED
      BY <3>1, SizesAre DEF Roomy
  <2> QED
    BY <1>1, <1>3, <2>1, <2>2 DEF v, sl
<1>5. CASE ShiftDue(sl) /\ ~ctx_shift
  <2> DEFINE r == WithState(sl, "idle")
  <2>1. SlotGood(r) /\ r.state = "idle"
    BY <1>1, ReleaseIsGood
  <2> HIDE DEF r
  <2>2. v = WorldOf([w.slot EXCEPT ![s] = r], w.kv, w.wkv, w.batch)
    BY <1>2, <1>5 DEF r
  <2>3. /\ GoodWorld(v) /\ v.slot[s] = r /\ \A t \in Slots : t # s => v.slot[t] = w.slot[t]
        /\ v.kv = w.kv /\ v.wkv = w.wkv /\ v.batch = w.batch
    <3> DEFINE tokens == w.batch
    <3>1. GoodWorld(w) /\ tokens \in Seq(Entry) /\ SlotGood(r)
      BY <1>1, <2>1
    <3> HIDE DEF tokens
    <3>2. v = WorldOf([w.slot EXCEPT ![s] = r], w.kv, w.wkv, tokens)
      BY <2>2 DEF tokens
    <3>3. /\ GoodWorld(v) /\ v.slot[s] = r /\ \A t \in Slots : t # s => v.slot[t] = w.slot[t]
          /\ v.kv = w.kv /\ v.wkv = w.wkv /\ v.batch = tokens
      BY <3>1, <3>2, GoodUpdate
    <3> QED
      BY <3>3 DEF tokens
  <2>4. Indexed(r, 0) /\ Roomy(r)
    BY <2>1 DEF Indexed, Roomy
  <2> QED
    BY <1>1, <1>3, <2>1, <2>3, <2>4 DEF Twins, v
<1>6. CASE ShiftDue(sl) /\ ctx_shift
  <2> DEFINE r == ShiftSlot(sl, 0)
             a == ShiftKeep(sl)
             by == ShiftBy(sl, 0)
  <2>1. SlotGood(r) /\ r.state = sl.state /\ r.i_batch = sl.i_batch /\ (SmallDiscards => r.n_past <= NCtx - 2)
    BY <1>1, <1>6, ShiftIsGood
  <2> HIDE DEF r
  <2>2. v = WorldOf([w.slot EXCEPT ![s] = r], ShiftCache(w.kv, s + 1, sl, 0), ShiftCache(w.wkv, s, sl, 0), w.batch)
    BY <1>2, <1>6 DEF r
  <2>3. /\ GoodWorld(v) /\ v.slot[s] = r /\ \A t \in Slots : t # s => v.slot[t] = w.slot[t]
        /\ v.kv = ShiftCache(w.kv, s + 1, sl, 0) /\ v.wkv = ShiftCache(w.wkv, s, sl, 0) /\ v.batch = w.batch
    <3> DEFINE tokens == w.batch
    <3>1. GoodWorld(w) /\ tokens \in Seq(Entry) /\ SlotGood(r)
      BY <1>1, <2>1
    <3> HIDE DEF tokens
    <3>2. v = WorldOf([w.slot EXCEPT ![s] = r], ShiftCache(w.kv, s + 1, sl, 0), ShiftCache(w.wkv, s, sl, 0), tokens)
      BY <2>2 DEF tokens
    <3>3. /\ GoodWorld(v) /\ v.slot[s] = r /\ \A t \in Slots : t # s => v.slot[t] = w.slot[t]
          /\ v.kv = ShiftCache(w.kv, s + 1, sl, 0) /\ v.wkv = ShiftCache(w.wkv, s, sl, 0) /\ v.batch = tokens
      BY <3>1, <3>2, GoodUpdate
    <3> QED
      BY <3>3 DEF tokens
  <2>4. Indexed(r, 0) /\ Roomy(r)
    BY <1>1, <2>1 DEF Indexed, Roomy
  <2>5. ASSUME Twins(w)
        PROVE  Twins(v)
    <3>1. -by \in Int
      BY <1>1, <1>6, ShiftByIs
    <3> HIDE DEF a, by
    <3> DEFINE c == SeqRm(w.kv, s + 1, a, a + by)
    <3>2. Plain(c) /\ SeqRm(w.wkv, s, a, a + by) = Lowered(c)
      BY <1>1, <2>5, LoweredRm DEF Twins
    <3>3. v.kv = SeqAdd(c, s + 1, a + by, ShiftEnd(sl, 0), -by)
          /\ v.wkv = SeqAdd(SeqRm(w.wkv, s, a, a + by), s, a + by, ShiftEnd(sl, 0), -by)
      BY <2>3, Zenon DEF ShiftCache, a, by
    <3> HIDE DEF c
    <3> DEFINE d == -by
    <3> HIDE DEF d
    <3>4. d \in Int
      BY <3>1 DEF d
    <3>5. v.kv = SeqAdd(c, s + 1, a + by, ShiftEnd(sl, 0), d)
          /\ v.wkv = SeqAdd(Lowered(c), s, a + by, ShiftEnd(sl, 0), d)
      BY <3>2, <3>3, Zenon DEF d
    <3> QED
      BY <1>1, <3>2, <3>4, <3>5, LoweredAdd DEF Twins
  <2> QED
    BY <1>1, <1>3, <2>1, <2>3, <2>4, <2>5 DEF v
<1> QED
  BY <1>4, <1>5, <1>6

\* The first k slots have added their sampled tokens.
Continued(w, k) ==
  /\ GoodWorld(w)
  /\ \A s \in Slots : Indexed(w.slot[s], Len(w.batch)) /\ (s >= k => Roomy(w.slot[s]))

LEMMA MoreIndexed ==
  ASSUME NEW sl, NEW n \in Nat, NEW m \in Nat, n <= m, Indexed(sl, n)
  PROVE  Indexed(sl, m)
<1>1. \A i : i \in -1 .. n - 1 => i \in -1 .. m - 1
  OBVIOUS
<1> QED
  BY <1>1 DEF Indexed

LEMMA SampledStep ==
  ASSUME NEW s \in Slots, NEW w, Continued(w, s)
  PROVE  Continued(AddSampled(w, s, 0), s + 1) /\ (Twins(w) => Twins(AddSampled(w, s, 0)))
<1> DEFINE sl == w.slot[s]
           v == AddSampled(w, s, 0)
           n == Len(w.batch)
           e == SampledEntry(sl, s, 0)
           r == SampledSlot(sl, n)
           tokens == Append(w.batch, e)
<1>1. /\ IsWorld(w) /\ w.slot \in [Slots -> SlotRecords] /\ GoodWorld(w) /\ SlotGood(sl)
      /\ w.batch \in Seq(Entry) /\ Indexed(sl, n) /\ Roomy(sl) /\ n \in Nat
      /\ s \in Nat /\ \A t \in Slots : t \in Nat /\ (t >= s + 1 => t # s /\ t >= s)
  BY SizesAre DEF Continued, GoodWorld, Slots
<1>2. v = IF sl.state # "generating" THEN w ELSE WorldOf([w.slot EXCEPT ![s] = r], w.kv, w.wkv, tokens)
  BY <1>1, AddSampledIs
<1>3. CASE sl.state # "generating"
  <2>1. v = w
    BY <1>2, <1>3
  <2> QED
    BY <1>1, <2>1 DEF Continued
<1>4. CASE sl.state = "generating"
  <2>1. SlotGood(r) /\ r.state = "generating" /\ r.i_batch = n
    <3>1. SmallDiscards => sl.n_past <= NCtx - 2
      BY <1>1, <1>4 DEF Roomy
    <3>2. SlotGood(sl) /\ sl.state = "generating" /\ n \in Int
      BY <1>1, <1>4
    <3> HIDE DEF sl, n
    <3> QED
      BY <3>1, <3>2, SampledIsGood
  <2>2. e \in Entry
    <3>1. sl.sampled \in Int /\ sl.n_past \in Int
      BY <1>1, SlotFields DEF SlotGood
    <3>2. 0 + sl.n_past \in Int /\ s + 1 \in Int
      BY <1>1, <3>1
    <3> QED
      BY <3>1, <3>2 DEF SampledEntry, Entry
  <2> HIDE DEF r, e, sl, v
  <2>3. tokens \in Seq(Entry) /\ Len(tokens) = n + 1
    BY <1>1, <2>2
  <2> HIDE DEF tokens
  <2>4. v = WorldOf([w.slot EXCEPT ![s] = r], w.kv, w.wkv, tokens)
    BY <1>2, <1>4
  <2>5. /\ GoodWorld(v) /\ v.slot[s] = r /\ \A t \in Slots : t # s => v.slot[t] = w.slot[t]
        /\ v.kv = w.kv /\ v.wkv = w.wkv /\ v.batch = tokens
    BY <1>1, <2>1, <2>3, <2>4, GoodUpdate
  <2>6. Indexed(r, n + 1)
    BY <1>1, <2>1 DEF Indexed
  <2>7. \A t \in Slots : Indexed(w.slot[t], n)
    BY DEF Continued, n
  <2> HIDE DEF n
  <2>8. ASSUME NEW t \in Slots
        PROVE  Indexed(v.slot[t], Len(v.batch)) /\ (t >= s + 1 => Roomy(v.slot[t]))
    <3>1. CASE t = s
      BY <1>1, <2>3, <2>5, <2>6, <3>1
    <3>2. CASE t # s
      <4>1. Indexed(v.slot[t], n + 1)
        BY <1>1, <2>5, <2>7, <3>2, MoreIndexed
      <4>2. t >= s + 1 => Roomy(v.slot[t])
        BY <1>1, <2>5, <3>2 DEF Continued
      <4> QED
        BY <2>3, <2>5, <4>1, <4>2
    <3> QED
      BY <3>1, <3>2
  <2>9. Continued(v, s + 1)
    BY <2>5, <2>8 DEF Continued
  <2> QED
    BY <2>5, <2>9 DEF Twins, v
<1> QED
  BY <1>3, <1>4

\* The slots may add their prompts.
Ongoing(w) == GoodWorld(w) /\ \A s \in Slots : Indexed(w.slot[s], Len(w.batch))

LEMMA ToComputeIsGood ==
  ASSUME NEW sl, SlotGood(sl), sl.state = "prompt"
  PROVE  LET r == ToCompute(sl, 0)
         IN  /\ SlotGood(r) /\ r.state \in {"idle", "prompt"} /\ r.i_batch = sl.i_batch
             /\ r.state = "prompt" => r.prompt # <<>>
<1>1. CASE sl.prompt = <<>>
  BY <1>1, TokenizedIsGood DEF ToCompute
<1>2. CASE sl.prompt # <<>>
  BY <1>2 DEF ToCompute
<1> QED
  BY <1>1, <1>2

LEMMA PromptStep ==
  ASSUME NEW s \in Slots, NEW w, Ongoing(w)
  PROVE  Ongoing(AddPrompt(w, s, 0)) /\ (Twins(w) => Twins(AddPrompt(w, s, 0)))
<1> DEFINE sl == ToCompute(w.slot[s], 0)
           n == PartLen(sl, w.batch)
           m == Len(w.batch)
           p0 == 0 + sl.n_past
           r == PartSlot(sl, n, m + n - 1)
           e == PartEntries(sl, s, 0, n)
           tokens == w.batch \o e
           v == AddPrompt(w, s, 0)
<1>1. /\ IsWorld(w) /\ w.slot \in [Slots -> SlotRecords] /\ GoodWorld(w) /\ SlotGood(w.slot[s])
      /\ w.batch \in Seq(Entry) /\ m \in Nat /\ s \in Nat
  BY SizesAre DEF Ongoing, GoodWorld, Slots
<1>2. CASE w.slot[s].state # "prompt" \/ (s > 0 /\ Len(w.batch) >= NBatch)
  <2>1. v = w
    BY <1>2, Zenon DEF AddPrompt
  <2> QED
    BY <2>1
<1>3. CASE ~(w.slot[s].state # "prompt" \/ (s > 0 /\ Len(w.batch) >= NBatch))
  <2>1. /\ SlotGood(sl) /\ sl.state \in {"idle", "prompt"} /\ sl.i_batch = w.slot[s].i_batch
        /\ sl.state = "prompt" => sl.prompt # <<>>
    BY <1>1, <1>3, ToComputeIsGood
  <2>2. sl \in SlotRecords
    BY <2>1 DEF SlotGood
  <2> HIDE DEF sl, v
  <2>3. v = IF sl.state = "idle" THEN WorldOf([w.slot EXCEPT ![s] = sl], w.kv, w.wkv, w.batch)
            ELSE WorldOf([w.slot EXCEPT ![s] = r], SeqRm(w.kv, s + 1, p0, -1), SeqRm(w.wkv, s, p0, -1), tokens)
    <3> HIDE DEF n
    <3> QED
      BY <1>1, <1>3, <2>2, AddPromptIs, Zenon DEF sl, v, n
  <2>4. CASE sl.state = "idle"
    <3>1. v = WorldOf([w.slot EXCEPT ![s] = sl], w.kv, w.wkv, w.batch)
      BY <2>3, <2>4
    <3>2. /\ GoodWorld(v) /\ v.slot[s] = sl /\ \A t \in Slots : t # s => v.slot[t] = w.slot[t]
          /\ v.kv = w.kv /\ v.wkv = w.wkv /\ v.batch = w.batch
      BY <1>1, <2>1, <3>1, GoodUpdate
    <3>3. \A t \in Slots : Indexed(v.slot[t], Len(v.batch))
      BY <2>4, <3>2 DEF Ongoing, Indexed
    <3> QED
      BY <3>2, <3>3 DEF Ongoing, Twins, v
  <2>5. CASE sl.state = "prompt"
    <3>1. n \in Nat
      BY <1>1, <2>1, <2>5, PartLenIs
    <3>2. e \in Seq(Entry) /\ Len(e) = n
      BY <1>1, <2>1, <2>5, PartEntriesAre
    <3>3. /\ SlotGood(r)
          /\ \/ r.state = "done" /\ r.i_batch = m + n - 1 /\ n >= 1
             \/ r.state = "prompt"
      BY <1>1, <2>1, <2>5, PartIsGood
    <3> HIDE DEF n, r, e
    <3>4. tokens \in Seq(Entry) /\ Len(tokens) = m + n
      BY <1>1, <3>2, ConcatProperties
    <3> HIDE DEF tokens
    <3>5. v = WorldOf([w.slot EXCEPT ![s] = r], SeqRm(w.kv, s + 1, p0, -1), SeqRm(w.wkv, s, p0, -1), tokens)
      BY <2>3, <2>5
    <3> HIDE DEF p0
    <3>6. /\ GoodWorld(v) /\ v.slot[s] = r /\ \A t \in Slots : t # s => v.slot[t] = w.slot[t]
          /\ v.kv = SeqRm(w.kv, s + 1, p0, -1) /\ v.wkv = SeqRm(w.wkv, s, p0, -1) /\ v.batch = tokens
      BY <1>1, <3>3, <3>4, <3>5, GoodUpdate
    <3>7. Indexed(r, m + n)
      BY <1>1, <3>1, <3>3 DEF Indexed
    <3>8. \A t \in Slots : Indexed(w.slot[t], m)
      BY DEF Ongoing, m
    <3> HIDE DEF m
    <3>9. ASSUME NEW t \in Slots
          PROVE  Indexed(v.slot[t], Len(v.batch))
      <4>1. CASE t = s
        BY <3>4, <3>6, <3>7, <4>1
      <4>2. CASE t # s
        <5>1. Indexed(v.slot[t], m + n)
          BY <1>1, <3>1, <3>6, <3>8, <4>2, MoreIndexed
        <5> QED
          BY <3>4, <3>6, <5>1
      <4> QED
        BY <4>1, <4>2
    <3>10. Ongoing(v)
      BY <3>6, <3>9 DEF Ongoing
    <3>11. Twins(w) => Twins(v)
      BY <1>1, <3>6, LoweredRm DEF Twins
    <3> QED
      BY <3>10, <3>11 DEF v
  <2> QED
    BY <2>1, <2>4, <2>5
<1> QED
  BY <1>2, <1>3

\* A property of the turns, kept by every one of them.
LEMMA TurnsKeep ==
  ASSUME NEW T, 0 \in T, \A s \in Slots : s \in T => s + 1 \in T
  PROVE  NSlots \in T
<1> DEFINE U == {k \in Nat : k <= NSlots => k \in T}
<1>1. NSlots \in Nat
  BY SizesAre
<1>2. 0 \in U
  OBVIOUS
<1>3. ASSUME NEW k \in Nat, k \in U
      PROVE  k + 1 \in U
  <2>1. k + 1 <= NSlots => k \in Slots /\ k <= NSlots
    BY <1>1 DEF Slots
  <2> QED
    BY <1>3, <2>1
<1> HIDE DEF U
<1>4. NSlots \in U
  BY <1>1, <1>2, <1>3, NatSetInduction
<1> QED
  BY <1>1, <1>4 DEF U

LEMMA ShiftPhase ==
  ASSUME NEW w, Shifted(w, 0)
  PROVE  LET v == InTurn(Shift, w, 0) IN Shifted(v, NSlots) /\ (Twins(w) => Twins(v))
<1>1. PICK f : IsTurns("shift", w, 0, f) /\ f[NSlots] = InTurn(Shift, w, 0)
  BY InTurnIs
<1> DEFINE T == {k \in Nat : Shifted(f[k], k) /\ (Twins(w) => Twins(f[k]))}
<1>2. 0 \in T
  BY <1>1 DEF IsTurns
<1>3. ASSUME NEW s \in Slots, s \in T
      PROVE  s + 1 \in T
  <2>1. f[s + 1] = Shift(f[s], s, 0)
    BY <1>1 DEF IsTurns, TurnOp
  <2>2. s + 1 \in Nat
    BY <1>3
  <2> QED
    BY <1>3, <2>1, <2>2, ShiftStep
<1> HIDE DEF T
<1>4. NSlots \in T
  BY <1>2, <1>3, TurnsKeep
<1> QED
  BY <1>1, <1>4 DEF T

LEMMA SampledPhase ==
  ASSUME NEW w, Continued(w, 0)
  PROVE  LET v == InTurn(AddSampled, w, 0) IN Ongoing(v) /\ (Twins(w) => Twins(v))
<1>1. PICK f : IsTurns("sampled", w, 0, f) /\ f[NSlots] = InTurn(AddSampled, w, 0)
  BY InTurnIs
<1> DEFINE T == {k \in Nat : Continued(f[k], k) /\ (Twins(w) => Twins(f[k]))}
<1>2. 0 \in T
  BY <1>1 DEF IsTurns
<1>3. ASSUME NEW s \in Slots, s \in T
      PROVE  s + 1 \in T
  <2>1. f[s + 1] = AddSampled(f[s], s, 0)
    BY <1>1 DEF IsTurns, TurnOp
  <2>2. s + 1 \in Nat
    BY <1>3
  <2> QED
    BY <1>3, <2>1, <2>2, SampledStep
<1> HIDE DEF T
<1>4. NSlots \in T
  BY <1>2, <1>3, TurnsKeep
<1> QED
  BY <1>1, <1>4 DEF T, Continued, Ongoing

LEMMA PromptPhase ==
  ASSUME NEW w, Ongoing(w)
  PROVE  LET v == InTurn(AddPrompt, w, 0) IN Ongoing(v) /\ (Twins(w) => Twins(v))
<1>1. PICK f : IsTurns("prompt", w, 0, f) /\ f[NSlots] = InTurn(AddPrompt, w, 0)
  BY InTurnIs
<1> DEFINE T == {k \in Nat : Ongoing(f[k]) /\ (Twins(w) => Twins(f[k]))}
<1>2. 0 \in T
  BY <1>1 DEF IsTurns
<1>3. ASSUME NEW s \in Slots, s \in T
      PROVE  s + 1 \in T
  <2>1. f[s + 1] = AddPrompt(f[s], s, 0)
    BY <1>1 DEF IsTurns, TurnOp
  <2>2. s + 1 \in Nat
    BY <1>3
  <2> QED
    BY <1>3, <2>1, <2>2, PromptStep
<1> HIDE DEF T
<1>4. NSlots \in T
  BY <1>2, <1>3, TurnsKeep
<1> QED
  BY <1>1, <1>4 DEF T

\* The three passes over the slots.
Built(w) == InTurn(AddPrompt, InTurn(AddSampled, InTurn(Shift, w, 0), 0), 0)

LEMMA BuiltIsGood ==
  ASSUME NEW w, Shifted(w, 0)
  PROVE  Ongoing(Built(w)) /\ (Twins(w) => Twins(Built(w)))
<1> DEFINE u == InTurn(Shift, w, 0)
           v == InTurn(AddSampled, u, 0)
<1>1. Shifted(u, NSlots) /\ (Twins(w) => Twins(u))
  BY ShiftPhase
<1> HIDE DEF u
<1>2. Continued(u, 0)
  <2>1. u.batch = <<>> /\ Len(u.batch) = 0 /\ GoodWorld(u)
    BY <1>1 DEF Shifted
  <2>2. \A s \in Slots : s < NSlots
    BY SizesAre DEF Slots
  <2> QED
    BY <1>1, <2>1, <2>2 DEF Shifted, Continued
<1>3. Ongoing(v) /\ (Twins(u) => Twins(v))
  BY <1>2, SampledPhase
<1> HIDE DEF v
<1>4. Ongoing(InTurn(AddPrompt, v, 0)) /\ (Twins(v) => Twins(InTurn(AddPrompt, v, 0)))
  BY <1>3, PromptPhase
<1>5. Built(w) = InTurn(AddPrompt, v, 0)
  BY Zenon DEF Built, v, u
<1> QED
  BY <1>1, <1>3, <1>4, <1>5

-----------------------------------------------------------------------------
(* The invariant of a server without system prompts                        *)

NoSystem == [prompt |-> <<>>, tokens |-> <<>>, need_update |-> FALSE]

SlotsGood == slot \in [Slots -> SlotRecords] /\ \A s \in Slots : SlotGood(slot[s])

\* A slot waits for no logits of an entry before i.
WaitsFrom(sl, i) == sl.state \in {"done", "generating"} => sl.i_batch = -1 \/ sl.i_batch >= i

Between == view = NoView => batch = <<>> /\ \A s \in Slots : Indexed(slot[s], 0)

During ==
  view # NoView =>
    /\ view.i \in Nat /\ view.n_batch \in 1 .. NBatch /\ view.i < Len(batch)
    /\ view = [i |-> view.i, n_batch |-> view.n_batch]
    /\ \A s \in Slots : Indexed(slot[s], Len(batch)) /\ WaitsFrom(slot[s], view.i)

Saved == file = Nothing \/ file.tokens \in Seq(Int)

Agree == ~master_only => Plain(kv) /\ wkv = Lowered(kv)

Inv == /\ system = NoSystem /\ SlotsGood /\ batch \in Seq(Entry)
       /\ Between /\ During /\ Saved /\ master_only \in BOOLEAN /\ Agree

LEMMA EmptyIsPlain ==
  Plain(EmptyCache) /\ Lowered(EmptyCache) = EmptyCache
<1> DEFINE cells == [i \in CellIds |-> Free]
<1>1. EmptyCache = CacheOf(cells, 0, 0, FALSE, FALSE)
  BY DEF EmptyCache, CacheOf
<1>2. Free \in Cell /\ LowerCell(Free) = Free
  <2>1. Free = CellOf(-1, {}, Nothing, -1, 0)
    BY DEF Free, CellOf
  <2>2. Free.pos = -1 /\ Free.seqs = {} /\ Free.tok = Nothing /\ Free.rot = -1 /\ Free.delta = 0
    BY <2>1, CellOfFields
  <2>3. LowerSeqs({}) = {}
    BY DEF LowerSeqs
  <2>4. Free \in Cell
    BY FreeIsSound
  <2> HIDE DEF Free
  <2> QED
    BY <2>1, <2>2, <2>3, <2>4, Zenon DEF LowerCell
<1>3. cells = [i \in CellIds |-> cells[i]] /\ \A i \in CellIds : cells[i] \in Cell /\ cells[i] = LowerCell(cells[i])
  BY <1>2
<1> HIDE DEF cells
<1> DEFINE c == CacheOf(cells, 0, 0, FALSE, FALSE)
<1>4. c \in Caches(Cell) /\ c = Lowered(c)
  <2>1. 0 \in Int /\ FALSE \in BOOLEAN
    OBVIOUS
  <2> QED
    BY <1>3, <2>1, LoweredCacheOf, Zenon
<1>5. c.head = 0 /\ c.do_defrag = FALSE
  BY DEF CacheOf
<1>6. 0 \in 0 .. Size
  BY SizeAssumption
<1> HIDE DEF c
<1>7. EmptyCache = c
  BY <1>1 DEF c
<1> QED
  BY <1>4, <1>5, <1>6, <1>7 DEF Plain

LEMMA InitIsGood ==
  Init => Inv
<1> SUFFICES ASSUME Init PROVE Inv
  OBVIOUS
<1> USE DEF Init
<1>1. slot = [s \in Slots |-> Idle] /\ Idle.state = "idle"
  BY DEF Idle
<1>2. SlotsGood
  BY <1>1, IdleIsGood DEF SlotsGood, SlotGood
<1>3. Between
  BY <1>1 DEF Between, Indexed
<1>4. During
  BY DEF During
<1>5. Agree
  BY EmptyIsPlain DEF Agree
<1>6. system = NoSystem /\ batch \in Seq(Entry) /\ Saved /\ master_only \in BOOLEAN
  <2>1. system = NoSystem
    BY Zenon DEF NoSystem
  <2>2. batch = <<>> /\ file = Nothing /\ master_only = FALSE
    BY Zenon
  <2> HIDE DEF Init
  <2>3. <<>> \in Seq(Entry)
    OBVIOUS
  <2>4. batch \in Seq(Entry)
    BY <2>2, <2>3, Zenon
  <2>5. Saved
    BY <2>2, Zenon DEF Saved
  <2> QED
    BY <2>1, <2>2, <2>4, <2>5
<1> QED
  BY <1>2, <1>3, <1>4, <1>5, <1>6 DEF Inv

\* Nothing but the slots, in what they wait for as before.
LEMMA SlotsChange ==
  ASSUME Inv, view = NoView, UNCHANGED <<system, batch, view>>, SlotsGood', Saved',
         \A s \in Slots : Indexed(slot'[s], 0), master_only' \in BOOLEAN, Agree'
  PROVE  Inv'
<1>1. Between'
  BY DEF Inv, Between
<1>2. During'
  BY DEF During
<1> QED
  BY <1>1, <1>2 DEF Inv

LEMMA LaunchStep ==
  ASSUME Inv, NEW s \in Slots, NEW r \in Requests, Launch(s, r, Nothing)
  PROVE  Inv'
<1>1. view = NoView /\ slot \in [Slots -> SlotRecords] /\ SlotGood(slot[s]) /\ \A t \in Slots : Indexed(slot[t], 0)
  BY DEF Inv, Launch, NewTask, SlotsGood, Between
<1> DEFINE l == [slot[s] EXCEPT !.state = "prompt", !.task = r, !.prompt = <<>>, !.n_past = 0]
<1>2. SlotGood(l) /\ l.state = "prompt"
  BY <1>1, LaunchIsGood
<1>3. slot' = [t \in Slots |-> IF t = s THEN l ELSE slot[t]]
  BY DEF Launch
<1> HIDE DEF l
<1>4. SlotsGood'
  BY <1>2, <1>3, SMTT(30) DEF SlotsGood, Inv, SlotGood
<1>5. \A t \in Slots : Indexed(slot'[t], 0)
  BY <1>1, <1>2, <1>3 DEF Indexed
<1> QED
  BY <1>1, <1>4, <1>5, SlotsChange DEF Launch, Inv, Saved, Agree

LEMMA CancelStep ==
  ASSUME Inv, NEW s \in Slots, Cancel(s)
  PROVE  Inv'
<1>1. view = NoView /\ slot \in [Slots -> SlotRecords] /\ SlotGood(slot[s]) /\ \A t \in Slots : Indexed(slot[t], 0)
  BY DEF Inv, Cancel, SlotsGood, Between
<1>2. slot' = [slot EXCEPT ![s] = Release(slot[s])]
  BY DEF Cancel
<1>3. SlotGood(Release(slot[s])) /\ Release(slot[s]).state = "idle"
  BY <1>1, ReleaseIsGood
<1>4. SlotsGood'
  BY <1>2, <1>3, SMTT(30) DEF SlotsGood, Inv, SlotGood
<1>5. \A t \in Slots : Indexed(slot'[t], 0)
  BY <1>1, <1>2, <1>3 DEF Indexed
<1> QED
  BY <1>1, <1>4, <1>5, SlotsChange DEF Cancel, Inv, Saved, Agree

LEMMA SaveStep ==
  ASSUME Inv, NEW s \in Slots, Save(s)
  PROVE  Inv'
<1>1. view = NoView /\ slot \in [Slots -> SlotRecords] /\ SlotGood(slot[s]) /\ \A t \in Slots : Indexed(slot[t], 0)
  BY DEF Inv, Save, NewTask, SlotsGood, Between
<1>2. file'.tokens = slot[s].cache_tokens /\ UNCHANGED <<slot, kv, wkv, system, batch, view, master_only>>
  BY DEF Save
<1>3. Saved'
  BY <1>1, <1>2, SlotFields DEF Saved, SlotGood
<1> QED
  BY <1>1, <1>2, <1>3, SlotsChange DEF Inv, SlotsGood, Agree

\* A slot that is not in use gets other tokens.
LEMMA TokensChange ==
  ASSUME Inv, NEW s \in Slots, NEW tokens \in Seq(Int), view = NoView,
         slot' = [slot EXCEPT ![s].cache_tokens = tokens]
  PROVE  SlotsGood' /\ \A t \in Slots : Indexed(slot'[t], 0)
<1>1. slot \in [Slots -> SlotRecords] /\ SlotGood(slot[s]) /\ \A t \in Slots : Indexed(slot[t], 0)
  BY DEF Inv, SlotsGood, Between
<1> DEFINE r == WithTokens(slot[s], tokens)
<1>2. /\ r = [slot[s] EXCEPT !.cache_tokens = tokens] /\ SlotGood(r) /\ r.state = slot[s].state
      /\ r.i_batch = slot[s].i_batch
  BY <1>1, TokensAreGood
<1> HIDE DEF r
<1>3. slot' = [slot EXCEPT ![s] = r]
  BY <1>2
<1>4. SlotsGood'
  <2>1. r \in SlotRecords /\ \A t \in Slots : SlotGood(slot[t])
    BY <1>2 DEF SlotGood, Inv, SlotsGood
  <2>2. slot' \in [Slots -> SlotRecords] /\ \A t \in Slots : slot'[t] = IF t = s THEN r ELSE slot[t]
    BY <1>1, <1>3, <2>1
  <2> QED
    BY <1>2, <2>1, <2>2, Zenon DEF SlotsGood
<1>5. \A t \in Slots : Indexed(slot'[t], 0)
  BY <1>1, <1>2, <1>3 DEF Indexed
<1> QED
  BY <1>4, <1>5

LEMMA RestoreStep ==
  ASSUME Inv, NEW s \in Slots, Restore(s)
  PROVE  Inv'
<1> DEFINE tokens == IF FindSlot(SeqRm(kv, s + 1, -1, -1), Len(file.cells)).ok THEN file.tokens ELSE <<>>
<1>1. view = NoView /\ UNCHANGED <<wkv, system, batch, view, file>> /\ master_only' = TRUE
      /\ slot' = [slot EXCEPT ![s].cache_tokens = tokens]
  BY DEF Restore, NewTask
<1>2. tokens \in Seq(Int)
  BY DEF Restore, Inv, Saved
<1> HIDE DEF tokens
<1>3. SlotsGood' /\ \A t \in Slots : Indexed(slot'[t], 0)
  BY <1>1, <1>2, TokensChange
<1> QED
  BY <1>1, <1>3, SlotsChange DEF Agree, Saved, Inv

LEMMA EraseStep ==
  ASSUME Inv, NEW s \in Slots, Erase(s)
  PROVE  Inv'
<1>1. view = NoView /\ UNCHANGED <<wkv, system, batch, view, file>> /\ master_only' = (master_only \/ kv' # kv)
      /\ slot' = [slot EXCEPT ![s].cache_tokens = <<>>]
  BY DEF Erase, NewTask
<1>2. <<>> \in Seq(Int)
  OBVIOUS
<1>3. SlotsGood' /\ \A t \in Slots : Indexed(slot'[t], 0)
  BY <1>1, <1>2, TokensChange
<1>4. Agree'
  BY <1>1 DEF Agree, Inv
<1> QED
  BY <1>1, <1>3, <1>4, SlotsChange DEF Saved, Inv

LEMMA BeginStep ==
  ASSUME Inv, BeginUpdate
  PROVE  Inv'
<1> DEFINE w == WorldOf(slot, kv, wkv, <<>>)
           v == Built(w)
<1>1. /\ view = NoView /\ system = NoSystem /\ SlotsGood /\ Saved /\ master_only \in BOOLEAN
      /\ \A s \in Slots : Indexed(slot[s], 0)
  BY DEF Inv, Between, BeginUpdate
<1>2. w.slot = slot /\ w.kv = kv /\ w.wkv = wkv /\ w.batch = <<>> /\ IsWorld(w)
  BY WorldOfFields
<1>3. [World EXCEPT !.batch = <<>>] = w
  BY DEF World, WorldOf
<1>4. system.need_update = FALSE /\ n_system = 0
  BY <1>1 DEF NoSystem, n_system
<1>5. /\ slot' = v.slot /\ kv' = v.kv /\ wkv' = v.wkv /\ batch' = v.batch
      /\ view' = IF v.batch = <<>> THEN NoView ELSE [i |-> 0, n_batch |-> NBatch]
      /\ system' = system /\ UNCHANGED <<file, master_only>>
  <2> DEFINE u == [ok |-> TRUE, w |-> World]
             x == InTurn(AddPrompt, InTurn(AddSampled, InTurn(Shift, [u.w EXCEPT !.batch = <<>>], n_system), n_system),
                         n_system)
  <2>1. x = v
    BY <1>3, <1>4 DEF Built
  <2> HIDE DEF x, v
  <2>2. /\ slot' = x.slot /\ kv' = x.kv /\ wkv' = x.wkv /\ batch' = x.batch
        /\ view' = IF x.batch = <<>> THEN NoView ELSE [i |-> 0, n_batch |-> NBatch]
        /\ system' = system /\ UNCHANGED <<file, master_only>>
    BY <1>4, Zenon DEF BeginUpdate, x
  <2> QED
    BY <2>1, <2>2
<1>6. Shifted(w, 0)
  <2>1. <<>> \in Seq(Entry) /\ \A s \in Slots : ~(s < 0)
    BY SizesAre DEF Slots
  <2> HIDE DEF w
  <2> QED
    BY <1>1, <1>2, <2>1 DEF Shifted, GoodWorld, SlotsGood
<1> HIDE DEF w
<1>7. Ongoing(v) /\ (Twins(w) => Twins(v))
  BY <1>6, BuiltIsGood
<1> HIDE DEF v
<1>8. SlotsGood' /\ batch' \in Seq(Entry)
  BY <1>5, <1>7 DEF Ongoing, GoodWorld, SlotsGood
<1>9. Agree'
  BY <1>2, <1>5, <1>7 DEF Inv, Agree, Twins
<1>10. \A s \in Slots : Indexed(slot'[s], Len(batch'))
  BY <1>5, <1>7 DEF Ongoing
<1>11. Between'
  <2>1. ASSUME view' = NoView
        PROVE  batch' = <<>>
    BY <1>5, <2>1 DEF NoView
  <2>2. Len(<<>>) = 0
    OBVIOUS
  <2> QED
    BY <1>10, <2>1, <2>2 DEF Between
<1>12. During'
  <2>1. SUFFICES ASSUME view' # NoView
                 PROVE  /\ view'.i \in Nat /\ view'.n_batch \in 1 .. NBatch /\ view'.i < Len(batch')
                        /\ view' = [i |-> view'.i, n_batch |-> view'.n_batch]
                        /\ \A s \in Slots : Indexed(slot'[s], Len(batch')) /\ WaitsFrom(slot'[s], view'.i)
    BY DEF During
  <2>2. view' = [i |-> 0, n_batch |-> NBatch] /\ batch' # <<>>
    BY <1>5, <2>1
  <2>3. view'.i = 0 /\ view'.n_batch = NBatch /\ NBatch \in Nat \ {0} /\ Len(batch') \in Nat \ {0}
    BY <1>8, <2>2, SizesAre
  <2>4. ASSUME NEW s \in Slots
        PROVE  WaitsFrom(slot'[s], 0)
    BY <1>10, <2>3 DEF Indexed, WaitsFrom
  <2> QED
    BY <1>10, <2>2, <2>3, <2>4
<1> QED
  BY <1>1, <1>5, <1>8, <1>9, <1>11, <1>12 DEF Inv, Saved

\* Without a system prompt an idle server leaves everything as it is, or clears both caches.
LEMMA IdleIs ==
  ASSUME Inv, IdleUpdate
  PROVE  /\ view = NoView /\ UNCHANGED <<slot, system, batch, view, file, master_only>>
         /\ \A s \in Slots : slot[s].state = "idle"
         /\ \/ UNCHANGED <<kv, wkv>>
            \/ /\ kv' = Cleared(kv) /\ wkv' = Cleared(wkv)
               /\ ~wiped' => \A s \in Slots : slot[s].cache_tokens = <<>>
         /\ ~wiped' => ~wiped
<1>1. system.need_update = FALSE /\ system.prompt = <<>>
  BY DEF Inv, NoSystem
<1>2. /\ view = NoView /\ UNCHANGED <<slot, batch, view, file, master_only>>
      /\ \A s \in Slots : slot[s].state = "idle"
  BY DEF IdleUpdate, AllIdle, Processing
<1>3. UNCHANGED system
  BY <1>1 DEF IdleUpdate
<1> DEFINE w == IF clean_kv_cache THEN ClearBoth(World) ELSE World
           used == \E s \in Slots : slot[s].cache_tokens # <<>>
<1>4. kv' = w.kv /\ wkv' = w.wkv /\ wiped' = (wiped \/ (clean_kv_cache /\ used))
  <2> HIDE DEF used
  <2>1. /\ (clean_kv_cache /\ ~system.need_update /\ system.prompt = <<>>) <=> clean_kv_cache
        /\ ~system.need_update
    BY <1>1, Zenon
  <2> DEFINE clean == clean_kv_cache /\ ~system.need_update /\ system.prompt = <<>>
             u == IF system.need_update THEN SystemUpdate(World) ELSE [ok |-> TRUE, w |-> World]
             x == IF clean THEN ClearBoth(u.w) ELSE u.w
  <2>2. kv' = x.kv /\ wkv' = x.wkv /\ wiped' = (wiped \/ (clean /\ used))
    BY Zenon DEF IdleUpdate, used
  <2>3. u = [ok |-> TRUE, w |-> World]
    BY <2>1, Zenon
  <2> HIDE DEF u
  <2>4. u.w = World
    BY <2>3
  <2>5. x = w
    BY <2>1, <2>4, Zenon
  <2>6. (clean /\ used) <=> (clean_kv_cache /\ used)
    BY <2>1, Zenon
  <2> HIDE DEF x, w, clean
  <2> QED
    BY <2>2, <2>5, <2>6, Zenon
<1>5. World.kv = kv /\ World.wkv = wkv /\ ClearBoth(World).kv = Cleared(kv) /\ ClearBoth(World).wkv = Cleared(wkv)
  BY DEF World, ClearBoth
<1>6. CASE clean_kv_cache
  <2>1. kv' = Cleared(kv) /\ wkv' = Cleared(wkv) /\ (~wiped' => ~wiped /\ ~used)
    BY <1>4, <1>5, <1>6
  <2> QED
    BY <1>2, <1>3, <2>1
<1>7. CASE ~clean_kv_cache
  <2>1. kv' = kv /\ wkv' = wkv /\ (~wiped' => ~wiped)
    BY <1>4, <1>5, <1>7
  <2> QED
    BY <1>2, <1>3, <2>1
<1> QED
  BY <1>6, <1>7

LEMMA IdleStep ==
  ASSUME Inv, IdleUpdate
  PROVE  Inv'
<1>1. /\ view = NoView /\ UNCHANGED <<slot, system, batch, view, file, master_only>>
      /\ UNCHANGED <<kv, wkv>> \/ (kv' = Cleared(kv) /\ wkv' = Cleared(wkv))
  BY IdleIs
<1>2. SlotsGood' /\ Saved' /\ master_only' \in BOOLEAN /\ \A s \in Slots : Indexed(slot'[s], 0)
  BY <1>1 DEF Inv, SlotsGood, Saved, Between
<1>3. Agree'
  <2>1. CASE UNCHANGED <<kv, wkv>>
    BY <1>1, <2>1 DEF Inv, Agree
  <2>2. CASE kv' = Cleared(kv) /\ wkv' = Cleared(wkv)
    BY <1>1, <2>2, LoweredCleared DEF Inv, Agree
  <2> QED
    BY <1>1, <2>1, <2>2
<1> QED
  BY <1>1, <1>2, <1>3, SlotsChange

LEMMA ChunkIs ==
  ASSUME batch \in Seq(Entry), view.i \in Nat, view.n_batch \in 1 .. NBatch, view.i < Len(batch)
  PROVE  /\ Chunk \in Seq(Entry)
         /\ Len(Chunk) = IF view.i + view.n_batch <= Len(batch) THEN view.n_batch ELSE Len(batch) - view.i
         /\ Len(Chunk) \in Nat \ {0}
<1> DEFINE a == view.i + 1
           b == Min({view.i + view.n_batch, Len(batch)})
<1>1. Len(batch) \in Nat /\ NBatch \in Nat
  BY SizesAre
<1>2. a \in Nat \ {0} /\ b \in Int /\ b <= Len(batch) /\ a <= b
      /\ b = IF view.i + view.n_batch <= Len(batch) THEN view.i + view.n_batch ELSE Len(batch)
  <2>1. view.i + view.n_batch \in Int /\ Len(batch) \in Int
    BY <1>1
  <2>2. b = IF view.i + view.n_batch <= Len(batch) THEN view.i + view.n_batch ELSE Len(batch)
    BY <2>1, LeastOfTwo
  <2> HIDE DEF b
  <2> QED
    BY <1>1, <2>2
<1>3. Chunk = SubSeq(batch, a, b)
  BY Zenon DEF Chunk
<1> HIDE DEF b
<1>4. Chunk \in Seq(Entry) /\ Len(Chunk) = b - a + 1
  BY <1>2, <1>3, LowerBatchPart
<1> QED
  BY <1>1, <1>2, <1>4, SMTT(30)

LEMMA DecodeStep ==
  ASSUME Inv, DecodeChunk
  PROVE  Inv'
<1> DEFINE r == DecodeBoth(World, Chunk)
           n == view.n_batch
           i == view.i
           m == Len(batch)
<1>1. /\ view # NoView /\ system' = system /\ UNCHANGED <<file, master_only>>
      /\ kv' = r.w.kv /\ wkv' = r.w.wkv
      /\ batch' = IF view' = NoView THEN <<>> ELSE batch
  BY DEF DecodeChunk
<1>2. \/ slot' = [s \in Slots |-> Release(slot[s])] /\ view' = NoView
      \/ r.ret # 0 /\ n # 1 /\ view' = [view EXCEPT !.n_batch = n \div 2] /\ slot' = slot
      \/ /\ view' = IF i + n >= m THEN NoView ELSE [view EXCEPT !.i = i + n]
         /\ \E toks \in [Ready -> Sampled], stops \in SUBSET Ready :
              slot' = [s \in Slots |-> IF s \in Ready THEN Sample(slot[s], toks[s], s \in stops) ELSE slot[s]]
  BY DEF DecodeChunk
<1>3. /\ system = NoSystem /\ SlotsGood /\ batch \in Seq(Entry) /\ Saved /\ master_only \in BOOLEAN
      /\ i \in Nat /\ n \in 1 .. NBatch /\ i < m /\ view = [i |-> i, n_batch |-> n] /\ NBatch \in Nat
      /\ m \in Nat /\ \A s \in Slots : Indexed(slot[s], m) /\ WaitsFrom(slot[s], i)
  BY <1>1, SizesAre DEF Inv, During
<1>4. Agree'
  <2>1. SUFFICES ASSUME ~master_only PROVE Plain(kv') /\ wkv' = Lowered(kv')
    BY <1>1 DEF Agree
  <2>2. World = WorldOf(slot, kv, wkv, batch)
    BY DEF World, WorldOf
  <2>3. World.kv = kv /\ World.wkv = wkv /\ IsWorld(World)
    BY <2>2, WorldOfFields
  <2>4. Twins(World)
    BY <2>1, <2>3 DEF Inv, Agree, Twins
  <2>5. Chunk \in Seq(Entry)
    BY <1>3, ChunkIs
  <2>6. Plain(r.w.kv) /\ r.w.wkv = Lowered(r.w.kv)
    BY <2>3, <2>4, <2>5, DecodeTwins
  <2> QED
    BY <1>1, <2>6
<1>5. batch' \in Seq(Entry) /\ (view' = NoView => batch' = <<>>)
  BY <1>1, <1>3
<1>6. ASSUME NEW s \in Slots
      PROVE  /\ SlotGood(slot[s]) /\ SlotGood(Release(slot[s])) /\ Release(slot[s]).state = "idle"
             /\ slot[s] \in SlotRecords
  BY <1>3, ReleaseIsGood DEF SlotsGood, SlotGood
<1>7. CASE slot' = [s \in Slots |-> Release(slot[s])] /\ view' = NoView
  <2>1. SlotsGood'
    BY <1>6, <1>7 DEF SlotsGood, SlotGood
  <2>2. Between' /\ During'
    BY <1>5, <1>6, <1>7 DEF Between, During, Indexed
  <2> QED
    BY <1>1, <1>3, <1>4, <1>5, <2>1, <2>2 DEF Inv, Saved
<1>8. CASE r.ret # 0 /\ n # 1 /\ view' = [view EXCEPT !.n_batch = n \div 2] /\ slot' = slot
  <2> DEFINE h == n \div 2
  <2>1. h \in 1 .. NBatch
    BY <1>3, <1>8
  <2> HIDE DEF h, n, i
  <2>2. view' = [i |-> i, n_batch |-> h]
    BY <1>3, <1>8 DEF h
  <2>3. view' # NoView /\ view'.i = i /\ view'.n_batch = h
    BY <1>3, <2>2 DEF NoView
  <2>4. Between' /\ During'
    BY <1>1, <1>3, <1>8, <2>1, <2>2, <2>3 DEF Between, During
  <2>5. SlotsGood'
    BY <1>3, <1>8 DEF SlotsGood
  <2> QED
    BY <1>1, <1>3, <1>4, <1>5, <2>4, <2>5 DEF Inv, Saved
<1>9. CASE /\ view' = IF i + n >= m THEN NoView ELSE [view EXCEPT !.i = i + n]
           /\ \E toks \in [Ready -> Sampled], stops \in SUBSET Ready :
                slot' = [s \in Slots |-> IF s \in Ready THEN Sample(slot[s], toks[s], s \in stops) ELSE slot[s]]
  <2> DEFINE j == i + n
             c == Len(Chunk)
  <2>1. PICK toks \in [Ready -> Sampled], stops \in SUBSET Ready :
          slot' = [s \in Slots |-> IF s \in Ready THEN Sample(slot[s], toks[s], s \in stops) ELSE slot[s]]
    BY <1>9
  <2>2. c = IF j <= m THEN n ELSE m - i
    BY <1>3, ChunkIs
  <2>3. \A s \in Slots : s \in Ready <=> /\ slot[s].state \in {"done", "generating"}
                                         /\ slot[s].i_batch \in i .. i + c - 1
    BY DEF Ready
  <2> HIDE DEF c
  <2>4. ASSUME NEW s \in Slots
        PROVE  /\ SlotGood(slot'[s]) /\ Indexed(slot'[s], m) /\ WaitsFrom(slot'[s], j)
               /\ j >= m => Indexed(slot'[s], 0)
    <3>1. CASE s \in Ready
      <4>1. toks[s] \in Int
        BY <2>1, <3>1, SlotAssumption
      <4> DEFINE q == Sample(slot[s], toks[s], s \in stops)
      <4>2. SlotGood(q) /\ q.state \in {"idle", "generating"} /\ q.i_batch = -1
        BY <1>6, <2>3, <3>1, <4>1, SampleIsGood
      <4> HIDE DEF q
      <4>3. slot'[s] = q
        BY <2>1, <3>1 DEF q
      <4> QED
        BY <1>3, <4>2, <4>3 DEF Indexed, WaitsFrom
    <3>2. CASE s \notin Ready
      <4> DEFINE q == slot[s]
      <4>1. slot'[s] = q
        BY <2>1, <3>2
      <4>2. SlotGood(q) /\ Indexed(q, m) /\ WaitsFrom(q, i) /\ q.i_batch \in Int
        BY <1>3, <1>6, SlotFields
      <4>3. q.state \in {"done", "generating"} => ~(q.i_batch \in i .. i + c - 1)
        BY <2>3, <3>2
      <4> HIDE DEF q, i, n, m, j
      <4>4. q.state \in {"done", "generating"} => /\ q.i_batch = -1 \/ q.i_batch >= j
                                                  /\ j >= m => q.i_batch = -1
        <5>1. SUFFICES ASSUME q.state \in {"done", "generating"}
                       PROVE  (q.i_batch = -1 \/ q.i_batch >= j) /\ (j >= m => q.i_batch = -1)
          OBVIOUS
        <5>2. q.i_batch \in -1 .. m - 1 /\ (q.i_batch = -1 \/ q.i_batch >= i) /\ ~(q.i_batch \in i .. i + c - 1)
          BY <4>2, <4>3, <5>1 DEF Indexed, WaitsFrom
        <5>3. j = i + n /\ c \in Int
          BY <1>3, <2>2 DEF j
        <5> QED
          BY <1>3, <2>2, <5>2, <5>3
      <4>5. WaitsFrom(q, j) /\ (j >= m => Indexed(q, 0))
        BY <4>2, <4>4 DEF WaitsFrom, Indexed
      <4> QED
        BY <4>1, <4>2, <4>5
    <3> QED
      BY <3>1, <3>2
  <2>5. SlotsGood'
    BY <2>1, <2>4 DEF SlotsGood, SlotGood
  <2>6. CASE j >= m
    <3>1. view' = NoView
      BY <1>9, <2>6
    <3>2. Between' /\ During'
      BY <1>5, <2>4, <2>6, <3>1 DEF Between, During
    <3> QED
      BY <1>1, <1>3, <1>4, <1>5, <2>5, <3>2 DEF Inv, Saved
  <2>7. CASE ~(j >= m)
    <3>1. j \in Nat /\ j < m
      BY <1>3, <2>7
    <3>2. view' = [view EXCEPT !.i = j]
      BY <1>9, <2>7
    <3> HIDE DEF j, n, i
    <3>3. view' = [i |-> j, n_batch |-> n]
      BY <1>3, <3>2
    <3>4. view'.i = j /\ view'.n_batch = n /\ view' # NoView
      BY <3>1, <3>3 DEF NoView
    <3>5. batch' = batch
      BY <1>1, <3>4
    <3>6. Between' /\ During'
      BY <1>3, <2>4, <3>1, <3>3, <3>4, <3>5 DEF Between, During
    <3> QED
      BY <1>1, <1>3, <1>4, <1>5, <2>5, <3>6 DEF Inv, Saved
  <2> QED
    BY <2>6, <2>7
<1> QED
  BY <1>2, <1>7, <1>8, <1>9

LEMMA Step ==
  ASSUME Systems = {}, Inv, [Next]_vars
  PROVE  Inv'
<1>1. ASSUME NEW s \in Slots, NEW r \in Requests, NEW sys \in Systems \cup {Nothing}, Launch(s, r, sys)
      PROVE  Inv'
  <2>1. sys = Nothing
    OBVIOUS
  <2> QED
    BY <1>1, <2>1, LaunchStep
<1>2. ASSUME NEW s \in Slots, Cancel(s)
      PROVE  Inv'
  BY <1>2, CancelStep
<1>3. ASSUME NEW s \in Slots, Save(s)
      PROVE  Inv'
  BY <1>3, SaveStep
<1>4. ASSUME NEW s \in Slots, Restore(s)
      PROVE  Inv'
  BY <1>4, RestoreStep
<1>5. ASSUME NEW s \in Slots, Erase(s)
      PROVE  Inv'
  BY <1>5, EraseStep
<1>6. CASE BeginUpdate
  BY <1>6, BeginStep
<1>7. CASE IdleUpdate
  BY <1>7, IdleStep
<1>8. CASE DecodeChunk
  BY <1>8, DecodeStep
<1>9. CASE UNCHANGED vars
  BY <1>9 DEF vars, Inv, SlotsGood, Between, During, Saved, Agree
<1> QED
  BY <1>1, <1>2, <1>3, <1>4, <1>5, <1>6, <1>7, <1>8, <1>9 DEF Next

LEMMA Invariance ==
  ASSUME Systems = {}
  PROVE  Spec => []Inv
<1>1. Inv /\ [Next]_vars => Inv'
  BY Step
<1> QED
  BY <1>1, InitIsGood, PTL DEF Spec

-----------------------------------------------------------------------------
(* The theorems                                                            *)

LEMMA AgreeMeans ==
  Inv => WorkerAgrees
<1> SUFFICES ASSUME Inv, ~master_only, NEW s \in Slots
             PROVE  {[pos |-> c.pos, tok |-> c.tok, rot |-> c.rot + c.delta] : c \in Cells(kv, s + 1)}
                    = {[pos |-> c.pos, tok |-> c.tok, rot |-> c.rot + c.delta] : c \in Cells(wkv, s)}
  BY DEF WorkerAgrees
<1>1. kv \in Caches(Cell) /\ wkv = Lowered(kv) /\ s \in Int
  BY SizesAre DEF Inv, Agree, Plain, Slots
<1>2. ASSUME NEW i \in CellIds
      PROVE  /\ wkv.cells[i].pos = kv.cells[i].pos /\ wkv.cells[i].tok = kv.cells[i].tok
             /\ wkv.cells[i].rot = kv.cells[i].rot /\ wkv.cells[i].delta = kv.cells[i].delta
             /\ s \in wkv.cells[i].seqs <=> s + 1 \in kv.cells[i].seqs
  BY <1>1, LoweredIs, LowerCellIs
<1> DEFINE row(c) == [pos |-> c.pos, tok |-> c.tok, rot |-> c.rot + c.delta]
           ids == {i \in CellIds : s + 1 \in kv.cells[i].seqs}
<1>3. \A i \in CellIds : row(wkv.cells[i]) = row(kv.cells[i])
  BY <1>2
<1>4. ids = {i \in CellIds : s \in wkv.cells[i].seqs}
  BY <1>2
<1>5. Cells(kv, s + 1) = {kv.cells[i] : i \in ids}
  BY DEF Cells
<1>6. Cells(wkv, s) = {wkv.cells[i] : i \in ids}
  BY <1>4 DEF Cells
<1>7. ids \subseteq CellIds
  OBVIOUS
<1> HIDE DEF row, ids
<1>8. {row(c) : c \in Cells(kv, s + 1)} = {row(c) : c \in Cells(wkv, s)}
  BY <1>3, <1>5, <1>6, <1>7
<1> QED
  BY <1>8 DEF row

\* Every worker attends to the same tokens as the master, whatever the sizes, the requests and
\* the tokens, and however the batches are cut, fail and are tried again, as long as no request
\* brings a system prompt and no slot action changes the master's cache: a worker that is sent
\* the commands with their sequence ids one lower (server.cpp, llama_send_kv_cache_*) has the
\* master's cache with every id one lower, cell by cell, for a search for a slot and an update
\* never look at an id.
THEOREM WorkersAgree ==
  ASSUME Systems = {}
  PROVE  Spec => []WorkerAgrees
<1>1. Spec => []Inv
  BY Invariance
<1> QED
  BY <1>1, AgreeMeans, PTL

\* No prompt and no slot outgrows the context of a slot, and every slot that waits for logits
\* waits for those of an entry of the batch (server.cpp, update_slots), when no request asks for
\* more tokens to be discarded than the context holds.
THEOREM TypesHold ==
  ASSUME Systems = {}, SmallDiscards
  PROVE  Spec => []TypeOK
<1>1. Spec => []Inv
  BY Invariance
<1>2. Inv => TypeOK
  <2> SUFFICES ASSUME Inv PROVE TypeOK
    OBVIOUS
  <2>1. ASSUME NEW s \in Slots
        PROVE  /\ slot[s].state \in {"idle", "prompt", "done", "generating"}
               /\ slot[s].state # "idle" => slot[s].task # Nothing
               /\ Len(slot[s].prompt) < NCtx /\ slot[s].n_past \in 0 .. NCtx - 1
               /\ slot[s].state \in {"done", "generating"} => slot[s].i_batch \in -1 .. Len(batch) - 1
               /\ slot[s].n_decoded \in 0 .. NPredict
    <3>1. SlotGood(slot[s]) /\ slot[s] \in SlotRecords
      BY DEF Inv, SlotsGood, SlotGood
    <3>2. Indexed(slot[s], Len(batch))
      <4>1. Len(<<>>) = 0
        OBVIOUS
      <4> QED
        BY <4>1 DEF Inv, Between, During
    <3>3. slot[s].state \in {"idle", "prompt", "done", "generating"}
      BY <3>1, SlotFields DEF States
    <3>4. slot[s].state # "idle" => slot[s].task # Nothing
      BY <3>1, SlotAssumption DEF SlotGood, GoodTask
    <3> QED
      BY <3>1, <3>2, <3>3, <3>4 DEF SlotGood, Indexed
  <2>2. view = NoView \/ (view.i \in 0 .. Len(batch) - 1 /\ view.n_batch \in 1 .. NBatch)
    <3>1. Len(batch) \in Nat
      BY DEF Inv
    <3> QED
      BY <3>1 DEF Inv, During
  <2> QED
    BY <2>1, <2>2 DEF TypeOK
<1> QED
  BY <1>1, <1>2, PTL

-----------------------------------------------------------------------------
(* What a slot has in the master's cache                                   *)

\* Slot s has token t at position p.
Has(c, s, p, t) == \E i \in CellIds : s + 1 \in c.cells[i].seqs /\ c.cells[i].pos = p /\ c.cells[i].tok = t

\* Every cell is free or of one slot, and no slot has two cells of a position.
OneSlot(cells) == \A i \in CellIds : cells[i].seqs = {} \/ \E s \in Slots : cells[i].seqs = {s + 1}
Alone(cells) ==
  \A i, j \in CellIds :
    cells[i].seqs # {} /\ cells[i].seqs = cells[j].seqs /\ cells[i].pos = cells[j].pos => i = j

\* A sound cache of the first n tokens with such cells, that nobody has asked to be defragmented.
Cached(c, n) == Sound(c, n) /\ c.do_defrag = FALSE /\ OneSlot(c.cells) /\ Alone(c.cells)

LEMMA SlotIds ==
  ASSUME NEW s \in Slots
  PROVE  s \in Nat /\ s < NSlots /\ s + 1 \in Nat \ {0}
BY SizesAre DEF Slots

\* What is known of a cell of a slot, and of any cell.
LEMMA CachedCell ==
  ASSUME NEW n, NEW c, Cached(c, n), NEW i \in CellIds
  PROVE  /\ c.cells[i].pos \in Int /\ (c.cells[i].pos >= 0 <=> c.cells[i].seqs # {})
         /\ c.cells[i].seqs # {} => c.cells[i].tok \in 0 .. n - 1 /\ c.cells[i].pos \in Nat
         /\ \A s \in Slots : s + 1 \in c.cells[i].seqs => c.cells[i].seqs = {s + 1}
<1>1. SoundData(c.cells[i], n) /\ OneSlot(c.cells)
  BY DEF Cached, Sound, SoundCell
<1>2. c.cells[i].pos \in Int /\ (c.cells[i].pos >= 0 <=> c.cells[i].seqs # {})
      /\ (c.cells[i].seqs # {} => c.cells[i].tok \in 0 .. n - 1)
  BY <1>1 DEF SoundData, Cell
<1>3. ASSUME NEW s \in Slots, s + 1 \in c.cells[i].seqs
      PROVE  c.cells[i].seqs = {s + 1}
  BY <1>1, <1>3 DEF OneSlot
<1> QED
  BY <1>2, <1>3

\* Two caches with the same cells as far as slots, positions and tokens go.
SameTokens(c, d) ==
  \A i \in CellIds : /\ d.cells[i].pos = c.cells[i].pos /\ d.cells[i].seqs = c.cells[i].seqs
                     /\ d.cells[i].tok = c.cells[i].tok

LEMMA SameTokensHas ==
  ASSUME NEW c, NEW d, SameTokens(c, d)
  PROVE  /\ \A s, p, t : Has(d, s, p, t) <=> Has(c, s, p, t)
         /\ OneSlot(c.cells) => OneSlot(d.cells)
         /\ Alone(c.cells) => Alone(d.cells)
<1>1. \A s, p, t : Has(d, s, p, t) <=> Has(c, s, p, t)
  BY DEF Has, SameTokens
<1>2. OneSlot(c.cells) => OneSlot(d.cells)
  BY DEF OneSlot, SameTokens
<1>3. Alone(c.cells) => Alone(d.cells)
  BY DEF Alone, SameTokens
<1> QED
  BY <1>1, <1>2, <1>3

\* A removal takes what a slot has in a range, and nothing else.
LEMMA RmHas ==
  ASSUME NEW n \in Nat, NEW c, Cached(c, n), NEW s \in Slots, NEW p0 \in Int, NEW p1 \in Int
  PROVE  LET d == SeqRm(c, s + 1, p0, p1)
         IN  /\ Cached(d, n) /\ d.has_shift = c.has_shift
             /\ \A t \in Slots : \A p, tok :
                  Has(d, t, p, tok) <=> Has(c, t, p, tok) /\ ~(t = s /\ InRange(p, p0, p1))
<1> DEFINE d == SeqRm(c, s + 1, p0, p1)
<1>1. s + 1 \in Int /\ ~(s + 1 < 0) /\ \A t \in Slots : t + 1 = s + 1 => t = s
  BY SlotIds
<1>2. Sound(c, n) /\ c \in Caches(Cell) /\ c.do_defrag = FALSE
  BY SoundFields DEF Cached
<1>3. Sound(d, n) /\ d.cells = [i \in CellIds |-> RmCell(c, s + 1, p0, p1, i)]
  BY <1>1, <1>2, SeqRmIs
<1>4. d.has_shift = c.has_shift /\ d.do_defrag = FALSE
  <2> DEFINE freed == RmFreed(c, s + 1, p0, p1)
             cells == [i \in CellIds |-> RmCell(c, s + 1, p0, p1, i)]
             head == FreedHead(c, freed)
             used == c.used - Cardinality(freed)
  <2>1. d = WithCellsHeadUsed(c, cells, head, used)
    BY Zenon DEF SeqRm, WithCellsHeadUsed, RmCell, RmFreed, RmSeqs
  <2> HIDE DEF d, cells, head, used
  <2>2. d = CacheOf(cells, head, used, c.has_shift, c.do_defrag)
    BY <1>2, <2>1, CellsHeadUsedForm
  <2> QED
    BY <1>2, <2>2, CacheOfFields
<1> HIDE DEF d
<1>5. ASSUME NEW i \in CellIds
      PROVE  IF s + 1 \in c.cells[i].seqs /\ InRange(c.cells[i].pos, p0, p1)
               THEN d.cells[i].seqs = {} ELSE d.cells[i] = c.cells[i]
  <2>1. d.cells[i] = RmCell(c, s + 1, p0, p1, i)
    BY <1>3
  <2>2. i \in Selected(c, s + 1, p0, p1) <=> s + 1 \in c.cells[i].seqs /\ InRange(c.cells[i].pos, p0, p1)
    BY <1>1 DEF Selected
  <2>3. CASE i \in Selected(c, s + 1, p0, p1)
    <3>1. RmSeqs(c, s + 1, i) = {}
      <4>1. c.cells[i].seqs = {s + 1}
        BY <2>2, <2>3, CachedCell
      <4> QED
        BY <4>1 DEF RmSeqs
    <3>2. d.cells[i] = Freed(c.cells[i])
      BY <2>1, <2>3, <3>1 DEF RmCell, RmFreed
    <3>3. c.cells[i] \in Cell
      BY <1>2 DEF Caches
    <3>4. Freed(c.cells[i]).seqs = {}
      BY DEF Freed, Free
    <3> QED
      BY <2>2, <2>3, <3>2, <3>4
  <2>4. CASE i \notin Selected(c, s + 1, p0, p1)
    BY <2>1, <2>2, <2>4 DEF RmCell, RmFreed
  <2> QED
    BY <2>3, <2>4
<1>6. Cached(d, n)
  <2>1. OneSlot(d.cells)
    BY <1>5 DEF Cached, OneSlot
  <2>2. Alone(d.cells)
    BY <1>5 DEF Cached, Alone
  <2> QED
    BY <1>3, <1>4, <2>1, <2>2 DEF Cached
<1>7. ASSUME NEW t \in Slots, NEW p, NEW tok
      PROVE  Has(d, t, p, tok) <=> Has(c, t, p, tok) /\ ~(t = s /\ InRange(p, p0, p1))
  <2>1. ASSUME Has(d, t, p, tok)
        PROVE  Has(c, t, p, tok) /\ ~(t = s /\ InRange(p, p0, p1))
    BY <1>5, <2>1 DEF Has
  <2>2. ASSUME Has(c, t, p, tok), ~(t = s /\ InRange(p, p0, p1))
        PROVE  Has(d, t, p, tok)
    <3>1. PICK i \in CellIds : t + 1 \in c.cells[i].seqs /\ c.cells[i].pos = p /\ c.cells[i].tok = tok
      BY <2>2 DEF Has
    <3>2. ~(s + 1 \in c.cells[i].seqs /\ InRange(c.cells[i].pos, p0, p1))
      <4>1. c.cells[i].seqs = {t + 1}
        BY <3>1, CachedCell
      <4> QED
        BY <1>1, <2>2, <3>1, <4>1
    <3>3. d.cells[i] = c.cells[i]
      BY <1>5, <3>2
    <3> QED
      BY <3>1, <3>3 DEF Has
  <2> QED
    BY <2>1, <2>2
<1> QED
  BY <1>4, <1>6, <1>7 DEF d

\* A shift moves what a slot has from p0 on, to positions where it has nothing.
LEMMA AddHas ==
  ASSUME NEW n \in Nat, NEW c, Cached(c, n), NEW s \in Slots, NEW by \in Nat \ {0}, NEW p0 \in Nat, by <= p0,
         NEW p1 \in Int, p0 <= p1,
         \A p, t : Has(c, s, p, t) => p < p1 /\ p \notin p0 - by .. p0 - 1
  PROVE  LET d == SeqAdd(c, s + 1, p0, p1, -by)
         IN  /\ Cached(d, n)
             /\ \A p, tok : Has(d, s, p, tok) <=> \/ p < p0 - by /\ Has(c, s, p, tok)
                                                  \/ p >= p0 - by /\ p \in Int /\ Has(c, s, p + by, tok)
             /\ \A t \in Slots \ {s} : \A p, tok : Has(d, t, p, tok) <=> Has(c, t, p, tok)
<1> DEFINE delta == -by
           d == SeqAdd(c, s + 1, p0, p1, delta)
<1>1. s + 1 \in Int /\ ~(s + 1 < 0) /\ \A t \in Slots : t + 1 = s + 1 => t = s
  BY SlotIds
<1>2. Sound(c, n) /\ c \in Caches(Cell) /\ c.do_defrag = FALSE
  BY SoundFields DEF Cached
<1>3. delta \in Int /\ delta # 0
  OBVIOUS
<1>a. \A x \in Int : x + delta = x - by /\ x + delta \in Int
  OBVIOUS
<1> HIDE DEF delta
<1>0. CASE EmptyRange(p0, p1)
  <2>1. d = c
    BY <1>0 DEF SeqAdd
  <2>2. p1 = p0
    BY <1>0 DEF EmptyRange
  <2> HIDE DEF d
  <2>3. ASSUME NEW p, NEW tok
        PROVE  Has(c, s, p, tok) <=> \/ p < p0 - by /\ Has(c, s, p, tok)
                                     \/ p >= p0 - by /\ p \in Int /\ Has(c, s, p + by, tok)
    <3>1. Has(c, s, p, tok) => p \in Int /\ p < p0 /\ p \notin p0 - by .. p0 - 1
      BY <2>2, CachedCell DEF Has
    <3>2. p \in Int /\ p >= p0 - by => ~Has(c, s, p + by, tok)
      BY <2>2
    <3> QED
      BY <3>1, <3>2
  <2> QED
    BY <2>1, <2>3 DEF d, delta
<1> SUFFICES ASSUME ~EmptyRange(p0, p1)
             PROVE  LET x == SeqAdd(c, s + 1, p0, p1, -by)
                    IN  /\ Cached(x, n)
                        /\ \A p, tok : Has(x, s, p, tok) <=> \/ p < p0 - by /\ Has(c, s, p, tok)
                                                             \/ p >= p0 - by /\ p \in Int /\ Has(c, s, p + by, tok)
                        /\ \A t \in Slots \ {s} : \A p, tok : Has(x, t, p, tok) <=> Has(c, t, p, tok)
  BY <1>0
<1>4. Sound(d, n) /\ d.cells = [i \in CellIds |-> AddCell(c, s + 1, p0, p1, delta, i)]
  BY <1>1, <1>2, <1>3, SeqAddIs
<1>5. d.do_defrag = FALSE
  <2> DEFINE hit == CpHit(c, s + 1, p0, p1)
             freed == AddFreed(c, s + 1, p0, p1, delta)
             cells == [i \in CellIds |-> AddCell(c, s + 1, p0, p1, delta, i)]
             head == IF freed = {} THEN 0 ELSE Min(freed)
             used == c.used - Cardinality(freed)
             shifting == c.has_shift \/ hit # {}
  <2>1. d = WithCellsHeadUsedShift(c, cells, head, used, shifting)
    BY <1>3, Zenon DEF SeqAdd, WithCellsHeadUsedShift, AddCell, AddFreed, AddMoved, CpHit
  <2> HIDE DEF d, cells, head, used, shifting
  <2>2. d = CacheOf(cells, head, used, shifting, c.do_defrag)
    BY <1>2, <2>1, CellsHeadUsedShiftForm
  <2> QED
    BY <1>2, <2>2, CacheOfFields
<1> HIDE DEF d
<1> DEFINE Hit(i) == s + 1 \in c.cells[i].seqs /\ c.cells[i].pos >= p0
<1>6. ASSUME NEW i \in CellIds
      PROVE  /\ c.cells[i].pos \in Int
             /\ IF Hit(i) THEN /\ d.cells[i].pos = c.cells[i].pos - by /\ d.cells[i].seqs = c.cells[i].seqs
                               /\ d.cells[i].tok = c.cells[i].tok
                          ELSE d.cells[i] = c.cells[i]
  <2>1. d.cells[i] = AddCell(c, s + 1, p0, p1, delta, i)
    BY <1>4
  <2>2. c.cells[i].pos \in Int /\ c.cells[i] \in Cell
    BY <1>2, CachedCell DEF Caches
  <2>3. s + 1 \in c.cells[i].seqs => c.cells[i].pos < p1
    BY DEF Has
  <2>4. i \in CpHit(c, s + 1, p0, p1) <=> Hit(i)
    BY <1>1, <2>2, <2>3 DEF CpHit, Selected, InRange
  <2>5. i \notin AddFreed(c, s + 1, p0, p1, delta)
    <3>1. Hit(i) => ~(c.cells[i].pos + delta < 0)
      BY <1>a, <2>2
    <3> QED
      BY <2>4, <3>1 DEF AddFreed
  <2>6. CASE Hit(i)
    <3>1. d.cells[i] = Moved(c.cells[i], c.cells[i].pos + delta)
      BY <2>1, <2>4, <2>5, <2>6 DEF AddCell, AddMoved
    <3> DEFINE x == c.cells[i]
               pos == c.cells[i].pos + delta
    <3>2. pos \in Int /\ pos = x.pos - by /\ x \in Cell
      BY <1>a, <2>2
    <3> HIDE DEF x, pos
    <3>3. Moved(x, pos) = CellOf(pos, x.seqs, x.tok, x.rot, x.delta + pos - x.pos)
      BY <3>2, CellForms
    <3>4. Moved(x, pos).pos = pos /\ Moved(x, pos).seqs = x.seqs /\ Moved(x, pos).tok = x.tok
      BY <3>3, CellOfFields
    <3>5. d.cells[i] = Moved(x, pos)
      BY <3>1 DEF x, pos
    <3> QED
      BY <2>2, <2>6, <3>2, <3>4, <3>5 DEF x
  <2>7. CASE ~Hit(i)
    BY <2>1, <2>2, <2>4, <2>5, <2>7 DEF AddCell
  <2> QED
    BY <2>6, <2>7
<1>7. ASSUME NEW i \in CellIds, s + 1 \in c.cells[i].seqs
      PROVE  /\ c.cells[i].pos \notin p0 - by .. p0 - 1 /\ c.cells[i].seqs = {s + 1}
             /\ (IF Hit(i) THEN d.cells[i].pos >= p0 - by ELSE d.cells[i].pos < p0 - by)
  <2>1. c.cells[i].pos \notin p0 - by .. p0 - 1 /\ c.cells[i].seqs = {s + 1} /\ c.cells[i].pos \in Int
    BY <1>7, CachedCell DEF Has
  <2> QED
    BY <1>6, <1>7, <2>1
<1>8. ASSUME NEW i \in CellIds
      PROVE  d.cells[i].seqs = c.cells[i].seqs /\ d.cells[i].tok = c.cells[i].tok
  BY <1>6
<1>9. Cached(d, n)
  <2>1. OneSlot(d.cells)
    BY <1>8 DEF Cached, OneSlot
  <2>2. ASSUME NEW i \in CellIds, NEW j \in CellIds, d.cells[i].seqs # {}, d.cells[i].seqs = d.cells[j].seqs,
               d.cells[i].pos = d.cells[j].pos
        PROVE  i = j
    <3>1. c.cells[i].seqs # {} /\ c.cells[i].seqs = c.cells[j].seqs
      BY <1>8, <2>2
    <3>2. c.cells[i].pos = c.cells[j].pos
      <4>1. c.cells[i].pos \in Int /\ c.cells[j].pos \in Int
        BY <1>6
      <4>2. CASE s + 1 \in c.cells[i].seqs
        <5>1. Hit(i) <=> Hit(j)
          BY <1>6, <1>7, <2>2, <3>1, <4>1, <4>2
        <5> QED
          BY <1>6, <2>2, <4>1, <5>1
      <4>3. CASE s + 1 \notin c.cells[i].seqs
        BY <1>6, <2>2, <3>1, <4>3
      <4> QED
        BY <4>2, <4>3
    <3> QED
      BY <3>1, <3>2 DEF Cached, Alone
  <2>3. Alone(d.cells)
    BY <2>2 DEF Alone
  <2> QED
    BY <1>4, <1>5, <2>1, <2>3 DEF Cached
<1>10. ASSUME NEW p, NEW tok
       PROVE  Has(d, s, p, tok) <=> \/ p < p0 - by /\ Has(c, s, p, tok)
                                    \/ p >= p0 - by /\ p \in Int /\ Has(c, s, p + by, tok)
  <2>1. ASSUME Has(d, s, p, tok)
        PROVE  \/ p < p0 - by /\ Has(c, s, p, tok)
               \/ p >= p0 - by /\ p \in Int /\ Has(c, s, p + by, tok)
    <3>1. PICK i \in CellIds : s + 1 \in d.cells[i].seqs /\ d.cells[i].pos = p /\ d.cells[i].tok = tok
      BY <2>1 DEF Has
    <3>2. s + 1 \in c.cells[i].seqs /\ c.cells[i].tok = tok
      BY <1>8, <3>1
    <3>3. CASE Hit(i)
      <4>1. p = c.cells[i].pos - by /\ c.cells[i].pos \in Int /\ p >= p0 - by
        BY <1>6, <1>7, <3>1, <3>2, <3>3
      <4>2. c.cells[i].pos = p + by /\ p \in Int
        BY <4>1
      <4> QED
        BY <3>2, <4>1, <4>2 DEF Has
    <3>4. CASE ~Hit(i)
      <4>1. p = c.cells[i].pos /\ p < p0 - by
        BY <1>6, <1>7, <3>1, <3>2, <3>4
      <4> QED
        BY <3>2, <4>1 DEF Has
    <3> QED
      BY <3>3, <3>4
  <2>2. ASSUME p < p0 - by, Has(c, s, p, tok)
        PROVE  Has(d, s, p, tok)
    <3>1. PICK i \in CellIds : s + 1 \in c.cells[i].seqs /\ c.cells[i].pos = p /\ c.cells[i].tok = tok
      BY <2>2 DEF Has
    <3>2. ~Hit(i)
      BY <1>6, <2>2, <3>1
    <3>3. d.cells[i] = c.cells[i]
      BY <1>6, <3>2
    <3> QED
      BY <3>1, <3>3 DEF Has
  <2>3. ASSUME p >= p0 - by, p \in Int, Has(c, s, p + by, tok)
        PROVE  Has(d, s, p, tok)
    <3>1. PICK i \in CellIds : s + 1 \in c.cells[i].seqs /\ c.cells[i].pos = p + by /\ c.cells[i].tok = tok
      BY <2>3 DEF Has
    <3>2. Hit(i) /\ p + by - by = p
      BY <2>3, <3>1
    <3>3. d.cells[i].pos = c.cells[i].pos - by /\ d.cells[i].seqs = c.cells[i].seqs /\ d.cells[i].tok = tok
      BY <1>6, <3>1, <3>2, Zenon
    <3>4. d.cells[i].pos = p
      BY <2>3, <3>1, <3>3
    <3> QED
      BY <3>1, <3>3, <3>4 DEF Has
  <2> QED
    BY <2>1, <2>2, <2>3
<1>11. ASSUME NEW t \in Slots \ {s}, NEW p, NEW tok
       PROVE  Has(d, t, p, tok) <=> Has(c, t, p, tok)
  <2>1. ASSUME NEW i \in CellIds, t + 1 \in c.cells[i].seqs
        PROVE  d.cells[i] = c.cells[i]
    <3>1. c.cells[i].seqs = {t + 1}
      BY <2>1, CachedCell
    <3>2. ~Hit(i)
      BY <1>1, <3>1
    <3> QED
      BY <1>6, <3>2
  <2>2. \A i \in CellIds : t + 1 \in d.cells[i].seqs => d.cells[i] = c.cells[i] /\ t + 1 \in c.cells[i].seqs
    BY <1>8, <2>1
  <2> QED
    BY <2>1, <2>2 DEF Has
<1> QED
  BY <1>9, <1>10, <1>11 DEF d, delta

\* The update before a batch leaves what every slot has.
LEMMA UpdateHas ==
  ASSUME NEW n \in Nat, NEW c, Cached(c, n)
  PROVE  LET d == Update(c, 1)
         IN  /\ Cached(d, n) /\ d.has_shift = FALSE /\ d.used = c.used
             /\ \A s, p, t : Has(d, s, p, t) <=> Has(c, s, p, t)
<1>1. Sound(c, n) /\ c \in Caches(Cell) /\ c.do_defrag = FALSE /\ c.has_shift \in BOOLEAN
  BY SoundFields DEF Cached
<1>2. Update(c, 1) = IF c.has_shift THEN KShift(c) ELSE c
  BY <1>1, Zenon DEF Update
<1>3. CASE ~c.has_shift
  BY <1>1, <1>2, <1>3
<1>4. CASE c.has_shift
  <2> DEFINE d == KShift(c)
             cells == [i \in CellIds |-> ShiftedCell(c.cells[i])]
  <2>1. Sound(d, n) /\ d.has_shift = FALSE /\ d.do_defrag = FALSE
    BY <1>1, KShiftIs
  <2>2. d = WithShiftCells(c, FALSE, cells)
    BY Zenon DEF KShift, WithShiftCells, ShiftedCell
  <2>3. ASSUME NEW i \in CellIds
        PROVE  /\ cells[i].pos = c.cells[i].pos /\ cells[i].seqs = c.cells[i].seqs
               /\ cells[i].tok = c.cells[i].tok
    <3>1. cells[i] = ShiftedCell(c.cells[i]) /\ SoundCell(c.cells[i], n, c.has_shift)
      BY <1>1 DEF Sound
    <3> DEFINE x == c.cells[i]
               shifting == c.has_shift
    <3>3. n \in Nat /\ SoundCell(x, n, shifting) /\ cells[i] = ShiftedCell(x)
      BY <1>1, <3>1
    <3> HIDE DEF cells, x, shifting
    <3>4. Token(ShiftedCell(x)) = Token(x)
      BY <3>3, ShiftedCellIs
    <3>2. Token(cells[i]) = Token(c.cells[i])
      BY <3>3, <3>4 DEF x
    <3> QED
      BY <3>2 DEF Token
  <2> HIDE DEF d, cells
  <2>4. d = CacheOf(cells, c.head, c.used, FALSE, c.do_defrag)
    BY <1>1, <2>2, ShiftCellsForm
  <2>5. d.cells = cells /\ d.used = c.used
    BY <2>4 DEF CacheOf
  <2>6. SameTokens(c, d)
    BY <2>3, <2>5 DEF SameTokens
  <2>7. Cached(d, n) /\ \A s, p, t : Has(d, s, p, t) <=> Has(c, s, p, t)
    BY <2>1, <2>6, SameTokensHas DEF Cached
  <2>8. Update(c, 1) = d
    BY <1>2, <1>4 DEF d
  <2> QED
    BY <2>1, <2>5, <2>7, <2>8
<1> QED
  BY <1>1, <1>3, <1>4

-----------------------------------------------------------------------------
(* A batch beside what the slots have                                      *)

\* An entry from a to b of the batch is token t of slot s at position p.
Among(tokens, a, b, s, p, t) ==
  \E k \in a .. b : tokens[k].seq = s + 1 /\ tokens[k].pos = p /\ tokens[k].tok = t

\* Entries for positions of the context, of tokens among the first n.
Entries(tokens, n) ==
  /\ tokens \in Seq(Entry)
  /\ \A k \in 1 .. Len(tokens) :
       tokens[k].tok \in 0 .. n - 1 /\ tokens[k].pos \in 0 .. NCtx - 2 /\ tokens[k].seq - 1 \in Slots

\* Behind the first entries, no two are for the same place, and none is for one that is taken.
Once(tokens, from) ==
  \A k, l \in from + 1 .. Len(tokens) :
    tokens[k].seq = tokens[l].seq /\ tokens[k].pos = tokens[l].pos => k = l
Apart(c, tokens, from) ==
  \A k \in from + 1 .. Len(tokens) : \A t : ~Has(c, tokens[k].seq - 1, tokens[k].pos, t)

Low(c) == \A s \in Slots : \A p, t : Has(c, s, p, t) => p \in 0 .. NCtx - 2

Laid(c, tokens, from, n) ==
  Cached(c, n) /\ Low(c) /\ Entries(tokens, n) /\ Once(tokens, from) /\ Apart(c, tokens, from)

\* What is stored is what was, and some entries.
Stored(c, tokens, a, b, d) ==
  \A s \in Slots : \A p, t : Has(d, s, p, t) <=> Has(c, s, p, t) \/ Among(tokens, a, b, s, p, t)

LEMMA StoredIsLow ==
  ASSUME NEW c, Low(c), NEW n, NEW tokens, Entries(tokens, n), NEW a \in Nat \ {0}, NEW b \in Int,
         b <= Len(tokens), NEW d, Stored(c, tokens, a, b, d)
  PROVE  Low(d)
<1> SUFFICES ASSUME NEW s \in Slots, NEW p, NEW t, Has(d, s, p, t)
             PROVE  p \in 0 .. NCtx - 2
  BY DEF Low
<1>1. CASE Has(c, s, p, t)
  BY <1>1 DEF Low
<1>2. CASE Among(tokens, a, b, s, p, t)
  <2>1. PICK k \in a .. b : tokens[k].pos = p
    BY <1>2 DEF Among
  <2>2. k \in 1 .. Len(tokens)
    BY DEF Entries
  <2> QED
    BY <2>1, <2>2 DEF Entries
<1> QED
  BY <1>1, <1>2 DEF Stored

\* A slot may have a position once: the cells of all are fewer than there are.
LEMMA RoomForOne ==
  ASSUME NEW n \in Nat, NEW c, Cached(c, n), Low(c)
  PROVE  \E h \in CellIds : FreeRun(c, 1, h)
<1> DEFINE used == Used(c.cells)
           places == Slots \X (0 .. NCtx - 2)
           slotOf(i) == CHOOSE s \in Slots : c.cells[i].seqs = {s + 1}
           f == [i \in used |-> <<slotOf(i), c.cells[i].pos>>]
<1>1. ASSUME NEW i \in used
      PROVE  /\ slotOf(i) \in Slots /\ c.cells[i].seqs = {slotOf(i) + 1} /\ i \in CellIds
             /\ c.cells[i].pos \in 0 .. NCtx - 2
  <2>1. i \in CellIds /\ c.cells[i].seqs # {}
    BY DEF Used
  <2>2. \E s \in Slots : c.cells[i].seqs = {s + 1}
    BY <2>1 DEF Cached, OneSlot
  <2>3. slotOf(i) \in Slots /\ c.cells[i].seqs = {slotOf(i) + 1}
    BY <2>2
  <2> HIDE DEF slotOf
  <2>4. Has(c, slotOf(i), c.cells[i].pos, c.cells[i].tok)
    BY <2>1, <2>3 DEF Has
  <2> QED
    BY <2>1, <2>3, <2>4 DEF Low
<1>2. f \in [used -> places] /\ \A i, j \in used : f[i] = f[j] => i = j
  <2> HIDE DEF slotOf, used
  <2>1. f \in [used -> places]
    BY <1>1
  <2>2. ASSUME NEW i \in used, NEW j \in used, f[i] = f[j]
        PROVE  i = j
    <3>1. slotOf(i) = slotOf(j) /\ c.cells[i].pos = c.cells[j].pos
      BY <2>2
    <3>2. c.cells[i].seqs = c.cells[j].seqs /\ c.cells[i].seqs # {}
      BY <1>1, <3>1
    <3> QED
      BY <1>1, <3>1, <3>2 DEF Cached, Alone
  <2> QED
    BY <2>1, <2>2
<1>3. IsFiniteSet(Slots) /\ Cardinality(Slots) = NSlots
  <2>1. Slots = 0 .. 0 + NSlots - 1
    BY SizesAre DEF Slots
  <2> QED
    BY <2>1, CountInterval, SizesAre
<1>4. IsFiniteSet(0 .. NCtx - 2) /\ Cardinality(0 .. NCtx - 2) = NCtx - 1
  <2>1. 0 .. NCtx - 2 = 0 .. 0 + (NCtx - 1) - 1 /\ NCtx - 1 \in Nat
    BY SizesAre
  <2> QED
    BY <2>1, CountInterval
<1>5. IsFiniteSet(places) /\ Cardinality(places) = NSlots * (NCtx - 1)
  BY <1>3, <1>4, FS_Product
<1>6. Cardinality(used) <= NSlots * (NCtx - 1)
  <2> HIDE DEF used, f
  <2>1. f \in Injection(used, places)
    BY <1>2 DEF Injection, IsInjective
  <2> HIDE DEF places
  <2> QED
    BY <1>5, <2>1, FS_Injection
<1>7. NSlots * (NCtx - 1) < Size
  <2>1. NSlots * (NCtx - 1) = NSlots * NCtx - NSlots /\ NSlots * NCtx \in Nat
    BY SizesAre
  <2> QED
    BY <2>1, SizesAre, SlotAssumption, SizeAssumption
<1>8. used \in SUBSET CellIds /\ Cardinality(used) \in Nat
  <2>1. used \in SUBSET CellIds
    BY DEF Used
  <2> QED
    BY <2>1, CellIdsFinite
<1>9. PICK i \in CellIds : i \notin used
  <2>1. used # CellIds
    BY <1>6, <1>7, <1>8, CellIdsFinite, SizesAre, SizeAssumption
  <2> QED
    BY <1>8, <2>1
<1>10. ~(c.cells[i].pos >= 0)
  BY <1>9, CachedCell DEF Used
<1>11. i \in Int /\ i + 1 <= Size /\ i .. i + 1 - 1 = {i}
  BY SizeAssumption DEF CellIds
<1> QED
  BY <1>10, <1>11 DEF FreeRun

LEMMA AmongSplit ==
  ASSUME NEW tokens, NEW a \in Int, NEW m \in Int, NEW b \in Int, a <= m + 1, m <= b, NEW s, NEW p, NEW t
  PROVE  Among(tokens, a, b, s, p, t) <=> Among(tokens, a, m, s, p, t) \/ Among(tokens, m + 1, b, s, p, t)
<1>1. a .. b = (a .. m) \cup (m + 1 .. b)
  OBVIOUS
<1> QED
  BY <1>1 DEF Among

\* A part of a batch.
LEMMA AmongPart ==
  ASSUME NEW n, NEW tokens, Entries(tokens, n), NEW m \in Nat, NEW to \in Nat, m <= to, to <= Len(tokens)
  PROVE  LET part == SubSeq(tokens, m + 1, to)
         IN  /\ part \in Seq(Entry) /\ Len(part) = to - m
             /\ \A k \in 1 .. to - m : part[k] = tokens[m + k] /\ m + k \in 1 .. Len(tokens)
             /\ \A s, p, t : Among(part, 1, Len(part), s, p, t) <=> Among(tokens, m + 1, to, s, p, t)
<1> DEFINE part == SubSeq(tokens, m + 1, to)
<1>1. tokens \in Seq(Entry) /\ Len(tokens) \in Nat
  BY DEF Entries
<1>2. part = [k \in 1 .. to - m |-> tokens[m + k]]
  BY <1>1
<1>3. \A k \in 1 .. to - m : m + k \in 1 .. Len(tokens)
  BY <1>1
<1>4. \A k \in 1 .. to - m : tokens[m + k] \in Entry
  BY <1>1, <1>3
<1> HIDE DEF part
<1>5. part \in Seq(Entry) /\ Len(part) = to - m /\ \A k \in 1 .. to - m : part[k] = tokens[m + k]
  BY <1>2, <1>4
<1>6. ASSUME NEW s, NEW p, NEW t
      PROVE  Among(part, 1, Len(part), s, p, t) <=> Among(tokens, m + 1, to, s, p, t)
  <2>1. \A k \in 1 .. to - m : m + k \in m + 1 .. to
    OBVIOUS
  <2>2. \A k \in m + 1 .. to : k - m \in 1 .. to - m /\ part[k - m] = tokens[k]
    BY <1>5
  <2>3. ASSUME Among(part, 1, Len(part), s, p, t)
        PROVE  Among(tokens, m + 1, to, s, p, t)
    <3>1. PICK k \in 1 .. to - m : part[k].seq = s + 1 /\ part[k].pos = p /\ part[k].tok = t
      BY <1>5, <2>3 DEF Among
    <3>2. part[k] = tokens[m + k] /\ m + k \in m + 1 .. to
      BY <1>5, <2>1
    <3> QED
      BY <3>1, <3>2 DEF Among
  <2>4. ASSUME Among(tokens, m + 1, to, s, p, t)
        PROVE  Among(part, 1, Len(part), s, p, t)
    <3>1. PICK k \in m + 1 .. to : tokens[k].seq = s + 1 /\ tokens[k].pos = p /\ tokens[k].tok = t
      BY <2>4 DEF Among
    <3>2. part[k - m] = tokens[k] /\ k - m \in 1 .. Len(part)
      BY <1>5, <2>2
    <3> QED
      BY <3>1, <3>2 DEF Among
  <2> QED
    BY <2>3, <2>4
<1> QED
  BY <1>3, <1>5, <1>6 DEF part

\* What follows the entries that are stored, and a part of it.
LEMMA LaidPart ==
  ASSUME NEW n, NEW c, NEW tokens, NEW from \in Nat, Laid(c, tokens, from, n),
         NEW m \in Nat, from <= m, NEW to \in Nat, m <= to, to <= Len(tokens),
         NEW d, Cached(d, n), Stored(c, tokens, from + 1, m, d)
  PROVE  Laid(d, tokens, m, n) /\ Laid(d, SubSeq(tokens, m + 1, to), 0, n)
<1> DEFINE part == SubSeq(tokens, m + 1, to)
<1>1. Entries(tokens, n) /\ tokens \in Seq(Entry) /\ Len(tokens) \in Nat
  BY DEF Laid, Entries
<1>2. /\ part \in Seq(Entry) /\ Len(part) = to - m
      /\ \A k \in 1 .. to - m : part[k] = tokens[m + k] /\ m + k \in 1 .. Len(tokens)
  BY <1>1, AmongPart
<1>3. Low(d)
  <2>1. Low(c) /\ from + 1 \in Nat \ {0} /\ m \in Int /\ m <= Len(tokens)
    BY <1>1 DEF Laid
  <2> QED
    BY <1>1, <2>1, StoredIsLow
<1>4. Once(tokens, m)
  BY <1>1 DEF Laid, Once
<1>5. ASSUME NEW k \in m + 1 .. Len(tokens), NEW t
      PROVE  ~Has(d, tokens[k].seq - 1, tokens[k].pos, t)
  <2>1. k \in 1 .. Len(tokens) /\ k \in from + 1 .. Len(tokens)
    BY <1>1
  <2> DEFINE s == tokens[k].seq - 1
             p == tokens[k].pos
  <2>2. s \in Slots /\ s + 1 = tokens[k].seq
    <3>1. tokens[k] \in Entry /\ s \in Slots
      BY <1>1, <2>1 DEF Entries
    <3>2. tokens[k].seq \in Int
      BY <3>1 DEF Entry
    <3> QED
      BY <3>1, <3>2
  <2>3. ~Has(c, s, p, t)
    BY <2>1 DEF Laid, Apart
  <2>4. ~Among(tokens, from + 1, m, s, p, t)
    <3> SUFFICES ASSUME NEW l \in from + 1 .. m, tokens[l].seq = s + 1, tokens[l].pos = p
                 PROVE  FALSE
      BY DEF Among
    <3>1. l \in from + 1 .. Len(tokens) /\ l # k
      BY <1>1
    <3> QED
      BY <2>1, <2>2, <3>1 DEF Laid, Once
  <2> HIDE DEF s, p
  <2>5. ~Has(d, s, p, t)
    BY <2>2, <2>3, <2>4 DEF Stored
  <2> QED
    BY <2>5 DEF s, p
<1>6. Laid(d, tokens, m, n)
  BY <1>1, <1>3, <1>4, <1>5 DEF Laid, Apart
<1>7. Entries(part, n)
  BY <1>1, <1>2 DEF Entries
<1>8. \A k \in 1 .. to - m : m + k \in m + 1 .. Len(tokens)
  BY <1>1
<1>9. Once(part, 0)
  <2> SUFFICES ASSUME NEW k \in 1 .. to - m, NEW l \in 1 .. to - m, part[k].seq = part[l].seq,
                      part[k].pos = part[l].pos
               PROVE  k = l
    BY <1>2 DEF Once
  <2>1. m + k = m + l
    BY <1>2, <1>4, <1>8 DEF Once
  <2> QED
    BY <2>1
<1>10. Apart(d, part, 0)
  BY <1>2, <1>5, <1>8 DEF Apart
<1> QED
  BY <1>3, <1>6, <1>7, <1>9, <1>10 DEF Laid, part

\* Entries in free cells, one for each.
LEMMA PutHas ==
  ASSUME NEW n \in Nat, NEW c, NEW tokens, Laid(c, tokens, 0, n), Len(tokens) # 0,
         NEW h \in CellIds, FreeRun(c, Len(tokens), h),
         NEW d, Sound(d, n), d.do_defrag = FALSE, d.cells = PutCells(c, tokens, h)
  PROVE  Cached(d, n) /\ Stored(c, tokens, 1, Len(tokens), d) /\ d.used > c.used
<1> DEFINE len == Len(tokens)
<1>1. Cached(c, n) /\ Sound(c, n) /\ c.do_defrag = FALSE /\ Entries(tokens, n) /\ Low(c)
  BY DEF Laid, Cached
<1>2. tokens \in Seq(Entry) /\ len \in Nat \ {0}
  BY <1>1 DEF Entries
<1>3. ASSUME NEW k \in 1 .. len
      PROVE  /\ tokens[k].seq - 1 \in Slots /\ tokens[k].seq \in Int /\ tokens[k].seq = tokens[k].seq - 1 + 1
             /\ tokens[k].pos \in Nat /\ tokens[k].tok \in 0 .. n - 1
  <2>1. tokens[k] \in Entry /\ tokens[k].seq - 1 \in Slots /\ tokens[k].tok \in 0 .. n - 1
        /\ tokens[k].pos \in 0 .. NCtx - 2
    BY <1>1, <1>2 DEF Entries
  <2>2. tokens[k].seq \in Int
    BY <2>1 DEF Entry
  <2> QED
    BY <2>1, <2>2, SizesAre
<1>4. Sound(d, n) /\ d.do_defrag = FALSE
  OBVIOUS
<1>5. c.used \in 0 .. Size /\ d.used \in 0 .. Size /\ c.used = Cardinality(Used(c.cells))
      /\ d.used = Cardinality(Used(d.cells))
  BY <1>1, <1>4, SoundFields DEF Sound
<1>6. FreeRun(c, len, h) /\ d.cells = PutCells(c, tokens, h)
  OBVIOUS
<1>7. h \in Nat /\ h + len <= Size
  BY <1>2, <1>6, SizeAssumption DEF FreeRun, CellIds
<1> DEFINE New(i) == i - h \in 0 .. len - 1
           at(i) == i - h + 1
<1>8. ASSUME NEW i \in CellIds
      PROVE  /\ New(i) => /\ d.cells[i].pos = tokens[at(i)].pos /\ d.cells[i].seqs = {tokens[at(i)].seq}
                          /\ d.cells[i].tok = tokens[at(i)].tok
                          /\ c.cells[i].seqs = {} /\ at(i) \in 1 .. len
             /\ ~New(i) => d.cells[i] = c.cells[i]
  <2>1. d.cells[i] = IF New(i) THEN PutCell(c, tokens[at(i)], i) ELSE c.cells[i]
    BY <1>6 DEF PutCells
  <2>2. CASE New(i)
    <3>1. d.cells[i] = PutCell(c, tokens[at(i)], i)
      BY <2>1, <2>2
    <3>2. i \in h .. h + len - 1 /\ at(i) \in 1 .. len
      BY <1>2, <1>7, <2>2, SizeAssumption DEF CellIds
    <3>3. c.cells[i].seqs = {}
      BY <1>1, <1>6, <3>2, CachedCell DEF FreeRun
    <3> HIDE DEF at
    <3>4. /\ d.cells[i].pos = tokens[at(i)].pos /\ d.cells[i].seqs = {tokens[at(i)].seq}
          /\ d.cells[i].tok = tokens[at(i)].tok
      BY <3>1, CellOfFields DEF PutCell
    <3> QED
      BY <2>2, <3>2, <3>3, <3>4
  <2>3. CASE ~New(i)
    BY <2>1, <2>3
  <2> QED
    BY <2>2, <2>3
<1>9. ASSUME NEW k \in 1 .. len
      PROVE  h + k - 1 \in CellIds /\ New(h + k - 1) /\ at(h + k - 1) = k
  BY <1>2, <1>7, SizeAssumption DEF CellIds
<1>10. \A i, j \in CellIds : New(i) /\ New(j) /\ at(i) = at(j) => i = j
  BY <1>7, SizeAssumption DEF CellIds
<1> HIDE DEF New, at
<1>11. OneSlot(d.cells)
  <2> SUFFICES ASSUME NEW i \in CellIds
               PROVE  d.cells[i].seqs = {} \/ \E s \in Slots : d.cells[i].seqs = {s + 1}
    BY DEF OneSlot
  <2>1. CASE New(i)
    <3> DEFINE s == tokens[at(i)].seq - 1
    <3>1. s \in Slots /\ d.cells[i].seqs = {s + 1}
      BY <1>3, <1>8, <2>1
    <3> QED
      BY <3>1
  <2>2. CASE ~New(i)
    BY <1>1, <1>8, <2>2 DEF Cached, OneSlot
  <2> QED
    BY <2>1, <2>2
<1>12. ASSUME NEW i \in CellIds, New(i), NEW j \in CellIds, ~New(j)
      PROVE  ~(d.cells[i].seqs = d.cells[j].seqs /\ d.cells[i].pos = d.cells[j].pos)
  <2> SUFFICES ASSUME d.cells[i].seqs = d.cells[j].seqs, d.cells[i].pos = d.cells[j].pos
               PROVE  FALSE
    OBVIOUS
  <2> DEFINE k == at(i)
  <2>1. /\ k \in 1 .. len /\ c.cells[j].seqs = {tokens[k].seq} /\ c.cells[j].pos = tokens[k].pos
        /\ tokens[k].seq = tokens[k].seq - 1 + 1
    BY <1>3, <1>8, <1>12
  <2> HIDE DEF k
  <2>2. Has(c, tokens[k].seq - 1, tokens[k].pos, c.cells[j].tok)
    BY <2>1 DEF Has
  <2>3. Apart(c, tokens, 0) /\ k \in 0 + 1 .. Len(tokens)
    BY <2>1 DEF Laid
  <2> QED
    BY <2>2, <2>3 DEF Apart
<1>13. Alone(d.cells)
  <2> SUFFICES ASSUME NEW i \in CellIds, NEW j \in CellIds, d.cells[i].seqs # {},
                      d.cells[i].seqs = d.cells[j].seqs, d.cells[i].pos = d.cells[j].pos
               PROVE  i = j
    BY DEF Alone
  <2>1. CASE New(i) /\ New(j)
    <3>1. /\ at(i) \in 1 .. len /\ at(j) \in 1 .. len /\ tokens[at(i)].seq = tokens[at(j)].seq
          /\ tokens[at(i)].pos = tokens[at(j)].pos
      BY <1>8, <2>1
    <3>2. at(i) = at(j)
      <4>1. Once(tokens, 0) /\ 0 + 1 = 1
        BY DEF Laid
      <4> QED
        BY <3>1, <4>1 DEF Once
    <3> QED
      BY <1>10, <2>1, <3>2
  <2>2. CASE ~New(i) /\ ~New(j)
    BY <1>1, <1>8, <2>2 DEF Cached, Alone
  <2> QED
    BY <1>12, <2>1, <2>2
<1>14. Cached(d, n)
  BY <1>4, <1>11, <1>13 DEF Cached
<1>15. ASSUME NEW s \in Slots, NEW p, NEW t
       PROVE  Has(d, s, p, t) <=> Has(c, s, p, t) \/ Among(tokens, 1, len, s, p, t)
  <2>1. ASSUME Has(d, s, p, t)
        PROVE  Has(c, s, p, t) \/ Among(tokens, 1, len, s, p, t)
    <3>1. PICK i \in CellIds : s + 1 \in d.cells[i].seqs /\ d.cells[i].pos = p /\ d.cells[i].tok = t
      BY <2>1 DEF Has
    <3>2. CASE New(i)
      BY <1>8, <3>1, <3>2 DEF Among
    <3>3. CASE ~New(i)
      BY <1>8, <3>1, <3>3 DEF Has
    <3> QED
      BY <3>2, <3>3
  <2>2. ASSUME Has(c, s, p, t)
        PROVE  Has(d, s, p, t)
    <3>1. PICK i \in CellIds : s + 1 \in c.cells[i].seqs /\ c.cells[i].pos = p /\ c.cells[i].tok = t
      BY <2>2 DEF Has
    <3>2. ~New(i)
      BY <1>8, <3>1
    <3> QED
      BY <1>8, <3>1, <3>2 DEF Has
  <2>3. ASSUME Among(tokens, 1, len, s, p, t)
        PROVE  Has(d, s, p, t)
    <3>1. PICK k \in 1 .. len : tokens[k].seq = s + 1 /\ tokens[k].pos = p /\ tokens[k].tok = t
      BY <2>3 DEF Among
    <3>2. h + k - 1 \in CellIds /\ New(h + k - 1) /\ at(h + k - 1) = k
      BY <1>9
    <3> QED
      BY <1>8, <3>1, <3>2 DEF Has
  <2> QED
    BY <2>1, <2>2, <2>3
<1>16. d.used > c.used
  <2>1. Used(c.cells) \subseteq Used(d.cells)
    BY <1>8 DEF Used
  <2>2. 1 \in 1 .. len
    BY <1>2
  <2>3. h + 1 - 1 \in CellIds /\ New(h + 1 - 1)
    BY <1>9, <2>2
  <2>4. h + 1 - 1 \in Used(d.cells) /\ h + 1 - 1 \notin Used(c.cells)
    BY <1>8, <2>3 DEF Used
  <2>5. Used(d.cells) \in SUBSET CellIds
    BY DEF Used
  <2>6. IsFiniteSet(Used(d.cells))
    BY <2>5, CellIdsFinite
  <2> DEFINE S == Used(d.cells)
             T == Used(c.cells)
  <2> HIDE DEF S, T
  <2>7. Cardinality(T) <= Cardinality(S) /\ (Cardinality(S) = Cardinality(T) => S = T)
    BY <2>1, <2>6, CountMinus DEF S, T
  <2> QED
    BY <1>5, <2>4, <2>7 DEF S, T
<1>17. Stored(c, tokens, 1, len, d)
  BY <1>15, Zenon DEF Stored
<1> QED
  BY <1>14, <1>16, <1>17 DEF len

\* A physical batch finds its cells, or nothing changes; a single token always does.
LEMMA StoreHas ==
  ASSUME NEW n \in Nat, NEW c, NEW tokens, Laid(c, tokens, 0, n), c.has_shift = FALSE, Len(tokens) # 0
  PROVE  LET r == Store(c, tokens)
         IN  /\ r.ok \in BOOLEAN /\ Cached(r.cache, n) /\ r.cache.has_shift = FALSE
             /\ r.ok => Stored(c, tokens, 1, Len(tokens), r.cache) /\ r.cache.used > c.used
             /\ ~r.ok => /\ Stored(c, tokens, 1, 0, r.cache) /\ r.cache.used = c.used
                         /\ Len(tokens) >= 2
<1> DEFINE r == Store(c, tokens)
           d == r.cache
           len == Len(tokens)
<1>1. Cached(c, n) /\ Sound(c, n) /\ c.do_defrag = FALSE /\ Entries(tokens, n) /\ Low(c)
  BY DEF Laid, Cached
<1>2. tokens \in Seq(Entry) /\ len \in Nat \ {0}
  BY <1>1 DEF Entries
<1>3. ASSUME NEW k \in 1 .. len
      PROVE  /\ tokens[k].seq - 1 \in Slots /\ tokens[k].seq \in Int /\ tokens[k].seq = tokens[k].seq - 1 + 1
             /\ tokens[k].pos \in Nat /\ tokens[k].tok \in 0 .. n - 1
  <2>1. tokens[k] \in Entry /\ tokens[k].seq - 1 \in Slots /\ tokens[k].tok \in 0 .. n - 1
        /\ tokens[k].pos \in 0 .. NCtx - 2
    BY <1>1, <1>2 DEF Entries
  <2>2. tokens[k].seq \in Int
    BY <2>1 DEF Entry
  <2> QED
    BY <2>1, <2>2, SizesAre
<1>4. NewTokens(tokens, n)
  <2>1. \A k \in 1 .. len : tokens[k].pos \in Int /\ tokens[k].pos >= 0
    BY <1>3
  <2> QED
    BY <1>2, <1>3, <2>1 DEF NewTokens
<1>5. /\ r.ok \in BOOLEAN /\ Sound(d, n) /\ d.has_shift = FALSE /\ d.do_defrag = FALSE
      /\ r.ok => \E h \in CellIds : FreeRun(c, len, h) /\ d.cells = PutCells(c, tokens, h)
      /\ ~r.ok => d.cells = c.cells
      /\ r.ok <=> \E h \in CellIds : FreeRun(c, len, h)
  BY <1>1, <1>4, StoreIs
<1> HIDE DEF r
<1>6. c.used \in 0 .. Size /\ d.used \in 0 .. Size /\ c.used = Cardinality(Used(c.cells))
      /\ d.used = Cardinality(Used(d.cells))
  BY <1>1, <1>5, SoundFields DEF Sound
<1>7. CASE ~r.ok
  <2>1. d.cells = c.cells
    BY <1>5, <1>7
  <2>2. Cached(d, n) /\ d.used = c.used
    BY <1>1, <1>5, <1>6, <2>1 DEF Cached
  <2>3. Stored(c, tokens, 1, 0, d)
    BY <2>1 DEF Stored, Among, Has
  <2>4. len # 1
    BY <1>1, <1>5, <1>7, RoomForOne
  <2>5. \A x \in Nat \ {0} : x # 1 => x >= 2
    OBVIOUS
  <2> HIDE DEF len, d
  <2>6. len >= 2
    BY <1>2, <2>4, <2>5
  <2>7. Cached(d, n) /\ d.has_shift = FALSE
    BY <1>5, <2>2
  <2> QED
    BY <1>5, <1>7, <2>2, <2>3, <2>6, <2>7, Zenon DEF len, d, r
<1>8. CASE r.ok
  <2>1. PICK h \in CellIds : FreeRun(c, len, h) /\ d.cells = PutCells(c, tokens, h)
    BY <1>5, <1>8
  <2>2. Cached(d, n) /\ Stored(c, tokens, 1, len, d) /\ d.used > c.used
    BY <1>2, <1>5, <2>1, PutHas
  <2>3. d.has_shift = FALSE
    BY <1>5
  <2> HIDE DEF len, d
  <2> QED
    BY <1>5, <1>8, <2>2, <2>3, Zenon DEF len, d, r
<1> QED
  BY <1>7, <1>8 DEF r

\* A part of a batch that is stored, behind what is stored of it.
LEMMA StoredPart ==
  ASSUME NEW n, NEW tokens, Entries(tokens, n), NEW m \in Nat, NEW to \in Nat, m <= to, to <= Len(tokens)
  PROVE  LET part == SubSeq(tokens, m + 1, to)
         IN  \A c, d : Stored(c, part, 1, Len(part), d) => Stored(c, tokens, m + 1, to, d)
<1> DEFINE part == SubSeq(tokens, m + 1, to)
<1>1. \A s, p, t : Among(part, 1, Len(part), s, p, t) <=> Among(tokens, m + 1, to, s, p, t)
  BY AmongPart, Zenon
<1> QED
  BY <1>1, Zenon DEF Stored

LEMMA StoredMore ==
  ASSUME NEW tokens, NEW a \in Nat, NEW m \in Nat, a <= m + 1, NEW to \in Nat, m <= to, NEW c, NEW u
  PROVE  \A d : Stored(c, tokens, a, m, u) /\ Stored(u, tokens, m + 1, to, d) => Stored(c, tokens, a, to, d)
<1>1. ASSUME NEW s, NEW p, NEW t
      PROVE  Among(tokens, a, to, s, p, t) <=> Among(tokens, a, m, s, p, t) \/ Among(tokens, m + 1, to, s, p, t)
  BY AmongSplit
<1> QED
  BY <1>1, Zenon DEF Stored

\* Every part but the last is a whole physical batch.
LEMMA PartReach ==
  ASSUME NEW tokens, Len(tokens) \in Nat, NEW k \in 1 .. Parts(tokens)
  PROVE  PartTo(tokens, k) = Len(tokens) \/ PartTo(tokens, k) >= NUbatch
<1>1. Parts(tokens) \in Nat /\ NUbatch \in Nat
  BY PartsAre, SizesAre
<1>2. k \in Nat /\ 1 <= k
  BY <1>1
<1> DEFINE q == k * NUbatch
<1>3. q \in Nat /\ 1 * NUbatch <= q
  BY <1>1, <1>2, TimesMore, TimesLess
<1>4. PartTo(tokens, k) = Min({q, Len(tokens)})
  BY DEF PartTo
<1> HIDE DEF q
<1>5. PartTo(tokens, k) = IF q <= Len(tokens) THEN q ELSE Len(tokens)
  BY <1>3, <1>4, LeastOfTwo
<1> QED
  BY <1>1, <1>3, <1>5

\* So much of a batch has been stored.
StoredUpto(c, tokens, n, m, x) ==
  /\ m \in 0 .. Len(tokens) /\ Cached(x.cache, n) /\ Stored(c, tokens, 1, m, x.cache)
  /\ x.ok \in BOOLEAN /\ (m = 0 => x.cache.used = c.used) /\ (m # 0 => x.cache.used > c.used)
  /\ ~x.ok => m + 2 <= Len(tokens)
  /\ m # 0 => m = Len(tokens) \/ m >= NUbatch

\* A batch is stored as a whole, or whole physical batches of it and not the next one, which has
\* two tokens at least.
LEMMA StoreAllHas ==
  ASSUME NEW n \in Nat, NEW c, NEW tokens, Laid(c, tokens, 0, n), Len(tokens) # 0
  PROVE  LET r == StoreAll(c, tokens)
         IN  /\ r.cache.has_shift = FALSE
             /\ \E m : StoredUpto(c, tokens, n, m, r) /\ (r.ok => m = Len(tokens))
<1> DEFINE parts == Parts(tokens)
           f == StoreSteps(c, tokens)
           Reached(k, m) == /\ StoredUpto(c, tokens, n, m, f[k])
                            /\ k = 0 => f[k].ok
                            /\ k # 0 => f[k].cache.has_shift = FALSE
                            /\ f[k].ok => m = IF k = 0 THEN 0 ELSE PartTo(tokens, k)
           T == {k \in Nat : k <= parts => \E m : Reached(k, m)}
<1>1. Cached(c, n) /\ Entries(tokens, n) /\ Len(tokens) \in Nat \ {0} /\ c.used \in Int
  <2>1. Cached(c, n) /\ Entries(tokens, n) /\ Sound(c, n)
    BY DEF Laid, Cached
  <2>2. c.used \in Int
    BY <2>1, SoundFields
  <2> QED
    BY <2>1, <2>2 DEF Entries
<1>2. parts \in Nat /\ parts # 0
  BY <1>1, PartsAre
<1>3. \A k \in 0 .. parts : f[k] = StoreStep(c, tokens, f, k)
  BY <1>1, StoreStepsAre
<1> HIDE DEF f, parts
<1>4. 0 \in T
  <2>1. f[0] = [ok |-> TRUE, cache |-> c]
    <3>1. 0 \in 0 .. parts
      BY <1>2
    <3> QED
      BY <1>3, <3>1, Zenon DEF StoreStep
  <2>2. f[0].ok = TRUE /\ f[0].cache = c
    BY <2>1
  <2>3. Stored(c, tokens, 1, 0, c)
    BY DEF Stored, Among
  <2>4. StoredUpto(c, tokens, n, 0, f[0])
    <3>1. 0 \in 0 .. Len(tokens)
      BY <1>1
    <3>2. f[0].ok \in BOOLEAN /\ f[0].ok
      BY <2>2
    <3> QED
      BY <1>1, <2>2, <2>3, <3>1, <3>2, Zenon DEF StoredUpto
  <2>5. Reached(0, 0)
    BY <2>2, <2>4
  <2> QED
    BY <2>5
<1>5. ASSUME NEW k \in Nat, k \in T
      PROVE  k + 1 \in T
  <2>0. k + 1 \in Nat
    OBVIOUS
  <2> SUFFICES ASSUME k + 1 <= parts PROVE \E m : Reached(k + 1, m)
    BY <2>0, Zenon
  <2>1. k + 1 \in 1 .. parts /\ k + 1 \in 0 .. parts /\ k + 1 # 0 /\ k + 1 - 1 = k /\ k <= parts
    BY <1>2
  <2>2. PICK m : Reached(k, m)
    BY <1>5, <2>1
  <2> DEFINE part == Part(tokens, k + 1)
             to == PartTo(tokens, k + 1)
             u == Update(f[k].cache, 1)
  <2>3. f[k + 1] = IF ~f[k].ok THEN f[k] ELSE Store(u, part)
    BY <1>3, <2>1 DEF StoreStep
  <2>4. CASE ~f[k].ok
    BY <2>1, <2>2, <2>3, <2>4
  <2>5. CASE f[k].ok
    <3>1. /\ m \in Nat /\ m < to /\ to \in Nat /\ to <= Len(tokens) /\ part = SubSeq(tokens, m + 1, to)
          /\ to = Len(tokens) \/ to >= NUbatch
      <4>1. PartFrom(k + 1) \in Nat \ {0} /\ to \in Nat /\ PartFrom(k + 1) <= to /\ to <= Len(tokens)
        BY <1>1, <2>1, PartsAre DEF parts
      <4>2. PartFrom(k + 1) = m + 1 /\ m \in Nat
        <5>1. CASE k = 0
          <6>1. PartFrom(1) = 1
            BY <1>1, <1>2, PartsAre DEF parts
          <6> QED
            BY <2>2, <2>5, <5>1, <6>1
        <5>2. CASE k # 0
          <6>1. k \in 1 .. parts - 1 /\ k \in 1 .. parts
            BY <1>2, <2>1, <5>2
          <6>2. PartTo(tokens, k) + 1 = PartFrom(k + 1) /\ PartTo(tokens, k) \in Nat
            BY <1>1, <6>1, PartsAre DEF parts
          <6> QED
            BY <2>2, <2>5, <5>2, <6>2
        <5> QED
          BY <5>1, <5>2
      <4>3. to = Len(tokens) \/ to >= NUbatch
        BY <1>1, <2>1, PartReach DEF parts
      <4> HIDE DEF to
      <4> QED
        BY <4>1, <4>2, <4>3 DEF Part, to
    <3>2. Cached(u, n) /\ u.has_shift = FALSE /\ u.used = f[k].cache.used /\ Stored(c, tokens, 1, m, u)
      <4>1. Cached(f[k].cache, n) /\ Stored(c, tokens, 1, m, f[k].cache)
        BY <2>2 DEF StoredUpto
      <4>2. /\ Cached(u, n) /\ u.has_shift = FALSE /\ u.used = f[k].cache.used
            /\ \A s, p, t : Has(u, s, p, t) <=> Has(f[k].cache, s, p, t)
        BY <4>1, UpdateHas
      <4> HIDE DEF u
      <4> QED
        BY <4>1, <4>2 DEF Stored
    <3> DEFINE r == Store(u, part)
    <3>3. f[k + 1] = r
      BY <2>3, <2>5
    <3> HIDE DEF u, to, part
    <3>4. Laid(u, part, 0, n)
      <4>1. m <= to /\ 0 <= m /\ 0 + 1 = 1
        BY <3>1
      <4> QED
        BY <3>1, <3>2, <4>1, LaidPart
    <3>5. Len(part) = to - m
      BY <1>1, <3>1, AmongPart
    <3>6. /\ r.ok \in BOOLEAN /\ Cached(r.cache, n) /\ r.cache.has_shift = FALSE
          /\ r.ok => Stored(u, part, 1, Len(part), r.cache) /\ r.cache.used > u.used
          /\ ~r.ok => Stored(u, part, 1, 0, r.cache) /\ r.cache.used = u.used /\ Len(part) >= 2
      <4>1. Len(part) # 0
        BY <3>1, <3>5
      <4> QED
        BY <3>2, <3>4, <4>1, StoreHas
    <3> HIDE DEF r
    <3>7. /\ u.used \in Int /\ r.cache.used \in Int
      <4>1. Sound(u, n) /\ Sound(r.cache, n)
        BY <3>2, <3>6 DEF Cached
      <4> QED
        BY <4>1, SoundFields
    <3>8. CASE r.ok
      <4>1. Stored(c, tokens, 1, to, r.cache)
        <5>1. 1 \in Nat /\ 1 <= m + 1 /\ m <= to
          BY <3>1
        <5>2. Stored(u, part, 1, Len(part), r.cache)
          BY <3>6, <3>8
        <5>3. Stored(u, tokens, m + 1, to, r.cache)
          BY <1>1, <3>1, <5>1, <5>2, StoredPart
        <5> QED
          BY <3>1, <3>2, <5>1, <5>3, StoredMore
      <4>2. r.cache.used > c.used
        BY <1>1, <2>2, <3>2, <3>6, <3>7, <3>8 DEF StoredUpto
      <4>3. to # 0 /\ to \in 0 .. Len(tokens)
        BY <3>1
      <4>4. StoredUpto(c, tokens, n, to, r)
        BY <3>1, <3>6, <3>8, <4>1, <4>2, <4>3 DEF StoredUpto
      <4>5. Reached(k + 1, to)
        BY <2>1, <3>3, <3>6, <4>4 DEF to
      <4> QED
        BY <4>5
    <3>9. CASE ~r.ok
      <4>1. Stored(c, tokens, 1, m, r.cache)
        <5>1. Stored(u, part, 1, 0, r.cache) /\ \A s, p, t : ~Among(part, 1, 0, s, p, t)
          BY <3>6, <3>9 DEF Among
        <5> QED
          BY <3>2, <5>1 DEF Stored
      <4>2. r.cache.used = f[k].cache.used
        BY <3>2, <3>6, <3>9
      <4>3. m + 2 <= Len(tokens)
        BY <1>1, <3>1, <3>5, <3>6, <3>9
      <4>4. StoredUpto(c, tokens, n, m, r)
        BY <2>2, <3>6, <4>1, <4>2, <4>3 DEF StoredUpto
      <4>5. Reached(k + 1, m)
        BY <2>1, <3>3, <3>6, <3>9, <4>4
      <4> QED
        BY <4>5
    <3> QED
      BY <3>6, <3>8, <3>9
  <2> QED
    BY <2>2, <2>4, <2>5 DEF StoredUpto
<1> HIDE DEF T
<1>6. parts \in T
  BY <1>2, <1>4, <1>5, NatSetInduction
<1>7. PICK m : Reached(parts, m)
  BY <1>2, <1>6 DEF T
<1>8. PartTo(tokens, parts) = Len(tokens)
  BY <1>1, <1>2, PartsAre DEF parts
<1>9. StoreAll(c, tokens) = f[parts]
  BY StoreAllIs DEF f, parts
<1> QED
  BY <1>2, <1>7, <1>8, <1>9

-----------------------------------------------------------------------------
(* What a slot has, and what it believes to have                           *)

\* In the cache, or in what is still to be stored of the batch.
There(c, tokens, from, s, p, t) == Has(c, s, p, t) \/ Among(tokens, from + 1, Len(tokens), s, p, t)
Places(c, tokens, from, s) == {x \in Nat \X Int : There(c, tokens, from, s, x[1], x[2])}

\* Tokens at the first m positions and at no other.
Filled(I, m) == \A p : (\E t : <<p, t>> \in I) <=> p \in 0 .. m - 1

\* The tokens before the first one that a resize has made up.
Believed(I, tokens) ==
  \A k \in 1 .. Len(tokens) : (\A j \in 1 .. k : tokens[j] # Fill) => <<k - 1, tokens[k]>> \in I

\* A slot that computes: its prompt is known.
Started(sl) == sl.state # "idle" /\ sl.prompt # <<>>

Counted(I, sl) == \E m \in 0 .. NCtx - 1 : Filled(I, m) /\ (Started(sl) => m = sl.n_past)

Computed(I, sl) ==
  IF sl.task.cache_prompt
    THEN Len(sl.cache_tokens) = sl.n_past /\ \A k \in 1 .. sl.n_past : <<k - 1, sl.cache_tokens[k]>> \in I
    ELSE sl.cache_tokens = <<>> \/ (Len(sl.cache_tokens) >= 1 /\ sl.cache_tokens[1] = Fill)

Stands(I, sl) == Counted(I, sl) /\ Believed(I, sl.cache_tokens) /\ (Started(sl) => Computed(I, sl))

LEMMA PlacesAre ==
  ASSUME NEW c, NEW tokens, NEW from \in Nat, NEW n, Laid(c, tokens, from, n), NEW s \in Slots
  PROVE  \A p, t : <<p, t>> \in Places(c, tokens, from, s) <=> There(c, tokens, from, s, p, t)
<1> SUFFICES ASSUME NEW p, NEW t, There(c, tokens, from, s, p, t)
             PROVE  p \in Nat /\ t \in Int
  BY DEF Places
<1>1. CASE Has(c, s, p, t)
  <2>1. PICK i \in CellIds : s + 1 \in c.cells[i].seqs /\ c.cells[i].pos = p /\ c.cells[i].tok = t
    BY <1>1 DEF Has
  <2>2. Cached(c, n)
    BY DEF Laid
  <2> QED
    BY <2>1, <2>2, CachedCell
<1>2. CASE Among(tokens, from + 1, Len(tokens), s, p, t)
  <2>1. PICK k \in from + 1 .. Len(tokens) : tokens[k].pos = p /\ tokens[k].tok = t
    BY <1>2 DEF Among
  <2>2. Entries(tokens, n) /\ Len(tokens) \in Nat
    BY DEF Laid, Entries
  <2>3. k \in 1 .. Len(tokens)
    BY <2>2
  <2> QED
    BY <2>1, <2>2, <2>3, SizesAre DEF Entries
<1> QED
  BY <1>1, <1>2 DEF There

\* A slot that is released, or not started, keeps what it has.
LEMMA RestStands ==
  ASSUME NEW I, NEW sl, Stands(I, sl), NEW r, r.cache_tokens = sl.cache_tokens, ~Started(r)
  PROVE  Stands(I, r)
BY DEF Stands, Counted

\* What is computed is believed.
LEMMA ComputedBelieved ==
  ASSUME NEW I, NEW sl, sl.cache_tokens \in Seq(Int), Computed(I, sl)
  PROVE  Believed(I, sl.cache_tokens)
<1>1. CASE sl.task.cache_prompt
  BY <1>1 DEF Computed, Believed
<1>2. CASE ~sl.task.cache_prompt
  <2> SUFFICES ASSUME NEW k \in 1 .. Len(sl.cache_tokens)
               PROVE  1 \in 1 .. k /\ sl.cache_tokens[1] = Fill
    BY Zenon DEF Believed
  <2>1. Len(sl.cache_tokens) # 0 => sl.cache_tokens # <<>>
    OBVIOUS
  <2>2. Len(sl.cache_tokens) \in Nat
    OBVIOUS
  <2> QED
    BY <1>2, <2>1, <2>2 DEF Computed
<1> QED
  BY <1>1, <1>2

\* The tokens behind those that are discarded take their places.
LEMMA FilledShift ==
  ASSUME NEW I, NEW J, NEW m \in Nat, NEW keep \in Nat, NEW by \in Nat, keep + by <= m, Filled(I, m),
         \A p, t : <<p, t>> \in J <=> \/ p \in 0 .. keep - 1 /\ <<p, t>> \in I
                                      \/ p \in Nat /\ p >= keep /\ <<p + by, t>> \in I
  PROVE  Filled(J, m - by)
<1> SUFFICES ASSUME NEW p
             PROVE  (\E t : <<p, t>> \in J) <=> p \in 0 .. m - by - 1
  BY DEF Filled
<1>1. ASSUME NEW t, <<p, t>> \in J
      PROVE  p \in 0 .. m - by - 1
  <2>1. CASE p \in 0 .. keep - 1
    BY <2>1
  <2>2. CASE p \in Nat /\ p >= keep /\ <<p + by, t>> \in I
    <3>1. p + by \in 0 .. m - 1
      BY <2>2 DEF Filled
    <3> QED
      BY <2>2, <3>1
  <2> QED
    BY <1>1, <2>1, <2>2
<1>2. ASSUME p \in 0 .. m - by - 1
      PROVE  \E t : <<p, t>> \in J
  <2>1. CASE p < keep
    <3>1. p \in 0 .. m - 1 /\ p \in 0 .. keep - 1
      BY <1>2, <2>1
    <3> QED
      BY <3>1 DEF Filled
  <2>2. CASE ~(p < keep)
    <3>1. p + by \in 0 .. m - 1 /\ p \in Nat /\ p >= keep
      BY <1>2, <2>2
    <3> QED
      BY <3>1 DEF Filled
  <2> QED
    BY <2>1, <2>2
<1> QED
  BY <1>1, <1>2

\* The tokens from a place on are given up, and the next ones come behind the rest.
LEMMA FilledNext ==
  ASSUME NEW I, NEW J, NEW m \in Nat, NEW k \in Nat, k <= m, NEW new \in Nat, NEW tok, Filled(I, m),
         \A p, t : <<p, t>> \in J <=> \/ p \in 0 .. k - 1 /\ <<p, t>> \in I
                                      \/ p \in k .. k + new - 1 /\ t = tok[p]
  PROVE  Filled(J, k + new)
<1> SUFFICES ASSUME NEW p
             PROVE  (\E t : <<p, t>> \in J) <=> p \in 0 .. (k + new) - 1
  BY DEF Filled
<1>1. p \in 0 .. (k + new) - 1 <=> p \in 0 .. k - 1 \/ p \in k .. k + new - 1
  OBVIOUS
<1>2. p \in 0 .. k - 1 => \E t : <<p, t>> \in I
  <2>1. p \in 0 .. k - 1 => p \in 0 .. m - 1
    OBVIOUS
  <2> QED
    BY <2>1 DEF Filled
<1> QED
  BY <1>1, <1>2

\* The token that was sampled last is kept by everything but a sample.
LEMMA SampledKept ==
  ASSUME NEW sl \in SlotRecords
  PROVE  /\ Release(sl).sampled = sl.sampled /\ Release(sl).task = sl.task
         /\ \A x : WithTokens(sl, x).sampled = sl.sampled /\ WithLaunch(sl, x).sampled = sl.sampled
         /\ \A x, y : WithPast(sl, x, y).sampled = sl.sampled
         /\ \A x, y, z : WithSampled(sl, x, y, z).sampled = sl.sampled
         /\ \A x, y, z : WithPrompt(sl, x, y, z).sampled = sl.sampled /\ WithPrompt(sl, x, y, z).task = y
         /\ \A x, y, z, u, v : WithPart(sl, x, y, z, u, v).sampled = sl.sampled
<1>1. Release(sl).sampled = sl.sampled /\ Release(sl).task = sl.task
  <2>1. Release(sl) = WithState(sl, "idle")
    BY Zenon DEF Release, WithState, SetState
  <2> QED
    BY <2>1, SlotForms, SlotOfFields
<1>2. ASSUME NEW x
      PROVE  WithTokens(sl, x).sampled = sl.sampled /\ WithLaunch(sl, x).sampled = sl.sampled
  BY SlotForms, SlotOfFields
<1>3. ASSUME NEW x, NEW y
      PROVE  WithPast(sl, x, y).sampled = sl.sampled
  BY SlotForms, SlotOfFields
<1>4. ASSUME NEW x, NEW y, NEW z
      PROVE  /\ WithSampled(sl, x, y, z).sampled = sl.sampled
             /\ WithPrompt(sl, x, y, z).sampled = sl.sampled /\ WithPrompt(sl, x, y, z).task = y
  BY SlotForms, SlotOfFields
<1>5. ASSUME NEW x, NEW y, NEW z, NEW u, NEW v
      PROVE  WithPart(sl, x, y, z, u, v).sampled = sl.sampled
  BY SlotForms, SlotOfFields
<1> QED
  BY <1>1, <1>2, <1>3, <1>4, <1>5

\* What is known of a slot's tokens and of its request: the tokens are among the first n, those of
\* a prompt are none that a resize makes up, and a shift does not drop more than there is.
Known(sl, n) ==
  /\ sl.sampled \in 0 .. n - 1
  /\ sl.state # "idle" /\ sl.prompt = <<>> => sl.task \in Requests
  /\ Started(sl) => /\ sl.task.n_keep + AddBos + sl.task.n_discard <= NCtx - 1
                    /\ \A k \in 1 .. Len(sl.prompt) : sl.prompt[k] \in 1 .. n - 1

LEMMA ShiftFits ==
  ASSUME NEW sl, SlotGood(sl), ShiftDue(sl), SmallDiscards, NEW n, Known(sl, n)
  PROVE  ShiftKeep(sl) \in Nat /\ ShiftBy(sl, 0) \in Nat \ {0} /\ ShiftKeep(sl) + ShiftBy(sl, 0) <= sl.n_past
         /\ sl.n_past = NCtx - 1 /\ Started(sl)
<1> DEFINE keep == ShiftKeep(sl)
           by == ShiftBy(sl, 0)
           past == sl.n_past
<1>1. /\ sl.state \in {"done", "generating"} /\ past = NCtx - 1 /\ ShiftEnd(sl, 0) = past
      /\ keep \in 0 .. NCtx - 3 /\ by \in Nat \ {0}
  BY ShiftByIs
<1>2. Started(sl)
  BY <1>1 DEF Started, SlotGood
<1>3. keep + sl.task.n_discard <= NCtx - 1 /\ sl.task.n_discard \in Nat
  <2>1. GoodTask(sl.task)
    BY <1>1 DEF SlotGood
  <2>2. sl.task.n_discard \in Nat
    BY <2>1 DEF GoodTask, Completions
  <2> QED
    BY <1>2, <2>2 DEF Known, ShiftKeep
<1>4. by = IF sl.task.n_discard # 0 THEN sl.task.n_discard ELSE (past - keep) \div 2
  BY <1>1 DEF ShiftBy
<1> HIDE DEF keep, by, past
<1>5. NCtx \in Nat /\ NCtx > 4
  BY SizesAre
<1>6. CASE sl.task.n_discard # 0
  BY <1>1, <1>2, <1>3, <1>4, <1>5, <1>6 DEF keep, by, past
<1>7. CASE sl.task.n_discard = 0
  <2>1. by = (past - keep) \div 2 /\ past - keep \in Nat
    BY <1>1, <1>4, <1>5, <1>7
  <2>2. (past - keep) \div 2 <= past - keep
    BY <2>1
  <2>3. keep + by <= past
    BY <1>1, <1>5, <2>1, <2>2
  <2> QED
    BY <1>1, <1>2, <1>5, <2>3 DEF keep, by, past
<1> QED
  BY <1>6, <1>7

\* A shifted slot stands as before, with fewer tokens.
LEMMA ShiftStands ==
  ASSUME NEW sl, SlotGood(sl), ShiftDue(sl), SmallDiscards, NEW n, Known(sl, n), NEW I, Stands(I, sl), NEW J,
         \A p, t : <<p, t>> \in J <=> \/ p \in 0 .. ShiftKeep(sl) - 1 /\ <<p, t>> \in I
                                      \/ p \in Nat /\ p >= ShiftKeep(sl) /\ <<p + ShiftBy(sl, 0), t>> \in I
  PROVE  Stands(J, ShiftSlot(sl, 0)) /\ Known(ShiftSlot(sl, 0), n)
<1> DEFINE keep == ShiftKeep(sl)
           by == ShiftBy(sl, 0)
           past == sl.n_past
           r == ShiftSlot(sl, 0)
           tokens == sl.cache_tokens
<1>1. keep \in Nat /\ by \in Nat \ {0} /\ keep + by <= past /\ past = NCtx - 1 /\ Started(sl)
  BY ShiftFits
<1>2. /\ SlotGood(r) /\ r.state = sl.state /\ r.prompt = sl.prompt /\ r.task = sl.task /\ r.n_past = past - by
      /\ r.cache_tokens = IF sl.task.cache_prompt THEN ShiftTokens(sl, 0) ELSE tokens
  BY ShiftIsGood
<1>3. r.sampled = sl.sampled
  BY SampledKept DEF ShiftSlot, SlotGood
<1>4. tokens \in Seq(Int) /\ r.cache_tokens \in Seq(Int) /\ NCtx \in Nat
  BY <1>2, SlotFields, SizesAre DEF SlotGood
<1> HIDE DEF r
<1>5. Known(r, n)
  BY <1>2, <1>3 DEF Known, Started
<1>6. Filled(I, past) /\ Computed(I, sl)
  BY <1>1 DEF Stands, Counted
<1>7. Filled(J, past - by)
  <2>1. past \in Nat /\ by \in Nat
    BY <1>1, <1>4
  <2> HIDE DEF keep, by, past
  <2> QED
    BY <1>1, <1>6, <2>1, FilledShift DEF keep, by
<1>8. Started(r) /\ past - by \in 0 .. NCtx - 1
  BY <1>1, <1>2, <1>4 DEF Started
<1>9. Counted(J, r)
  BY <1>2, <1>7, <1>8 DEF Counted
<1>10. Computed(J, r)
  <2>1. CASE ~sl.task.cache_prompt
    BY <1>2, <1>6, <2>1 DEF Computed
  <2>2. CASE sl.task.cache_prompt
    <3>0. keep \in Nat /\ by \in Nat /\ past \in Nat /\ keep + by <= past
      BY <1>1, <1>4
    <3>1. Len(tokens) = past /\ \A k \in 1 .. past : <<k - 1, tokens[k]>> \in I
      BY <1>6, <2>2 DEF Computed
    <3>2. /\ Len(r.cache_tokens) = past - by
          /\ \A k \in 1 .. past - by : r.cache_tokens[k] = tokens[IF k > keep THEN k + by ELSE k]
      BY <1>1, <1>2, <1>8, <2>2, <3>1, ShiftTokensIs
    <3>3. ASSUME NEW k \in 1 .. past - by
          PROVE  <<k - 1, r.cache_tokens[k]>> \in J
      <4> HIDE DEF keep, by, past, tokens
      <4>1. CASE k > keep
        <5>1. k + by \in 1 .. past /\ (k + by) - 1 = (k - 1) + by /\ k - 1 \in Nat /\ k - 1 >= keep
          BY <3>0, <4>1
        <5>2. r.cache_tokens[k] = tokens[k + by]
          BY <3>2, <4>1
        <5>3. <<(k + by) - 1, tokens[k + by]>> \in I
          BY <3>1, <5>1
        <5> QED
          BY <5>1, <5>2, <5>3 DEF keep, by
      <4>2. CASE ~(k > keep)
        <5>1. r.cache_tokens[k] = tokens[k] /\ k \in 1 .. past /\ k - 1 \in 0 .. keep - 1
          BY <3>0, <3>2, <4>2
        <5>2. <<k - 1, tokens[k]>> \in I
          BY <3>1, <5>1
        <5> QED
          BY <5>1, <5>2 DEF keep, by
      <4> QED
        BY <4>1, <4>2
    <3> QED
      BY <1>2, <2>2, <3>2, <3>3 DEF Computed
  <2> QED
    BY <2>1, <2>2
<1>11. Stands(J, r)
  BY <1>4, <1>9, <1>10, ComputedBelieved DEF Stands
<1> QED
  BY <1>5, <1>11 DEF r

\* A slot that adds its sampled token.
LEMMA SampledStands ==
  ASSUME NEW sl, SlotGood(sl), sl.state = "generating", SmallDiscards, sl.n_past <= NCtx - 2,
         NEW n, Known(sl, n), NEW I, Stands(I, sl), NEW i \in Int, NEW J,
         \A p, t : <<p, t>> \in J <=> <<p, t>> \in I \/ (p = sl.n_past /\ t = sl.sampled)
  PROVE  /\ Stands(J, SampledSlot(sl, i)) /\ Known(SampledSlot(sl, i), n)
         /\ Filled(I, sl.n_past) /\ sl.n_past \in 0 .. NCtx - 2
<1> DEFINE past == sl.n_past
           r == SampledSlot(sl, i)
           tokens == sl.cache_tokens
<1>1. /\ SlotGood(r) /\ r.state = "generating" /\ r.prompt = sl.prompt /\ r.task = sl.task /\ r.n_past = past + 1
      /\ r.cache_tokens = IF sl.task.cache_prompt THEN Append(tokens, sl.sampled) ELSE tokens
  BY SampledIsGood
<1>2. r.sampled = sl.sampled
  BY SampledKept DEF SampledSlot, SlotGood
<1>3. tokens \in Seq(Int) /\ r.cache_tokens \in Seq(Int) /\ NCtx \in Nat /\ past \in 0 .. NCtx - 1 /\ sl.sampled \in Int
  BY <1>1, SlotFields, SizesAre DEF SlotGood
<1> HIDE DEF r
<1>4. past \in 0 .. NCtx - 2 /\ past \in Nat
  BY <1>3
<1>5. Started(sl)
  BY DEF Started, SlotGood
<1>6. Known(r, n) /\ Started(r)
  BY <1>1, <1>2, <1>5 DEF Known, Started
<1>7. Filled(I, past) /\ Computed(I, sl)
  BY <1>5 DEF Stands, Counted
<1> HIDE DEF past
<1>8. Filled(J, past + 1)
  <2> DEFINE tok == [p \in {past} |-> sl.sampled]
  <2>1. past .. past + 1 - 1 = {past} /\ tok[past] = sl.sampled
    BY <1>4
  <2> HIDE DEF tok
  <2>2. \A p, t : <<p, t>> \in I => p \in 0 .. past - 1
    BY <1>7 DEF Filled
  <2>3. \A p, t : <<p, t>> \in J <=> \/ p \in 0 .. past - 1 /\ <<p, t>> \in I
                                     \/ p \in past .. past + 1 - 1 /\ t = tok[p]
    BY <2>1, <2>2 DEF past
  <2>4. past <= past /\ 1 \in Nat
    BY <1>4
  <2> QED
    BY <1>4, <1>7, <2>3, <2>4, FilledNext
<1>9. Counted(J, r)
  <2>1. past + 1 \in 0 .. NCtx - 1
    BY <1>3, <1>4
  <2> QED
    BY <1>1, <1>8, <2>1 DEF Counted
<1>10. Computed(J, r)
  <2>1. CASE ~sl.task.cache_prompt
    BY <1>1, <1>7, <2>1 DEF Computed
  <2>2. CASE sl.task.cache_prompt
    <3>1. Len(tokens) = past /\ \A k \in 1 .. past : <<k - 1, tokens[k]>> \in I
      BY <1>7, <2>2 DEF Computed, past
    <3>2. r.cache_tokens = Append(tokens, sl.sampled)
      BY <1>1, <2>2
    <3> HIDE DEF tokens
    <3>3. /\ Len(r.cache_tokens) = past + 1 /\ r.cache_tokens[past + 1] = sl.sampled
          /\ \A k \in 1 .. past : r.cache_tokens[k] = tokens[k]
      BY <1>3, <3>1, <3>2
    <3>4. ASSUME NEW k \in 1 .. past + 1
          PROVE  <<k - 1, r.cache_tokens[k]>> \in J
      <4>1. CASE k = past + 1
        <5>1. k - 1 = past
          BY <1>4, <4>1
        <5> QED
          BY <3>3, <4>1, <5>1 DEF past
      <4>2. CASE k # past + 1
        <5>1. k \in 1 .. past
          BY <1>4, <4>2
        <5> QED
          BY <3>1, <3>3, <5>1
      <4> QED
        BY <4>1, <4>2
    <3> QED
      BY <1>1, <2>2, <3>3, <3>4 DEF Computed, past
  <2> QED
    BY <2>1, <2>2
<1>11. Stands(J, r)
  BY <1>3, <1>9, <1>10, ComputedBelieved DEF Stands
<1> QED
  BY <1>4, <1>6, <1>7, <1>11 DEF r, past

\* What a shift keeps of the context of a request.
Kept(r) == Min({NCtx - 4, IF r.n_keep < 0 THEN 0 + Len(r.prompt) + 3 ELSE r.n_keep})

\* What a shift keeps and what it drops are no more than a full slot has.
RoomToShift == \A r \in Requests : Kept(r) + AddBos + r.n_discard <= NCtx - 1

LEMMA KeptIs ==
  ASSUME NEW r \in Requests
  PROVE  Kept(r) \in 0 .. NCtx - 4
<1> DEFINE m == IF r.n_keep < 0 THEN 0 + Len(r.prompt) + 3 ELSE r.n_keep
           c == NCtx - 4
<1>1. m \in Nat /\ c \in Nat
  <2>1. r.prompt \in Seq(Int) /\ r.n_keep \in Int
    BY SlotAssumption DEF Completions
  <2> QED
    BY <2>1, SizesAre
<1>2. Kept(r) = Min({c, m})
  BY DEF Kept
<1> HIDE DEF m, c
<1>3. Kept(r) = IF c <= m THEN c ELSE m
  BY <1>1, <1>2, LeastOfTwo
<1> QED
  BY <1>1, <1>3 DEF c

LEMMA RoomMeansSmall ==
  RoomToShift => SmallDiscards
<1> SUFFICES ASSUME NEW r \in Requests, Kept(r) + AddBos + r.n_discard <= NCtx - 1
             PROVE  r.n_discard <= NCtx - 1
  BY DEF RoomToShift, SmallDiscards
<1>1. Kept(r) \in Nat /\ r.n_discard \in Nat
  BY KeptIs, SlotAssumption, SizesAre DEF Completions
<1> QED
  BY <1>1, SizesAre

\* The tokens of the prompts and of the sampler are among the first n, and the invalid one is not;
\* no prompt has the one that a resize makes up.
InVocabulary(n) ==
  /\ n \in Nat \ {0} /\ Sampled \subseteq 0 .. n - 1 /\ InvalidToken \notin 0 .. n - 1
  /\ \A r \in Requests : \A k \in 1 .. Len(r.prompt) : r.prompt[k] \in 1 .. n - 1

\* A prompt may start behind what the slot has of it.
Reusable(I, sl) ==
  /\ \E m \in Nat : sl.n_past <= m /\ Filled(I, m)
  /\ IF sl.task.cache_prompt
       THEN sl.n_past <= Len(sl.cache_tokens) /\ \A k \in 1 .. sl.n_past : <<k - 1, sl.cache_tokens[k]>> \in I
       ELSE \/ sl.n_past = 0 \/ sl.cache_tokens = <<>>
            \/ Len(sl.cache_tokens) >= 1 /\ sl.cache_tokens[1] = Fill

LEMMA ToComputeStands ==
  ASSUME NEW sl, SlotGood(sl), sl.state = "prompt", RoomToShift, NEW n, InVocabulary(n), Known(sl, n),
         NEW I, Stands(I, sl)
  PROVE  LET r == ToCompute(sl, 0)
         IN  /\ r.state = "idle" => Stands(I, r) /\ Known(r, n)
             /\ r.state = "prompt" => Reusable(I, r) /\ Known(r, n) /\ Started(r)
<1> DEFINE r == ToCompute(sl, 0)
           past == r.n_past
           tokens == sl.cache_tokens
<1>1. CASE sl.prompt # <<>>
  <2>1. r = sl /\ Started(sl)
    BY <1>1 DEF ToCompute, Started
  <2>2. sl.n_past \in Nat /\ Filled(I, sl.n_past) /\ Computed(I, sl)
    BY <2>1 DEF Stands, Counted, SlotGood
  <2>3. sl.task.cache_prompt => sl.n_past <= Len(sl.cache_tokens)
    BY <2>2 DEF Computed
  <2>4. sl.n_past <= sl.n_past
    BY <2>2
  <2>5. Reusable(I, sl)
    BY <2>2, <2>3, <2>4, Zenon DEF Reusable, Computed
  <2> QED
    BY <2>1, <2>5
<1>2. CASE sl.prompt = <<>>
  <2>1. r = Tokenized(sl, 0)
    BY <1>2 DEF ToCompute
  <2>2. sl.task \in Requests /\ sl.task \in Completions
    BY <1>2, SlotAssumption DEF Known
  <2>3. tokens \in Seq(Int) /\ sl \in SlotRecords
    BY SlotFields DEF SlotGood
  <2>4. CASE Refused(sl, 0)
    <3>1. r = Release(sl)
      BY <2>1, <2>3, <2>4, TokenizedIs, ReleaseIsGood
    <3>2. r.state = "idle" /\ r.cache_tokens = tokens /\ r.sampled = sl.sampled
      BY <2>3, <3>1, ReleaseIsGood, SampledKept
    <3> HIDE DEF r
    <3>3. ~Started(r) /\ Known(r, n)
      BY <3>2 DEF Started, Known
    <3>4. Stands(I, r)
      BY <3>2, <3>3, RestStands
    <3> QED
      BY <3>2, <3>3, <3>4 DEF r
  <2>5. CASE ~Refused(sl, 0)
    <3>1. /\ SlotGood(r) /\ r.cache_tokens = tokens /\ r.state = "prompt" /\ r.prompt = TokenizedPrompt(sl, 0)
          /\ r.prompt # <<>> /\ r.task.cache_prompt = sl.task.cache_prompt
          /\ ~r.task.cache_prompt => past = 0
          /\ past <= Len(tokens)
          /\ r.task.cache_prompt => \A k \in 1 .. past : tokens[k] = r.prompt[k]
          /\ \A k \in 1 .. Len(r.prompt) : \E j \in 1 .. Len(sl.task.prompt) : r.prompt[k] = sl.task.prompt[j]
      BY <2>1, <2>5, TokenizedIsGood
    <3>2. r.sampled = sl.sampled /\ r.task = WithKeep(sl.task, Kept(sl.task))
      <4>1. r = WithPrompt(sl, TokenizedPrompt(sl, 0), WithKeep(sl.task, TokenizedKeep(sl, 0)), TokenizedPast(sl, 0))
        BY <2>1, <2>3, <2>5, TokenizedIs
      <4>2. TokenizedKeep(sl, 0) = Kept(sl.task)
        BY DEF TokenizedKeep, Kept
      <4> HIDE DEF r
      <4> QED
        BY <2>3, <4>1, <4>2, SampledKept
    <3>3. r.task.n_keep = Kept(sl.task) /\ r.task.n_discard = sl.task.n_discard
      <4>1. Kept(sl.task) \in Int
        BY <2>2, KeptIs, SizesAre
      <4> HIDE DEF r
      <4> QED
        BY <2>2, <3>2, <4>1, WithKeepIs
    <3> HIDE DEF r, tokens
    <3>4. Started(r)
      BY <3>1 DEF Started
    <3>5. \A k \in 1 .. Len(r.prompt) : r.prompt[k] \in 1 .. n - 1
      BY <2>2, <3>1 DEF InVocabulary
    <3>6. Known(r, n)
      <4>1. r.task.n_keep + AddBos + r.task.n_discard <= NCtx - 1
        BY <2>2, <3>3 DEF RoomToShift
      <4> QED
        BY <3>1, <3>2, <3>5, <4>1, Zenon DEF Known
    <3>7. past \in Nat /\ past <= Len(r.prompt) /\ Len(r.prompt) \in Nat
      <4>1. past \in Nat /\ past < Len(r.prompt) /\ r.prompt \in Seq(Int)
        BY <3>1, SlotFields DEF SlotGood
      <4> QED
        BY <4>1
    <3>8. r.task.cache_prompt => \A k \in 1 .. past : <<k - 1, tokens[k]>> \in I
      <4> SUFFICES ASSUME r.task.cache_prompt, NEW k \in 1 .. past
                   PROVE  <<k - 1, tokens[k]>> \in I
        OBVIOUS
      <4>1. \A j \in 1 .. k : tokens[j] # Fill
        <5> SUFFICES ASSUME NEW j \in 1 .. k
                     PROVE  tokens[j] # Fill
          OBVIOUS
        <5>1. j \in 1 .. past /\ j \in 1 .. Len(r.prompt)
          BY <3>7
        <5>2. tokens[j] = r.prompt[j] /\ r.prompt[j] \in 1 .. n - 1 /\ n \in Nat
          BY <3>1, <3>5, <5>1 DEF InVocabulary
        <5> QED
          BY <5>2 DEF Fill
      <4>2. k \in 1 .. Len(tokens)
        BY <2>3, <3>1, <3>7 DEF tokens
      <4> QED
        BY <4>1, <4>2 DEF Stands, Believed, tokens
    <3>9. PICK m \in 0 .. NCtx - 1 : Filled(I, m)
      BY DEF Stands, Counted
    <3>10. m \in Nat /\ past <= m
      <4>1. m \in Nat
        BY <3>9, SizesAre
      <4>2. CASE past = 0
        BY <4>1, <4>2
      <4>3. CASE past # 0
        <5>1. r.task.cache_prompt /\ past \in 1 .. past
          BY <3>1, <3>7, <4>3
        <5>2. <<past - 1, tokens[past]>> \in I
          BY <3>8, <5>1
        <5>3. past - 1 \in 0 .. m - 1
          BY <3>9, <5>2 DEF Filled
        <5> QED
          BY <3>7, <4>1, <5>3
      <4> QED
        BY <4>2, <4>3
    <3>11. Reusable(I, r)
      BY <3>1, <3>8, <3>9, <3>10, Zenon DEF Reusable
    <3> QED
      BY <3>1, <3>4, <3>6, <3>11 DEF r
  <2> QED
    BY <2>4, <2>5
<1> QED
  BY <1>1, <1>2

\* A slot that adds a part of its prompt.
LEMMA PartStands ==
  ASSUME NEW sl, SlotGood(sl), sl.state = "prompt", sl.prompt # <<>>, SmallDiscards,
         NEW tokens, Len(tokens) \in Nat, NEW n, Known(sl, n), NEW I, Reusable(I, sl), NEW J,
         \A p, t : <<p, t>> \in J <=> \/ p \in 0 .. sl.n_past - 1 /\ <<p, t>> \in I
                                      \/ /\ p \in sl.n_past .. sl.n_past + PartLen(sl, tokens) - 1
                                         /\ t = sl.prompt[p + 1]
  PROVE  LET r == PartSlot(sl, PartLen(sl, tokens), Len(tokens) + PartLen(sl, tokens) - 1)
         IN  Stands(J, r) /\ Known(r, n)
<1> DEFINE past == sl.n_past
           len == PartLen(sl, tokens)
           r == PartSlot(sl, len, Len(tokens) + len - 1)
           old == sl.cache_tokens
           new == PartNew(sl, len)
           kept == Resize(old, past)
<1>1. /\ len \in Nat /\ past + len <= Len(sl.prompt) /\ past \in Nat /\ new \in Seq(Int) /\ Len(new) = len
      /\ \A k \in 1 .. len : new[k] = sl.prompt[past + k]
  BY PartLenIs
<1>2. /\ SlotGood(r) /\ r.prompt = sl.prompt /\ r.task = sl.task /\ r.n_past = past + len
      /\ r.cache_tokens = kept \o IF sl.task.cache_prompt THEN new ELSE <<>>
      /\ r.state \in {"done", "prompt"}
  BY PartIsGood
<1>3. r.sampled = sl.sampled
  BY SampledKept DEF PartSlot, SlotGood
<1>4. /\ old \in Seq(Int) /\ r.cache_tokens \in Seq(Int) /\ NCtx \in Nat /\ Len(sl.prompt) \in Nat
      /\ Len(sl.prompt) < NCtx
  BY <1>2, SlotFields, SizesAre DEF SlotGood
<1> HIDE DEF r, len, new
<1>5. Started(sl) /\ Started(r) /\ Known(r, n)
  BY <1>2, <1>3 DEF Known, Started
<1>6. /\ kept \in Seq(Int) /\ Len(kept) = past
      /\ \A k \in 1 .. past : kept[k] = IF k <= Len(old) THEN old[k] ELSE Fill
  <2>1. old \in Seq(Int) /\ past \in Nat
    BY <1>1, <1>4
  <2> HIDE DEF old, past
  <2> QED
    BY <2>1, ResizeIs
<1> HIDE DEF kept, old, past
<1>7. PICK m \in Nat : past <= m /\ Filled(I, m)
  BY DEF Reusable, past
<1>8. Filled(J, past + len)
  <2> DEFINE tok == [p \in Nat |-> sl.prompt[p + 1]]
  <2>1. \A p, t : <<p, t>> \in J <=> \/ p \in 0 .. past - 1 /\ <<p, t>> \in I
                                     \/ p \in past .. past + len - 1 /\ t = tok[p]
    <3>1. \A p \in past .. past + len - 1 : tok[p] = sl.prompt[p + 1]
      BY <1>1
    <3> HIDE DEF tok
    <3> QED
      BY <3>1 DEF past, len
  <2> HIDE DEF tok
  <2>2. past \in Nat /\ len \in Nat /\ m \in Nat /\ past <= m /\ Filled(I, m)
    BY <1>1, <1>7
  <2> QED
    BY <2>1, <2>2, FilledNext, Zenon
<1>9. Counted(J, r)
  <2>1. past + len \in 0 .. NCtx - 1
    BY <1>1, <1>4
  <2> QED
    BY <1>2, <1>8, <2>1 DEF Counted
<1>10. Computed(J, r)
  <2>1. CASE sl.task.cache_prompt
    <3>1. r.cache_tokens = kept \o new /\ past <= Len(old) /\ \A k \in 1 .. past : <<k - 1, old[k]>> \in I
      BY <1>2, <2>1 DEF Reusable, past, old
    <3>2. /\ Len(r.cache_tokens) = past + len
          /\ \A k \in 1 .. past : r.cache_tokens[k] = kept[k]
          /\ \A k \in 1 .. len : r.cache_tokens[past + k] = new[k]
      <4>1. /\ Len(kept \o new) = Len(kept) + Len(new)
            /\ \A k \in 1 .. Len(kept) : (kept \o new)[k] = kept[k]
            /\ \A k \in 1 .. Len(new) : (kept \o new)[Len(kept) + k] = new[k]
        <5> DEFINE ka == Len(kept)
                   na == Len(new)
                   u == kept \o new
        <5>0. kept \in Seq(Int) /\ new \in Seq(Int)
          BY <1>1, <1>6
        <5>1. /\ Len(u) = ka + na
              /\ \A k \in 1 .. ka + na : u[k] = IF k <= ka THEN kept[k] ELSE new[k - ka]
          BY <5>0, ConcatProperties
        <5>2. ka \in Nat /\ na \in Nat
          BY <1>1, <1>6
        <5> HIDE DEF ka, na, u
        <5>3. \A k \in 1 .. ka : k \in 1 .. ka + na /\ k <= ka
          BY <5>2
        <5>4. \A k \in 1 .. na : ka + k \in 1 .. ka + na /\ ~(ka + k <= ka) /\ (ka + k) - ka = k
          BY <5>2
        <5>5. \A k \in 1 .. ka : u[k] = kept[k]
          BY <5>1, <5>3
        <5>6. \A k \in 1 .. na : u[ka + k] = new[k]
          BY <5>1, <5>4
        <5> QED
          BY <5>1, <5>5, <5>6 DEF ka, na, u
      <4> QED
        BY <1>1, <1>6, <3>1, <4>1
    <3>3. ASSUME NEW k \in 1 .. past + len
          PROVE  <<k - 1, r.cache_tokens[k]>> \in J
      <4>1. CASE k <= past
        <5>1. k \in 1 .. past /\ k - 1 \in 0 .. past - 1 /\ k <= Len(old)
          BY <1>1, <1>4, <3>1, <4>1
        <5>2. r.cache_tokens[k] = old[k]
          BY <1>6, <3>2, <5>1
        <5> QED
          BY <3>1, <5>1, <5>2 DEF past
      <4>2. CASE ~(k <= past)
        <5>1. k - past \in 1 .. len /\ past + (k - past) = k /\ k - 1 \in past .. past + len - 1 /\ (k - 1) + 1 = k
          BY <1>1, <4>2
        <5>2. r.cache_tokens[k] = sl.prompt[k]
          <6> DEFINE j == k - past
          <6>1. j \in 1 .. len /\ past + j = k
            BY <5>1
          <6> HIDE DEF j
          <6>2. r.cache_tokens[past + j] = new[j] /\ new[j] = sl.prompt[past + j]
            BY <1>1, <3>2, <6>1
          <6> QED
            BY <6>1, <6>2
        <5> QED
          BY <5>1, <5>2 DEF past, len
      <4> QED
        BY <4>1, <4>2
    <3> QED
      BY <1>2, <2>1, <3>2, <3>3 DEF Computed
  <2>2. CASE ~sl.task.cache_prompt
    <3>1. r.cache_tokens = kept
      <4>1. r.cache_tokens = kept \o <<>>
        BY <1>2, <2>2
      <4> QED
        BY <1>6, <4>1
    <3>2. past = 0 \/ old = <<>> \/ (Len(old) >= 1 /\ old[1] = Fill)
      BY <2>2 DEF Reusable, past, old
    <3>3. CASE past = 0
      <4>1. kept = <<>>
        BY <1>6, <3>3
      <4> QED
        BY <1>2, <2>2, <3>1, <4>1 DEF Computed
    <3>4. CASE past # 0
      <4>1. 1 \in 1 .. past /\ Len(kept) >= 1
        BY <1>1, <1>6, <3>4
      <4>2. Len(<<>>) = 0
        OBVIOUS
      <4>3. kept[1] = Fill
        BY <1>4, <1>6, <3>2, <3>4, <4>1, <4>2
      <4> QED
        BY <1>2, <2>2, <3>1, <4>1, <4>3 DEF Computed
    <3> QED
      BY <3>3, <3>4
  <2> QED
    BY <2>1, <2>2
<1>11. Stands(J, r)
  BY <1>4, <1>9, <1>10, ComputedBelieved DEF Stands
<1> QED
  BY <1>5, <1>11 DEF r, len

-----------------------------------------------------------------------------
(* What the slots have while the batch is built                            *)

\* A batch, and entries of slot s behind it that are for places nobody has.
Joined(tokens, more, all) ==
  /\ all \in Seq(Entry) /\ Len(all) = Len(tokens) + Len(more)
  /\ \A k \in 1 .. Len(tokens) : all[k] = tokens[k]
  /\ \A k \in 1 .. Len(more) : all[Len(tokens) + k] = more[k]

Fresh(c, tokens, more, s) ==
  /\ \A k \in 1 .. Len(more) : more[k].seq = s + 1 /\ \A t : ~There(c, tokens, 0, s, more[k].pos, t)
  /\ \A k, l \in 1 .. Len(more) : more[k].pos = more[l].pos => k = l

LEMMA JoinedThere ==
  ASSUME NEW n, NEW c, NEW tokens, Laid(c, tokens, 0, n), NEW more, Entries(more, n), NEW all,
         Joined(tokens, more, all)
  PROVE  \A s, p, t : There(c, all, 0, s, p, t) <=> There(c, tokens, 0, s, p, t)
                                                    \/ Among(more, 1, Len(more), s, p, t)
<1> DEFINE a == Len(tokens)
           b == Len(more)
<1>1. a \in Nat /\ b \in Nat /\ Len(all) = a + b
  BY DEF Laid, Entries, Joined
<1>2. /\ \A k \in 1 .. a : all[k] = tokens[k] /\ k \in 1 .. a + b
      /\ \A k \in 1 .. b : all[a + k] = more[k] /\ a + k \in 1 .. a + b
  BY <1>1 DEF Joined
<1> HIDE DEF a, b
<1>3. \A k \in 1 .. a + b : k \in 1 .. a \/ (k - a \in 1 .. b /\ a + (k - a) = k)
  BY <1>1
<1> SUFFICES ASSUME NEW s, NEW p, NEW t
             PROVE  Among(all, 1, a + b, s, p, t) <=> Among(tokens, 1, a, s, p, t) \/ Among(more, 1, b, s, p, t)
  BY <1>1 DEF There, a, b
<1>4. ASSUME Among(all, 1, a + b, s, p, t)
      PROVE  Among(tokens, 1, a, s, p, t) \/ Among(more, 1, b, s, p, t)
  <2>1. PICK k \in 1 .. a + b : all[k].seq = s + 1 /\ all[k].pos = p /\ all[k].tok = t
    BY <1>4 DEF Among
  <2>2. CASE k \in 1 .. a
    BY <1>2, <2>1, <2>2 DEF Among
  <2>3. CASE k - a \in 1 .. b /\ a + (k - a) = k
    <3>1. more[k - a] = all[k]
      BY <1>2, <2>3
    <3> QED
      BY <2>1, <2>3, <3>1 DEF Among
  <2> QED
    BY <1>3, <2>2, <2>3
<1>5. Among(tokens, 1, a, s, p, t) => Among(all, 1, a + b, s, p, t)
  BY <1>2 DEF Among
<1>6. Among(more, 1, b, s, p, t) => Among(all, 1, a + b, s, p, t)
  BY <1>2 DEF Among
<1> QED
  BY <1>4, <1>5, <1>6

LEMMA JoinedLaid ==
  ASSUME NEW n, NEW c, NEW tokens, Laid(c, tokens, 0, n), NEW more, Entries(more, n), NEW s \in Slots,
         Fresh(c, tokens, more, s), NEW all, Joined(tokens, more, all)
  PROVE  Laid(c, all, 0, n)
<1> DEFINE a == Len(tokens)
           b == Len(more)
<1>1. /\ a \in Nat /\ b \in Nat /\ Len(all) = a + b /\ all \in Seq(Entry)
      /\ Cached(c, n) /\ Low(c) /\ Once(tokens, 0) /\ Apart(c, tokens, 0)
  BY DEF Laid, Entries, Joined
<1>2. /\ \A k \in 1 .. a : all[k] = tokens[k]
      /\ \A k \in 1 .. b : all[a + k] = more[k]
  BY DEF Joined
<1>3. \A k \in 1 .. a + b : k \in 1 .. a \/ \E j \in 1 .. b : k = a + j
  <2> SUFFICES ASSUME NEW k \in 1 .. a + b, k \notin 1 .. a
               PROVE  \E j \in 1 .. b : k = a + j
    OBVIOUS
  <2>1. k - a \in 1 .. b /\ k = a + (k - a)
    BY <1>1
  <2> QED
    BY <2>1
<1>4. /\ \A k \in 1 .. a : tokens[k].tok \in 0 .. n - 1 /\ tokens[k].pos \in 0 .. NCtx - 2 /\ tokens[k].seq - 1 \in Slots
      /\ \A k \in 1 .. b : more[k].tok \in 0 .. n - 1 /\ more[k].pos \in 0 .. NCtx - 2 /\ more[k].seq - 1 \in Slots
  BY DEF Laid, Entries
<1>5. \A k \in 1 .. b : more[k].seq = s + 1 /\ \A t : ~Has(c, s, more[k].pos, t) /\ ~Among(tokens, 1, a, s, more[k].pos, t)
  BY DEF Fresh, There
<1>6. \A k \in 1 .. a, j \in 1 .. b : ~(tokens[k].seq = more[j].seq /\ tokens[k].pos = more[j].pos)
  BY <1>5 DEF Among
<1>7. \A k, l \in 1 .. a : tokens[k].seq = tokens[l].seq /\ tokens[k].pos = tokens[l].pos => k = l
  BY <1>1 DEF Once
<1>8. \A k, l \in 1 .. b : more[k].pos = more[l].pos => k = l
  BY DEF Fresh
<1>9. \A k \in 1 .. a : \A t : ~Has(c, tokens[k].seq - 1, tokens[k].pos, t)
  BY <1>1 DEF Apart
<1> HIDE DEF a, b
<1>10. Entries(all, n)
  <2>1. ASSUME NEW k \in 1 .. a + b
        PROVE  all[k].tok \in 0 .. n - 1 /\ all[k].pos \in 0 .. NCtx - 2 /\ all[k].seq - 1 \in Slots
    <3>1. CASE k \in 1 .. a
      BY <1>2, <1>4, <3>1, Zenon
    <3>2. CASE \E j \in 1 .. b : k = a + j
      BY <1>2, <1>4, <3>2, Zenon
    <3> QED
      BY <1>3, <3>1, <3>2
  <2> QED
    BY <1>1, <2>1 DEF Entries
<1>11. Once(all, 0)
  <2> SUFFICES ASSUME NEW k \in 1 .. a + b, NEW l \in 1 .. a + b, all[k].seq = all[l].seq, all[k].pos = all[l].pos
               PROVE  k = l
    BY <1>1 DEF Once
  <2>1. CASE k \in 1 .. a /\ l \in 1 .. a
    BY <1>2, <1>7, <2>1
  <2>2. CASE k \in 1 .. a /\ \E j \in 1 .. b : l = a + j
    BY <1>2, <1>6, <2>2
  <2>3. CASE l \in 1 .. a /\ \E j \in 1 .. b : k = a + j
    BY <1>2, <1>6, <2>3
  <2>4. CASE (\E j \in 1 .. b : k = a + j) /\ \E j \in 1 .. b : l = a + j
    BY <1>2, <1>8, <2>4
  <2> QED
    BY <1>3, <2>1, <2>2, <2>3, <2>4
<1>12. Apart(c, all, 0)
  <2> SUFFICES ASSUME NEW k \in 1 .. a + b, NEW t
               PROVE  ~Has(c, all[k].seq - 1, all[k].pos, t)
    BY <1>1 DEF Apart
  <2>1. CASE k \in 1 .. a
    BY <1>2, <1>9, <2>1
  <2>2. CASE \E j \in 1 .. b : k = a + j
    <3>1. PICK j \in 1 .. b : k = a + j
      BY <2>2
    <3>2. (s + 1) - 1 = s
      BY SlotIds
    <3> QED
      BY <1>2, <1>5, <3>1, <3>2
  <2> QED
    BY <1>3, <2>1, <2>2
<1> QED
  BY <1>1, <1>10, <1>11, <1>12 DEF Laid

\* Every slot has in the cache and in the batch what it believes to have.
Holding(w, n) ==
  /\ Laid(w.kv, w.batch, 0, n)
  /\ \A s \in Slots : Stands(Places(w.kv, w.batch, 0, s), w.slot[s]) /\ Known(w.slot[s], n)

\* What one slot changes.
LEMMA OneHolds ==
  ASSUME NEW n, NEW w, Holding(w, n), NEW s \in Slots, NEW v, Laid(v.kv, v.batch, 0, n),
         \A t \in Slots : t # s => v.slot[t] = w.slot[t],
         \A t \in Slots : \A p, x :
            t # s => (There(v.kv, v.batch, 0, t, p, x) <=> There(w.kv, w.batch, 0, t, p, x)),
         Stands(Places(v.kv, v.batch, 0, s), v.slot[s]), Known(v.slot[s], n)
  PROVE  Holding(v, n)
<1> SUFFICES ASSUME NEW t \in Slots, t # s
             PROVE  Stands(Places(v.kv, v.batch, 0, t), v.slot[t]) /\ Known(v.slot[t], n)
  BY DEF Holding
<1>1. Places(v.kv, v.batch, 0, t) = Places(w.kv, w.batch, 0, t)
  BY DEF Places
<1> QED
  BY <1>1 DEF Holding

\* While keys wait to be shifted, a slot is generating that has not had its turn to add its token.
Pending(w, k) == \E t \in Slots : t >= k /\ w.slot[t].state = "generating"

ShiftHolding(w, k, n) ==
  /\ Shifted(w, k) /\ Holding(w, n)
  /\ w.kv.has_shift => ctx_shift /\ Pending(w, 0)

LEMMA ShiftCacheHas ==
  ASSUME NEW n \in Nat, NEW c, Cached(c, n), Low(c), NEW s \in Slots, NEW keep \in Nat, NEW by \in Nat \ {0},
         keep + by <= NCtx - 1
  PROVE  LET d == SeqAdd(SeqRm(c, s + 1, keep, keep + by), s + 1, keep + by, NCtx - 1, -by)
         IN  /\ Cached(d, n) /\ Low(d)
             /\ \A p, t : Has(d, s, p, t) <=> \/ p \in 0 .. keep - 1 /\ Has(c, s, p, t)
                                              \/ p \in Nat /\ p >= keep /\ Has(c, s, p + by, t)
             /\ \A t \in Slots \ {s} : \A p, x : Has(d, t, p, x) <=> Has(c, t, p, x)
<1> DEFINE to == keep + by
           e == SeqRm(c, s + 1, keep, to)
           end == NCtx - 1
           d == SeqAdd(e, s + 1, to, end, -by)
<1>1. keep \in Int /\ to \in Int /\ to \in Nat /\ by <= to /\ to - by = keep /\ end \in Int /\ to <= end
      /\ ~(to < 0)
  BY SizesAre
<1>2. /\ Cached(e, n)
      /\ \A t \in Slots : \A p, x : Has(e, t, p, x) <=> Has(c, t, p, x) /\ ~(t = s /\ InRange(p, keep, to))
  <2> HIDE DEF to
  <2> QED
    BY <1>1, RmHas
<1>3. \A t \in Slots : \A p, x : Has(c, t, p, x) => p \in 0 .. end - 1
  <2>1. end - 1 = NCtx - 2
    BY SizesAre
  <2> HIDE DEF end
  <2> QED
    BY <2>1 DEF Low
<1> HIDE DEF e, to, end
<1>4. \A p, x : Has(e, s, p, x) <=> Has(c, s, p, x) /\ p \in Int /\ ~(p >= keep /\ p < to)
  <2> SUFFICES ASSUME NEW p, NEW x
               PROVE  Has(e, s, p, x) <=> Has(c, s, p, x) /\ p \in Int /\ ~(p >= keep /\ p < to)
    OBVIOUS
  <2>1. Has(e, s, p, x) <=> Has(c, s, p, x) /\ ~InRange(p, keep, to)
    BY <1>2
  <2>2. Has(c, s, p, x) => p \in 0 .. end - 1
    BY <1>3
  <2>3. p \in 0 .. end - 1 => (InRange(p, keep, to) <=> p >= keep /\ p < to) /\ p \in Int
    BY <1>1 DEF InRange
  <2> QED
    BY <2>1, <2>2, <2>3
<1>5. \A p, x : Has(e, s, p, x) => p < end /\ p \notin to - by .. to - 1
  <2> SUFFICES ASSUME NEW p, NEW x, Has(e, s, p, x)
               PROVE  p < end /\ p \notin to - by .. to - 1
    OBVIOUS
  <2>1. p \in 0 .. end - 1 /\ ~(p >= keep /\ p < to)
    BY <1>3, <1>4
  <2> QED
    BY <1>1, <2>1
<1>6. /\ Cached(d, n)
      /\ \A p, x : Has(d, s, p, x) <=> \/ p < to - by /\ Has(e, s, p, x)
                                       \/ p >= to - by /\ p \in Int /\ Has(e, s, p + by, x)
      /\ \A t \in Slots \ {s} : \A p, x : Has(d, t, p, x) <=> Has(e, t, p, x)
  <2> HIDE DEF d
  <2>1. Cached(e, n) /\ by <= to /\ to <= end
    BY <1>1, <1>2
  <2> QED
    BY <1>1, <1>5, <2>1, AddHas DEF d
<1> HIDE DEF d
<1>7. \A p, x : Has(d, s, p, x) <=> \/ p \in 0 .. keep - 1 /\ Has(c, s, p, x)
                                    \/ p \in Nat /\ p >= keep /\ Has(c, s, p + by, x)
  <2> SUFFICES ASSUME NEW p, NEW x
               PROVE  Has(d, s, p, x) <=> \/ p \in 0 .. keep - 1 /\ Has(c, s, p, x)
                                          \/ p \in Nat /\ p >= keep /\ Has(c, s, p + by, x)
    OBVIOUS
  <2>1. Has(d, s, p, x) <=> \/ p < keep /\ Has(e, s, p, x)
                            \/ p >= keep /\ p \in Int /\ Has(e, s, p + by, x)
    BY <1>1, <1>6
  <2>2. p < keep /\ Has(e, s, p, x) <=> p \in 0 .. keep - 1 /\ Has(c, s, p, x)
    <3>1. p < keep /\ Has(e, s, p, x) => p \in 0 .. keep - 1 /\ Has(c, s, p, x)
      <4>1. Has(e, s, p, x) => p \in 0 .. end - 1 /\ Has(c, s, p, x)
        BY <1>3, <1>4
      <4>2. p < keep /\ p \in 0 .. end - 1 => p \in 0 .. keep - 1
        BY <1>1
      <4> QED
        BY <4>1, <4>2
    <3>2. p \in 0 .. keep - 1 => p < keep /\ p \in Int /\ ~(p >= keep /\ p < to)
      BY <1>1
    <3> QED
      BY <1>4, <3>1, <3>2
  <2>3. p >= keep /\ p \in Int /\ Has(e, s, p + by, x) <=> p \in Nat /\ p >= keep /\ Has(c, s, p + by, x)
    <3>1. p >= keep /\ p \in Int <=> p \in Nat /\ p >= keep
      OBVIOUS
    <3>2. p \in Nat /\ p >= keep => p + by \in Int /\ ~(p + by >= keep /\ p + by < to)
      BY <1>1
    <3> QED
      BY <1>4, <3>1, <3>2
  <2> QED
    BY <2>1, <2>2, <2>3
<1>8. \A t \in Slots \ {s} : \A p, x : Has(d, t, p, x) <=> Has(c, t, p, x)
  BY <1>2, <1>6
<1>9. Low(d)
  <2> SUFFICES ASSUME NEW t \in Slots, NEW p, NEW x, Has(d, t, p, x)
               PROVE  p \in 0 .. NCtx - 2
    BY DEF Low
  <2>1. CASE t # s
    BY <1>8, <2>1 DEF Low
  <2>2. CASE t = s
    <3>1. CASE p \in 0 .. keep - 1 /\ Has(c, s, p, x)
      BY <3>1 DEF Low
    <3>2. CASE p \in Nat /\ p >= keep /\ Has(c, s, p + by, x)
      <4>1. p + by \in 0 .. NCtx - 2
        BY <3>2 DEF Low
      <4> QED
        BY <3>2, <4>1, SizesAre
    <3> QED
      BY <1>7, <2>2, <3>1, <3>2
  <2> QED
    BY <2>1, <2>2
<1> QED
  BY <1>6, <1>7, <1>8, <1>9 DEF d, e, to, end

LEMMA EmptyBatch ==
  ASSUME NEW n, NEW c, Cached(c, n), Low(c)
  PROVE  /\ Laid(c, <<>>, 0, n)
         /\ \A s, p, t : There(c, <<>>, 0, s, p, t) <=> Has(c, s, p, t)
<1>1. <<>> \in Seq(Entry)
  OBVIOUS
<1>2. Len(<<>>) = 0 /\ 1 .. 0 = {} /\ 0 + 1 = 1
  OBVIOUS
<1>3. Entries(<<>>, n) /\ Once(<<>>, 0) /\ Apart(c, <<>>, 0)
  BY <1>1, <1>2 DEF Entries, Once, Apart
<1>4. \A s, p, t : ~Among(<<>>, 0 + 1, Len(<<>>), s, p, t)
  BY <1>2 DEF Among
<1> QED
  BY <1>3, <1>4 DEF Laid, There

LEMMA ShiftHolds ==
  ASSUME SmallDiscards, NEW n \in Nat, NEW s \in Slots, NEW w, ShiftHolding(w, s, n)
  PROVE  ShiftHolding(Shift(w, s, 0), s + 1, n)
<1> DEFINE sl == w.slot[s]
           v == Shift(w, s, 0)
           keep == ShiftKeep(sl)
           by == ShiftBy(sl, 0)
           r == ShiftSlot(sl, 0)
           d == ShiftCache(w.kv, s + 1, sl, 0)
           e == ShiftCache(w.wkv, s, sl, 0)
           I == Places(w.kv, w.batch, 0, s)
<1>1. /\ Shifted(w, s) /\ Holding(w, n) /\ GoodWorld(w) /\ IsWorld(w) /\ w.slot \in [Slots -> SlotRecords]
      /\ SlotGood(sl) /\ w.batch = <<>> /\ Indexed(sl, 0) /\ Laid(w.kv, w.batch, 0, n)
      /\ Stands(I, sl) /\ Known(sl, n) /\ s \in Nat
  BY SlotIds DEF ShiftHolding, Shifted, GoodWorld, Holding
<1>2. Cached(w.kv, n) /\ Low(w.kv)
  BY <1>1 DEF Laid
<1>3. \A t \in Slots : \A p, x : There(w.kv, w.batch, 0, t, p, x) <=> Has(w.kv, t, p, x)
  BY <1>1, <1>2, EmptyBatch
<1>4. Shifted(v, s + 1)
  BY <1>1, ShiftStep
<1>5. v = IF ~ShiftDue(sl) THEN w
          ELSE IF ~ctx_shift
            THEN WorldOf([w.slot EXCEPT ![s] = WithState(sl, "idle")], w.kv, w.wkv, w.batch)
          ELSE WorldOf([w.slot EXCEPT ![s] = r], d, e, w.batch)
  <2>1. sl.state = "idle" \/ ShiftEnd(sl, 0) < NCtx - 1 <=> ~ShiftDue(sl)
    BY DEF ShiftDue
  <2> HIDE DEF v
  <2> QED
    BY <1>1, <2>1, ShiftIs DEF v
<1>6. w.kv.has_shift => ctx_shift /\ Pending(w, 0)
  BY DEF ShiftHolding
<1>7. <<>> \in Seq(Entry)
  OBVIOUS
<1>8. CASE ~ShiftDue(sl)
  <2>1. v = w
    BY <1>5, <1>8
  <2> QED
    BY <1>4, <2>1 DEF ShiftHolding
<1>9. CASE ShiftDue(sl) /\ ~ctx_shift
  <2> DEFINE q == WithState(sl, "idle")
  <2>1. SlotGood(q) /\ q.state = "idle" /\ q.cache_tokens = sl.cache_tokens /\ q.sampled = sl.sampled
    <3>1. q = Release(sl)
      BY <1>1, ReleaseIsGood
    <3>2. sl \in SlotRecords
      BY <1>1 DEF SlotGood
    <3> HIDE DEF q, sl
    <3> QED
      BY <1>1, <3>1, <3>2, ReleaseIsGood, SampledKept
  <2> HIDE DEF q, sl
  <2>2. v = WorldOf([w.slot EXCEPT ![s] = q], w.kv, w.wkv, <<>>)
    BY <1>1, <1>5, <1>9 DEF q
  <2> HIDE DEF v
  <2>3. /\ v.slot[s] = q /\ \A t \in Slots : t # s => v.slot[t] = w.slot[t]
        /\ v.kv = w.kv /\ v.batch = <<>>
    <3> DEFINE tokens == <<>>
    <3>1. GoodWorld(w) /\ tokens \in Seq(Entry) /\ SlotGood(q)
      BY <1>1, <1>7, <2>1
    <3> HIDE DEF tokens
    <3>2. v = WorldOf([w.slot EXCEPT ![s] = q], w.kv, w.wkv, tokens)
      BY <2>2 DEF tokens
    <3>3. /\ v.slot[s] = q /\ \A t \in Slots : t # s => v.slot[t] = w.slot[t]
          /\ v.kv = w.kv /\ v.batch = tokens
      BY <3>1, <3>2, GoodUpdate
    <3> QED
      BY <3>3 DEF tokens
  <2>4. Stands(Places(v.kv, v.batch, 0, s), v.slot[s]) /\ Known(v.slot[s], n)
    <3>1. ~Started(q) /\ Known(q, n)
      BY <1>1, <2>1 DEF Started, Known
    <3>2. Stands(I, q)
      BY <1>1, <2>1, <3>1, RestStands
    <3> QED
      BY <1>1, <2>3, <3>1, <3>2
  <2>5. Holding(v, n)
    BY <1>1, <2>3, <2>4, OneHolds
  <2> QED
    BY <1>4, <1>6, <1>9, <2>3, <2>5 DEF ShiftHolding, v
<1>10. CASE ShiftDue(sl) /\ ctx_shift
  <2>1. /\ SlotGood(r) /\ r.state = sl.state /\ sl.state = "generating"
    <3>1. sl.state \in {"done", "generating"} /\ SlotGood(r) /\ r.state = sl.state
      BY <1>1, <1>10, ShiftByIs, ShiftIsGood
    <3>2. sl.state # "done"
      BY <1>1 DEF Indexed
    <3> QED
      BY <3>1, <3>2
  <2>2. keep \in Nat /\ by \in Nat \ {0} /\ keep + by <= NCtx - 1 /\ sl.n_past = NCtx - 1
    BY <1>1, <1>10, ShiftFits
  <2>3. d = SeqAdd(SeqRm(w.kv, s + 1, keep, keep + by), s + 1, keep + by, NCtx - 1, -by)
    <3>1. ShiftEnd(sl, 0) = NCtx - 1
      BY <2>2, SizesAre DEF ShiftEnd
    <3> QED
      BY <3>1 DEF ShiftCache
  <2> HIDE DEF keep, by, d
  <2>4. /\ Cached(d, n) /\ Low(d)
        /\ \A p, t : Has(d, s, p, t) <=> \/ p \in 0 .. keep - 1 /\ Has(w.kv, s, p, t)
                                         \/ p \in Nat /\ p >= keep /\ Has(w.kv, s, p + by, t)
        /\ \A t \in Slots \ {s} : \A p, x : Has(d, t, p, x) <=> Has(w.kv, t, p, x)
    BY <1>2, <2>2, <2>3, ShiftCacheHas
  <2> HIDE DEF r, e
  <2>5. v = WorldOf([w.slot EXCEPT ![s] = r], d, e, <<>>)
    BY <1>1, <1>5, <1>10
  <2> HIDE DEF v, sl
  <2>6. /\ v.slot[s] = r /\ \A t \in Slots : t # s => v.slot[t] = w.slot[t]
        /\ v.kv = d /\ v.batch = <<>>
    <3> DEFINE tokens == <<>>
    <3>1. GoodWorld(w) /\ tokens \in Seq(Entry) /\ SlotGood(r)
      BY <1>1, <1>7, <2>1
    <3> HIDE DEF tokens
    <3>2. v = WorldOf([w.slot EXCEPT ![s] = r], d, e, tokens)
      BY <2>5 DEF tokens
    <3>3. /\ v.slot[s] = r /\ \A t \in Slots : t # s => v.slot[t] = w.slot[t]
          /\ v.kv = d /\ v.batch = tokens
      BY <3>1, <3>2, GoodUpdate
    <3> QED
      BY <3>3 DEF tokens
  <2> DEFINE J == Places(v.kv, v.batch, 0, s)
  <2>7. /\ Laid(v.kv, v.batch, 0, n)
        /\ \A t \in Slots : \A p, x : There(v.kv, v.batch, 0, t, p, x) <=> Has(d, t, p, x)
    BY <2>4, <2>6, EmptyBatch
  <2>8. \A p, t : <<p, t>> \in J <=> Has(d, s, p, t)
    BY <2>7, PlacesAre
  <2>9. \A p, t : <<p, t>> \in I <=> Has(w.kv, s, p, t)
    BY <1>1, <1>3, PlacesAre
  <2>10. \A p, t : <<p, t>> \in J <=> \/ p \in 0 .. keep - 1 /\ <<p, t>> \in I
                                      \/ p \in Nat /\ p >= keep /\ <<p + by, t>> \in I
    BY <2>4, <2>8, <2>9
  <2> HIDE DEF J, I
  <2>11. Stands(J, r) /\ Known(r, n)
    BY <1>1, <1>10, <2>10, ShiftStands DEF r, keep, by
  <2>12. \A t \in Slots : \A p, x :
            t # s => (There(v.kv, v.batch, 0, t, p, x) <=> There(w.kv, w.batch, 0, t, p, x))
    BY <1>3, <2>4, <2>7
  <2>13. Holding(v, n)
    BY <1>1, <2>6, <2>7, <2>11, <2>12, OneHolds DEF J
  <2>14. Pending(v, 0)
    BY <1>1, <2>1, <2>6 DEF Pending
  <2> QED
    BY <1>4, <1>10, <2>13, <2>14 DEF ShiftHolding, v
<1> QED
  BY <1>8, <1>9, <1>10

\* The batch has nothing of a slot.
Quiet(tokens, s) == \A k \in 1 .. Len(tokens) : tokens[k].seq # s + 1

SampledHolding(w, k, n) ==
  /\ Continued(w, k) /\ Holding(w, n)
  /\ w.kv.has_shift => w.batch # <<>> \/ Pending(w, k)
  /\ \A t \in Slots : w.slot[t].state = "prompt" => Quiet(w.batch, t)

LEMMA SampledHolds ==
  ASSUME SmallDiscards, NEW n \in Nat, NEW s \in Slots, NEW w, SampledHolding(w, s, n)
  PROVE  SampledHolding(AddSampled(w, s, 0), s + 1, n)
<1> DEFINE sl == w.slot[s]
           v == AddSampled(w, s, 0)
           m == Len(w.batch)
           e == SampledEntry(sl, s, 0)
           r == SampledSlot(sl, m)
           tokens == Append(w.batch, e)
           I == Places(w.kv, w.batch, 0, s)
<1>1. /\ Continued(w, s) /\ Holding(w, n) /\ GoodWorld(w) /\ IsWorld(w) /\ w.slot \in [Slots -> SlotRecords]
      /\ SlotGood(sl) /\ w.batch \in Seq(Entry) /\ Roomy(sl) /\ Laid(w.kv, w.batch, 0, n)
      /\ Stands(I, sl) /\ Known(sl, n) /\ s \in Nat /\ m \in Nat
  <2>1. s >= s
    BY SlotIds
  <2>2. Continued(w, s) /\ Holding(w, n) /\ GoodWorld(w) /\ Roomy(sl) /\ s \in Nat
    BY <2>1, SlotIds DEF SampledHolding, Continued
  <2> QED
    BY <2>2 DEF GoodWorld, Holding
<1>2. v = IF sl.state # "generating" THEN w ELSE WorldOf([w.slot EXCEPT ![s] = r], w.kv, w.wkv, tokens)
  BY <1>1, AddSampledIs
<1>3. Continued(v, s + 1)
  BY <1>1, SampledStep
<1>4. /\ w.kv.has_shift => w.batch # <<>> \/ Pending(w, s)
      /\ \A t \in Slots : w.slot[t].state = "prompt" => Quiet(w.batch, t)
  BY DEF SampledHolding
<1>5. CASE sl.state # "generating"
  <2>1. v = w
    BY <1>2, <1>5
  <2>2. Pending(w, s) => Pending(w, s + 1)
    <3>1. \A t \in Slots : t >= s /\ t # s => t >= s + 1
      BY SlotIds
    <3> QED
      BY <1>5, <3>1 DEF Pending
  <2> QED
    BY <1>1, <1>3, <1>4, <2>1, <2>2 DEF SampledHolding
<1>6. CASE sl.state = "generating"
  <2>1. sl.n_past <= NCtx - 2
    BY <1>6, <1>1 DEF Roomy
  <2>2. SlotGood(r) /\ r.state = "generating"
    <3>1. m \in Int
      BY <1>1
    <3> HIDE DEF sl, m
    <3> QED
      BY <1>1, <1>6, <2>1, <3>1, SampledIsGood
  <2>3. Filled(I, sl.n_past) /\ sl.n_past \in 0 .. NCtx - 2
    <3>1. Stands(I, sl) /\ Known(sl, n) /\ SlotGood(sl) /\ m \in Int
      BY <1>1
    <3>2. Len(sl.prompt) # 0 /\ Started(sl)
      BY <1>1, <1>6 DEF Started, SlotGood
    <3>3. PICK x \in 0 .. NCtx - 1 : Filled(I, x) /\ x = sl.n_past
      BY <3>1, <3>2 DEF Stands, Counted
    <3> QED
      BY <2>1, <3>3, SizesAre
  <2>4. e \in Entry /\ e.tok = sl.sampled /\ e.pos = sl.n_past /\ e.seq = s + 1 /\ sl.sampled \in 0 .. n - 1
    <3>1. sl.sampled \in 0 .. n - 1 /\ sl.n_past \in Int /\ 0 + sl.n_past = sl.n_past /\ s + 1 \in Int
      BY <1>1, <2>3, SizesAre DEF Known
    <3> HIDE DEF sl
    <3> QED
      BY <3>1 DEF SampledEntry, Entry
  <2> HIDE DEF r, e, sl, v
  <2> DEFINE more == <<e>>
  <2>5. more \in Seq(Entry) /\ Len(more) = 1 /\ more[1] = e /\ 1 .. Len(more) = {1}
    BY <2>4
  <2>6. tokens \in Seq(Entry) /\ Len(tokens) = m + 1 /\ tokens # <<>> /\ Joined(w.batch, more, tokens)
    <3>1. /\ tokens \in Seq(Entry) /\ Len(tokens) = m + 1 /\ tokens # <<>>
          /\ \A k \in 1 .. m : tokens[k] = w.batch[k]
          /\ tokens[m + 1] = e
      BY <1>1, <2>4, AppendProperties
    <3> HIDE DEF tokens, more
    <3> QED
      BY <2>5, <3>1 DEF Joined
  <2> HIDE DEF tokens, more, m
  <2>7. Entries(more, n)
    <3>1. e.seq - 1 \in Slots
      BY <1>1, <2>4
    <3> QED
      BY <2>3, <2>4, <2>5, <3>1 DEF Entries
  <2>8. \A p, t : <<p, t>> \in I <=> There(w.kv, w.batch, 0, s, p, t)
    BY <1>1, PlacesAre
  <2> HIDE DEF I
  <2>9. \A t : ~There(w.kv, w.batch, 0, s, sl.n_past, t)
    <3>1. sl.n_past \notin 0 .. sl.n_past - 1
      BY <2>3, SizesAre
    <3> QED
      BY <2>3, <2>8, <3>1 DEF Filled
  <2>10. Fresh(w.kv, w.batch, more, s)
    BY <2>4, <2>5, <2>9 DEF Fresh
  <2>11. v = WorldOf([w.slot EXCEPT ![s] = r], w.kv, w.wkv, tokens)
    BY <1>2, <1>6
  <2>12. /\ v.slot[s] = r /\ \A t \in Slots : t # s => v.slot[t] = w.slot[t]
         /\ v.kv = w.kv /\ v.batch = tokens
    BY <1>1, <2>2, <2>6, <2>11, GoodUpdate
  <2>13. Laid(v.kv, v.batch, 0, n)
    BY <1>1, <2>6, <2>7, <2>10, <2>12, JoinedLaid
  <2>14. \A t, p, x : There(v.kv, v.batch, 0, t, p, x) <=> There(w.kv, w.batch, 0, t, p, x)
                                                           \/ Among(more, 1, Len(more), t, p, x)
    BY <1>1, <2>6, <2>7, <2>12, JoinedThere
  <2>15. \A t \in Slots : \A p, x : Among(more, 1, Len(more), t, p, x)
                                     <=> t = s /\ p = sl.n_past /\ x = sl.sampled
    <3>1. \A t \in Slots : t + 1 = s + 1 <=> t = s
      BY SlotIds
    <3> QED
      BY <2>4, <2>5, <3>1 DEF Among
  <2>16. \A t \in Slots : \A p, x :
            t # s => (There(v.kv, v.batch, 0, t, p, x) <=> There(w.kv, w.batch, 0, t, p, x))
    BY <2>14, <2>15
  <2> DEFINE J == Places(v.kv, v.batch, 0, s)
  <2>17. \A p, t : <<p, t>> \in J <=> There(v.kv, v.batch, 0, s, p, t)
    BY <2>13, PlacesAre
  <2>18. \A p, t : <<p, t>> \in J <=> <<p, t>> \in I \/ (p = sl.n_past /\ t = sl.sampled)
    BY <2>8, <2>14, <2>15, <2>17
  <2> HIDE DEF J
  <2>19. Stands(J, r) /\ Known(r, n)
    <3>1. m \in Int
      BY <1>1
    <3>2. Stands(J, SampledSlot(sl, m)) /\ Known(SampledSlot(sl, m), n)
      BY <1>1, <1>6, <2>1, <2>18, <3>1, SampledStands
    <3> QED
      BY <3>2 DEF r
  <2>20. Holding(v, n)
    BY <1>1, <2>12, <2>13, <2>16, <2>19, OneHolds DEF J
  <2>21. ASSUME NEW t \in Slots, v.slot[t].state = "prompt"
         PROVE  Quiet(v.batch, t)
    <3>1. t # s /\ w.slot[t].state = "prompt"
      BY <2>2, <2>12, <2>21
    <3>2. t + 1 # s + 1 /\ \A k \in 1 .. m + 1 : k \in 1 .. m \/ k = m + 1
      BY <1>1, <3>1, SlotIds
    <3>3. Quiet(w.batch, t)
      BY <1>4, <3>1
    <3>4. tokens[m + 1] = e /\ \A k \in 1 .. m : tokens[k] = w.batch[k]
      BY <2>5, <2>6 DEF Joined, m
    <3> QED
      BY <2>4, <2>6, <2>12, <3>2, <3>3, <3>4 DEF Quiet, m
  <2> QED
    BY <1>3, <2>6, <2>12, <2>20, <2>21 DEF SampledHolding, v
<1> QED
  BY <1>5, <1>6

PromptHolding(w, k, n) ==
  /\ Ongoing(w) /\ Holding(w, n)
  /\ w.kv.has_shift => w.batch # <<>>
  /\ \A t \in Slots : t >= k /\ w.slot[t].state = "prompt" => Quiet(w.batch, t)

\* What is removed behind a position, and what comes there instead.
LEMMA PartLaid ==
  ASSUME NEW n \in Nat, NEW c, NEW tokens, Laid(c, tokens, 0, n), NEW s \in Slots, Quiet(tokens, s),
         NEW past \in Nat
  PROVE  LET d == SeqRm(c, s + 1, past, -1)
         IN  /\ Laid(d, tokens, 0, n) /\ d.has_shift = c.has_shift
             /\ \A t \in Slots : \A p, x :
                  There(d, tokens, 0, t, p, x) <=> There(c, tokens, 0, t, p, x) /\ (t = s => p \in 0 .. past - 1)
<1> DEFINE d == SeqRm(c, s + 1, past, -1)
<1>1. Cached(c, n) /\ Low(c) /\ Entries(tokens, n) /\ Once(tokens, 0) /\ Apart(c, tokens, 0)
  BY DEF Laid
<1>2. /\ Cached(d, n) /\ d.has_shift = c.has_shift
      /\ \A t \in Slots : \A p, x : Has(d, t, p, x) <=> Has(c, t, p, x) /\ ~(t = s /\ InRange(p, past, -1))
  <2>1. past \in Int /\ -1 \in Int
    OBVIOUS
  <2> QED
    BY <1>1, <2>1, RmHas
<1> HIDE DEF d
<1>3. \A t \in Slots : \A p, x : Has(d, t, p, x) <=> Has(c, t, p, x) /\ (t = s => p \in 0 .. past - 1)
  <2> SUFFICES ASSUME NEW t \in Slots, NEW p, NEW x, Has(c, t, p, x)
               PROVE  ~InRange(p, past, -1) <=> p \in 0 .. past - 1
    BY <1>2, Zenon
  <2>1. p \in Nat
    BY <1>1, SizesAre DEF Low
  <2> QED
    BY <2>1 DEF InRange
<1>4. Low(d)
  BY <1>1, <1>3 DEF Low
<1>5. Apart(d, tokens, 0)
  <2> SUFFICES ASSUME NEW k \in 0 + 1 .. Len(tokens), NEW t
               PROVE  ~Has(d, tokens[k].seq - 1, tokens[k].pos, t)
    BY DEF Apart
  <2>1. tokens[k].seq - 1 \in Slots
    BY <1>1 DEF Entries
  <2> QED
    BY <1>1, <1>3, <2>1 DEF Apart
<1>6. \A p, x : ~Among(tokens, 0 + 1, Len(tokens), s, p, x)
  BY DEF Among, Quiet
<1>7. \A t \in Slots : \A p, x :
         There(d, tokens, 0, t, p, x) <=> There(c, tokens, 0, t, p, x) /\ (t = s => p \in 0 .. past - 1)
  BY <1>3, <1>6 DEF There
<1> QED
  BY <1>1, <1>2, <1>4, <1>5, <1>7 DEF Laid, d

\* The entries of a part of a prompt.
LEMMA PartFresh ==
  ASSUME NEW n, NEW sl, SlotGood(sl), sl.state = "prompt", sl.prompt # <<>>, Known(sl, n), n \in Nat,
         NEW tokens, Len(tokens) \in Nat, NEW s \in Slots
  PROVE  LET len == PartLen(sl, tokens)
             e   == PartEntries(sl, s, 0, len)
         IN  /\ Entries(e, n) /\ Len(e) = len
             /\ \A c : (\A p, x : There(c, tokens, 0, s, p, x) => p \in 0 .. sl.n_past - 1)
                        => Fresh(c, tokens, e, s)
             /\ \A p, x : Among(e, 1, Len(e), s, p, x) <=> /\ p \in sl.n_past .. sl.n_past + len - 1
                                                           /\ x = sl.prompt[p + 1]
             /\ \A t \in Slots : \A p, x : Among(e, 1, Len(e), t, p, x) => t = s
<1> DEFINE len == PartLen(sl, tokens)
           e == PartEntries(sl, s, 0, len)
           past == sl.n_past
<1>1. /\ e \in Seq(Entry) /\ Len(e) = len
      /\ \A k \in 1 .. len : /\ e[k].tok = sl.prompt[past + k] /\ e[k].pos = past + k - 1
                             /\ e[k].seq = s + 1
  BY PartEntriesAre
<1>2. len \in Nat /\ past + len <= Len(sl.prompt) /\ past \in Nat
  BY PartLenIs
<1>3. Len(sl.prompt) \in Nat /\ Len(sl.prompt) < NCtx /\ NCtx \in Nat
  BY SlotFields, SizesAre DEF SlotGood
<1>4. \A k \in 1 .. Len(sl.prompt) : sl.prompt[k] \in 1 .. n - 1
  BY DEF Known, Started
<1> HIDE DEF len, e
<1>5. \A t \in Slots : t + 1 = s + 1 <=> t = s
  BY SlotIds
<1>6. (s + 1) - 1 = s
  BY SlotIds
<1>7. \A k \in 1 .. len : /\ past + k \in 1 .. Len(sl.prompt) /\ past + k - 1 \in 0 .. NCtx - 2
                          /\ past + k - 1 \in past .. past + len - 1 /\ (past + k - 1) + 1 = past + k
                          /\ past + k - 1 \notin 0 .. past - 1
  <2> SUFFICES ASSUME NEW k \in 1 .. len
               PROVE  /\ past + k \in 1 .. Len(sl.prompt) /\ past + k - 1 \in 0 .. NCtx - 2
                      /\ past + k - 1 \in past .. past + len - 1 /\ (past + k - 1) + 1 = past + k
                      /\ past + k - 1 \notin 0 .. past - 1
    OBVIOUS
  <2> DEFINE size == Len(sl.prompt)
  <2>1. size \in Nat /\ past + len <= size /\ size < NCtx /\ past \in Nat /\ len \in Nat /\ NCtx \in Nat
    BY <1>2, <1>3
  <2> HIDE DEF size, past
  <2>2. past + k \in 1 .. size /\ past + k - 1 \in 0 .. NCtx - 2
    BY <2>1
  <2>3. past + k - 1 \in past .. past + len - 1 /\ (past + k - 1) + 1 = past + k
    BY <2>1
  <2>4. past + k - 1 \notin 0 .. past - 1
    BY <2>1
  <2> QED
    BY <2>2, <2>3, <2>4 DEF size
<1>8. \A k \in 1 .. len : e[k].tok \in 0 .. n - 1
  <2> SUFFICES ASSUME NEW k \in 1 .. len
               PROVE  e[k].tok \in 0 .. n - 1
    OBVIOUS
  <2>1. \A x \in 1 .. n - 1 : x \in 0 .. n - 1
    OBVIOUS
  <2>2. past + k \in 1 .. Len(sl.prompt)
    BY <1>7
  <2>3. sl.prompt[past + k] \in 1 .. n - 1
    BY <1>4, <2>2
  <2>4. e[k].tok = sl.prompt[past + k]
    BY <1>1
  <2> QED
    BY <2>1, <2>3, <2>4
<1>9. Entries(e, n)
  BY <1>1, <1>6, <1>7, <1>8 DEF Entries
<1>10. ASSUME NEW c, \A p, x : There(c, tokens, 0, s, p, x) => p \in 0 .. past - 1
       PROVE  Fresh(c, tokens, e, s)
  <2>1. \A k \in 1 .. len : \A t : ~There(c, tokens, 0, s, e[k].pos, t)
    BY <1>1, <1>7, <1>10
  <2>2. \A k, l \in 1 .. len : past + k - 1 = past + l - 1 => k = l
    BY <1>2
  <2>3. \A k \in 1 .. len : e[k].seq = s + 1
    BY <1>1
  <2>4. \A k, l \in 1 .. len : e[k].pos = e[l].pos => k = l
    <3> SUFFICES ASSUME NEW k \in 1 .. len, NEW l \in 1 .. len, e[k].pos = e[l].pos
                 PROVE  k = l
      OBVIOUS
    <3>1. e[k].pos = past + k - 1 /\ e[l].pos = past + l - 1
      BY <1>1
    <3> QED
      BY <2>2, <3>1
  <2> QED
    BY <1>1, <2>1, <2>3, <2>4 DEF Fresh
<1>11. ASSUME NEW p, NEW x
       PROVE  Among(e, 1, len, s, p, x) <=> p \in past .. past + len - 1 /\ x = sl.prompt[p + 1]
  <2>1. ASSUME Among(e, 1, len, s, p, x)
        PROVE  p \in past .. past + len - 1 /\ x = sl.prompt[p + 1]
    <3>1. PICK k \in 1 .. len : e[k].pos = p /\ e[k].tok = x
      BY <2>1 DEF Among
    <3>2. p = past + k - 1 /\ x = sl.prompt[past + k]
      BY <1>1, <3>1
    <3> QED
      BY <1>7, <3>2
  <2>2. ASSUME p \in past .. past + len - 1, x = sl.prompt[p + 1]
        PROVE  Among(e, 1, len, s, p, x)
    <3> DEFINE k == p - past + 1
    <3>1. k \in 1 .. len /\ past + k = p + 1 /\ past + k - 1 = p
      <4>1. past \in Nat /\ len \in Nat /\ p \in past .. past + len - 1
        BY <1>2, <2>2
      <4> HIDE DEF past
      <4> QED
        BY <4>1
    <3> HIDE DEF k
    <3>2. e[k].tok = x /\ e[k].pos = p /\ e[k].seq = s + 1
      BY <1>1, <2>2, <3>1
    <3> QED
      BY <3>1, <3>2 DEF Among
  <2> QED
    BY <2>1, <2>2
<1>12. \A t \in Slots : \A p, x : Among(e, 1, len, t, p, x) => t = s
  BY <1>1, <1>5 DEF Among
<1> QED
  BY <1>1, <1>9, <1>10, <1>11, <1>12 DEF e, len

LEMMA PromptHolds ==
  ASSUME RoomToShift, NEW n, InVocabulary(n), NEW s \in Slots, NEW w, PromptHolding(w, s, n)
  PROVE  PromptHolding(AddPrompt(w, s, 0), s + 1, n)
<1> DEFINE sl == ToCompute(w.slot[s], 0)
           len == PartLen(sl, w.batch)
           m == Len(w.batch)
           r == PartSlot(sl, len, m + len - 1)
           e == PartEntries(sl, s, 0, len)
           d == SeqRm(w.kv, s + 1, 0 + sl.n_past, -1)
           g == SeqRm(w.wkv, s, 0 + sl.n_past, -1)
           tokens == w.batch \o e
           v == AddPrompt(w, s, 0)
           I == Places(w.kv, w.batch, 0, s)
<1>1. /\ Ongoing(w) /\ GoodWorld(w) /\ Holding(w, n) /\ IsWorld(w) /\ w.slot \in [Slots -> SlotRecords]
      /\ SlotGood(w.slot[s]) /\ w.batch \in Seq(Entry) /\ m \in Nat /\ s \in Nat
      /\ Laid(w.kv, w.batch, 0, n) /\ Stands(I, w.slot[s]) /\ Known(w.slot[s], n) /\ n \in Nat
      /\ w.kv.has_shift => w.batch # <<>>
  <2>1. Ongoing(w) /\ GoodWorld(w) /\ Holding(w, n) /\ s \in Nat /\ n \in Nat /\ (w.kv.has_shift => w.batch # <<>>)
    BY SlotIds DEF PromptHolding, Ongoing, InVocabulary
  <2> QED
    BY <2>1 DEF GoodWorld, Holding
<1>2. \A t \in Slots : t >= s + 1 => t >= s /\ t # s
  BY SlotIds
<1>3. \A t \in Slots : t >= s /\ w.slot[t].state = "prompt" => Quiet(w.batch, t)
  BY DEF PromptHolding
<1>4. Ongoing(v)
  BY <1>1, PromptStep
<1>5. CASE w.slot[s].state # "prompt" \/ (s > 0 /\ Len(w.batch) >= NBatch)
  <2>1. v = w
    BY <1>5, Zenon DEF AddPrompt
  <2> QED
    BY <1>1, <1>2, <1>3, <2>1 DEF PromptHolding
<1>6. CASE ~(w.slot[s].state # "prompt" \/ (s > 0 /\ Len(w.batch) >= NBatch))
  <2>1. /\ SlotGood(sl) /\ sl.state \in {"idle", "prompt"}
        /\ sl.state = "prompt" => sl.prompt # <<>>
    BY <1>1, <1>6, ToComputeIsGood
  <2>2. sl \in SlotRecords
    BY <2>1 DEF SlotGood
  <2>3. /\ sl.state = "idle" => Stands(I, sl) /\ Known(sl, n)
        /\ sl.state = "prompt" => Reusable(I, sl) /\ Known(sl, n)
    BY <1>1, <1>6, ToComputeStands
  <2>4. Quiet(w.batch, s)
    BY <1>1, <1>3, <1>6
  <2> HIDE DEF sl, v
  <2>5. v = IF sl.state = "idle" THEN WorldOf([w.slot EXCEPT ![s] = sl], w.kv, w.wkv, w.batch)
            ELSE WorldOf([w.slot EXCEPT ![s] = r], d, g, tokens)
    <3> HIDE DEF len
    <3> QED
      BY <1>1, <1>6, <2>2, AddPromptIs, Zenon DEF sl, v, len
  <2> HIDE DEF I
  <2>6. CASE sl.state = "idle"
    <3>1. v = WorldOf([w.slot EXCEPT ![s] = sl], w.kv, w.wkv, w.batch)
      BY <2>5, <2>6
    <3>2. /\ v.slot[s] = sl /\ \A t \in Slots : t # s => v.slot[t] = w.slot[t]
          /\ v.kv = w.kv /\ v.batch = w.batch
      BY <1>1, <2>1, <3>1, GoodUpdate
    <3>3. Stands(Places(v.kv, v.batch, 0, s), v.slot[s]) /\ Known(v.slot[s], n)
      BY <2>3, <2>6, <3>2 DEF I
    <3>4. Holding(v, n)
      BY <1>1, <3>2, <3>3, OneHolds
    <3> QED
      BY <1>1, <1>2, <1>3, <1>4, <3>2, <3>4 DEF PromptHolding, v
  <2>7. CASE sl.state = "prompt"
    <3>1. len \in Nat /\ sl.n_past \in Nat /\ 0 + sl.n_past = sl.n_past
      <4>1. len \in Nat /\ sl.n_past \in Nat
        BY <1>1, <2>1, <2>7, PartLenIs
      <4> QED
        BY <4>1
    <3>2. d = SeqRm(w.kv, s + 1, sl.n_past, -1)
      BY <3>1
    <3> HIDE DEF d, g
    <3>3. /\ Laid(d, w.batch, 0, n) /\ d.has_shift = w.kv.has_shift
          /\ \A t \in Slots : \A p, x :
               There(d, w.batch, 0, t, p, x) <=> There(w.kv, w.batch, 0, t, p, x) /\ (t = s => p \in 0 .. sl.n_past - 1)
      <4> DEFINE c == w.kv
                 u == w.batch
                 past == sl.n_past
      <4>1. n \in Nat /\ Laid(c, u, 0, n) /\ Quiet(u, s) /\ past \in Nat /\ d = SeqRm(c, s + 1, past, -1)
        BY <1>1, <2>4, <3>1, <3>2
      <4> HIDE DEF c, u, past
      <4>2. /\ Laid(d, u, 0, n) /\ d.has_shift = c.has_shift
            /\ \A t \in Slots : \A p, x :
                 There(d, u, 0, t, p, x) <=> There(c, u, 0, t, p, x) /\ (t = s => p \in 0 .. past - 1)
        BY <4>1, PartLaid
      <4> QED
        BY <4>2 DEF c, u, past
    <3>4. \A p, x : There(d, w.batch, 0, s, p, x) => p \in 0 .. sl.n_past - 1
      BY <3>3
    <3>5. /\ Entries(e, n) /\ Len(e) = len /\ Fresh(d, w.batch, e, s)
          /\ \A p, x : Among(e, 1, Len(e), s, p, x) <=> /\ p \in sl.n_past .. sl.n_past + len - 1
                                                        /\ x = sl.prompt[p + 1]
          /\ \A t \in Slots : \A p, x : Among(e, 1, Len(e), t, p, x) => t = s
      <4> DEFINE u == w.batch
      <4>1. Len(u) \in Nat /\ n \in Nat /\ SlotGood(sl) /\ sl.prompt # <<>> /\ Known(sl, n)
        BY <1>1, <2>1, <2>3, <2>7
      <4>2. \A p, x : There(d, u, 0, s, p, x) => p \in 0 .. sl.n_past - 1
        BY <3>4
      <4>3. len = PartLen(sl, u) /\ e = PartEntries(sl, s, 0, PartLen(sl, u))
        OBVIOUS
      <4> HIDE DEF u, len, e
      <4>4. /\ Entries(e, n) /\ Len(e) = len /\ Fresh(d, u, e, s)
            /\ \A p, x : Among(e, 1, Len(e), s, p, x) <=> /\ p \in sl.n_past .. sl.n_past + len - 1
                                                          /\ x = sl.prompt[p + 1]
            /\ \A t \in Slots : \A p, x : Among(e, 1, Len(e), t, p, x) => t = s
        <5>1. LET len0 == PartLen(sl, u)
                  e0   == PartEntries(sl, s, 0, len0)
              IN  /\ Entries(e0, n) /\ Len(e0) = len0
                  /\ \A c : (\A p, x : There(c, u, 0, s, p, x) => p \in 0 .. sl.n_past - 1) => Fresh(c, u, e0, s)
                  /\ \A p, x : Among(e0, 1, Len(e0), s, p, x) <=> /\ p \in sl.n_past .. sl.n_past + len0 - 1
                                                                   /\ x = sl.prompt[p + 1]
                  /\ \A t \in Slots : \A p, x : Among(e0, 1, Len(e0), t, p, x) => t = s
          BY <2>7, <4>1, PartFresh
        <5> QED
          BY <4>2, <4>3, <5>1, Zenon
      <4> QED
        BY <4>4 DEF u
    <3>6. SlotGood(r) /\ r.state \in {"done", "prompt"}
      BY <1>1, <2>1, <2>7, PartIsGood
    <3>7. e \in Seq(Entry)
      BY <3>5 DEF Entries
    <3> HIDE DEF r, e, len
    <3>8. tokens \in Seq(Entry) /\ Len(tokens) = m + len /\ Joined(w.batch, e, tokens)
      <4>1. /\ tokens \in Seq(Entry) /\ Len(tokens) = m + Len(e)
            /\ \A k \in 1 .. m + Len(e) : tokens[k] = IF k <= m THEN w.batch[k] ELSE e[k - m]
        BY <1>1, <3>7, ConcatProperties
      <4> HIDE DEF tokens
      <4>2. \A k \in 1 .. m : tokens[k] = w.batch[k]
        <5>1. \A k \in 1 .. m : k \in 1 .. m + len /\ k <= m
          BY <1>1, <3>1
        <5> QED
          BY <3>5, <4>1, <5>1
      <4>3. \A k \in 1 .. len : tokens[m + k] = e[k]
        <5> HIDE DEF m
        <5>1. \A k \in 1 .. len : m + k \in 1 .. m + len /\ ~(m + k <= m) /\ (m + k) - m = k
          BY <1>1, <3>1
        <5> QED
          BY <3>5, <4>1, <5>1
      <4> QED
        BY <3>5, <4>1, <4>2, <4>3 DEF Joined
    <3> HIDE DEF tokens
    <3>9. v = WorldOf([w.slot EXCEPT ![s] = r], d, g, tokens)
      BY <2>5, <2>7
    <3>10. /\ v.slot[s] = r /\ \A t \in Slots : t # s => v.slot[t] = w.slot[t]
           /\ v.kv = d /\ v.batch = tokens
      BY <1>1, <3>6, <3>8, <3>9, GoodUpdate
    <3>11. Laid(v.kv, v.batch, 0, n)
      BY <3>3, <3>5, <3>8, <3>10, JoinedLaid
    <3>12. \A t, p, x : There(v.kv, v.batch, 0, t, p, x) <=> There(d, w.batch, 0, t, p, x)
                                                             \/ Among(e, 1, Len(e), t, p, x)
      BY <3>3, <3>5, <3>8, <3>10, JoinedThere
    <3>13. \A t \in Slots : \A p, x :
             t # s => (There(v.kv, v.batch, 0, t, p, x) <=> There(w.kv, w.batch, 0, t, p, x))
      BY <3>3, <3>5, <3>12
    <3> DEFINE J == Places(v.kv, v.batch, 0, s)
    <3>14. \A p, t : <<p, t>> \in J <=> There(v.kv, v.batch, 0, s, p, t)
      BY <3>11, PlacesAre
    <3>15. \A p, t : <<p, t>> \in I <=> There(w.kv, w.batch, 0, s, p, t)
      BY <1>1, PlacesAre DEF I
    <3> HIDE DEF J
    <3>16. \A p, t : <<p, t>> \in J <=> \/ p \in 0 .. sl.n_past - 1 /\ <<p, t>> \in I
                                        \/ p \in sl.n_past .. sl.n_past + len - 1 /\ t = sl.prompt[p + 1]
      BY <3>3, <3>5, <3>12, <3>14, <3>15, Zenon
    <3>17. Stands(J, r) /\ Known(r, n)
      <4> DEFINE u == w.batch
      <4>1. Len(u) \in Nat /\ SmallDiscards /\ len = PartLen(sl, u) /\ r = PartSlot(sl, len, Len(u) + len - 1)
        BY <1>1, RoomMeansSmall DEF len, r
      <4> HIDE DEF u
      <4>2. \A p, t : <<p, t>> \in J <=> \/ p \in 0 .. sl.n_past - 1 /\ <<p, t>> \in I
                                         \/ /\ p \in sl.n_past .. sl.n_past + PartLen(sl, u) - 1
                                            /\ t = sl.prompt[p + 1]
        BY <3>16, <4>1
      <4>3. SlotGood(sl) /\ sl.prompt # <<>> /\ Known(sl, n) /\ Reusable(I, sl)
        BY <2>1, <2>3, <2>7
      <4> QED
        BY <2>7, <4>1, <4>2, <4>3, PartStands
    <3>18. Holding(v, n)
      BY <1>1, <3>10, <3>11, <3>13, <3>17, OneHolds DEF J
    <3>19. v.kv.has_shift => v.batch # <<>>
      <4>1. w.batch # <<>> => m # 0
        BY <1>1
      <4>2. m # 0 => Len(tokens) # 0
        BY <1>1, <3>1, <3>8
      <4>3. Len(tokens) # 0 => tokens # <<>>
        BY <3>8
      <4> QED
        BY <1>1, <3>3, <3>10, <4>1, <4>2, <4>3
    <3>20. ASSUME NEW t \in Slots, t >= s + 1, v.slot[t].state = "prompt"
           PROVE  Quiet(v.batch, t)
      <4>1. t # s /\ Quiet(w.batch, t)
        BY <1>2, <1>3, <3>10, <3>20
      <4>2. s + 1 # t + 1
        BY <4>1, SlotIds
      <4>3. \A k \in 1 .. m + len : k \in 1 .. m \/ (k - m \in 1 .. len /\ m + (k - m) = k)
        BY <1>1, <3>1
      <4>4. \A k \in 1 .. m : tokens[k].seq # t + 1
        BY <3>8, <4>1 DEF Joined, Quiet
      <4>5. \A k \in 1 .. len : tokens[m + k].seq # t + 1
        BY <3>5, <3>8, <4>2 DEF Joined, Fresh
      <4> HIDE DEF m
      <4>6. \A k \in 1 .. m + len : tokens[k].seq # t + 1
        BY <4>3, <4>4, <4>5
      <4> QED
        BY <3>8, <3>10, <4>6 DEF Quiet
    <3> QED
      BY <1>4, <3>18, <3>19, <3>20 DEF PromptHolding, v
  <2> QED
    BY <2>1, <2>6, <2>7
<1> QED
  BY <1>5, <1>6

LEMMA ShiftAll ==
  ASSUME SmallDiscards, NEW n \in Nat, NEW w, ShiftHolding(w, 0, n)
  PROVE  ShiftHolding(InTurn(Shift, w, 0), NSlots, n)
<1>1. PICK f : IsTurns("shift", w, 0, f) /\ f[NSlots] = InTurn(Shift, w, 0)
  BY InTurnIs
<1> DEFINE T == {k \in Nat : ShiftHolding(f[k], k, n)}
<1>2. 0 \in T
  BY <1>1 DEF IsTurns
<1>3. ASSUME NEW s \in Slots, s \in T
      PROVE  s + 1 \in T
  <2>1. f[s + 1] = Shift(f[s], s, 0)
    BY <1>1 DEF IsTurns, TurnOp
  <2>2. s + 1 \in Nat
    BY <1>3
  <2> QED
    BY <1>3, <2>1, <2>2, ShiftHolds
<1> HIDE DEF T
<1>4. NSlots \in T
  BY <1>2, <1>3, TurnsKeep
<1> QED
  BY <1>1, <1>4 DEF T

LEMMA SampledAll ==
  ASSUME SmallDiscards, NEW n \in Nat, NEW w, SampledHolding(w, 0, n)
  PROVE  SampledHolding(InTurn(AddSampled, w, 0), NSlots, n)
<1>1. PICK f : IsTurns("sampled", w, 0, f) /\ f[NSlots] = InTurn(AddSampled, w, 0)
  BY InTurnIs
<1> DEFINE T == {k \in Nat : SampledHolding(f[k], k, n)}
<1>2. 0 \in T
  BY <1>1 DEF IsTurns
<1>3. ASSUME NEW s \in Slots, s \in T
      PROVE  s + 1 \in T
  <2>1. f[s + 1] = AddSampled(f[s], s, 0)
    BY <1>1 DEF IsTurns, TurnOp
  <2>2. s + 1 \in Nat
    BY <1>3
  <2> QED
    BY <1>3, <2>1, <2>2, SampledHolds
<1> HIDE DEF T
<1>4. NSlots \in T
  BY <1>2, <1>3, TurnsKeep
<1> QED
  BY <1>1, <1>4 DEF T

LEMMA PromptAll ==
  ASSUME RoomToShift, NEW n, InVocabulary(n), NEW w, PromptHolding(w, 0, n)
  PROVE  PromptHolding(InTurn(AddPrompt, w, 0), NSlots, n)
<1>1. PICK f : IsTurns("prompt", w, 0, f) /\ f[NSlots] = InTurn(AddPrompt, w, 0)
  BY InTurnIs
<1> DEFINE T == {k \in Nat : PromptHolding(f[k], k, n)}
<1>2. 0 \in T
  BY <1>1 DEF IsTurns
<1>3. ASSUME NEW s \in Slots, s \in T
      PROVE  s + 1 \in T
  <2>1. f[s + 1] = AddPrompt(f[s], s, 0)
    BY <1>1 DEF IsTurns, TurnOp
  <2>2. s + 1 \in Nat
    BY <1>3
  <2> QED
    BY <1>3, <2>1, <2>2, PromptHolds
<1> HIDE DEF T
<1>4. NSlots \in T
  BY <1>2, <1>3, TurnsKeep
<1> QED
  BY <1>1, <1>4 DEF T

\* When the batch is built, every slot has what it believes to have, and keys that wait to be
\* shifted are shifted with the batch.
LEMMA BuiltHolds ==
  ASSUME RoomToShift, NEW n, InVocabulary(n), NEW w, ShiftHolding(w, 0, n)
  PROVE  Holding(Built(w), n) /\ (Built(w).kv.has_shift => Built(w).batch # <<>>)
<1> DEFINE u == InTurn(Shift, w, 0)
           v == InTurn(AddSampled, u, 0)
<1>1. SmallDiscards /\ n \in Nat
  BY RoomMeansSmall DEF InVocabulary
<1>2. ShiftHolding(u, NSlots, n)
  BY <1>1, ShiftAll
<1> HIDE DEF u
<1>3. SampledHolding(u, 0, n)
  <2>1. u.batch = <<>> /\ Len(u.batch) = 0 /\ GoodWorld(u) /\ 1 .. 0 = {}
    BY <1>2 DEF ShiftHolding, Shifted
  <2>2. \A s \in Slots : s < NSlots
    BY SizesAre DEF Slots
  <2>3. Continued(u, 0)
    BY <1>2, <2>1, <2>2 DEF ShiftHolding, Shifted, Continued
  <2>4. \A s \in Slots : Quiet(u.batch, s)
    BY <2>1 DEF Quiet
  <2> QED
    BY <1>2, <2>3, <2>4 DEF ShiftHolding, SampledHolding
<1>4. SampledHolding(v, NSlots, n)
  BY <1>1, <1>3, SampledAll
<1> HIDE DEF v
<1>5. PromptHolding(v, 0, n)
  <2>1. ~Pending(v, NSlots)
    BY SizesAre DEF Pending, Slots
  <2>2. Ongoing(v)
    BY <1>4 DEF SampledHolding, Continued, Ongoing
  <2> QED
    BY <1>4, <2>1, <2>2 DEF SampledHolding, PromptHolding
<1>6. PromptHolding(InTurn(AddPrompt, v, 0), NSlots, n)
  BY <1>5, PromptAll
<1>7. Built(w) = InTurn(AddPrompt, v, 0)
  BY Zenon DEF Built, v, u
<1> QED
  BY <1>6, <1>7 DEF PromptHolding

-----------------------------------------------------------------------------
(* The invariant of the positions                                          *)

\* What a slot was saved with: its tokens at the first positions, and what it believed.
SavedAs(f) == {x \in Nat \X Int : \E k \in 1 .. Len(f.cells) : f.cells[k].pos = x[1] /\ f.cells[k].tok = x[2]}

FileHolds(f, n) ==
  /\ Len(f.cells) \in 0 .. NCtx - 1
  /\ \A k \in 1 .. Len(f.cells) :
       /\ f.cells[k] \in Cell /\ f.cells[k].pos \in 0 .. Len(f.cells) - 1 /\ f.cells[k].tok \in 0 .. n - 1
       /\ f.cells[k].rot = f.cells[k].pos
  /\ \A k, l \in 1 .. Len(f.cells) : f.cells[k].pos = f.cells[l].pos => k = l
  /\ \A p \in 0 .. Len(f.cells) - 1 : \E k \in 1 .. Len(f.cells) : f.cells[k].pos = p
  /\ f.tokens \in Seq(Int) /\ Believed(SavedAs(f), f.tokens)

\* How much of the batch is decoded.
DecodedTo == IF view = NoView THEN 0 ELSE view.i

Holds(n) ==
  /\ Laid(kv, batch, DecodedTo, n)
  /\ \A s \in Slots : Stands(Places(kv, batch, DecodedTo, s), slot[s]) /\ Known(slot[s], n)
  /\ view = NoView => kv.has_shift = FALSE
  /\ file # Nothing => FileHolds(file, n)

\* Between two runs of update_slots.
LEMMA HoldsBetween ==
  ASSUME NEW n, Holds(n), view = NoView, Inv
  PROVE  /\ batch = <<>> /\ Cached(kv, n) /\ Low(kv) /\ kv.has_shift = FALSE
         /\ Holding(WorldOf(slot, kv, wkv, batch), n)
         /\ \A s \in Slots : \A p, t : <<p, t>> \in Places(kv, batch, 0, s) <=> Has(kv, s, p, t)
<1> DEFINE w == WorldOf(slot, kv, wkv, batch)
<1>1. DecodedTo = 0 /\ batch = <<>>
  BY DEF DecodedTo, Inv, Between
<1>2. Laid(kv, batch, 0, n) /\ kv.has_shift = FALSE
  BY <1>1 DEF Holds
<1>3. Cached(kv, n) /\ Low(kv)
  BY <1>2 DEF Laid
<1>4. w.slot = slot /\ w.kv = kv /\ w.batch = batch
  BY WorldOfFields
<1> HIDE DEF w
<1>5. Holding(w, n)
  BY <1>1, <1>2, <1>4 DEF Holding, Holds
<1>6. \A s, p, t : There(kv, batch, 0, s, p, t) <=> Has(kv, s, p, t)
  BY <1>1, <1>3, EmptyBatch
<1>7. \A s \in Slots : \A p, t : <<p, t>> \in Places(kv, batch, 0, s) <=> Has(kv, s, p, t)
  BY <1>2, <1>6, PlacesAre
<1> QED
  BY <1>1, <1>2, <1>3, <1>5, <1>7 DEF w

LEMMA InitHolds ==
  ASSUME NEW n, InVocabulary(n), Init
  PROVE  Holds(n)
<1>1. /\ slot = [s \in Slots |-> Idle] /\ kv = EmptyCache /\ batch = <<>> /\ view = NoView /\ file = Nothing
      /\ n \in Nat \ {0}
  BY DEF Init, InVocabulary
<1>2. kv.cells = [i \in CellIds |-> Free] /\ kv.has_shift = FALSE /\ kv.do_defrag = FALSE /\ Free.seqs = {}
  BY <1>1 DEF EmptyCache, Free
<1>3. \A i \in CellIds : kv.cells[i].seqs = {}
  BY <1>2
<1>4. Sound(kv, n)
  <2>1. Sound(kv, 0) /\ 0 \in Nat /\ n \in Nat /\ 0 <= n
    BY <1>1, EmptyIsSound
  <2> QED
    BY <2>1, SoundMore
<1>5. \A s, p, t : ~Has(kv, s, p, t)
  BY <1>3 DEF Has
<1>6. Cached(kv, n) /\ Low(kv)
  BY <1>2, <1>3, <1>4, <1>5 DEF Cached, OneSlot, Alone, Low
<1>7. /\ Laid(kv, batch, DecodedTo, n)
      /\ \A s, p, t : ~There(kv, batch, DecodedTo, s, p, t)
  BY <1>1, <1>5, <1>6, EmptyBatch DEF DecodedTo
<1>8. ASSUME NEW s \in Slots
      PROVE  Stands(Places(kv, batch, DecodedTo, s), slot[s]) /\ Known(slot[s], n)
  <2> DEFINE I == Places(kv, batch, DecodedTo, s)
  <2>1. I = {}
    BY <1>7 DEF Places
  <2>2. slot[s] = Idle /\ Idle.state = "idle" /\ Idle.cache_tokens = <<>> /\ Idle.sampled = 0 /\ Len(<<>>) = 0
    BY <1>1 DEF Idle, Fill
  <2>3. 0 \in 0 .. NCtx - 1 /\ 0 \in 0 .. n - 1 /\ 0 .. 0 - 1 = {} /\ 1 .. 0 = {}
    BY <1>1, SizesAre
  <2> HIDE DEF I
  <2>4. ~Started(slot[s]) /\ Filled(I, 0)
    BY <2>1, <2>2, <2>3 DEF Started, Filled
  <2> QED
    BY <2>2, <2>3, <2>4 DEF Stands, Counted, Believed, Known, I
<1> QED
  BY <1>1, <1>2, <1>7, <1>8 DEF Holds

\* What one slot changes, between two runs of update_slots.
LEMMA SlotHolds ==
  ASSUME NEW n, Holds(n), view = NoView, Inv, NEW s \in Slots, UNCHANGED <<view, batch>>,
         Cached(kv', n), Low(kv'), kv'.has_shift = FALSE,
         \A t \in Slots : \A p, x : t # s => (Has(kv', t, p, x) <=> Has(kv, t, p, x)),
         \A t \in Slots : t # s => slot'[t] = slot[t],
         Stands(Places(kv', <<>>, 0, s), slot'[s]), Known(slot'[s], n),
         file' # Nothing => FileHolds(file', n)
  PROVE  Holds(n)'
<1> DEFINE w == WorldOf(slot, kv, wkv, batch)
           v == WorldOf(slot', kv', wkv', <<>>)
<1>1. batch = <<>> /\ Cached(kv, n) /\ Low(kv) /\ Holding(w, n)
  BY HoldsBetween
<1>2. /\ w.slot = slot /\ w.kv = kv /\ w.batch = <<>>
      /\ v.slot = slot' /\ v.kv = kv' /\ v.batch = <<>>
  BY <1>1, WorldOfFields
<1> HIDE DEF w, v
<1>3. Laid(kv', <<>>, 0, n)
  BY EmptyBatch
<1>4. \A t \in Slots : \A p, x : t # s => (There(kv', <<>>, 0, t, p, x) <=> There(kv, <<>>, 0, t, p, x))
  <2>1. /\ \A t, p, x : There(kv', <<>>, 0, t, p, x) <=> Has(kv', t, p, x)
        /\ \A t, p, x : There(kv, <<>>, 0, t, p, x) <=> Has(kv, t, p, x)
    BY <1>1, EmptyBatch
  <2> QED
    BY <2>1
<1>5. Holding(v, n)
  BY <1>1, <1>2, <1>3, <1>4, OneHolds
<1>6. DecodedTo' = 0 /\ batch' = <<>>
  BY <1>1 DEF DecodedTo
<1> QED
  BY <1>2, <1>3, <1>5, <1>6 DEF Holds, Holding

\* A slot that changes with what it has staying as it is, and without a prompt that is computed.
LEMMA RestHolds ==
  ASSUME NEW n, Holds(n), view = NoView, Inv, NEW s \in Slots, UNCHANGED <<view, batch, kv, file>>,
         \A t \in Slots : t # s => slot'[t] = slot[t],
         slot'[s].cache_tokens = slot[s].cache_tokens, ~Started(slot'[s]), Known(slot'[s], n)
  PROVE  Holds(n)'
<1>1. batch = <<>> /\ Cached(kv, n) /\ Low(kv) /\ kv.has_shift = FALSE
  BY HoldsBetween
<1>2. Stands(Places(kv, <<>>, 0, s), slot[s])
  BY <1>1 DEF Holds, DecodedTo
<1>3. Stands(Places(kv, <<>>, 0, s), slot'[s])
  BY <1>2, RestStands
<1>4. file' # Nothing => FileHolds(file', n)
  BY DEF Holds
<1> QED
  BY <1>1, <1>3, <1>4, SlotHolds

LEMMA LaunchHolds ==
  ASSUME NEW n, Holds(n), Inv, NEW s \in Slots, NEW r \in Requests, Launch(s, r, Nothing)
  PROVE  Holds(n)'
<1> DEFINE sl == slot[s]
           l == [sl EXCEPT !.state = "prompt", !.task = r, !.prompt = <<>>, !.n_past = 0]
<1>1. view = NoView /\ UNCHANGED <<view, batch, kv, file>>
  BY DEF Launch, NewTask
<1>2. SlotGood(sl) /\ sl \in SlotRecords
  BY DEF Inv, SlotsGood, SlotGood
<1>3. slot'[s] = l /\ \A t \in Slots : t # s => slot'[t] = slot[t]
  <2>1. slot' = [t \in Slots |-> IF t = s THEN l ELSE slot[t]]
    BY Zenon DEF Launch
  <2> QED
    BY <2>1
<1>4. l.state = "prompt" /\ l.task = r /\ l.prompt = <<>> /\ l.cache_tokens = sl.cache_tokens
  BY <1>2, LaunchIsGood
<1>5. l.sampled = sl.sampled
  <2>1. l = WithLaunch(sl, r)
    BY Zenon DEF WithLaunch, SetState, SetTask, SetPrompt, SetPast
  <2> QED
    BY <1>2, <2>1, SampledKept
<1> HIDE DEF l
<1>6. ~Started(l) /\ Known(l, n)
  BY <1>4, <1>5 DEF Started, Known, Holds
<1> QED
  BY <1>1, <1>3, <1>4, <1>6, RestHolds

LEMMA CancelHolds ==
  ASSUME NEW n, Holds(n), Inv, NEW s \in Slots, Cancel(s)
  PROVE  Holds(n)'
<1> DEFINE sl == slot[s]
           l == Release(sl)
<1>1. view = NoView /\ UNCHANGED <<view, batch, kv, file>>
  BY DEF Cancel
<1>2. SlotGood(sl) /\ sl \in SlotRecords /\ slot \in [Slots -> SlotRecords]
  BY DEF Inv, SlotsGood, SlotGood
<1>3. slot'[s] = l /\ \A t \in Slots : t # s => slot'[t] = slot[t]
  <2>1. slot' = [slot EXCEPT ![s] = l]
    BY Zenon DEF Cancel
  <2> HIDE DEF l
  <2> QED
    BY <1>2, <2>1
<1>4. l.state = "idle" /\ l.cache_tokens = sl.cache_tokens /\ l.sampled = sl.sampled
  BY <1>2, ReleaseIsGood, SampledKept
<1> HIDE DEF l
<1>5. ~Started(l) /\ Known(l, n)
  BY <1>4 DEF Started, Known, Holds
<1> QED
  BY <1>1, <1>3, <1>4, <1>5, RestHolds

\* A slot that has nothing, and believes so.
LEMMA EmptyStands ==
  ASSUME NEW l, l.cache_tokens = <<>>, ~Started(l)
  PROVE  Stands({}, l)
<1>1. 0 \in 0 .. NCtx - 1 /\ 0 .. 0 - 1 = {} /\ Len(<<>>) = 0 /\ 1 .. 0 = {}
  BY SizesAre
<1>2. Filled({}, 0)
  BY <1>1 DEF Filled
<1> QED
  BY <1>1, <1>2 DEF Stands, Counted, Believed

\* A slot that is emptied.
LEMMA RmAllHas ==
  ASSUME NEW n \in Nat, NEW c, Cached(c, n), Low(c), NEW s \in Slots
  PROVE  LET d == SeqRm(c, s + 1, -1, -1)
         IN  /\ Cached(d, n) /\ Low(d) /\ d.has_shift = c.has_shift
             /\ \A p, x : ~Has(d, s, p, x)
             /\ \A t \in Slots : \A p, x : t # s => (Has(d, t, p, x) <=> Has(c, t, p, x))
<1> DEFINE d == SeqRm(c, s + 1, -1, -1)
<1>1. /\ Cached(d, n) /\ d.has_shift = c.has_shift
      /\ \A t \in Slots : \A p, x : Has(d, t, p, x) <=> Has(c, t, p, x) /\ ~(t = s /\ InRange(p, -1, -1))
  BY RmHas
<1> HIDE DEF d
<1>2. \A p, x : ~Has(d, s, p, x)
  <2> SUFFICES ASSUME NEW p, NEW x, Has(c, s, p, x)
               PROVE  InRange(p, -1, -1)
    BY <1>1
  <2>1. p \in Nat
    BY SizesAre DEF Low
  <2> QED
    BY <2>1 DEF InRange
<1>3. Low(d)
  BY <1>1 DEF Low
<1> QED
  BY <1>1, <1>2, <1>3 DEF d

LEMMA EraseHolds ==
  ASSUME NEW n \in Nat, Holds(n), Inv, NEW s \in Slots, Erase(s)
  PROVE  Holds(n)'
<1> DEFINE sl == slot[s]
           l == WithTokens(sl, <<>>)
<1>1. view = NoView /\ UNCHANGED <<view, batch, file>> /\ sl.state = "idle" /\ kv' = SeqRm(kv, s + 1, -1, -1)
  BY DEF Erase, NewTask, Processing
<1>2. SlotGood(sl) /\ sl \in SlotRecords /\ slot \in [Slots -> SlotRecords]
  BY DEF Inv, SlotsGood, SlotGood
<1>3. slot'[s] = l /\ \A t \in Slots : t # s => slot'[t] = slot[t]
  <2>1. slot' = [slot EXCEPT ![s] = [sl EXCEPT !.cache_tokens = <<>>]]
    BY Zenon DEF Erase
  <2>2. l = [sl EXCEPT !.cache_tokens = <<>>]
    BY Zenon DEF WithTokens, SetTokens
  <2> HIDE DEF l
  <2> QED
    BY <1>2, <2>1, <2>2
<1>4. l.state = "idle" /\ l.cache_tokens = <<>> /\ l.sampled = sl.sampled
  <2>1. <<>> \in Seq(Int)
    OBVIOUS
  <2> QED
    BY <1>1, <1>2, <2>1, TokensAreGood, SampledKept
<1> HIDE DEF l
<1>5. ~Started(l) /\ Known(l, n)
  BY <1>4 DEF Started, Known, Holds
<1>6. batch = <<>> /\ Cached(kv, n) /\ Low(kv) /\ kv.has_shift = FALSE
  BY <1>1, HoldsBetween
<1>7. /\ Cached(kv', n) /\ Low(kv') /\ kv'.has_shift = FALSE
      /\ \A p, x : ~Has(kv', s, p, x)
      /\ \A t \in Slots : \A p, x : t # s => (Has(kv', t, p, x) <=> Has(kv, t, p, x))
  BY <1>1, <1>6, RmAllHas
<1>8. Places(kv', <<>>, 0, s) = {}
  <2>1. \A p, x : ~There(kv', <<>>, 0, s, p, x)
    BY <1>7, EmptyBatch
  <2> QED
    BY <2>1 DEF Places
<1>9. Stands({}, l)
  BY <1>4, <1>5, EmptyStands
<1>10. file' # Nothing => FileHolds(file', n)
  BY <1>1 DEF Holds
<1> QED
  BY <1>1, <1>3, <1>5, <1>7, <1>8, <1>9, <1>10, SlotHolds

\* When the batch is built, the next chunk is its first.
LEMMA BeginHolds ==
  ASSUME RoomToShift, NEW n, InVocabulary(n), Holds(n), Inv, BeginUpdate
  PROVE  Holds(n)'
<1> DEFINE w == WorldOf(slot, kv, wkv, <<>>)
           v == Built(w)
<1>1. view = NoView /\ system = NoSystem /\ SlotsGood /\ \A s \in Slots : Indexed(slot[s], 0)
  BY DEF Inv, Between, BeginUpdate
<1>2. w.slot = slot /\ w.kv = kv /\ w.wkv = wkv /\ w.batch = <<>> /\ IsWorld(w)
  BY WorldOfFields
<1>3. [World EXCEPT !.batch = <<>>] = w
  BY DEF World, WorldOf
<1>4. system.need_update = FALSE /\ n_system = 0
  BY <1>1 DEF NoSystem, n_system
<1>5. /\ slot' = v.slot /\ kv' = v.kv /\ batch' = v.batch
      /\ view' = IF v.batch = <<>> THEN NoView ELSE [i |-> 0, n_batch |-> NBatch]
      /\ UNCHANGED file
  <2> DEFINE u == [ok |-> TRUE, w |-> World]
             x == InTurn(AddPrompt, InTurn(AddSampled, InTurn(Shift, [u.w EXCEPT !.batch = <<>>], n_system), n_system),
                         n_system)
  <2>1. x = v
    BY <1>3, <1>4 DEF Built
  <2> HIDE DEF x, v
  <2>2. /\ slot' = x.slot /\ kv' = x.kv /\ batch' = x.batch
        /\ view' = IF x.batch = <<>> THEN NoView ELSE [i |-> 0, n_batch |-> NBatch]
        /\ UNCHANGED file
    BY <1>4, Zenon DEF BeginUpdate, x
  <2> QED
    BY <2>1, <2>2
<1>6. Shifted(w, 0)
  <2>1. <<>> \in Seq(Entry) /\ \A s \in Slots : ~(s < 0)
    BY SizesAre DEF Slots
  <2> HIDE DEF w
  <2> QED
    BY <1>1, <1>2, <2>1 DEF Shifted, GoodWorld, SlotsGood
<1>7. Holding(w, n) /\ kv.has_shift = FALSE
  <2>1. batch = <<>> /\ Holding(WorldOf(slot, kv, wkv, batch), n) /\ kv.has_shift = FALSE
    BY <1>1, HoldsBetween
  <2> QED
    BY <2>1
<1> HIDE DEF w
<1>8. Holding(v, n) /\ (v.kv.has_shift => v.batch # <<>>)
  <2>1. ShiftHolding(w, 0, n)
    BY <1>2, <1>6, <1>7 DEF ShiftHolding
  <2> QED
    BY <2>1, BuiltHolds
<1>9. Laid(v.kv, v.batch, 0, n) /\ \A s \in Slots : Stands(Places(v.kv, v.batch, 0, s), v.slot[s]) /\ Known(v.slot[s], n)
  BY <1>8 DEF Holding
<1> HIDE DEF v
<1>10. DecodedTo' = 0
  <2>1. [i |-> 0, n_batch |-> NBatch].i = 0
    OBVIOUS
  <2> QED
    BY <1>5, <2>1 DEF DecodedTo
<1>11. view' = NoView => kv'.has_shift = FALSE
  <2>1. view' = NoView => v.batch = <<>>
    BY <1>5 DEF NoView
  <2>2. v.kv.has_shift \in BOOLEAN
    BY <1>9, SoundFields DEF Laid, Cached, InVocabulary
  <2> QED
    BY <1>5, <1>8, <2>1, <2>2
<1>12. file' # Nothing => FileHolds(file', n)
  BY <1>5 DEF Holds
<1> QED
  BY <1>5, <1>9, <1>10, <1>11, <1>12 DEF Holds

\* A cache that is cleared while nobody believes to have something in it.
LEMMA IdleHolds ==
  ASSUME NEW n \in Nat, Holds(n), Inv, IdleUpdate, ~wiped'
  PROVE  Holds(n)'
<1>1. /\ view = NoView /\ UNCHANGED <<slot, system, batch, view, file, master_only>>
      /\ \A s \in Slots : slot[s].state = "idle"
      /\ \/ kv' = kv
         \/ kv' = Cleared(kv) /\ \A s \in Slots : slot[s].cache_tokens = <<>>
  BY IdleIs
<1>2. CASE kv' = kv
  BY <1>1, <1>2 DEF Holds, DecodedTo
<1>3. CASE kv' = Cleared(kv) /\ \A s \in Slots : slot[s].cache_tokens = <<>>
  <2>1. batch = <<>> /\ Cached(kv, n) /\ kv.has_shift = FALSE
    BY <1>1, HoldsBetween
  <2>2. Sound(kv', n) /\ Used(kv'.cells) = {}
    BY <1>3, <2>1, ClearedIs DEF Cached
  <2>3. kv'.has_shift = FALSE /\ kv'.do_defrag = FALSE
    <3>1. kv \in Caches(Cell)
      BY <2>1 DEF Cached, Sound
    <3> DEFINE cells == [i \in CellIds |-> Freed(kv.cells[i])]
    <3>2. Cleared(kv) = WithCellsHeadUsed(kv, cells, 0, 0)
      BY Zenon DEF Cleared, WithCellsHeadUsed
    <3> HIDE DEF cells
    <3>3. Cleared(kv) = CacheOf(cells, 0, 0, kv.has_shift, kv.do_defrag)
      BY <3>1, <3>2, CellsHeadUsedForm
    <3> QED
      BY <1>3, <2>1, <3>3, CacheOfFields DEF Cached
  <2>4. \A i \in CellIds : kv'.cells[i].seqs = {}
    BY <2>2 DEF Used
  <2>5. \A s, p, t : ~Has(kv', s, p, t)
    BY <2>4 DEF Has
  <2>6. Cached(kv', n) /\ Low(kv')
    BY <2>2, <2>3, <2>4, <2>5 DEF Cached, OneSlot, Alone, Low
  <2>7. /\ Laid(kv', <<>>, 0, n)
        /\ \A s, p, t : ~There(kv', <<>>, 0, s, p, t)
    BY <2>5, <2>6, EmptyBatch
  <2>8. DecodedTo' = 0 /\ batch' = <<>> /\ (file' # Nothing => FileHolds(file', n))
    BY <1>1, <2>1 DEF DecodedTo, Holds
  <2>9. ASSUME NEW s \in Slots
        PROVE  Stands(Places(kv', <<>>, 0, s), slot'[s]) /\ Known(slot'[s], n)
    <3>1. Places(kv', <<>>, 0, s) = {}
      BY <2>7 DEF Places
    <3>2. slot'[s] = slot[s] /\ slot[s].cache_tokens = <<>> /\ ~Started(slot[s])
      BY <1>1, <1>3 DEF Started
    <3> QED
      BY <3>1, <3>2, EmptyStands DEF Holds
  <2> QED
    BY <2>3, <2>7, <2>8, <2>9 DEF Holds
<1> QED
  BY <1>1, <1>2, <1>3

\* The cells of a slot: as many as it has positions, one for each.
IdsOf(c, s) == {i \in CellIds : s + 1 \in c.cells[i].seqs}

OneEach(c, ids, m) ==
  /\ ids \in SUBSET CellIds /\ ids \in SUBSET Int /\ IsFiniteSet(ids) /\ Cardinality(ids) = m
  /\ \A i \in ids : c.cells[i].pos \in 0 .. m - 1
  /\ \A i, j \in ids : c.cells[i].pos = c.cells[j].pos => i = j
  /\ \A p \in 0 .. m - 1 : \E i \in ids : c.cells[i].pos = p

LEMMA FilledIds ==
  ASSUME NEW n, NEW c, Cached(c, n), Low(c), NEW s \in Slots, NEW m \in Nat, Filled(Places(c, <<>>, 0, s), m)
  PROVE  OneEach(c, IdsOf(c, s), m)
<1> DEFINE ids == IdsOf(c, s)
           f == [i \in ids |-> c.cells[i].pos]
<1>1. \A p, t : <<p, t>> \in Places(c, <<>>, 0, s) <=> Has(c, s, p, t)
  <2>1. Laid(c, <<>>, 0, n) /\ \A x, p, t : There(c, <<>>, 0, x, p, t) <=> Has(c, x, p, t)
    BY EmptyBatch
  <2> QED
    BY <2>1, PlacesAre
<1>2. ids \in SUBSET CellIds /\ ids \in SUBSET Int /\ IsFiniteSet(ids) /\ Cardinality(ids) \in Nat
  <2>1. ids \in SUBSET CellIds
    BY DEF IdsOf
  <2> HIDE DEF ids
  <2>2. IsFiniteSet(ids) /\ Cardinality(ids) \in Nat
    BY <2>1, CellIdsFinite, SizeAssumption
  <2>3. CellIds \subseteq Int
    BY SizeAssumption DEF CellIds
  <2> QED
    BY <2>1, <2>2, <2>3
<1>3. ASSUME NEW i \in ids
      PROVE  c.cells[i].pos \in 0 .. m - 1
  <2>1. Has(c, s, c.cells[i].pos, c.cells[i].tok)
    BY DEF Has, IdsOf
  <2>2. <<c.cells[i].pos, c.cells[i].tok>> \in Places(c, <<>>, 0, s)
    BY <1>1, <2>1
  <2> QED
    BY <2>2 DEF Filled
<1>4. ASSUME NEW i \in ids, NEW j \in ids, c.cells[i].pos = c.cells[j].pos
      PROVE  i = j
  <2>1. c.cells[i].seqs = {s + 1} /\ c.cells[j].seqs = {s + 1}
    BY CachedCell DEF IdsOf
  <2> QED
    BY <1>4, <2>1 DEF Cached, Alone, IdsOf
<1>5. ASSUME NEW p \in 0 .. m - 1
      PROVE  \E i \in ids : c.cells[i].pos = p
  <2>1. PICK t : <<p, t>> \in Places(c, <<>>, 0, s)
    BY DEF Filled
  <2>2. Has(c, s, p, t)
    BY <1>1, <2>1
  <2> QED
    BY <2>2 DEF Has, IdsOf
<1>6. Cardinality(ids) = m
  <2>1. f \in [ids -> 0 .. m - 1] /\ (\A x, y \in ids : f[x] = f[y] => x = y)
        /\ \A p \in 0 .. m - 1 : \E x \in ids : f[x] = p
    BY <1>3, <1>4, <1>5
  <2> DEFINE T == 0 .. m - 1
  <2> HIDE DEF f, ids
  <2>2. IsFiniteSet(T) /\ Cardinality(T) = Cardinality(ids)
    BY <1>2, <2>1, SameCount
  <2>3. Cardinality(T) = m
    <3>1. 0 .. 0 + m - 1 = T
      OBVIOUS
    <3> HIDE DEF T
    <3> QED
      BY <3>1, CountInterval
  <2> QED
    BY <2>2, <2>3
<1> HIDE DEF f
<1> QED
  BY <1>2, <1>3, <1>4, <1>5, <1>6, Zenon DEF OneEach

LEMMA BelievedMore ==
  ASSUME NEW I, NEW J, I \subseteq J, NEW tokens, Believed(I, tokens)
  PROVE  Believed(J, tokens)
BY DEF Believed

\* A slot is saved as it stands.
LEMMA SaveHolds ==
  ASSUME NEW n \in Nat, Holds(n), Inv, NEW s \in Slots, Save(s)
  PROVE  Holds(n)'
<1> DEFINE ids == {i \in CellIds : s + 1 \in kv.cells[i].seqs}
           nth(k) == CHOOSE i \in ids : Cardinality({j \in ids : j < i}) = k - 1
           cells == [k \in 1 .. Cardinality(ids) |-> kv.cells[nth(k)]]
           I == Places(kv, <<>>, 0, s)
           tokens == slot[s].cache_tokens
<1>1. view = NoView /\ UNCHANGED <<slot, kv, batch, view>> /\ file' = [cells |-> cells, tokens |-> tokens]
  BY DEF Save, NewTask
<1>2. batch = <<>> /\ Cached(kv, n) /\ Low(kv) /\ kv.has_shift = FALSE
  BY <1>1, HoldsBetween
<1>3. tokens \in Seq(Int)
  BY SlotFields DEF Inv, SlotsGood
<1>4. Stands(I, slot[s])
  BY <1>1, <1>2 DEF Holds, DecodedTo
<1>5. PICK m \in 0 .. NCtx - 1 : Filled(I, m)
  BY <1>4 DEF Stands, Counted
<1>6. m \in Nat
  BY <1>5, SizesAre
<1>7. OneEach(kv, ids, m)
  <2>1. ids = IdsOf(kv, s)
    BY DEF IdsOf
  <2> HIDE DEF ids
  <2> QED
    BY <1>2, <1>5, <1>6, <2>1, FilledIds, Zenon
<1>8. \A i \in ids : s + 1 \in kv.cells[i].seqs
  OBVIOUS
<1>9. \A p, t : <<p, t>> \in I => \E i \in ids : kv.cells[i].pos = p /\ kv.cells[i].tok = t
  <2>1. \A p, t : <<p, t>> \in I => Has(kv, s, p, t)
    BY <1>1, <1>2, HoldsBetween
  <2> QED
    BY <2>1 DEF Has
<1>10. file'.cells = cells /\ file'.tokens = tokens
  <2> HIDE DEF cells, tokens
  <2> QED
    BY <1>1
<1> HIDE DEF ids, I, tokens
<1>11. ASSUME NEW k \in 1 .. m
       PROVE  nth(k) \in ids /\ Cardinality(Below(ids, nth(k))) = k - 1
  <2>1. k - 1 \in 0 .. Cardinality(ids) - 1
    BY <1>6, <1>7 DEF OneEach
  <2>2. \E i \in ids : Cardinality(Below(ids, i)) = k - 1
    BY <1>7, <2>1, RanksBelow DEF OneEach
  <2> QED
    BY <2>2 DEF Below
<1>12. ASSUME NEW i \in ids
       PROVE  \E k \in 1 .. m : nth(k) = i
  <2> DEFINE r == Cardinality(Below(ids, i))
             k == r + 1
  <2>1. r \in 0 .. m - 1
    BY <1>7, RanksBelow DEF OneEach
  <2> HIDE DEF r
  <2>2. k \in 1 .. m /\ k - 1 = r
    BY <1>6, <2>1
  <2> HIDE DEF k
  <2>3. nth(k) \in ids /\ Cardinality(Below(ids, nth(k))) = Cardinality(Below(ids, i))
    BY <1>11, <2>2 DEF r
  <2>4. nth(k) = i
    BY <1>7, <2>3, RanksBelow DEF OneEach
  <2> QED
    BY <2>2, <2>4
<1>13. cells = [k \in 1 .. m |-> kv.cells[nth(k)]]
  BY <1>7 DEF OneEach
<1> HIDE DEF nth, cells
<1>14. Len(cells) = m /\ \A k \in 1 .. m : cells[k] = kv.cells[nth(k)]
  BY <1>6, <1>13
<1>15. ASSUME NEW i \in ids
       PROVE  /\ kv.cells[i] \in Cell /\ kv.cells[i].tok \in 0 .. n - 1 /\ kv.cells[i].rot = kv.cells[i].pos
  <2>1. i \in CellIds /\ SoundCell(kv.cells[i], n, FALSE)
    BY <1>2, <1>7 DEF Cached, Sound, OneEach
  <2>2. kv.cells[i].seqs # {}
    BY <1>8
  <2>3. /\ kv.cells[i] \in Cell /\ kv.cells[i].tok \in 0 .. n - 1 /\ kv.cells[i].delta = 0
        /\ kv.cells[i].rot + kv.cells[i].delta = kv.cells[i].pos
    BY <2>1, <2>2 DEF SoundCell, SoundData
  <2>4. kv.cells[i].rot \in Int
    BY <2>3 DEF Cell
  <2> QED
    BY <2>3, <2>4
<1>16. ASSUME NEW k \in 1 .. m
       PROVE  /\ cells[k] \in Cell /\ cells[k].pos \in 0 .. m - 1 /\ cells[k].tok \in 0 .. n - 1
              /\ cells[k].rot = cells[k].pos
  <2> DEFINE i == nth(k)
  <2>1. i \in ids /\ cells[k] = kv.cells[i]
    BY <1>11, <1>14
  <2> HIDE DEF i
  <2> QED
    BY <1>7, <1>15, <2>1 DEF OneEach
<1>17. ASSUME NEW k \in 1 .. m, NEW l \in 1 .. m, cells[k].pos = cells[l].pos
       PROVE  k = l
  <2> DEFINE i == nth(k)
             j == nth(l)
  <2>1. /\ i \in ids /\ cells[k] = kv.cells[i] /\ Cardinality(Below(ids, i)) = k - 1
        /\ j \in ids /\ cells[l] = kv.cells[j] /\ Cardinality(Below(ids, j)) = l - 1
    BY <1>11, <1>14
  <2> HIDE DEF i, j
  <2>2. i = j
    BY <1>7, <1>17, <2>1 DEF OneEach
  <2>3. k - 1 = l - 1
    BY <2>1, <2>2
  <2> QED
    BY <1>6, <2>3
<1>18. ASSUME NEW p \in 0 .. m - 1
       PROVE  \E k \in 1 .. m : cells[k].pos = p
  <2>1. PICK i \in ids : kv.cells[i].pos = p
    BY <1>7 DEF OneEach
  <2> QED
    BY <1>12, <1>14, <2>1
<1>19. Believed(SavedAs(file'), tokens)
  <2>1. I \subseteq SavedAs(file')
    <3> SUFFICES ASSUME NEW x \in I
                 PROVE  x \in SavedAs(file')
      OBVIOUS
    <3>1. x \in Nat \X Int /\ x = <<x[1], x[2]>>
      BY DEF I, Places
    <3>2. PICK i \in ids : kv.cells[i].pos = x[1] /\ kv.cells[i].tok = x[2]
      BY <1>9, <3>1
    <3>3. PICK k \in 1 .. m : nth(k) = i
      BY <1>12
    <3>4. cells[k].pos = x[1] /\ cells[k].tok = x[2]
      BY <1>14, <3>2, <3>3
    <3> QED
      BY <1>10, <1>14, <3>1, <3>4 DEF SavedAs
  <2>2. Believed(I, tokens)
    BY <1>4 DEF Stands, tokens
  <2> QED
    BY <2>1, <2>2, BelievedMore
<1>20. FileHolds(file', n)
  BY <1>3, <1>5, <1>10, <1>14, <1>16, <1>17, <1>18, <1>19 DEF FileHolds
<1>21. DecodedTo' = DecodedTo
  BY <1>1 DEF DecodedTo
<1> QED
  BY <1>1, <1>20, <1>21 DEF Holds

WithHeadUsedCells(c, x, y, z) == [c EXCEPT !.head = x, !.used = y, !.cells = z]

LEMMA HeadUsedCellsForm ==
  ASSUME NEW c \in Caches(Cell), NEW x, NEW y, NEW z
  PROVE  WithHeadUsedCells(c, x, y, z) = CacheOf(z, x, y, c.has_shift, c.do_defrag)
<1>0. c = CacheOf(c.cells, c.head, c.used, c.has_shift, c.do_defrag)
  BY CacheFields
<1> DEFINE a == [c EXCEPT !.head = x]
           b == [a EXCEPT !.used = y]
<1>1. WithHeadUsedCells(c, x, y, z) = [b EXCEPT !.cells = z]
  BY Zenon DEF WithHeadUsedCells
<1>2. a = CacheOf(c.cells, x, c.used, c.has_shift, c.do_defrag)
  BY <1>0 DEF CacheOf
<1> HIDE DEF a
<1>3. b = CacheOf(c.cells, x, y, c.has_shift, c.do_defrag)
  BY <1>2 DEF CacheOf
<1> HIDE DEF b
<1>4. [b EXCEPT !.cells = z] = CacheOf(z, x, y, c.has_shift, c.do_defrag)
  BY <1>3 DEF CacheOf
<1> QED
  BY <1>1, <1>4

\* A saved cell, as its token would be put anew.
SavedEntries(g, s) ==
  [k \in 1 .. Len(g.cells) |-> [tok |-> g.cells[k].tok, pos |-> g.cells[k].pos, seq |-> s + 1]]

LEMMA SavedCell ==
  ASSUME NEW x \in Cell, x.rot = x.pos, NEW q, NEW by
  PROVE  [x EXCEPT !.seqs = {q}, !.delta = by] = CellOf(x.pos, {q}, x.tok, x.pos, by)
<1> DEFINE a == [x EXCEPT !.seqs = {q}]
<1>1. [x EXCEPT !.seqs = {q}, !.delta = by] = [a EXCEPT !.delta = by]
  BY Zenon
<1>2. a = CellOf(x.pos, {q}, x.tok, x.pos, x.delta)
  BY DEF Cell, CellOf
<1> HIDE DEF a
<1>3. [a EXCEPT !.delta = by] = CellOf(x.pos, {q}, x.tok, x.pos, by)
  BY <1>2 DEF CellOf
<1> QED
  BY <1>1, <1>3

LEMMA SavedEntriesAre ==
  ASSUME NEW n \in Nat, NEW g, FileHolds(g, n), NEW s \in Slots
  PROVE  LET e == SavedEntries(g, s)
         IN  /\ Entries(e, n) /\ Len(e) = Len(g.cells) /\ Once(e, 0)
             /\ \A k \in 1 .. Len(e) : /\ e[k].tok = g.cells[k].tok /\ e[k].pos = g.cells[k].pos
                                       /\ e[k].seq = s + 1 /\ e[k].seq - 1 = s
<1> DEFINE m == Len(g.cells)
           e == SavedEntries(g, s)
<1>1. /\ m \in 0 .. NCtx - 1
      /\ \A k \in 1 .. m : g.cells[k].pos \in 0 .. m - 1 /\ g.cells[k].tok \in 0 .. n - 1
      /\ \A k, l \in 1 .. m : g.cells[k].pos = g.cells[l].pos => k = l
  BY DEF FileHolds
<1>2. m \in Nat /\ m <= NCtx - 1 /\ s + 1 \in Int /\ (s + 1) - 1 = s
  BY <1>1, SizesAre, SlotIds
<1> DEFINE at(k) == [tok |-> g.cells[k].tok, pos |-> g.cells[k].pos, seq |-> s + 1]
<1>3. e = [k \in 1 .. m |-> at(k)]
  BY DEF SavedEntries
<1> HIDE DEF m, e
<1>4. \A k \in 1 .. m : g.cells[k].pos \in 0 .. NCtx - 2 /\ g.cells[k].pos \in Int /\ g.cells[k].tok \in Int
  BY <1>1, <1>2, SizesAre
<1>5. e \in Seq(Entry) /\ Len(e) = m
  <2>1. m \in Nat /\ \A k \in 1 .. m : at(k) \in Entry
    BY <1>2, <1>4 DEF Entry
  <2> HIDE DEF at
  <2> QED
    BY <1>3, <2>1
<1>6. \A k \in 1 .. m : e[k].tok = g.cells[k].tok /\ e[k].pos = g.cells[k].pos /\ e[k].seq = s + 1 /\ e[k].seq - 1 = s
  BY <1>2, <1>3
<1>7. Entries(e, n)
  <2> SUFFICES ASSUME NEW k \in 1 .. m
               PROVE  e[k].tok \in 0 .. n - 1 /\ e[k].pos \in 0 .. NCtx - 2 /\ e[k].seq - 1 \in Slots
    BY <1>5 DEF Entries
  <2>1. e[k].tok = g.cells[k].tok /\ e[k].pos = g.cells[k].pos /\ e[k].seq = s + 1
    BY <1>6
  <2>2. g.cells[k].tok \in 0 .. n - 1 /\ g.cells[k].pos \in 0 .. NCtx - 2
    BY <1>1, <1>4
  <2> QED
    BY <1>2, <2>1, <2>2
<1>8. Once(e, 0)
  <2>1. 0 + 1 .. m = 1 .. m
    OBVIOUS
  <2> QED
    BY <1>1, <1>5, <1>6, <2>1 DEF Once
<1> QED
  BY <1>2, <1>5, <1>6, <1>7, <1>8, Zenon DEF m, e

\* A slot that is restored has what was saved, when there is room for it, or else nothing.
LEMMA RestoredHas ==
  ASSUME NEW n \in Nat, NEW c, Cached(c, n), Low(c), c.has_shift = FALSE,
         NEW s \in Slots, \A p, x : ~Has(c, s, p, x), NEW g, FileHolds(g, n), Len(g.cells) # 0
  PROVE  LET d == Restored(c, s, g)
             e == SavedEntries(g, s)
         IN  /\ Cached(d, n) /\ d.has_shift = FALSE
             /\ ~FindSlot(c, Len(g.cells)).ok => d.cells = c.cells
             /\ FindSlot(c, Len(g.cells)).ok => Stored(c, e, 1, Len(e), d)
<1> DEFINE m == Len(g.cells)
           f == FindSlot(c, m)
           d == Restored(c, s, g)
           e == SavedEntries(g, s)
<1>1. c \in Caches(Cell) /\ Sound(c, n) /\ c.head \in 0 .. Size /\ c.do_defrag = FALSE
  BY SoundFields DEF Cached
<1>2. m \in Nat \ {0}
  BY SizesAre DEF FileHolds
<1>3. f.ok \in BOOLEAN /\ f.head \in 0 .. Size /\ (f.ok => f.head \in CellIds /\ FreeRun(c, m, f.head))
  BY <1>1, <1>2, FindSlotRight DEF Right
<1>4. /\ Entries(e, n) /\ Len(e) = m /\ Once(e, 0)
      /\ \A k \in 1 .. m : /\ e[k].tok = g.cells[k].tok /\ e[k].pos = g.cells[k].pos
                           /\ e[k].seq = s + 1 /\ e[k].seq - 1 = s
  BY SavedEntriesAre
<1>5. CASE ~f.ok
  <2>1. d = WithHead(c, f.head)
    BY <1>5 DEF Restored, WithHead
  <2> HIDE DEF d, f, e, m
  <2>2. Sound(d, n) /\ d.cells = c.cells /\ d.has_shift = FALSE /\ d.do_defrag = FALSE
    BY <1>1, <1>3, <2>1, HeadIsSound
  <2>3. Cached(d, n)
    BY <2>2 DEF Cached
  <2> QED
    BY <1>5, <2>2, <2>3 DEF d, f, m
<1>6. CASE f.ok
  <2> DEFINE h == WithHead(c, f.head)
             cells == PutCells(c, e, f.head)
             used == c.used + m
  <2>1. /\ Sound(h, n) /\ h.head = f.head /\ h.cells = c.cells /\ h.has_shift = FALSE /\ h.do_defrag = FALSE
        /\ h.used = c.used
    <3>1. h = CacheOf(c.cells, f.head, c.used, c.has_shift, c.do_defrag)
      BY <1>1, HeadForm
    <3>2. h.used = c.used
      BY <3>1, CacheOfFields
    <3> QED
      BY <1>1, <1>3, <3>2, HeadIsSound
  <2>2. f.head \in CellIds /\ FreeRun(c, m, f.head) /\ f.head \in Nat
    BY <1>3, <1>6, SizeAssumption DEF CellIds
  <2>3. \A i \in CellIds : i - f.head \in 0 .. m - 1 => i - f.head + 1 \in 1 .. m
    BY <1>2, <2>2, SizeAssumption DEF CellIds
  <2>4. ASSUME NEW k \in 1 .. m
        PROVE  g.cells[k] \in Cell /\ g.cells[k].rot = g.cells[k].pos
    BY DEF FileHolds
  <2>5. d = CacheOf(cells, f.head, used, FALSE, FALSE)
    <3> DEFINE saved(i) == g.cells[i - f.head + 1]
               New(i) == i - f.head \in 0 .. m - 1
               put(i) == [saved(i) EXCEPT !.seqs = {s + 1}, !.delta = c.cells[i].delta]
               all == [i \in CellIds |-> IF New(i) THEN put(i) ELSE c.cells[i]]
    <3>1. d = WithHeadUsedCells(c, f.head, used, all)
      BY <1>6, Zenon DEF Restored, WithHeadUsedCells
    <3>2. ASSUME NEW i \in CellIds, New(i)
          PROVE  put(i) = PutCell(c, e[i - f.head + 1], i)
      <4> DEFINE k == i - f.head + 1
      <4>1. k \in 1 .. m
        BY <2>3, <3>2
      <4>2. saved(i) = g.cells[k]
        OBVIOUS
      <4> HIDE DEF k, saved
      <4>3. e[k].tok = g.cells[k].tok /\ e[k].pos = g.cells[k].pos /\ e[k].seq = s + 1
        BY <1>4, <4>1
      <4>4. saved(i) \in Cell /\ saved(i).rot = saved(i).pos
        BY <2>4, <4>1, <4>2
      <4>5. put(i) = CellOf(saved(i).pos, {s + 1}, saved(i).tok, saved(i).pos, c.cells[i].delta)
        BY <4>4, SavedCell
      <4> HIDE DEF put, e
      <4>6. put(i) = PutCell(c, e[k], i)
        BY <4>2, <4>3, <4>5 DEF PutCell
      <4> QED
        BY <4>6 DEF k
    <3>3. cells = [i \in CellIds |-> IF New(i) THEN PutCell(c, e[i - f.head + 1], i) ELSE c.cells[i]]
      BY <1>4 DEF PutCells
    <3> HIDE DEF put, New, e, cells, f
    <3>4. cells = all
      BY <3>2, <3>3
    <3> HIDE DEF all, used, d
    <3>5. d = CacheOf(all, f.head, used, c.has_shift, c.do_defrag)
      BY <1>1, <3>1, HeadUsedCellsForm
    <3> QED
      BY <1>1, <3>4, <3>5
  <2>6. NewTokens(e, n)
    <3>1. e \in Seq(Entry) /\ \A k \in 1 .. m : e[k].tok \in 0 .. n - 1 /\ e[k].pos \in 0 .. NCtx - 2
      BY <1>4 DEF Entries
    <3> HIDE DEF e, m
    <3>2. \A k \in 1 .. m : e[k].pos \in Int /\ e[k].pos >= 0 /\ e[k].seq \in Int
      BY <1>4, <3>1, SizesAre, SlotIds
    <3> QED
      BY <1>2, <1>4, <3>1, <3>2 DEF NewTokens
  <2> HIDE DEF d, e, m, h, f
  <2>7. Put(h, e) = CacheOf(cells, f.head, used, FALSE, FALSE)
    <3> DEFINE put == PutCells(h, e, h.head)
    <3>1. Put(h, e) = WithCellsUsed(h, put, h.used + Len(e))
      BY Zenon DEF Put, WithCellsUsed, PutCells, PutCell, CellOf
    <3>2. put = cells
      BY <2>1 DEF PutCells, PutCell
    <3>3. h \in Caches(Cell)
      BY <2>1, SoundFields
    <3> HIDE DEF put, cells
    <3> QED
      BY <1>4, <2>1, <3>1, <3>2, <3>3, CellsUsedForm
  <2>8. d = Put(h, e)
    BY <2>5, <2>7
  <2>9. Sound(d, n) /\ d.cells = PutCells(h, e, f.head) /\ d.has_shift = FALSE /\ d.do_defrag = FALSE
    <3>1. h.head + Len(e) <= Size /\ \A i \in h.head .. h.head + Len(e) - 1 : ~(h.cells[i].pos >= 0)
      BY <1>4, <2>1, <2>2 DEF FreeRun
    <3> DEFINE x == Put(h, e)
    <3>2. Sound(x, n) /\ x.cells = PutCells(h, e, h.head) /\ x.has_shift = FALSE /\ x.do_defrag = h.do_defrag
      BY <2>1, <2>6, <3>1, PutIs
    <3> HIDE DEF x
    <3> QED
      BY <2>1, <2>8, <3>2 DEF x
  <2>10. d.cells = PutCells(c, e, f.head)
    BY <2>1, <2>9 DEF PutCells, PutCell
  <2>11. Laid(c, e, 0, n)
    <3>1. Apart(c, e, 0)
      <4>1. 0 + 1 .. m = 1 .. m
        OBVIOUS
      <4> QED
        BY <1>4, <4>1 DEF Apart
    <3> QED
      BY <1>4, <3>1 DEF Laid
  <2>12. Cached(d, n) /\ Stored(c, e, 1, Len(e), d)
    BY <1>2, <1>4, <2>2, <2>9, <2>10, <2>11, PutHas
  <2> QED
    BY <1>6, <2>9, <2>12, Zenon DEF d, e, m, f
<1> QED
  BY <1>3, <1>5, <1>6

\* What a restored slot believes is what was saved.
LEMMA RestoreHolds ==
  ASSUME NEW n \in Nat, Holds(n), Inv, NEW s \in Slots, Restore(s)
  PROVE  Holds(n)'
<1> DEFINE m == Len(file.cells)
           c == SeqRm(kv, s + 1, -1, -1)
           ok == FindSlot(c, m).ok
           tokens == IF ok THEN file.tokens ELSE <<>>
           sl == slot[s]
           l == WithTokens(sl, tokens)
           e == SavedEntries(file, s)
<1>1. /\ view = NoView /\ UNCHANGED <<view, batch, file>> /\ sl.state = "idle" /\ file # Nothing /\ m > 0
      /\ kv' = Restored(c, s, file)
  <2>1. view = NoView /\ UNCHANGED <<view, batch, file>> /\ ~Processing(s) /\ file # Nothing /\ m > 0
    BY DEF Restore, NewTask
  <2>2. kv' = Restored(c, s, file)
    BY Zenon DEF Restore
  <2> QED
    BY <2>1, <2>2 DEF Processing
<1>2. SlotGood(sl) /\ sl \in SlotRecords /\ slot \in [Slots -> SlotRecords]
  BY DEF Inv, SlotsGood, SlotGood
<1>3. FileHolds(file, n)
  BY <1>1 DEF Holds
<1>4. tokens \in Seq(Int)
  <2>1. <<>> \in Seq(Int)
    OBVIOUS
  <2> QED
    BY <1>3, <2>1 DEF FileHolds
<1>5. slot'[s] = l /\ \A t \in Slots : t # s => slot'[t] = slot[t]
  <2>1. slot' = [slot EXCEPT ![s] = [sl EXCEPT !.cache_tokens = tokens]]
    BY Zenon DEF Restore
  <2>2. l = [sl EXCEPT !.cache_tokens = tokens]
    BY Zenon DEF WithTokens, SetTokens
  <2> HIDE DEF l, tokens
  <2> QED
    BY <1>2, <2>1, <2>2
<1>6. l.state = "idle" /\ l.cache_tokens = tokens /\ l.sampled = sl.sampled
  <2> HIDE DEF tokens
  <2> QED
    BY <1>1, <1>2, <1>4, TokensAreGood, SampledKept
<1> HIDE DEF l
<1>7. ~Started(l) /\ Known(l, n)
  BY <1>6 DEF Started, Known, Holds
<1>8. batch = <<>> /\ Cached(kv, n) /\ Low(kv) /\ kv.has_shift = FALSE
  BY <1>1, HoldsBetween
<1>9. /\ Cached(c, n) /\ Low(c) /\ c.has_shift = FALSE
      /\ \A p, x : ~Has(c, s, p, x)
      /\ \A t \in Slots : \A p, x : t # s => (Has(c, t, p, x) <=> Has(kv, t, p, x))
  BY <1>8, RmAllHas
<1>10. m \in Nat \ {0} /\ m <= NCtx - 1
  BY <1>1, <1>3, SizesAre DEF FileHolds
<1>11. /\ Cached(kv', n) /\ kv'.has_shift = FALSE
       /\ ~ok => kv'.cells = c.cells
       /\ ok => Stored(c, e, 1, Len(e), kv')
  <2> DEFINE g == file
             d == Restored(c, s, g)
  <2>1. FileHolds(g, n) /\ Len(g.cells) # 0
    BY <1>3, <1>10
  <2> HIDE DEF c, g
  <2>2. /\ Cached(d, n) /\ d.has_shift = FALSE
        /\ ~FindSlot(c, Len(g.cells)).ok => d.cells = c.cells
        /\ FindSlot(c, Len(g.cells)).ok => Stored(c, SavedEntries(g, s), 1, Len(SavedEntries(g, s)), d)
    BY <1>9, <2>1, RestoredHas
  <2>3. kv' = d
    BY <1>1 DEF g
  <2> HIDE DEF d
  <2> QED
    BY <2>2, <2>3 DEF g
<1>12. /\ Entries(e, n) /\ Len(e) = m
       /\ \A k \in 1 .. m : /\ e[k].tok = file.cells[k].tok /\ e[k].pos = file.cells[k].pos
                            /\ e[k].seq = s + 1 /\ e[k].seq - 1 = s
  BY <1>3, SavedEntriesAre
<1>13. file' # Nothing => FileHolds(file', n)
  BY <1>1 DEF Holds
<1> HIDE DEF c, e
<1>14. CASE ~ok
  <2>1. \A t, p, x : Has(kv', t, p, x) <=> Has(c, t, p, x)
    BY <1>11, <1>14 DEF Has
  <2>2. Low(kv')
    BY <1>9, <2>1 DEF Low
  <2>3. Places(kv', <<>>, 0, s) = {}
    <3>1. \A p, x : ~There(kv', <<>>, 0, s, p, x)
      BY <1>9, <1>11, <2>1, <2>2, EmptyBatch
    <3> QED
      BY <3>1 DEF Places
  <2>4. Stands({}, l)
    BY <1>6, <1>7, <1>14, EmptyStands
  <2>5. \A t \in Slots : \A p, x : t # s => (Has(kv', t, p, x) <=> Has(kv, t, p, x))
    BY <1>9, <2>1
  <2> QED
    BY <1>1, <1>5, <1>7, <1>11, <1>13, <2>2, <2>3, <2>4, <2>5, SlotHolds
<1>15. CASE ok
  <2>1. \A t \in Slots : \A p, x : Has(kv', t, p, x) <=> Has(c, t, p, x) \/ Among(e, 1, m, t, p, x)
    BY <1>11, <1>12, <1>15 DEF Stored
  <2>2. \A t \in Slots : \A p, x : Among(e, 1, m, t, p, x) => t = s
    <3> SUFFICES ASSUME NEW t \in Slots, NEW k \in 1 .. m, e[k].seq = t + 1
                 PROVE  t = s
      BY DEF Among
    <3>1. s \in Int /\ t \in Int /\ s + 1 = t + 1
      BY <1>12, SlotIds
    <3> QED
      BY <3>1
  <2>3. \A t \in Slots : \A p, x : t # s => (Has(kv', t, p, x) <=> Has(kv, t, p, x))
    BY <1>9, <2>1, <2>2
  <2>4. Low(kv')
    BY <1>9, <1>10, <1>11, <1>12, <1>15, StoredIsLow
  <2> DEFINE J == Places(kv', <<>>, 0, s)
  <2>5. \A p, x : <<p, x>> \in J <=> \E k \in 1 .. m : file.cells[k].pos = p /\ file.cells[k].tok = x
    <3>1. /\ Laid(kv', <<>>, 0, n) /\ \A t, p, x : There(kv', <<>>, 0, t, p, x) <=> Has(kv', t, p, x)
      BY <1>11, <2>4, EmptyBatch
    <3>2. \A p, x : <<p, x>> \in J <=> Has(kv', s, p, x)
      BY <3>1, PlacesAre
    <3>3. \A p, x : <<p, x>> \in J <=> Among(e, 1, m, s, p, x)
      BY <1>9, <2>1, <3>2
    <3> DEFINE cells == file.cells
    <3> HIDE DEF J, cells, tokens, ok
    <3>4. \A k \in 1 .. m : e[k].tok = cells[k].tok /\ e[k].pos = cells[k].pos /\ e[k].seq = s + 1
      BY <1>12 DEF cells
    <3>5. \A p, x : <<p, x>> \in J <=> \E k \in 1 .. m : cells[k].pos = p /\ cells[k].tok = x
      <4> SUFFICES ASSUME NEW p, NEW x
                   PROVE  Among(e, 1, m, s, p, x) <=> \E k \in 1 .. m : cells[k].pos = p /\ cells[k].tok = x
        BY <3>3
      <4>1. ASSUME NEW k \in 1 .. m
            PROVE  e[k].seq = s + 1 /\ e[k].pos = p /\ e[k].tok = x <=> cells[k].pos = p /\ cells[k].tok = x
        BY <3>4
      <4> QED
        BY <4>1 DEF Among
    <3> QED
      BY <3>5 DEF cells
  <2> HIDE DEF J
  <2>6. /\ \A k \in 1 .. m : file.cells[k].pos \in 0 .. m - 1
        /\ \A p \in 0 .. m - 1 : \E k \in 1 .. m : file.cells[k].pos = p
        /\ Believed(SavedAs(file), file.tokens) /\ m \in 0 .. NCtx - 1
    BY <1>3 DEF FileHolds
  <2>7. Filled(J, m)
    <3> SUFFICES ASSUME NEW p
                 PROVE  (\E t : <<p, t>> \in J) <=> p \in 0 .. m - 1
      BY DEF Filled
    <3>1. ASSUME p \in 0 .. m - 1
          PROVE  \E t : <<p, t>> \in J
      <4>1. PICK k \in 1 .. m : file.cells[k].pos = p
        BY <2>6, <3>1
      <4>2. <<p, file.cells[k].tok>> \in J
        BY <2>5, <4>1
      <4> QED
        BY <4>2
    <3>2. ASSUME NEW t, <<p, t>> \in J
          PROVE  p \in 0 .. m - 1
      <4>1. PICK k \in 1 .. m : file.cells[k].pos = p
        BY <2>5, <3>2
      <4> QED
        BY <2>6, <4>1
    <3> QED
      BY <3>1, <3>2
  <2>8. Believed(J, tokens)
    <3>1. SavedAs(file) \subseteq J
      <4> SUFFICES ASSUME NEW x \in SavedAs(file)
                   PROVE  x \in J
        OBVIOUS
      <4>1. x = <<x[1], x[2]>> /\ \E k \in 1 .. m : file.cells[k].pos = x[1] /\ file.cells[k].tok = x[2]
        BY DEF SavedAs
      <4> QED
        BY <2>5, <4>1
    <3>2. tokens = file.tokens
      BY <1>15
    <3> HIDE DEF tokens
    <3> QED
      BY <2>6, <3>1, <3>2, BelievedMore
  <2>9. Stands(J, l)
    <3> HIDE DEF tokens
    <3> QED
      BY <1>6, <1>7, <2>6, <2>7, <2>8 DEF Stands, Counted
  <2> QED
    BY <1>1, <1>5, <1>7, <1>11, <1>13, <2>3, <2>4, <2>9, SlotHolds DEF J
<1> QED
  BY <1>14, <1>15

\* While a batch is decoded: the chunk, and where it ends.
ChunkTo == IF view.i + view.n_batch <= Len(batch) THEN view.i + view.n_batch ELSE Len(batch)

LEMMA ChunkLaid ==
  ASSUME NEW n \in Nat, Holds(n), Inv, view # NoView
  PROVE  /\ view.i \in Nat /\ ChunkTo \in Nat /\ view.i < ChunkTo /\ ChunkTo <= Len(batch) /\ Len(batch) \in Nat
         /\ Chunk = SubSeq(batch, view.i + 1, ChunkTo)
         /\ Laid(kv, batch, view.i, n) /\ Laid(kv, Chunk, 0, n)
         /\ Len(Chunk) \in Nat \ {0} /\ Len(Chunk) <= view.n_batch /\ view.n_batch \in 1 .. NBatch
<1> DEFINE i == view.i
           len == Len(batch)
           to == ChunkTo
<1>1. /\ batch \in Seq(Entry) /\ i \in Nat /\ view.n_batch \in 1 .. NBatch /\ i < len /\ len \in Nat
      /\ NBatch \in Nat
  BY SizesAre DEF Inv, During
<1>2. /\ Len(Chunk) = IF i + view.n_batch <= len THEN view.n_batch ELSE len - i
      /\ Len(Chunk) \in Nat \ {0}
  BY <1>1, ChunkIs
<1>3. to \in Nat /\ i < to /\ to <= len /\ Len(Chunk) <= view.n_batch
  <2> DEFINE b == view.n_batch
             c == Len(Chunk)
  <2>1. b \in Nat \ {0} /\ c = (IF i + b <= len THEN b ELSE len - i) /\ to = IF i + b <= len THEN i + b ELSE len
    BY <1>1, <1>2 DEF ChunkTo
  <2> HIDE DEF b, c, i, len, to
  <2>2. to \in Nat /\ i < to /\ to <= len /\ c <= b
    BY <1>1, <2>1
  <2> QED
    BY <2>2 DEF b, c
<1>4. Chunk = SubSeq(batch, i + 1, to)
  <2> DEFINE a == i + view.n_batch
  <2>1. a \in Int /\ len \in Int
    BY <1>1
  <2> HIDE DEF a
  <2>2. Min({a, len}) = IF a <= len THEN a ELSE len
    BY <2>1, LeastOfTwo
  <2>3. Min({a, len}) = to
    BY <2>2 DEF a, ChunkTo
  <2> QED
    BY <2>3, Zenon DEF Chunk, a
<1>5. Laid(kv, batch, i, n)
  BY DEF Holds, DecodedTo
<1>6. Cached(kv, n) /\ Stored(kv, batch, i + 1, i, kv)
  <2>1. i + 1 .. i = {}
    BY <1>1
  <2> QED
    BY <1>5, <2>1 DEF Laid, Stored, Among
<1> HIDE DEF i, to, len
<1>7. Laid(kv, SubSeq(batch, i + 1, to), 0, n)
  <2>1. i <= i /\ i <= to /\ to <= Len(batch)
    BY <1>1, <1>3 DEF len
  <2> QED
    BY <1>1, <1>3, <1>5, <1>6, <2>1, LaidPart
<1> QED
  BY <1>1, <1>2, <1>3, <1>4, <1>5, <1>7 DEF i, to, len

\* What the master's part of decoding the chunk leaves.
LEMMA ChunkStored ==
  ASSUME NEW n, InVocabulary(n), Holds(n), Inv, view # NoView
  PROVE  LET r == DecodeBoth(World, Chunk)
             m == StoreAll(kv, Chunk)
         IN  /\ m.ok \in BOOLEAN /\ r.ret = (IF m.ok THEN 0 ELSE 1) /\ r.w.kv = m.cache
             /\ Cached(m.cache, n) /\ m.cache.has_shift = FALSE
             /\ m.ok => Stored(kv, Chunk, 1, Len(Chunk), m.cache)
             /\ ~m.ok => view.n_batch # 1
             /\ ~m.ok /\ m.cache.used = kv.used => Stored(kv, Chunk, 1, 0, m.cache)
             /\ ~m.ok /\ NBatch <= NUbatch + 1 => m.cache.used = kv.used
<1> DEFINE r == DecodeBoth(World, Chunk)
           m == StoreAll(kv, Chunk)
<1>1. n \in Nat
  BY DEF InVocabulary
<1>2. Laid(kv, Chunk, 0, n) /\ Len(Chunk) \in Nat \ {0} /\ Len(Chunk) <= view.n_batch /\ view.n_batch \in 1 .. NBatch
  BY <1>1, ChunkLaid
<1>3. m.cache.has_shift = FALSE /\ \E x : StoredUpto(kv, Chunk, n, x, m) /\ (m.ok => x = Len(Chunk))
  BY <1>1, <1>2, StoreAllHas
<1>4. PICK x : StoredUpto(kv, Chunk, n, x, m) /\ (m.ok => x = Len(Chunk))
  BY <1>3
<1>5. r.ret = (IF m.ok THEN 0 ELSE 1) /\ r.w.kv = m.cache
  <2>1. ~\E k \in DOMAIN Chunk : Chunk[k].tok = InvalidToken
    <3>1. Chunk \in Seq(Entry) /\ \A k \in 1 .. Len(Chunk) : Chunk[k].tok \in 0 .. n - 1
      BY <1>2 DEF Laid, Entries
    <3>2. DOMAIN Chunk = 1 .. Len(Chunk)
      BY <3>1, LenProperties
    <3> QED
      BY <3>1, <3>2 DEF InVocabulary
  <2> DEFINE w == World
  <2>2. IsWorld(w) /\ w.kv = kv
    <3>1. World = WorldOf(slot, kv, wkv, batch)
      BY DEF World, WorldOf
    <3> QED
      BY <3>1, WorldOfFields
  <2> HIDE DEF w
  <2>3. LET y == DecodeBoth(w, Chunk)
        IN  y.ret = (IF StoreAll(w.kv, Chunk).ok THEN 0 ELSE 1) /\ y.w.kv = StoreAll(w.kv, Chunk).cache
    BY <2>1, <2>2, DecodeIs
  <2> QED
    BY <2>2, <2>3 DEF w
<1> HIDE DEF r, m
<1>6. /\ x \in 0 .. Len(Chunk) /\ Cached(m.cache, n) /\ Stored(kv, Chunk, 1, x, m.cache)
      /\ m.ok \in BOOLEAN /\ (x = 0 => m.cache.used = kv.used) /\ (x # 0 => m.cache.used > kv.used)
      /\ ~m.ok => x + 2 <= Len(Chunk)
      /\ x # 0 => x = Len(Chunk) \/ x >= NUbatch
  BY <1>4 DEF StoredUpto
<1>7. ~m.ok => view.n_batch # 1
  <2> DEFINE b == view.n_batch
             len == Len(Chunk)
  <2>1. x \in 0 .. len /\ (~m.ok => x + 2 <= len) /\ len <= b /\ b \in Int /\ len \in Nat
    BY <1>2, <1>6, SizesAre
  <2> HIDE DEF b, len
  <2>2. ~m.ok => b # 1
    BY <2>1
  <2> QED
    BY <2>2 DEF b
<1>8. kv.used \in Int
  BY <1>1, <1>2, SoundFields, SizeAssumption DEF Laid, Cached
<1>9. ~m.ok /\ m.cache.used = kv.used => x = 0
  BY <1>6, <1>8
<1>10. ~m.ok /\ NBatch <= NUbatch + 1 => x = 0
  <2> DEFINE b == view.n_batch
             len == Len(Chunk)
  <2>1. /\ x \in 0 .. len /\ (~m.ok => x + 2 <= len) /\ len <= b /\ b \in 1 .. NBatch /\ len \in Nat
        /\ (x # 0 => x = len \/ x >= NUbatch) /\ NBatch \in Nat /\ NUbatch \in Nat
    BY <1>2, <1>6, SizesAre
  <2> HIDE DEF b, len
  <2> QED
    BY <2>1
<1> QED
  BY <1>3, <1>4, <1>5, <1>6, <1>7, <1>9, <1>10 DEF r, m

\* Every chunk is stored, or nothing of it: none fails behind a physical batch that is stored.
Whole == view # NoView => StoreAll(kv, Chunk).ok \/ StoreAll(kv, Chunk).cache.used = kv.used

\* A slot for which a token is sampled.
LEMMA SampleStands ==
  ASSUME NEW sl, SlotGood(sl), sl.state \in {"done", "generating"}, NEW n \in Nat, NEW tok \in 0 .. n - 1, NEW stop,
         NEW I, Stands(I, sl), Known(sl, n)
  PROVE  Stands(I, Sample(sl, tok, stop)) /\ Known(Sample(sl, tok, stop), n)
<1> DEFINE r == Sample(sl, tok, stop)
<1>1. tok \in Int
  OBVIOUS
<1>2. /\ r.prompt = sl.prompt /\ r.task = sl.task /\ r.n_past = sl.n_past /\ r.cache_tokens = sl.cache_tokens
      /\ r.sampled = tok
  BY <1>1, SampleIsGood
<1> HIDE DEF r
<1>3. Started(r) => Started(sl)
  BY <1>2 DEF Started
<1>4. Known(r, n)
  BY <1>2, <1>3 DEF Known, Started
<1>5. Stands(I, r)
  <2>1. PICK m \in 0 .. NCtx - 1 : Filled(I, m) /\ (Started(sl) => m = sl.n_past)
    BY DEF Stands, Counted
  <2>2. Counted(I, r)
    BY <1>2, <1>3, <2>1 DEF Counted
  <2>3. Started(r) => Computed(I, r)
    BY <1>2, <1>3 DEF Stands, Computed
  <2> QED
    BY <1>2, <2>2, <2>3 DEF Stands
<1> QED
  BY <1>4, <1>5 DEF r

\* A chunk that is stored has left the batch for the cache.
LEMMA ChunkDone ==
  ASSUME NEW n \in Nat, Holds(n), Inv, view # NoView, NEW d, Cached(d, n), Stored(kv, Chunk, 1, Len(Chunk), d)
  PROVE  /\ Laid(d, batch, ChunkTo, n)
         /\ \A s \in Slots : Places(d, batch, ChunkTo, s) = Places(kv, batch, view.i, s)
         /\ ChunkTo = Len(batch) =>
              /\ Laid(d, <<>>, 0, n)
              /\ \A s \in Slots : Places(d, <<>>, 0, s) = Places(kv, batch, view.i, s)
<1> DEFINE i == view.i
           len == Len(batch)
           to == ChunkTo
<1>1. /\ i \in Nat /\ to \in Nat /\ i < to /\ to <= len /\ len \in Nat
      /\ Chunk = SubSeq(batch, i + 1, to) /\ Laid(kv, batch, i, n)
  BY ChunkLaid
<1>2. Entries(batch, n) /\ i <= to
  BY <1>1 DEF Laid
<1> HIDE DEF i, to
<1>3. Stored(kv, batch, i + 1, to, d)
  <2> DEFINE part == SubSeq(batch, i + 1, to)
  <2>1. Stored(kv, part, 1, Len(part), d)
    BY <1>1
  <2>2. \A x, y : Stored(x, part, 1, Len(part), y) => Stored(x, batch, i + 1, to, y)
    BY <1>1, <1>2, StoredPart
  <2> HIDE DEF part
  <2> QED
    BY <2>1, <2>2
<1>4. Laid(d, batch, to, n)
  BY <1>1, <1>2, <1>3, LaidPart
<1>5. ASSUME NEW s \in Slots, NEW p, NEW t
      PROVE  There(d, batch, to, s, p, t) <=> There(kv, batch, i, s, p, t)
  <2>1. Among(batch, i + 1, len, s, p, t) <=> Among(batch, i + 1, to, s, p, t) \/ Among(batch, to + 1, len, s, p, t)
    <3>1. i + 1 \in Int /\ to \in Int /\ len \in Int /\ i + 1 <= to + 1
      BY <1>1
    <3> QED
      BY <1>1, <3>1, AmongSplit
  <2>2. Has(d, s, p, t) <=> Has(kv, s, p, t) \/ Among(batch, i + 1, to, s, p, t)
    BY <1>3 DEF Stored
  <2> QED
    BY <2>1, <2>2 DEF There
<1>6. \A s \in Slots : Places(d, batch, to, s) = Places(kv, batch, i, s)
  BY <1>5 DEF Places
<1>7. ASSUME to = len
      PROVE  /\ Laid(d, <<>>, 0, n)
             /\ \A s \in Slots : Places(d, <<>>, 0, s) = Places(kv, batch, i, s)
  <2>1. Cached(d, n) /\ Low(d)
    BY <1>4 DEF Laid
  <2>2. Laid(d, <<>>, 0, n) /\ \A s, p, t : There(d, <<>>, 0, s, p, t) <=> Has(d, s, p, t)
    BY <2>1, EmptyBatch
  <2>3. \A s, p, t : There(d, batch, to, s, p, t) <=> Has(d, s, p, t)
    <3>1. to + 1 .. len = {}
      BY <1>1, <1>7
    <3> QED
      BY <3>1 DEF There, Among
  <2>4. \A s \in Slots : \A p, t : There(d, <<>>, 0, s, p, t) <=> There(kv, batch, i, s, p, t)
    BY <1>5, <2>2, <2>3
  <2>5. \A s \in Slots : Places(d, <<>>, 0, s) = Places(kv, batch, i, s)
    BY <2>4 DEF Places
  <2> QED
    BY <2>2, <2>5
<1> QED
  BY <1>4, <1>6, <1>7 DEF i, to, len

LEMMA DecodeHolds ==
  ASSUME NEW n, InVocabulary(n), Holds(n), Inv, Whole, DecodeChunk
  PROVE  Holds(n)'
<1> DEFINE r == DecodeBoth(World, Chunk)
           m == StoreAll(kv, Chunk)
           d == m.cache
           i == view.i
           b == view.n_batch
           len == Len(batch)
<1>0. n \in Nat
  BY DEF InVocabulary
<1>1. view # NoView /\ UNCHANGED file /\ kv' = r.w.kv /\ batch' = IF view' = NoView THEN <<>> ELSE batch
  BY DEF DecodeChunk
<1>2. /\ m.ok \in BOOLEAN /\ r.ret = (IF m.ok THEN 0 ELSE 1) /\ r.w.kv = d
      /\ Cached(d, n) /\ d.has_shift = FALSE
      /\ m.ok => Stored(kv, Chunk, 1, Len(Chunk), d)
      /\ ~m.ok => b # 1
      /\ ~m.ok /\ d.used = kv.used => Stored(kv, Chunk, 1, 0, d)
  BY <1>1, ChunkStored
<1>3. /\ i \in Nat /\ ChunkTo \in Nat /\ i < ChunkTo /\ ChunkTo <= len /\ len \in Nat /\ Laid(kv, batch, i, n)
      /\ b \in 1 .. NBatch /\ NBatch \in Nat
  BY <1>0, <1>1, ChunkLaid, SizesAre
<1>4. \/ m.ok /\ /\ view' = IF i + b >= len THEN NoView ELSE [view EXCEPT !.i = i + b]
                 /\ \E toks \in [Ready -> Sampled], stops \in SUBSET Ready :
                      slot' = [s \in Slots |-> IF s \in Ready THEN Sample(slot[s], toks[s], s \in stops) ELSE slot[s]]
      \/ ~m.ok /\ view' = [view EXCEPT !.n_batch = b \div 2] /\ slot' = slot
  <2>1. IF r.ret < 0 \/ (r.ret # 0 /\ b = 1)
           THEN slot' = [s \in Slots |-> Release(slot[s])] /\ view' = NoView
         ELSE IF r.ret # 0
           THEN view' = [view EXCEPT !.n_batch = b \div 2] /\ slot' = slot
         ELSE /\ view' = IF i + b >= len THEN NoView ELSE [view EXCEPT !.i = i + b]
              /\ \E toks \in [Ready -> Sampled], stops \in SUBSET Ready :
                   slot' = [s \in Slots |-> IF s \in Ready THEN Sample(slot[s], toks[s], s \in stops) ELSE slot[s]]
    BY DEF DecodeChunk
  <2>2. r.ret = IF m.ok THEN 0 ELSE 1
    BY <1>2
  <2>3. ~(r.ret < 0) /\ (~m.ok => r.ret # 0 /\ b # 1) /\ (m.ok => r.ret = 0)
    BY <1>2, <2>2
  <2> HIDE DEF r, m, i, b, len
  <2> QED
    BY <1>2, <2>1, <2>3
<1>5. ASSUME NEW s \in Slots
      PROVE  /\ SlotGood(slot[s]) /\ slot[s] \in SlotRecords
             /\ Stands(Places(kv, batch, i, s), slot[s]) /\ Known(slot[s], n)
  BY <1>1 DEF Inv, SlotsGood, SlotGood, Holds, DecodedTo
<1>6. file' # Nothing => FileHolds(file', n)
  BY <1>1 DEF Holds
<1>7. view = [i |-> i, n_batch |-> b]
  BY <1>1 DEF Inv, During
<1> HIDE DEF r, m, i, b, len, d
<1>8. kv' = d /\ kv'.has_shift = FALSE
  BY <1>1, <1>2
<1>9. CASE ~m.ok /\ view' = [view EXCEPT !.n_batch = b \div 2] /\ slot' = slot
  <2> DEFINE h == b \div 2
  <2> HIDE DEF h
  <2>1. view' = [i |-> i, n_batch |-> h]
    BY <1>7, <1>9 DEF h
  <2>2. view'.i = i /\ view' # NoView
    BY <1>3, <2>1 DEF NoView
  <2>3. batch' = batch /\ DecodedTo' = i
    BY <1>1, <2>2 DEF DecodedTo
  <2>4. Stored(kv, Chunk, 1, 0, d)
    BY <1>1, <1>2, <1>9 DEF Whole, m, d
  <2>5. \A s \in Slots : \A p, t : Has(d, s, p, t) <=> Has(kv, s, p, t)
    <3>1. \A s, p, t : ~Among(Chunk, 1, 0, s, p, t)
      BY DEF Among
    <3> QED
      BY <2>4, <3>1 DEF Stored
  <2>6. Laid(d, batch, i, n)
    <3>1. Stored(kv, batch, i + 1, i, d)
      <4>1. i + 1 .. i = {}
        BY <1>3
      <4> QED
        BY <2>5, <4>1 DEF Stored, Among
    <3>2. i <= i /\ i <= Len(batch)
      BY <1>3 DEF len
    <3> QED
      BY <1>2, <1>3, <3>1, <3>2, LaidPart
  <2>7. \A s \in Slots : Places(d, batch, i, s) = Places(kv, batch, i, s)
    BY <2>5 DEF Places, There
  <2> QED
    BY <1>5, <1>6, <1>8, <1>9, <2>2, <2>3, <2>6, <2>7 DEF Holds
<1>10. CASE m.ok /\ /\ view' = IF i + b >= len THEN NoView ELSE [view EXCEPT !.i = i + b]
                    /\ \E toks \in [Ready -> Sampled], stops \in SUBSET Ready :
                         slot' = [s \in Slots |-> IF s \in Ready THEN Sample(slot[s], toks[s], s \in stops) ELSE slot[s]]
  <2>1. PICK toks \in [Ready -> Sampled], stops \in SUBSET Ready :
          slot' = [s \in Slots |-> IF s \in Ready THEN Sample(slot[s], toks[s], s \in stops) ELSE slot[s]]
    BY <1>10
  <2>2. ASSUME NEW s \in Slots
        PROVE  Stands(Places(kv, batch, i, s), slot'[s]) /\ Known(slot'[s], n)
    <3>1. CASE s \in Ready
      <4>1. toks[s] \in 0 .. n - 1 /\ slot[s].state \in {"done", "generating"}
        BY <2>1, <3>1 DEF InVocabulary, Ready
      <4>2. slot'[s] = Sample(slot[s], toks[s], s \in stops)
        BY <2>1, <3>1
      <4> QED
        BY <1>0, <1>5, <4>1, <4>2, SampleStands
    <3>2. CASE s \notin Ready
      BY <1>5, <2>1, <3>2
    <3> QED
      BY <3>1, <3>2
  <2>3. /\ Laid(d, batch, ChunkTo, n)
        /\ \A s \in Slots : Places(d, batch, ChunkTo, s) = Places(kv, batch, i, s)
        /\ ChunkTo = len => /\ Laid(d, <<>>, 0, n)
                            /\ \A s \in Slots : Places(d, <<>>, 0, s) = Places(kv, batch, i, s)
    BY <1>0, <1>1, <1>2, <1>10, ChunkDone DEF i, len
  <2>4. CASE i + b >= len
    <3>1. view' = NoView /\ batch' = <<>> /\ DecodedTo' = 0
      BY <1>1, <1>10, <2>4 DEF DecodedTo
    <3>2. ChunkTo = len
      BY <1>3, <2>4 DEF ChunkTo, i, b, len
    <3> QED
      BY <1>6, <1>8, <2>2, <2>3, <3>1, <3>2 DEF Holds
  <2>5. CASE ~(i + b >= len)
    <3> DEFINE j == i + b
    <3>1. j \in Nat /\ ChunkTo = j
      BY <1>3, <2>5 DEF ChunkTo, i, b, len
    <3>2. view' = [view EXCEPT !.i = j]
      BY <1>10, <2>5
    <3> HIDE DEF j
    <3>3. view' = [i |-> j, n_batch |-> b]
      BY <1>7, <3>2
    <3>4. view'.i = j /\ view' # NoView
      BY <3>1, <3>3 DEF NoView
    <3>5. batch' = batch /\ DecodedTo' = ChunkTo
      BY <1>1, <3>1, <3>4 DEF DecodedTo
    <3> QED
      BY <1>6, <1>8, <2>2, <2>3, <3>4, <3>5 DEF Holds
  <2> QED
    BY <2>4, <2>5
<1> QED
  BY <1>4, <1>9, <1>10

LEMMA HoldStep ==
  ASSUME Systems = {}, RoomToShift, NEW n, InVocabulary(n), Holds(n), Inv, Whole, [Next]_vars, ~wiped'
  PROVE  Holds(n)'
<1>0. n \in Nat
  BY DEF InVocabulary
<1>1. ASSUME NEW s \in Slots, NEW r \in Requests, NEW sys \in Systems \cup {Nothing}, Launch(s, r, sys)
      PROVE  Holds(n)'
  <2>1. sys = Nothing
    OBVIOUS
  <2> QED
    BY <1>1, <2>1, LaunchHolds
<1>2. ASSUME NEW s \in Slots, Cancel(s)
      PROVE  Holds(n)'
  BY <1>2, CancelHolds
<1>3. ASSUME NEW s \in Slots, Save(s)
      PROVE  Holds(n)'
  BY <1>0, <1>3, SaveHolds
<1>4. ASSUME NEW s \in Slots, Restore(s)
      PROVE  Holds(n)'
  BY <1>0, <1>4, RestoreHolds
<1>5. ASSUME NEW s \in Slots, Erase(s)
      PROVE  Holds(n)'
  BY <1>0, <1>5, EraseHolds
<1>6. CASE BeginUpdate
  BY <1>6, BeginHolds
<1>7. CASE IdleUpdate
  BY <1>0, <1>7, IdleHolds
<1>8. CASE DecodeChunk
  BY <1>8, DecodeHolds
<1>9. CASE UNCHANGED vars
  BY <1>9 DEF vars, Holds, DecodedTo
<1> QED
  BY <1>1, <1>2, <1>3, <1>4, <1>5, <1>6, <1>7, <1>8, <1>9 DEF Next

\* What has been cleared under a slot stays so.
LEMMA StaysWiped ==
  ASSUME [Next]_vars, Inv, ~wiped'
  PROVE  ~wiped
<1>1. CASE IdleUpdate
  BY <1>1, IdleIs
<1>2. ASSUME ~IdleUpdate
      PROVE  UNCHANGED wiped
  BY <1>2 DEF Next, vars, cleaning, Launch, Cancel, Save, Restore, Erase, BeginUpdate, DecodeChunk
<1> QED
  BY <1>1, <1>2

LEMMA HoldInvariance ==
  ASSUME Systems = {}, RoomToShift, NEW n, InVocabulary(n)
  PROVE  Spec /\ []Whole => [](~wiped => Holds(n))
<1>1. Init => (~wiped => Holds(n))
  BY InitHolds
<1>2. (~wiped => Holds(n)) /\ Inv /\ Whole /\ [Next]_vars => (~wiped => Holds(n))'
  <2>1. ASSUME Holds(n), Inv, Whole, [Next]_vars, ~wiped'
        PROVE  Holds(n)'
    BY <2>1, HoldStep
  <2> QED
    BY <2>1, StaysWiped
<1>3. Spec => []Inv
  BY Invariance
<1> QED
  BY <1>1, <1>2, <1>3, PTL DEF Spec

\* With room for no more than one token beside a physical batch, there is no chunk that fails
\* behind one that is stored.
LEMMA WholeBatches ==
  ASSUME NBatch <= NUbatch + 1, NEW n, InVocabulary(n), Holds(n), Inv
  PROVE  Whole
<1> SUFFICES ASSUME view # NoView
             PROVE  StoreAll(kv, Chunk).ok \/ StoreAll(kv, Chunk).cache.used = kv.used
  BY DEF Whole
<1> DEFINE m == StoreAll(kv, Chunk)
<1>1. ~m.ok /\ NBatch <= NUbatch + 1 => m.cache.used = kv.used
  BY ChunkStored
<1> HIDE DEF m
<1> QED
  BY <1>1 DEF m

LEMMA WholeInvariance ==
  ASSUME Systems = {}, RoomToShift, NBatch <= NUbatch + 1, NEW n, InVocabulary(n)
  PROVE  Spec => [](~wiped => Holds(n))
<1>1. Init => (~wiped => Holds(n))
  BY InitHolds
<1>2. (~wiped => Holds(n)) /\ Inv /\ [Next]_vars => (~wiped => Holds(n))'
  <2>1. ASSUME Holds(n), Inv, [Next]_vars, ~wiped'
        PROVE  Holds(n)'
    BY <2>1, HoldStep, WholeBatches
  <2> QED
    BY <2>1, StaysWiped
<1>3. Spec => []Inv
  BY Invariance
<1> QED
  BY <1>1, <1>2, <1>3, PTL DEF Spec

LEMMA PositionsMean ==
  ASSUME NEW n, ~wiped => Holds(n), Inv
  PROVE  SlotPositions
<1> SUFFICES ASSUME Holds(n), view = NoView, NEW s \in Slots
             PROVE  LET ids == {i \in CellIds : s + 1 \in kv.cells[i].seqs}
                    IN  /\ {kv.cells[i].pos : i \in ids} = 0 .. Cardinality(ids) - 1
                        /\ Processing(s) /\ slot[s].prompt # <<>> => Cardinality(ids) = n_system + slot[s].n_past
  BY DEF SlotPositions
<1> DEFINE ids == IdsOf(kv, s)
<1>1. batch = <<>> /\ Cached(kv, n) /\ Low(kv)
  BY HoldsBetween
<1>2. Stands(Places(kv, <<>>, 0, s), slot[s])
  BY <1>1 DEF Holds, DecodedTo
<1>3. PICK m \in 0 .. NCtx - 1 : Filled(Places(kv, <<>>, 0, s), m) /\ (Started(slot[s]) => m = slot[s].n_past)
  BY <1>2 DEF Stands, Counted
<1>4. m \in Nat
  BY <1>3, SizesAre
<1>5. OneEach(kv, ids, m)
  BY <1>1, <1>3, <1>4, FilledIds
<1> HIDE DEF ids
<1>6. Cardinality(ids) = m /\ {kv.cells[i].pos : i \in ids} = 0 .. m - 1
  <2> DEFINE T == 0 .. m - 1
  <2>1. /\ \A i \in ids : kv.cells[i].pos \in T
        /\ \A p \in T : \E i \in ids : kv.cells[i].pos = p
        /\ Cardinality(ids) = m
    BY <1>5 DEF OneEach
  <2> HIDE DEF T
  <2>2. {kv.cells[i].pos : i \in ids} = T
    BY <2>1
  <2> QED
    BY <2>1, <2>2 DEF T
<1>7. n_system = 0
  <2>1. system.tokens = <<>> /\ Len(<<>>) = 0
    BY DEF Inv, NoSystem
  <2> QED
    BY <2>1 DEF n_system
<1>8. slot[s].n_past \in Int
  BY SlotFields DEF Inv, SlotsGood
<1>9. Processing(s) /\ slot[s].prompt # <<>> => m = n_system + slot[s].n_past
  BY <1>3, <1>7, <1>8 DEF Processing, Started
<1>10. ids = {i \in CellIds : s + 1 \in kv.cells[i].seqs}
  BY DEF ids, IdsOf
<1> QED
  BY <1>6, <1>9, <1>10, Zenon

LEMMA TokensMean ==
  ASSUME NEW n, ~wiped => Holds(n), Inv
  PROVE  CacheTokensStored
<1> SUFFICES ASSUME Holds(n), view = NoView, NEW s \in Slots, NEW k \in DOMAIN slot[s].cache_tokens,
                    \A j \in 1 .. k : slot[s].cache_tokens[j] # Fill
             PROVE  \E c \in Cells(kv, s + 1) : /\ c.pos = n_system + k - 1 /\ c.tok = slot[s].cache_tokens[k]
                                                /\ c.rot + c.delta = c.pos
  BY DEF CacheTokensStored, TokensStored
<1> DEFINE tokens == slot[s].cache_tokens
<1>1. batch = <<>> /\ Cached(kv, n)
  BY HoldsBetween
<1>2. tokens \in Seq(Int) /\ k \in 1 .. Len(tokens) /\ k \in Nat
  <2>1. tokens \in Seq(Int)
    BY SlotFields DEF Inv, SlotsGood
  <2> HIDE DEF tokens
  <2>2. DOMAIN tokens = 1 .. Len(tokens) /\ Len(tokens) \in Nat
    BY <2>1, LenProperties
  <2>3. k \in 1 .. Len(tokens)
    BY <2>2 DEF tokens
  <2> QED
    BY <2>1, <2>2, <2>3
<1>3. <<k - 1, tokens[k]>> \in Places(kv, batch, 0, s)
  BY <1>2 DEF Holds, DecodedTo, Stands, Believed
<1>4. Has(kv, s, k - 1, tokens[k])
  BY <1>3, HoldsBetween
<1>5. PICK i \in CellIds : s + 1 \in kv.cells[i].seqs /\ kv.cells[i].pos = k - 1 /\ kv.cells[i].tok = tokens[k]
  BY <1>4 DEF Has
<1>6. kv.cells[i].rot + kv.cells[i].delta = kv.cells[i].pos
  <2>1. kv.cells[i].seqs # {}
    BY <1>5
  <2> QED
    BY <1>1, <2>1 DEF Cached, Sound, SoundCell, SoundData
<1>7. n_system + k - 1 = k - 1
  <2>1. system.tokens = <<>> /\ Len(<<>>) = 0
    BY DEF Inv, NoSystem
  <2>2. n_system = 0
    BY <2>1 DEF n_system
  <2> QED
    BY <1>2, <2>2
<1>8. kv.cells[i] \in Cells(kv, s + 1)
  BY <1>5 DEF Cells
<1> QED
  BY <1>5, <1>6, <1>7, <1>8

LEMMA RoomMeans ==
  ASSUME NEW n, InVocabulary(n), ~wiped => Holds(n), Inv
  PROVE  ~wiped => NeverFull
<1> SUFFICES ASSUME Holds(n), view # NoView, view.n_batch = 1
             PROVE  DecodeBoth(World, Chunk).ret # 1
  BY DEF NeverFull
<1> DEFINE r == DecodeBoth(World, Chunk)
           m == StoreAll(kv, Chunk)
<1>1. m.ok \in BOOLEAN /\ r.ret = (IF m.ok THEN 0 ELSE 1) /\ (~m.ok => view.n_batch # 1)
  BY ChunkStored
<1> HIDE DEF r, m
<1> QED
  BY <1>1 DEF r

\* Between two runs of update_slots the cache holds every position of a slot once and without a
\* gap, as many as n_past says (server.cpp, update_slots, SLOT_SAVE, SLOT_RESTORE, SLOT_ERASE):
\* whatever is shifted, truncated, reused, cancelled, saved, restored and erased in whatever
\* order, as long as the idle server has not cleared the cache and left what its slots list (wiped:
\* server.cpp 2012-2016, see slot_start.cfg), no chunk fails behind a physical batch that is
\* stored, no request brings a system prompt, and none asks a shift to keep and to drop more than
\* a full slot has.
THEOREM PositionsKept ==
  ASSUME Systems = {}, RoomToShift, NEW n, InVocabulary(n)
  PROVE  Spec /\ []Whole => []SlotPositions
<1>1. Spec /\ []Whole => [](~wiped => Holds(n))
  BY HoldInvariance
<1>2. Spec => []Inv
  BY Invariance
<1> QED
  BY <1>1, <1>2, PositionsMean, PTL

\* The same without a condition on the behaviour, when a batch has at most one token more than
\* a physical one: then no chunk can fail behind a physical batch.
THEOREM PositionsKeptWhole ==
  ASSUME Systems = {}, RoomToShift, NBatch <= NUbatch + 1, NEW n, InVocabulary(n)
  PROVE  Spec => []SlotPositions
<1>1. Spec => [](~wiped => Holds(n))
  BY WholeInvariance
<1>2. Spec => []Inv
  BY Invariance
<1> QED
  BY <1>1, <1>2, PositionsMean, PTL

\* What a slot believes to have computed is in the cache, at its place and rotated to it: a
\* prompt that starts behind its common part with cache_tokens (server.cpp, common_part) attends
\* to the tokens it names, under the same conditions (the clear of the idle server among them),
\* when no prompt has the token that vector::resize makes up.
THEOREM TokensKept ==
  ASSUME Systems = {}, RoomToShift, NEW n, InVocabulary(n)
  PROVE  Spec /\ []Whole => []CacheTokensStored
<1>1. Spec /\ []Whole => [](~wiped => Holds(n))
  BY HoldInvariance
<1>2. Spec => []Inv
  BY Invariance
<1> QED
  BY <1>1, <1>2, TokensMean, PTL

\* The same without a condition on the behaviour.
THEOREM TokensKeptWhole ==
  ASSUME Systems = {}, RoomToShift, NBatch <= NUbatch + 1, NEW n, InVocabulary(n)
  PROVE  Spec => []CacheTokensStored
<1>1. Spec => [](~wiped => Holds(n))
  BY WholeInvariance
<1>2. Spec => []Inv
  BY Invariance
<1> QED
  BY <1>1, <1>2, TokensMean, PTL

\* With a context per slot a single token always finds a cell, so that no request is failed for
\* want of cache (server.cpp, update_slots, "failed to find free space in the KV cache"), however
\* the cache is fragmented, under the same conditions: the slots have fewer tokens than there are
\* cells, because every position is held once. The condition ~wiped is the argument's: the run
\* slot_cache checks NeverFull behind the clear too.
THEOREM RoomKept ==
  ASSUME Systems = {}, RoomToShift, NEW n, InVocabulary(n)
  PROVE  Spec /\ []Whole => [](~wiped => NeverFull)
<1>1. Spec /\ []Whole => [](~wiped => Holds(n))
  BY HoldInvariance
<1>2. Spec => []Inv
  BY Invariance
<1> QED
  BY <1>1, <1>2, RoomMeans, PTL

\* The same without a condition on the behaviour.
THEOREM RoomKeptWhole ==
  ASSUME Systems = {}, RoomToShift, NBatch <= NUbatch + 1, NEW n, InVocabulary(n)
  PROVE  Spec => [](~wiped => NeverFull)
<1>1. Spec => [](~wiped => Holds(n))
  BY WholeInvariance
<1>2. Spec => []Inv
  BY Invariance
<1> QED
  BY <1>1, <1>2, RoomMeans, PTL

=============================================================================
