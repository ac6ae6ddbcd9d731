--------------------------- MODULE KVCache_proofs ---------------------------
(***************************************************************************)
(* The KV cache is sound after every sequence of calls, and does what      *)
(* include/llama.h promises (KVStore).                                     *)
(***************************************************************************)
EXTENDS KVCache, KVCells_proofs

\* The invariant: the count of used cells is exact, every cell has a position exactly when it
\* belongs to a sequence, its keys are where its position says or will be, no shift is left
\* without an update that settles it, and no token has a number that is still to be given.
Inv == n_stored \in Nat /\ Sound(cache, n_stored)

LEMMA InitInv == Init => Inv
BY EmptyIsSound DEF Init, Inv

WithDefrag(c, x) == [c EXCEPT !.do_defrag = x]

LEMMA DefragFlag ==
  ASSUME NEW n \in Nat, NEW c, Sound(c, n), NEW x \in BOOLEAN
  PROVE  Sound(WithDefrag(c, x), n) /\ WithDefrag(c, x).cells = c.cells
<1> DEFINE e == WithDefrag(c, x)
<1>1. /\ c \in Caches(Cell) /\ c.cells \in [CellIds -> Cell] /\ c.has_shift \in BOOLEAN /\ c.head \in 0 .. Size
      /\ c.used \in 0 .. Size /\ c.used = Cardinality(Used(c.cells))
      /\ \A i \in CellIds : SoundCell(c.cells[i], n, c.has_shift)
      /\ c = CacheOf(c.cells, c.head, c.used, c.has_shift, c.do_defrag)
  BY SoundFields DEF Sound
<1>2. e = CacheOf(c.cells, c.head, c.used, c.has_shift, x)
  BY <1>1 DEF WithDefrag, CacheOf
<1>3. e \in Caches(Cell)
  BY <1>1, <1>2, SizeAssumption DEF Caches, CacheOf
<1>4. e.cells = c.cells /\ e.head = c.head /\ e.used = c.used /\ e.has_shift = c.has_shift
  BY <1>2, CacheOfFields
<1> HIDE DEF e
<1>5. Sound(e, n)
  BY <1>1, <1>3, <1>4 DEF Sound
<1> QED
  BY <1>4, <1>5 DEF e

-----------------------------------------------------------------------------
(* A batch                                                                 *)

\* The batch of Decode.
Batch(seq, pos) ==
  [k \in 1 .. Len(seq) |-> [tok |-> n_stored + k - 1, pos |-> pos + k - 1, seq |-> seq[k]]]

LEMMA BatchIs ==
  ASSUME n_stored \in Nat, NEW n \in Nat \ {0}, NEW pos \in Nat, NEW seq \in [1 .. n -> Seqs]
  PROVE  /\ Len(seq) = n /\ Len(Batch(seq, pos)) = n
         /\ NewTokens(Batch(seq, pos), n_stored + n)
         /\ IsFiniteSet(BatchTokens(Batch(seq, pos))) /\ Cardinality(BatchTokens(Batch(seq, pos))) = n
         /\ {t.tok : t \in BatchTokens(Batch(seq, pos))} = n_stored .. n_stored + n - 1
<1> DEFINE batch == Batch(seq, pos)
<1>1. Len(seq) = n
  OBVIOUS
<1>2. batch = [k \in 1 .. n |-> [tok |-> n_stored + k - 1, pos |-> pos + k - 1, seq |-> seq[k]]]
  BY <1>1 DEF Batch
<1>3. Len(batch) = n
  BY <1>2
<1>4. \A k \in 1 .. n : batch[k].tok = n_stored + k - 1 /\ batch[k].pos = pos + k - 1 /\ batch[k].seq \in Seqs
  BY <1>2
<1> HIDE DEF batch
<1>5. NewTokens(batch, n_stored + n)
  <2>1. \A k \in 1 .. n : batch[k].pos \in Int /\ batch[k].pos >= 0 /\ batch[k].seq \in Int
    <3>1. \A s \in Seqs : s \in Int
      BY KVCacheAssumption
    <3>2. \A k \in 1 .. n : pos + k - 1 \in Int /\ pos + k - 1 >= 0
      OBVIOUS
    <3> QED
      BY <1>4, <3>1, <3>2
  <2>2. \A k \in 1 .. n : batch[k].tok \in 0 .. n_stored + n - 1
    BY <1>4
  <2> QED
    BY <1>3, <2>1, <2>2 DEF NewTokens
<1> DEFINE f == [k \in 1 .. n |-> BatchToken(batch[k])]
           T == BatchTokens(batch)
<1>6. \A k \in 1 .. n : f[k] = BatchToken(batch[k]) /\ f[k].tok = n_stored + k - 1
  BY <1>4 DEF BatchToken
<1>7. T = {f[k] : k \in 1 .. n}
  BY <1>3 DEF BatchTokens
<1>8. f \in [1 .. n -> T]
  BY <1>3 DEF BatchTokens
<1> HIDE DEF f, T
<1>9. \A x, y \in 1 .. n : f[x] = f[y] => x = y
  BY <1>6
<1>10. \A z \in T : \E x \in 1 .. n : f[x] = z
  BY <1>7
<1>11. IsFiniteSet(1 .. n) /\ Cardinality(1 .. n) = n
  BY FS_Interval
<1>12. IsFiniteSet(T) /\ Cardinality(T) = n
  BY <1>8, <1>9, <1>10, <1>11, SameCount
<1>13. {t.tok : t \in T} = n_stored .. n_stored + n - 1
  <2>1. \A t \in T : t.tok \in n_stored .. n_stored + n - 1
    BY <1>6, <1>10
  <2>2. ASSUME NEW z \in n_stored .. n_stored + n - 1
        PROVE  \E t \in T : t.tok = z
    <3>1. z - n_stored + 1 \in 1 .. n /\ n_stored + (z - n_stored + 1) - 1 = z
      OBVIOUS
    <3> DEFINE k == z - n_stored + 1
    <3>2. f[k].tok = z /\ f[k] \in T
      BY <1>6, <1>7, <3>1
    <3> QED
      BY <3>2
  <2> QED
    BY <2>1, <2>2
<1> QED
  BY <1>1, <1>3, <1>5, <1>12, <1>13 DEF batch, T

\* What Decode does: the batch is stored, or nothing changes.
LEMMA DecodeIs ==
  ASSUME Inv, NEW n \in 1 .. MaxBatch, NEW pos \in 0 .. MaxPos, NEW seq \in [1 .. n -> Seqs],
         NEW fragmented \in BOOLEAN, Decode(seq, pos, fragmented)
  PROVE  /\ Inv'
         /\ \/ /\ n_stored' = n_stored + n
               /\ Tokens(cache.cells)' = Tokens(cache.cells) \cup BatchTokens(Batch(seq, pos))
            \/ n_stored' = n_stored /\ Tokens(cache.cells)' = Tokens(cache.cells)
<1> DEFINE c == Update(cache, MaxMoves)
           batch == Batch(seq, pos)
           r == Store(c, batch)
           e == r.cache
<1>1. n_stored \in Nat /\ Sound(cache, n_stored) /\ n \in Nat \ {0} /\ pos \in Nat
  BY DEF Inv
<1>2. Len(seq) = n /\ Len(batch) = n /\ NewTokens(batch, n_stored + n)
  BY <1>1, BatchIs
<1>3. /\ cache' = WithDefrag(e, r.ok /\ fragmented)
      /\ n_stored' = IF r.ok THEN n_stored + n ELSE n_stored
  BY <1>2, Zenon DEF Decode, WithDefrag, Batch
<1>4. Sound(c, n_stored) /\ c.has_shift = FALSE /\ Tokens(c.cells) = Tokens(cache.cells)
  BY <1>1, UpdateIs, KVCacheAssumption
<1> HIDE DEF c, batch
<1>5. /\ r.ok \in BOOLEAN
      /\ r.ok => Sound(e, n_stored + n) /\ Tokens(e.cells) = Tokens(cache.cells) \cup BatchTokens(batch)
      /\ ~r.ok => Sound(e, n_stored) /\ Tokens(e.cells) = Tokens(cache.cells)
  <2>1. n_stored + n \in Nat /\ Sound(c, n_stored + n)
    BY <1>1, <1>4, SoundMore
  <2>2. /\ r.ok \in BOOLEAN /\ Sound(e, n_stored + n) /\ e.has_shift = FALSE
        /\ r.ok => Tokens(e.cells) = Tokens(c.cells) \cup BatchTokens(batch)
        /\ ~r.ok => e.cells = c.cells
    BY <1>2, <1>4, <2>1, StoreIs
  <2>3. ~r.ok => Sound(e, n_stored)
    BY <1>1, <1>4, <2>1, <2>2, SoundAsBefore
  <2> QED
    BY <1>4, <2>2, <2>3
<1> DEFINE x == r.ok /\ fragmented
           m == IF r.ok THEN n_stored + n ELSE n_stored
<1>6. Sound(e, m) /\ m \in Nat /\ x \in BOOLEAN /\ cache' = WithDefrag(e, x) /\ n_stored' = m
  BY <1>1, <1>3, <1>5
<1> HIDE DEF e, x
<1>7. Sound(WithDefrag(e, x), m) /\ WithDefrag(e, x).cells = e.cells
  BY <1>6, DefragFlag
<1>8. Inv'
  BY <1>6, <1>7 DEF Inv
<1>9. Tokens(cache.cells)' = Tokens(e.cells)
  BY <1>6, <1>7
<1> QED
  BY <1>5, <1>6, <1>8, <1>9 DEF batch

-----------------------------------------------------------------------------
(* The operations on sequences, token by token                             *)

TokenOf(tok, pos, seqs) == [tok |-> tok, pos |-> pos, seqs |-> seqs]

LEMMA TokenForms ==
  ASSUME NEW x
  PROVE  /\ Token(x) = TokenOf(x.tok, x.pos, x.seqs)
         /\ Token(x).tok = x.tok /\ Token(x).pos = x.pos /\ Token(x).seqs = x.seqs
         /\ \A S : [Token(x) EXCEPT !.seqs = S] = TokenOf(x.tok, x.pos, S)
         /\ \A p : [Token(x) EXCEPT !.pos = p] = TokenOf(x.tok, p, x.seqs)
BY DEF Token, TokenOf

\* The used cells whose token is in P go on to hold one, changed as F says.
Becomes(old, new, F, P) ==
  /\ \A i \in CellIds : new[i].seqs # {} <=> old[i].seqs # {} /\ Token(old[i]) \in P
  /\ \A i \in CellIds : new[i].seqs # {} => Token(new[i]) = F[Token(old[i])]

Changed(F, P) == {F[u] : u \in P}

LEMMA TokensMap ==
  ASSUME NEW old, NEW new, NEW F, NEW P, Becomes(old, new, F, P)
  PROVE  Tokens(new) = Changed(F, Tokens(old) \cap P)
<1>0. /\ \A i \in CellIds : new[i].seqs # {} <=> old[i].seqs # {} /\ Token(old[i]) \in P
      /\ \A i \in CellIds : new[i].seqs # {} => Token(new[i]) = F[Token(old[i])]
  BY DEF Becomes
<1>1. \A i \in CellIds : i \in Used(new) <=> i \in Used(old) /\ Token(old[i]) \in P
  BY <1>0 DEF Used
<1>2. \A i \in Used(new) : Token(new[i]) = F[Token(old[i])]
  BY <1>0 DEF Used
<1>3. Used(new) \in SUBSET CellIds /\ Used(old) \in SUBSET CellIds
  BY DEF Used
<1>4. ASSUME NEW i \in Used(new)
      PROVE  Token(new[i]) \in {F[u] : u \in Tokens(old) \cap P}
  <2>1. Token(old[i]) \in Tokens(old) \cap P /\ Token(new[i]) = F[Token(old[i])]
    BY <1>1, <1>2, <1>3 DEF Tokens
  <2> QED
    BY <2>1
<1>5. ASSUME NEW i \in Used(old), Token(old[i]) \in P
      PROVE  F[Token(old[i])] \in Tokens(new)
  <2>1. i \in Used(new)
    BY <1>1, <1>3, <1>5
  <2> QED
    BY <1>2, <2>1 DEF Tokens
<1> QED
  BY <1>4, <1>5 DEF Tokens, Changed

\* Which cells an operation selects, and which tokens the promise says it is about.
LEMMA SelectedIs ==
  ASSUME NEW n \in Nat, NEW c, Sound(c, n), NEW s \in Int, NEW p0 \in Int, NEW p1 \in Int, NEW i \in CellIds
  PROVE  /\ c.cells[i].seqs # {} =>
              (i \in Selected(c, s, p0, p1) <=> Promise!In(Token(c.cells[i]), s, p0, p1))
         /\ c.cells[i].seqs # {} /\ s >= 0 =>
              (i \in CpHit(c, s, p0, p1) <=> Promise!In(Token(c.cells[i]), s, p0, p1))
         /\ c.cells[i].seqs = {} => i \notin Selected(c, s, p0, p1) /\ i \notin CpHit(c, s, p0, p1)
         /\ c.cells[i] \in Cell /\ (c.cells[i].pos >= 0 <=> c.cells[i].seqs # {})
<1> DEFINE x == c.cells[i]
<1>1. x \in Cell /\ (x.pos >= 0 <=> x.seqs # {})
  BY DEF Sound, SoundCell, SoundData
<1>2. Token(x).pos = x.pos /\ Token(x).seqs = x.seqs
  BY TokenForms
<1>3. i \in Selected(c, s, p0, p1) <=> (s < 0 \/ s \in x.seqs) /\ x.pos >= 0 /\ x.pos >= p0 /\ (p1 < 0 \/ x.pos < p1)
  BY DEF Selected, InRange
<1>4. i \in CpHit(c, s, p0, p1) <=> i \in Selected(c, s, p0, p1) /\ s \in x.seqs
  BY DEF CpHit
<1>5. Promise!In(Token(x), s, p0, p1) <=> (s < 0 \/ s \in x.seqs) /\ x.pos >= p0 /\ (p1 < 0 \/ x.pos < p1)
  BY <1>2 DEF Promise!In
<1>6. s >= 0 => ~(s < 0)
  OBVIOUS
<1> HIDE DEF x
<1> QED
  BY <1>1, <1>3, <1>4, <1>5, <1>6 DEF x

RmToken(u, s, p0, p1) ==
  IF Promise!In(u, s, p0, p1) THEN [u EXCEPT !.seqs = IF s < 0 THEN {} ELSE @ \ {s}] ELSE u
RmTokens(S, s, p0, p1) == {t \in {RmToken(u, s, p0, p1) : u \in S} : t.seqs # {}}

LEMMA SeqRmTokens ==
  ASSUME NEW n \in Nat, NEW c, Sound(c, n), NEW s \in Int, NEW p0 \in Int, NEW p1 \in Int
  PROVE  Tokens(SeqRm(c, s, p0, p1).cells) = RmTokens(Tokens(c.cells), s, p0, p1)
<1> DEFINE S == Tokens(c.cells)
           F == [u \in S |-> RmToken(u, s, p0, p1)]
           P == {u \in S : F[u].seqs # {}}
           new == SeqRm(c, s, p0, p1).cells
<1>1. \A i \in CellIds : new[i] = RmCell(c, s, p0, p1, i)
  <2>1. new = [i \in CellIds |-> RmCell(c, s, p0, p1, i)]
    BY SeqRmIs
  <2> HIDE DEF new
  <2> QED
    BY <2>1
<1> HIDE DEF new
<1>2. ASSUME NEW i \in CellIds, c.cells[i].seqs # {}
      PROVE  /\ Token(c.cells[i]) \in S
             /\ new[i].seqs # {} <=> F[Token(c.cells[i])].seqs # {}
             /\ new[i].seqs # {} => Token(new[i]) = F[Token(c.cells[i])]
  <2> DEFINE x == c.cells[i]
             left == RmSeqs(c, s, i)
             u == Token(x)
  <2>1. u \in S
    BY <1>2 DEF Tokens, Used
  <2>2. F[u] = RmToken(u, s, p0, p1)
    BY <2>1
  <2>3. /\ x \in Cell /\ x.seqs # {}
        /\ i \in Selected(c, s, p0, p1) <=> Promise!In(u, s, p0, p1)
    BY <1>2, SelectedIs
  <2>4. u.seqs = x.seqs /\ left = IF s < 0 THEN {} ELSE x.seqs \ {s}
    BY TokenForms DEF RmSeqs
  <2> HIDE DEF x, F, left
  <2>5. CASE i \in Selected(c, s, p0, p1)
    <3>1. F[u] = [u EXCEPT !.seqs = IF s < 0 THEN {} ELSE u.seqs \ {s}]
      BY <2>2, <2>3, <2>5, Zenon DEF RmToken
    <3>2. F[u] = [u EXCEPT !.seqs = left]
      BY <2>4, <3>1, Zenon
    <3>3. F[u] = TokenOf(x.tok, x.pos, left)
      BY <3>2, TokenForms, Zenon
    <3>4. F[u].seqs = left
      BY <3>3 DEF TokenOf
    <3>5. CASE left = {}
      <4>1. new[i] = Freed(x)
        BY <1>1, <2>5, <3>5 DEF RmCell, RmFreed, left, x
      <4>2. new[i].seqs = {}
        <5>1. Freed(x) = CellOf(-1, {}, Nothing, -1, x.delta)
          BY <2>3, CellForms, Zenon
        <5> QED
          BY <4>1, <5>1, CellOfFields
      <4> QED
        BY <2>1, <3>4, <3>5, <4>2 DEF x
    <3>6. CASE left # {}
      <4>1. new[i] = [x EXCEPT !.seqs = left]
        BY <1>1, <2>5, <3>6, Zenon DEF RmCell, RmFreed, left, x
      <4>2. new[i] = CellOf(x.pos, left, x.tok, x.rot, x.delta)
        BY <2>3, <4>1, CellForms, Zenon
      <4>3. new[i].seqs = left /\ Token(new[i]) = TokenOf(x.tok, x.pos, left)
        BY <4>2 DEF CellOf, Token, TokenOf
      <4> QED
        BY <2>1, <3>3, <3>4, <4>3 DEF x
    <3> QED
      BY <3>5, <3>6
  <2>6. CASE i \notin Selected(c, s, p0, p1)
    <3>1. F[u] = u
      BY <2>2, <2>3, <2>6, Zenon DEF RmToken
    <3>2. new[i] = x
      BY <1>1, <2>6 DEF RmCell, RmFreed, x
    <3> QED
      BY <2>1, <2>4, <3>1, <3>2 DEF x
  <2> QED
    BY <2>5, <2>6
<1>3. ASSUME NEW i \in CellIds, c.cells[i].seqs = {}
      PROVE  new[i].seqs = {}
  <2>1. i \notin Selected(c, s, p0, p1)
    BY <1>3, SelectedIs
  <2>2. new[i] = c.cells[i]
    BY <1>1, <2>1 DEF RmCell, RmFreed
  <2> QED
    BY <1>3, <2>2
<1>4. \A i \in CellIds : new[i].seqs # {} <=> c.cells[i].seqs # {} /\ Token(c.cells[i]) \in P
  BY <1>2, <1>3
<1>5. \A i \in CellIds : new[i].seqs # {} => Token(new[i]) = F[Token(c.cells[i])]
  BY <1>2, <1>3
<1> HIDE DEF P, F
<1>6. Tokens(new) = {F[u] : u \in Tokens(c.cells) \cap P}
  <2>1. Becomes(c.cells, new, F, P)
    BY <1>4, <1>5 DEF Becomes
  <2> QED
    BY <2>1, TokensMap DEF Changed
<1>7. {F[u] : u \in S \cap P} = {t \in {F[u] : u \in S} : t.seqs # {}}
  BY DEF P
<1>8. {F[u] : u \in S} = {RmToken(u, s, p0, p1) : u \in S}
  BY DEF F
<1> QED
  BY <1>6, <1>7, <1>8 DEF RmTokens, new

CpToken(u, src, dst, p0, p1) ==
  IF Promise!In(u, src, p0, p1) THEN [u EXCEPT !.seqs = @ \cup {dst}] ELSE u
CpTokens(S, src, dst, p0, p1) == {CpToken(u, src, dst, p0, p1) : u \in S}

CpArgs(n, c, src, dst, p0, p1) ==
  n \in Nat /\ Sound(c, n) /\ src \in Nat /\ dst \in Nat /\ p0 \in Int /\ p1 \in Int /\ src # dst
CpRight(c, src, dst, p0, p1) ==
  Tokens(SeqCp(c, src, dst, p0, p1).cells) = CpTokens(Tokens(c.cells), src, dst, p0, p1)

LEMMA SeqCpTokens ==
  ASSUME NEW n, NEW c, NEW src, NEW dst, NEW p0, NEW p1, CpArgs(n, c, src, dst, p0, p1)
  PROVE  CpRight(c, src, dst, p0, p1)
<1> DEFINE S == Tokens(c.cells)
           F == [u \in S |-> CpToken(u, src, dst, p0, p1)]
           new == SeqCp(c, src, dst, p0, p1).cells
<1> n \in Nat /\ Sound(c, n) /\ src \in Nat /\ dst \in Nat /\ p0 \in Int /\ p1 \in Int /\ src # dst
  BY DEF CpArgs
<1>0. src \in Int /\ dst \in Int /\ src >= 0
  OBVIOUS
<1>1. \A i \in CellIds : new[i] = CpCell(c, src, dst, p0, p1, i)
  <2>1. new = [i \in CellIds |-> CpCell(c, src, dst, p0, p1, i)]
    BY <1>0, SeqCpIs
  <2> HIDE DEF new
  <2> QED
    BY <2>1
<1> HIDE DEF new
<1>2. ASSUME NEW i \in CellIds, c.cells[i].seqs # {}
      PROVE  Token(c.cells[i]) \in S /\ new[i].seqs # {} /\ Token(new[i]) = F[Token(c.cells[i])]
  <2> DEFINE x == c.cells[i]
             more == x.seqs \cup {dst}
             u == Token(x)
  <2>1. u \in S
    BY <1>2 DEF Tokens, Used
  <2>2. F[u] = CpToken(u, src, dst, p0, p1)
    BY <2>1
  <2>3. /\ x \in Cell /\ x.seqs # {}
        /\ i \in CpHit(c, src, p0, p1) <=> Promise!In(u, src, p0, p1)
    BY <1>0, <1>2, SelectedIs
  <2>4. u.seqs = x.seqs /\ more # {}
    BY TokenForms
  <2> HIDE DEF F
  <2>5. CASE i \in CpHit(c, src, p0, p1)
    <3>1. F[u] = [u EXCEPT !.seqs = u.seqs \cup {dst}]
      BY <2>2, <2>3, <2>5, Zenon DEF CpToken
    <3>2. new[i] = WithSeqs(x, more)
      BY <1>1, <2>5, Zenon DEF CpCell
    <3>3. F[u] = [u EXCEPT !.seqs = more]
      BY <2>4, <3>1, Zenon
    <3> HIDE DEF more, x
    <3>4. F[u] = TokenOf(x.tok, x.pos, more)
      BY <3>3, TokenForms, Zenon
    <3>5. new[i] = CellOf(x.pos, more, x.tok, x.rot, x.delta)
      BY <2>3, <3>2, CellForms, Zenon DEF WithSeqs
    <3>6. new[i].seqs = more /\ Token(new[i]) = TokenOf(x.tok, x.pos, more)
      BY <3>5 DEF CellOf, Token, TokenOf
    <3> QED
      BY <2>1, <2>4, <3>4, <3>6 DEF x
  <2>6. CASE i \notin CpHit(c, src, p0, p1)
    <3>1. F[u] = u
      BY <2>2, <2>3, <2>6, Zenon DEF CpToken
    <3>2. new[i] = x
      BY <1>1, <2>6 DEF CpCell
    <3> QED
      BY <2>1, <2>3, <3>1, <3>2
  <2> QED
    BY <2>5, <2>6
<1>3. ASSUME NEW i \in CellIds, c.cells[i].seqs = {}
      PROVE  new[i].seqs = {}
  <2>1. i \notin CpHit(c, src, p0, p1)
    BY <1>0, <1>3, SelectedIs
  <2>2. new[i] = c.cells[i]
    BY <1>1, <2>1 DEF CpCell
  <2> QED
    BY <1>3, <2>2
<1>4. \A i \in CellIds : new[i].seqs # {} <=> c.cells[i].seqs # {} /\ Token(c.cells[i]) \in S
  BY <1>2, <1>3
<1>5. \A i \in CellIds : new[i].seqs # {} => Token(new[i]) = F[Token(c.cells[i])]
  BY <1>2, <1>3
<1> HIDE DEF F, S
<1>6. Tokens(new) = {F[u] : u \in Tokens(c.cells) \cap S}
  <2>1. Becomes(c.cells, new, F, S)
    BY <1>4, <1>5 DEF Becomes
  <2> QED
    BY <2>1, TokensMap DEF Changed
<1>7. {F[u] : u \in S} = {CpToken(u, src, dst, p0, p1) : u \in S}
  BY DEF F
<1> QED
  BY <1>6, <1>7 DEF CpRight, CpTokens, new, S

KeepToken(u, s) == [u EXCEPT !.seqs = {s}]

KeepTokens(S, s) == {KeepToken(u, s) : u \in {t \in S : s \in t.seqs}}

LEMMA SeqKeepTokens ==
  ASSUME NEW n \in Nat, NEW c, Sound(c, n), NEW s \in Nat
  PROVE  Tokens(SeqKeep(c, s).cells) = KeepTokens(Tokens(c.cells), s)
<1> DEFINE S == Tokens(c.cells)
           F == [u \in S |-> KeepToken(u, s)]
           P == {t \in S : s \in t.seqs}
           new == SeqKeep(c, s).cells
<1>1. \A i \in CellIds : new[i] = KeepCell(c, s, i)
  <2>0. s \in Int
    OBVIOUS
  <2>1. new = [i \in CellIds |-> KeepCell(c, s, i)]
    BY <2>0, SeqKeepIs, Zenon
  <2> HIDE DEF new
  <2> QED
    BY <2>1
<1>2. \A i \in CellIds : c.cells[i] \in Cell
  BY DEF Sound, SoundCell, SoundData
<1> HIDE DEF new
<1>3. ASSUME NEW i \in CellIds, s \in c.cells[i].seqs
      PROVE  Token(c.cells[i]) \in P /\ new[i].seqs # {} /\ Token(new[i]) = F[Token(c.cells[i])]
  <2> DEFINE x == c.cells[i]
             u == Token(x)
             one == {s}
  <2>1. u \in S
    BY <1>3 DEF Tokens, Used
  <2>2. F[u] = KeepToken(u, s) /\ u \in P
    BY <1>3, <2>1, TokenForms
  <2>3. new[i] = WithSeqs(x, one)
    BY <1>1, <1>3 DEF KeepCell, KeepDropped
  <2>4. F[u] = [u EXCEPT !.seqs = one]
    BY <2>2, Zenon DEF KeepToken
  <2>5. one # {}
    OBVIOUS
  <2> HIDE DEF x, one, F
  <2>6. F[u] = TokenOf(x.tok, x.pos, one)
    BY <2>4, TokenForms, Zenon
  <2>7. new[i] = CellOf(x.pos, one, x.tok, x.rot, x.delta)
    BY <1>2, <2>3, CellForms, Zenon DEF WithSeqs, x
  <2>8. new[i].seqs = one /\ Token(new[i]) = TokenOf(x.tok, x.pos, one)
    BY <2>7 DEF CellOf, Token, TokenOf
  <2> QED
    BY <2>2, <2>5, <2>6, <2>8 DEF x
<1>4. ASSUME NEW i \in CellIds, s \notin c.cells[i].seqs
      PROVE  new[i].seqs = {} /\ Token(c.cells[i]) \notin P
  <2>1. new[i] = Freed(c.cells[i])
    BY <1>1, <1>4 DEF KeepCell, KeepDropped
  <2> QED
    <3>1. Freed(c.cells[i]) = CellOf(-1, {}, Nothing, -1, c.cells[i].delta)
      BY <1>2, CellForms, Zenon
    <3>2. Token(c.cells[i]).seqs = c.cells[i].seqs
      BY TokenForms, Zenon
    <3> QED
      BY <1>4, <2>1, <3>1, <3>2, CellOfFields
<1>5. \A i \in CellIds : new[i].seqs # {} <=> c.cells[i].seqs # {} /\ Token(c.cells[i]) \in P
  BY <1>3, <1>4
<1>6. \A i \in CellIds : new[i].seqs # {} => Token(new[i]) = F[Token(c.cells[i])]
  BY <1>3, <1>4
<1> HIDE DEF F, P
<1>7. Tokens(new) = {F[u] : u \in Tokens(c.cells) \cap P}
  <2>1. Becomes(c.cells, new, F, P)
    BY <1>5, <1>6 DEF Becomes
  <2> QED
    BY <2>1, TokensMap DEF Changed
<1>8. S \cap P = P /\ P \in SUBSET S
  BY DEF P
<1>9. {F[u] : u \in P} = {KeepToken(u, s) : u \in P}
  BY <1>8 DEF F
<1> QED
  BY <1>7, <1>8, <1>9 DEF KeepTokens, new, P

AddToken(u, s, p0, p1, delta) ==
  IF Promise!In(u, s, p0, p1) THEN [u EXCEPT !.pos = @ + delta] ELSE u
AddTokens(S, s, p0, p1, delta) == {t \in {AddToken(u, s, p0, p1, delta) : u \in S} : t.pos >= 0}

AddArgs(n, c, s, p0, p1, delta) ==
  /\ n \in Nat /\ Sound(c, n) /\ s \in Nat /\ p0 \in Int /\ p1 \in Int /\ delta \in Int
  /\ ~(delta = 0 \/ EmptyRange(p0, p1))
AddRight(c, s, p0, p1, delta) ==
  Tokens(SeqAdd(c, s, p0, p1, delta).cells) = AddTokens(Tokens(c.cells), s, p0, p1, delta)

LEMMA SeqAddTokens ==
  ASSUME NEW n, NEW c, NEW s, NEW p0, NEW p1, NEW delta, AddArgs(n, c, s, p0, p1, delta)
  PROVE  AddRight(c, s, p0, p1, delta)
<1> DEFINE S == Tokens(c.cells)
           F == [u \in S |-> AddToken(u, s, p0, p1, delta)]
           P == {u \in S : F[u].pos >= 0}
           new == SeqAdd(c, s, p0, p1, delta).cells
<1> /\ n \in Nat /\ Sound(c, n) /\ s \in Nat /\ p0 \in Int /\ p1 \in Int /\ delta \in Int
    /\ ~(delta = 0 \/ EmptyRange(p0, p1))
  BY DEF AddArgs
<1>0. s \in Int /\ s >= 0
  OBVIOUS
<1>1. \A i \in CellIds : new[i] = AddCell(c, s, p0, p1, delta, i)
  <2>1. new = [i \in CellIds |-> AddCell(c, s, p0, p1, delta, i)]
    BY <1>0, SeqAddIs
  <2> HIDE DEF new
  <2> QED
    BY <2>1
<1> HIDE DEF new
<1>2. ASSUME NEW i \in CellIds, c.cells[i].seqs # {}
      PROVE  /\ Token(c.cells[i]) \in S
             /\ new[i].seqs # {} <=> F[Token(c.cells[i])].pos >= 0
             /\ new[i].seqs # {} => Token(new[i]) = F[Token(c.cells[i])]
  <2> DEFINE x == c.cells[i]
             pos == x.pos + delta
             u == Token(x)
  <2>1. u \in S
    BY <1>2 DEF Tokens, Used
  <2>2. F[u] = AddToken(u, s, p0, p1, delta)
    BY <2>1
  <2>3. /\ x \in Cell /\ x.seqs # {} /\ x.pos >= 0
        /\ i \in CpHit(c, s, p0, p1) <=> Promise!In(u, s, p0, p1)
    BY <1>0, <1>2, SelectedIs
  <2>4. /\ u.pos = x.pos /\ AddMoved(c, delta, i) = Moved(x, pos) /\ x.pos \in Int /\ pos \in Int
        /\ i \in AddFreed(c, s, p0, p1, delta) <=> i \in CpHit(c, s, p0, p1) /\ pos < 0
    BY <2>3, TokenForms DEF AddMoved, AddFreed, Cell
  <2> HIDE DEF F
  <2>5. CASE i \in CpHit(c, s, p0, p1)
    <3>1. F[u] = [u EXCEPT !.pos = u.pos + delta]
      BY <2>2, <2>3, <2>5, Zenon DEF AddToken
    <3>2. F[u] = [u EXCEPT !.pos = pos]
      BY <2>4, <3>1, Zenon
    <3> HIDE DEF x, pos
    <3>3. F[u] = TokenOf(x.tok, pos, x.seqs)
      BY <3>2, TokenForms, Zenon
    <3>4. F[u].pos = pos
      BY <3>3 DEF TokenOf
    <3>5. Moved(x, pos) = CellOf(pos, x.seqs, x.tok, x.rot, x.delta + pos - x.pos)
      BY <2>3, <2>4, CellForms, Zenon
    <3>6. CASE pos < 0
      <4>1. new[i] = Freed(Moved(x, pos))
        BY <1>1, <2>4, <2>5, <3>6 DEF AddCell
      <4>2. Moved(x, pos) \in Cell
        BY <2>3, <2>4, <3>5 DEF Cell, CellOf
      <4> DEFINE y == Moved(x, pos)
      <4>3. new[i] = Freed(y) /\ y \in Cell
        BY <4>1, <4>2
      <4> HIDE DEF y
      <4>4. Freed(y) = CellOf(-1, {}, Nothing, -1, y.delta)
        BY <4>3, CellForms, Zenon
      <4>5. new[i].seqs = {}
        BY <4>3, <4>4, CellOfFields
      <4> QED
        BY <2>1, <2>4, <3>4, <3>6, <4>5 DEF x
    <3>7. CASE ~(pos < 0)
      <4>1. new[i] = Moved(x, pos)
        BY <1>1, <2>4, <2>5, <3>7 DEF AddCell
      <4>2. new[i].seqs = x.seqs /\ Token(new[i]) = TokenOf(x.tok, pos, x.seqs)
        BY <3>5, <4>1 DEF CellOf, Token, TokenOf
      <4>3. pos >= 0
        BY <2>4, <3>7
      <4> QED
        BY <2>1, <2>3, <3>3, <3>4, <4>2, <4>3 DEF x
    <3> QED
      BY <3>6, <3>7
  <2>6. CASE i \notin CpHit(c, s, p0, p1)
    <3>1. F[u] = u
      BY <2>2, <2>3, <2>6, Zenon DEF AddToken
    <3>2. new[i] = x
      BY <1>1, <2>6 DEF AddCell, AddFreed
    <3> QED
      BY <2>1, <2>3, <2>4, <3>1, <3>2
  <2> QED
    BY <2>5, <2>6
<1>3. ASSUME NEW i \in CellIds, c.cells[i].seqs = {}
      PROVE  new[i].seqs = {}
  <2>1. i \notin CpHit(c, s, p0, p1)
    BY <1>0, <1>3, SelectedIs
  <2>2. new[i] = c.cells[i]
    BY <1>1, <2>1 DEF AddCell, AddFreed
  <2> QED
    BY <1>3, <2>2
<1>4. \A i \in CellIds : new[i].seqs # {} <=> c.cells[i].seqs # {} /\ Token(c.cells[i]) \in P
  BY <1>2, <1>3
<1>5. \A i \in CellIds : new[i].seqs # {} => Token(new[i]) = F[Token(c.cells[i])]
  BY <1>2, <1>3
<1> HIDE DEF P, F
<1>6. Tokens(new) = {F[u] : u \in Tokens(c.cells) \cap P}
  <2>1. Becomes(c.cells, new, F, P)
    BY <1>4, <1>5 DEF Becomes
  <2> QED
    BY <2>1, TokensMap DEF Changed
<1>7. {F[u] : u \in S \cap P} = {t \in {F[u] : u \in S} : t.pos >= 0}
  BY DEF P
<1>8. {F[u] : u \in S} = {AddToken(u, s, p0, p1, delta) : u \in S}
  BY DEF F
<1> QED
  BY <1>6, <1>7, <1>8 DEF AddRight, AddTokens, new

DivToken(u, s, p0, p1, d) ==
  IF Promise!In(u, s, p0, p1) THEN [u EXCEPT !.pos = @ \div d] ELSE u
DivTokens(S, s, p0, p1, d) == {DivToken(u, s, p0, p1, d) : u \in S}

LEMMA SeqDivTokens ==
  ASSUME NEW n \in Nat, NEW c, Sound(c, n), NEW s \in Nat, NEW p0 \in Int, NEW p1 \in Int, NEW d \in Nat \ {0},
         ~(d = 1 \/ EmptyRange(p0, p1))
  PROVE  Tokens(SeqDiv(c, s, p0, p1, d).cells) = DivTokens(Tokens(c.cells), s, p0, p1, d)
<1> DEFINE S == Tokens(c.cells)
           F == [u \in S |-> DivToken(u, s, p0, p1, d)]
           new == SeqDiv(c, s, p0, p1, d).cells
<1>0. s \in Int /\ s >= 0
  OBVIOUS
<1>1. \A i \in CellIds : new[i] = DivCell(c, s, p0, p1, d, i)
  <2>1. new = [i \in CellIds |-> DivCell(c, s, p0, p1, d, i)]
    BY <1>0, SeqDivIs
  <2> HIDE DEF new
  <2> QED
    BY <2>1
<1> HIDE DEF new
<1>2. ASSUME NEW i \in CellIds, c.cells[i].seqs # {}
      PROVE  Token(c.cells[i]) \in S /\ new[i].seqs # {} /\ Token(new[i]) = F[Token(c.cells[i])]
  <2> DEFINE x == c.cells[i]
             pos == x.pos \div d
             u == Token(x)
  <2>1. u \in S
    BY <1>2 DEF Tokens, Used
  <2>2. F[u] = DivToken(u, s, p0, p1, d)
    BY <2>1
  <2>3. /\ x \in Cell /\ x.seqs # {} /\ x.pos \in Int
        /\ i \in CpHit(c, s, p0, p1) <=> Promise!In(u, s, p0, p1)
    BY <1>0, <1>2, SelectedIs DEF Cell
  <2>4. u.pos = x.pos
    BY TokenForms
  <2>5. pos \in Int
    <3> HIDE DEF x
    <3> QED
      BY <2>3
  <2> HIDE DEF F
  <2>6. CASE i \in CpHit(c, s, p0, p1)
    <3>1. F[u] = [u EXCEPT !.pos = u.pos \div d]
      BY <2>2, <2>3, <2>6, Zenon DEF DivToken
    <3>2. F[u] = [u EXCEPT !.pos = pos]
      BY <2>4, <3>1, Zenon
    <3>3. new[i] = Moved(x, pos)
      BY <1>1, <2>6 DEF DivCell
    <3> HIDE DEF x, pos
    <3>4. F[u] = TokenOf(x.tok, pos, x.seqs)
      BY <3>2, TokenForms, Zenon
    <3>5. Moved(x, pos) = CellOf(pos, x.seqs, x.tok, x.rot, x.delta + pos - x.pos)
      BY <2>3, <2>5, CellForms, Zenon
    <3>6. new[i].seqs = x.seqs /\ Token(new[i]) = TokenOf(x.tok, pos, x.seqs)
      BY <3>3, <3>5 DEF CellOf, Token, TokenOf
    <3> QED
      BY <2>1, <2>3, <3>4, <3>6 DEF x
  <2>7. CASE i \notin CpHit(c, s, p0, p1)
    <3>1. F[u] = u
      BY <2>2, <2>3, <2>7, Zenon DEF DivToken
    <3>2. new[i] = x
      BY <1>1, <2>7 DEF DivCell
    <3> QED
      BY <2>1, <2>3, <3>1, <3>2
  <2> QED
    BY <2>6, <2>7
<1>3. ASSUME NEW i \in CellIds, c.cells[i].seqs = {}
      PROVE  new[i].seqs = {}
  <2>1. i \notin CpHit(c, s, p0, p1)
    BY <1>0, <1>3, SelectedIs
  <2>2. new[i] = c.cells[i]
    BY <1>1, <2>1 DEF DivCell
  <2> QED
    BY <1>3, <2>2
<1>4. \A i \in CellIds : new[i].seqs # {} <=> c.cells[i].seqs # {} /\ Token(c.cells[i]) \in S
  BY <1>2, <1>3
<1>5. \A i \in CellIds : new[i].seqs # {} => Token(new[i]) = F[Token(c.cells[i])]
  BY <1>2, <1>3
<1> HIDE DEF F, S
<1>6. Tokens(new) = {F[u] : u \in Tokens(c.cells) \cap S}
  <2>1. Becomes(c.cells, new, F, S)
    BY <1>4, <1>5 DEF Becomes
  <2> QED
    BY <2>1, TokensMap DEF Changed
<1>7. {F[u] : u \in S} = {DivToken(u, s, p0, p1, d) : u \in S}
  BY DEF F
<1> QED
  BY <1>6, <1>7 DEF DivTokens, new, S

-----------------------------------------------------------------------------
(* The steps                                                               *)

LEMMA StoredIs == Stored = Tokens(cache.cells) /\ Stored' = Tokens(cache'.cells)
BY DEF Stored, Tokens, Token

LEMMA ConstantTypes ==
  /\ \A s \in Seqs : s \in Nat /\ s \in Int
  /\ \A p \in Bounds : p \in Int
  /\ \A x \in Deltas : x \in Int
  /\ \A d \in Divisors : d \in Nat \ {0}
  /\ MaxMoves \in Nat /\ MaxBatch \in Nat
BY KVCacheAssumption

\* A step of the cache is a step of what it promises, or one it does not see.
Promised == Promise!Next \/ UNCHANGED <<Stored, n_stored>>

LEMMA NoChange ==
  ASSUME Inv, Change(cache)
  PROVE  Inv' /\ Promised
<1>1. cache' = cache /\ n_stored' = n_stored
  BY DEF Change
<1>2. Stored' = Stored
  BY <1>1, StoredIs
<1> QED
  BY <1>1, <1>2 DEF Inv, Promised

LEMMA RmStep ==
  ASSUME Inv, NEW s \in Seqs \cup {-1}, NEW p0 \in Bounds, NEW p1 \in Bounds, Change(SeqRm(cache, s, p0, p1))
  PROVE  Inv' /\ Promised
<1> DEFINE c == SeqRm(cache, s, p0, p1)
<1>1. n_stored \in Nat /\ Sound(cache, n_stored) /\ s \in Int /\ p0 \in Int /\ p1 \in Int
  BY ConstantTypes DEF Inv
<1>2. Sound(c, n_stored) /\ Tokens(c.cells) = RmTokens(Tokens(cache.cells), s, p0, p1)
  <2>1. Sound(c, n_stored)
    BY <1>1, SeqRmIs
  <2>2. Tokens(c.cells) = RmTokens(Tokens(cache.cells), s, p0, p1)
    BY <1>1, SeqRmTokens, Zenon
  <2> QED
    BY <2>1, <2>2
<1>3. cache' = c /\ n_stored' = n_stored
  BY DEF Change
<1> HIDE DEF c
<1>4. Inv'
  BY <1>1, <1>2, <1>3 DEF Inv
<1>5. Stored' = RmTokens(Stored, s, p0, p1)
  BY <1>2, <1>3, StoredIs
<1>6. Promise!SeqRm(s, p0, p1)
  BY <1>3, <1>5, Zenon DEF Promise!SeqRm, RmTokens, RmToken
<1> QED
  BY <1>4, <1>6, Zenon DEF Promised, Promise!Next

LEMMA KeepStep ==
  ASSUME Inv, NEW s \in Seqs, Change(SeqKeep(cache, s))
  PROVE  Inv' /\ Promised
<1> DEFINE c == SeqKeep(cache, s)
<1>1. n_stored \in Nat /\ Sound(cache, n_stored) /\ s \in Nat /\ s \in Int
  BY ConstantTypes DEF Inv
<1>2. Sound(c, n_stored) /\ Tokens(c.cells) = KeepTokens(Tokens(cache.cells), s)
  <2>1. Sound(c, n_stored)
    BY <1>1, SeqKeepIs
  <2>2. Tokens(c.cells) = KeepTokens(Tokens(cache.cells), s)
    BY <1>1, SeqKeepTokens, Zenon
  <2> QED
    BY <2>1, <2>2
<1>3. cache' = c /\ n_stored' = n_stored
  BY DEF Change
<1> HIDE DEF c
<1>4. Inv'
  BY <1>1, <1>2, <1>3 DEF Inv
<1>5. Stored' = KeepTokens(Stored, s)
  BY <1>2, <1>3, StoredIs
<1>6. Promise!SeqKeep(s)
  BY <1>3, <1>5, Zenon DEF Promise!SeqKeep, KeepTokens, KeepToken
<1> QED
  BY <1>4, <1>6, Zenon DEF Promised, Promise!Next

LEMMA CpStep ==
  ASSUME Inv, NEW s \in Seqs, NEW dst \in Seqs, NEW p0 \in Bounds, NEW p1 \in Bounds,
         Change(SeqCp(cache, s, dst, p0, p1))
  PROVE  Inv' /\ Promised
<1> DEFINE c == SeqCp(cache, s, dst, p0, p1)
<1>1. n_stored \in Nat /\ Sound(cache, n_stored) /\ s \in Nat /\ dst \in Nat /\ s \in Int /\ dst \in Int
      /\ p0 \in Int /\ p1 \in Int
  BY ConstantTypes DEF Inv
<1>2. CASE s = dst
  <2>1. c = cache
    BY <1>2, Zenon DEF SeqCp
  <2> QED
    BY <2>1, NoChange
<1>3. CASE s # dst
  <2>1. Sound(c, n_stored) /\ Tokens(c.cells) = CpTokens(Tokens(cache.cells), s, dst, p0, p1)
    <3>1. Sound(c, n_stored)
      BY <1>1, <1>3, SeqCpIs
    <3>2. Tokens(c.cells) = CpTokens(Tokens(cache.cells), s, dst, p0, p1)
      <4>1. CpArgs(n_stored, cache, s, dst, p0, p1)
        BY <1>1, <1>3 DEF CpArgs
      <4> QED
        <5>1. CpRight(cache, s, dst, p0, p1)
          BY <4>1, SeqCpTokens, Zenon
        <5> QED
          BY <5>1 DEF CpRight
    <3> QED
      BY <3>1, <3>2
  <2>2. cache' = c /\ n_stored' = n_stored
    BY DEF Change
  <2> HIDE DEF c
  <2>3. Inv'
    BY <1>1, <2>1, <2>2 DEF Inv
  <2>4. Stored' = CpTokens(Stored, s, dst, p0, p1)
    BY <2>1, <2>2, StoredIs
  <2>5. Promise!SeqCp(s, dst, p0, p1)
    BY <2>2, <2>4, Zenon DEF Promise!SeqCp, CpTokens, CpToken
  <2> QED
    BY <2>3, <2>5, Zenon DEF Promised, Promise!Next
<1> QED
  BY <1>2, <1>3

LEMMA AddStep ==
  ASSUME Inv, NEW s \in Seqs, NEW p0 \in Bounds, NEW p1 \in Bounds, NEW delta \in Deltas,
         Change(SeqAdd(cache, s, p0, p1, delta))
  PROVE  Inv' /\ Promised
<1> DEFINE c == SeqAdd(cache, s, p0, p1, delta)
<1>1. n_stored \in Nat /\ Sound(cache, n_stored) /\ s \in Nat /\ s \in Int /\ p0 \in Int /\ p1 \in Int
      /\ delta \in Int
  BY ConstantTypes DEF Inv
<1>2. CASE delta = 0 \/ EmptyRange(p0, p1)
  <2>1. c = cache
    BY <1>2, Zenon DEF SeqAdd
  <2> QED
    BY <2>1, NoChange
<1>3. CASE ~(delta = 0 \/ EmptyRange(p0, p1))
  <2>1. Sound(c, n_stored) /\ Tokens(c.cells) = AddTokens(Tokens(cache.cells), s, p0, p1, delta)
    <3>1. Sound(c, n_stored)
      BY <1>1, <1>3, SeqAddIs
    <3>2. Tokens(c.cells) = AddTokens(Tokens(cache.cells), s, p0, p1, delta)
      <4>1. AddArgs(n_stored, cache, s, p0, p1, delta)
        BY <1>1, <1>3 DEF AddArgs
      <4> QED
        <5>1. AddRight(cache, s, p0, p1, delta)
          BY <4>1, SeqAddTokens, Zenon
        <5> QED
          BY <5>1 DEF AddRight
    <3> QED
      BY <3>1, <3>2
  <2>2. cache' = c /\ n_stored' = n_stored
    BY DEF Change
  <2> HIDE DEF c
  <2>3. Inv'
    BY <1>1, <2>1, <2>2 DEF Inv
  <2>4. Stored' = AddTokens(Stored, s, p0, p1, delta)
    BY <2>1, <2>2, StoredIs
  <2>5. Promise!SeqAdd(s, p0, p1, delta)
    BY <2>2, <2>4, Zenon DEF Promise!SeqAdd, AddTokens, AddToken
  <2> QED
    BY <2>3, <2>5, Zenon DEF Promised, Promise!Next
<1> QED
  BY <1>2, <1>3

LEMMA DivStep ==
  ASSUME Inv, NEW s \in Seqs, NEW p0 \in Bounds, NEW p1 \in Bounds, NEW d \in Divisors,
         Change(SeqDiv(cache, s, p0, p1, d))
  PROVE  Inv' /\ Promised
<1> DEFINE c == SeqDiv(cache, s, p0, p1, d)
<1>1. n_stored \in Nat /\ Sound(cache, n_stored) /\ s \in Nat /\ s \in Int /\ p0 \in Int /\ p1 \in Int
      /\ d \in Nat \ {0}
  BY ConstantTypes DEF Inv
<1>2. CASE d = 1 \/ EmptyRange(p0, p1)
  <2>1. c = cache
    BY <1>2, Zenon DEF SeqDiv
  <2> QED
    BY <2>1, NoChange
<1>3. CASE ~(d = 1 \/ EmptyRange(p0, p1))
  <2>1. Sound(c, n_stored) /\ Tokens(c.cells) = DivTokens(Tokens(cache.cells), s, p0, p1, d)
    <3>1. Sound(c, n_stored)
      BY <1>1, <1>3, SeqDivIs
    <3>2. Tokens(c.cells) = DivTokens(Tokens(cache.cells), s, p0, p1, d)
      BY <1>1, <1>3, SeqDivTokens
    <3> QED
      BY <3>1, <3>2
  <2>2. cache' = c /\ n_stored' = n_stored
    BY DEF Change
  <2> HIDE DEF c
  <2>3. Inv'
    BY <1>1, <2>1, <2>2 DEF Inv
  <2>4. Stored' = DivTokens(Stored, s, p0, p1, d)
    BY <2>1, <2>2, StoredIs
  <2>5. Promise!SeqDiv(s, p0, p1, d)
    BY <2>2, <2>4, Zenon DEF Promise!SeqDiv, DivTokens, DivToken
  <2> QED
    BY <2>3, <2>5, Zenon DEF Promised, Promise!Next
<1> QED
  BY <1>2, <1>3

LEMMA UpdateStep ==
  ASSUME Inv, KvUpdate
  PROVE  Inv' /\ Promised
<1> DEFINE c == Update(cache, MaxMoves)
<1>1. n_stored \in Nat /\ Sound(cache, n_stored)
  BY DEF Inv
<1>2. Sound(c, n_stored) /\ Tokens(c.cells) = Tokens(cache.cells)
  BY <1>1, ConstantTypes, UpdateIs
<1>3. cache' = c /\ n_stored' = n_stored
  BY DEF KvUpdate, Change
<1> HIDE DEF c
<1>4. Stored' = Stored
  BY <1>2, <1>3, StoredIs
<1> QED
  BY <1>1, <1>2, <1>3, <1>4 DEF Inv, Promised

LEMMA ClearStep ==
  ASSUME Inv, Clear
  PROVE  Inv' /\ Promised
<1> DEFINE c == Cleared(cache)
<1>1. n_stored \in Nat /\ Sound(cache, n_stored)
  BY DEF Inv
<1>2. Sound(c, n_stored) /\ Used(c.cells) = {}
  BY <1>1, ClearedIs
<1>3. cache' = c /\ n_stored' = n_stored
  BY DEF Clear
<1> HIDE DEF c
<1>4. Stored' = {}
  BY <1>2, <1>3, StoredIs DEF Tokens
<1>5. Promise!Clear
  BY <1>3, <1>4 DEF Promise!Clear
<1> QED
  BY <1>1, <1>2, <1>3, <1>5, Zenon DEF Inv, Promised, Promise!Next

LEMMA DecodeStep ==
  ASSUME Inv, NEW n \in 1 .. MaxBatch, NEW pos \in 0 .. MaxPos, NEW seq \in [1 .. n -> Seqs],
         NEW fragmented \in BOOLEAN, Decode(seq, pos, fragmented)
  PROVE  Inv' /\ Promised
<1> DEFINE new == BatchTokens(Batch(seq, pos))
<1>1. Inv' /\ n_stored \in Nat /\ n \in Nat \ {0} /\ pos \in Nat
  BY ConstantTypes, DecodeIs DEF Inv
<1>2. \/ n_stored' = n_stored + n /\ Stored' = Stored \cup new
      \/ n_stored' = n_stored /\ Stored' = Stored
  BY DecodeIs, StoredIs
<1>3. IsFiniteSet(new) /\ Cardinality(new) = n /\ {t.tok : t \in new} = n_stored .. n_stored + n - 1
  BY <1>1, BatchIs
<1> HIDE DEF new
<1>4. CASE n_stored' = n_stored + n /\ Stored' = Stored \cup new
  <2>1. \A t \in Stored : ~(t.tok \in n_stored .. n_stored + n - 1)
    <3>1. \A i \in CellIds : SoundCell(cache.cells[i], n_stored, cache.has_shift)
      BY DEF Inv, Sound
    <3>2. \A i \in Used(cache.cells) : cache.cells[i].tok \in 0 .. n_stored - 1
      BY <3>1 DEF Used, SoundCell, SoundData
    <3>3. \A t \in Stored : t.tok \in 0 .. n_stored - 1
      BY <3>2 DEF Stored
    <3> QED
      BY <1>1, <3>3
  <2>2. \A t \in new : t \notin Stored
    BY <1>3, <2>1
  <2>3. Stored' \ Stored = new /\ Stored \subseteq Stored'
    BY <1>4, <2>2
  <2>4. /\ {t.tok : t \in Stored' \ Stored} = n_stored .. n_stored + n - 1
        /\ Cardinality(Stored' \ Stored) = n
    BY <1>3, <2>3
  <2>5. Promise!Store(n)
    BY <1>4, <2>3, <2>4 DEF Promise!Store, Promise!Cardinality, Cardinality
  <2> QED
    BY <1>1, <2>5, Zenon DEF Promised, Promise!Next
<1>5. CASE n_stored' = n_stored /\ Stored' = Stored
  BY <1>1, <1>5 DEF Promised
<1> QED
  BY <1>2, <1>4, <1>5

LEMMA Step ==
  ASSUME Inv, [Next]_vars
  PROVE  Inv' /\ Promised
<1>1. CASE Sequence
  BY <1>1, RmStep, KeepStep, CpStep, AddStep, DivStep, Zenon DEF Sequence
<1>2. CASE \E n \in 1 .. MaxBatch, pos \in 0 .. MaxPos : \E seq \in [1 .. n -> Seqs] :
             \E fragmented \in BOOLEAN : Decode(seq, pos, fragmented)
  BY <1>2, DecodeStep, Zenon
<1>3. CASE UNCHANGED vars
  <2>1. cache' = cache /\ n_stored' = n_stored
    BY <1>3 DEF vars
  <2>2. Stored' = Stored
    BY <2>1, StoredIs
  <2> QED
    BY <2>1, <2>2 DEF Inv, Promised
<1> QED
  BY <1>1, <1>2, <1>3, ClearStep, UpdateStep, Zenon DEF Next

-----------------------------------------------------------------------------
(* The theorems                                                            *)

LEMMA Invariance == Spec => []Inv
<1>1. Inv /\ [Next]_vars => Inv'
  BY Step
<1> QED
  BY <1>1, InitInv, PTL DEF Spec

\* The used count that find_slot, defrag and the full-cache heuristics of llama_decode rely on
\* is the number of used cells, and a cell has a position exactly when it belongs to a
\* sequence, after every sequence of batches, sequence operations and updates, for every size
\* of the cache.
THEOREM CountIsExact == Spec => []UsedIsExact
<1>1. Inv => UsedIsExact
  BY DEF Inv, Sound, SoundCell, SoundData, UsedIsExact
<1> QED
  BY <1>1, Invariance, PTL

\* The keys of a stored token are rotated to its position, or the next
\* llama_kv_cache_update brings them there: seq_add and seq_div record every shift in the
\* cell and in has_shift, and a cell that is given up leaves no shift to its next token.
THEOREM KeysAreRight == Spec => []KeysFollowPositions
<1>1. Inv => KeysFollowPositions
  BY DEF Inv, Sound, SoundCell, SoundData, KeysFollowPositions, Used
<1> QED
  BY <1>1, Invariance, PTL

\* llama_decode, defragmentation and the llama_kv_cache_seq_* operations do to the stored tokens
\* what include/llama.h says, and nothing else: no token is overwritten, lost or doubled, whatever
\* cells it is moved to.
THEOREM StoreRefinement == Spec => ImplementsStore
<1>1. Init => Promise!Init
  <2>1. Init => Stored = {}
    BY EmptyIsSound, StoredIs DEF Init
  <2> QED
    BY <2>1 DEF Init, Promise!Init
<1>2. Inv /\ [Next]_vars => [Promise!Next]_(Promise!storeVars)
  BY Step DEF Promised, Promise!storeVars
<1> QED
  BY <1>1, <1>2, Invariance, PTL DEF Spec, ImplementsStore, Promise!Spec

-----------------------------------------------------------------------------
(* The searches of find_slot and of defrag, on the caches of WideSize cells *)

WideProofs == INSTANCE KVCells_proofs WITH Size <- WideSize

\* FillHole of each, once the hole and the cells that fill it are known.
WideFilled(d, i0, hole, src, moved) ==
  LET from(i) == CHOOSE j \in moved : Wide!Cardinality({k \in moved : k < j}) = i - i0
  IN  [d EXCEPT !.cache.cells =
                  [i \in Wide!CellIds |->
                     IF i \in moved THEN Wide!Free
                     ELSE IF i - i0 \in 0 .. Wide!Cardinality(moved) - 1 THEN d.cache.cells[from(i)]
                     ELSE d.cache.cells[i]],
                !.cache.head = d.n_used,
                !.moves = @ + Wide!Cardinality(Wide!RunStarts(moved)),
                !.found = @ /\ Wide!Cardinality(src) = Wide!Cardinality(hole)]
WideProofsFilled(d, i0, hole, src, moved) ==
  LET from(i) == CHOOSE j \in moved : WideProofs!Cardinality({k \in moved : k < j}) = i - i0
  IN  [d EXCEPT !.cache.cells =
                  [i \in WideProofs!CellIds |->
                     IF i \in moved THEN WideProofs!Free
                     ELSE IF i - i0 \in 0 .. WideProofs!Cardinality(moved) - 1 THEN d.cache.cells[from(i)]
                     ELSE d.cache.cells[i]],
                !.cache.head = d.n_used,
                !.moves = @ + WideProofs!Cardinality(WideProofs!RunStarts(moved)),
                !.found = @ /\ WideProofs!Cardinality(src) = WideProofs!Cardinality(hole)]

LEMMA WideOperators ==
  /\ Wide!EmptyCache = WideProofs!EmptyCache /\ Wide!CellIds = WideProofs!CellIds
  /\ \A used, head : Occupied(used, head) = WideProofs!OccupiedCache(used, head)
  /\ \A c, n : Wide!FindSlot(c, n) = WideProofs!FindSlot(c, n)
  /\ \A c, m : Wide!Defrag(c, m) = WideProofs!Defrag(c, m)
  /\ \A cells : Wide!Used(cells) = WideProofs!Used(cells)
<1>1. Wide!EmptyCache = WideProofs!EmptyCache /\ Wide!CellIds = WideProofs!CellIds
  BY DEF Wide!EmptyCache, WideProofs!EmptyCache, Wide!CellIds, WideProofs!CellIds, Wide!Free, WideProofs!Free
<1>2. \A used, head : Occupied(used, head) = WideProofs!OccupiedCache(used, head)
  BY DEF Occupied, WideProofs!OccupiedCache, WideProofs!OccupiedCells, Wide!EmptyCache,
               WideProofs!EmptyCache, Wide!CellIds, WideProofs!CellIds, Wide!Free, WideProofs!Free,
               Cardinality, WideProofs!Cardinality
<1>3. \A c, n : Wide!FindSlot(c, n) = WideProofs!FindSlot(c, n)
  BY Zenon DEF Wide!FindSlot, WideProofs!FindSlot, Wide!Min, WideProofs!Min
<1>4. \A cells : Wide!Used(cells) = WideProofs!Used(cells)
  BY Zenon DEF Wide!Used, WideProofs!Used, Wide!CellIds, WideProofs!CellIds
<1>5. \A c, m : Wide!Defrag(c, m) = WideProofs!Defrag(c, m)
  <2>1. \A S : Wide!Cardinality(S) = WideProofs!Cardinality(S)
    BY DEF Wide!Cardinality, WideProofs!Cardinality
  <2>2. \A cells, i0, n : Wide!Hole(cells, i0, n) = WideProofs!Hole(cells, i0, n)
    BY Zenon DEF Wide!Hole, WideProofs!Hole
  <2>3. \A cells, i0, k : Wide!LastUsed(cells, i0, k) = WideProofs!LastUsed(cells, i0, k)
    BY <1>4, <2>1 DEF Wide!LastUsed, WideProofs!LastUsed
  <2>4. \A S : Wide!RunStarts(S) = WideProofs!RunStarts(S)
    BY Zenon DEF Wide!RunStarts, WideProofs!RunStarts
  <2>5. \A S, k : Wide!FirstRuns(S, k) = WideProofs!FirstRuns(S, k)
    BY <2>1, <2>4 DEF Wide!FirstRuns, WideProofs!FirstRuns
  <2>6. \A d, i0, hole, src, moved :
          WideFilled(d, i0, hole, src, moved) = WideProofsFilled(d, i0, hole, src, moved)
    <3> TAKE d, i0, hole, src, moved
    <3> DEFINE from(i) == CHOOSE j \in moved : Wide!Cardinality({x \in moved : x < j}) = i - i0
               same(i) == CHOOSE j \in moved : WideProofs!Cardinality({x \in moved : x < j}) = i - i0
               last == WideProofs!Cardinality(moved) - 1
               cells(f(_)) == [i \in WideProofs!CellIds |->
                                 IF i \in moved THEN WideProofs!Free
                                 ELSE IF i - i0 \in 0 .. last THEN d.cache.cells[f(i)]
                                 ELSE d.cache.cells[i]]
    <3>1. \A i : from(i) = same(i)
      BY DEF Wide!Cardinality, WideProofs!Cardinality
    <3>2. cells(from) = cells(same)
      <4> HIDE DEF from, same
      <4> QED
        BY <3>1, Zenon
    <3>3. Wide!Free = WideProofs!Free
      BY DEF Wide!Free, WideProofs!Free
    <3>4. [i \in Wide!CellIds |->
             IF i \in moved THEN Wide!Free
             ELSE IF i - i0 \in 0 .. Wide!Cardinality(moved) - 1 THEN d.cache.cells[from(i)]
             ELSE d.cache.cells[i]] = cells(from)
      <4> HIDE DEF from
      <4> QED
        BY <1>1, <2>1, <3>3, Zenon
    <3> QED
      BY <2>1, <2>4, <3>2, <3>4, Zenon DEF WideFilled, WideProofsFilled
  <2>7. \A d, i0, k : Wide!FillHole(d, i0, k) = WideProofs!FillHole(d, i0, k)
    <3> TAKE d, i0, k
    <3> DEFINE hole == Wide!Hole(d.cache.cells, i0, d.n_used)
               src == Wide!LastUsed(d.cache.cells, i0, Wide!Cardinality(hole))
               moved == Wide!FirstRuns(src, k - d.moves)
    <3>1. Wide!FillHole(d, i0, k) = WideFilled(d, i0, hole, src, moved)
      BY Zenon DEF Wide!FillHole, WideFilled
    <3> DEFINE hole2 == WideProofs!Hole(d.cache.cells, i0, d.n_used)
               src2 == WideProofs!LastUsed(d.cache.cells, i0, WideProofs!Cardinality(hole2))
               moved2 == WideProofs!FirstRuns(src2, k - d.moves)
    <3>2. WideProofs!FillHole(d, i0, k) = WideProofsFilled(d, i0, hole2, src2, moved2)
      BY Zenon DEF WideProofs!FillHole, WideProofsFilled
    <3>3. hole = hole2 /\ src = src2 /\ moved = moved2
      BY <2>1, <2>2, <2>3, <2>5, Zenon
    <3> HIDE DEF hole, src, moved, hole2, src2, moved2
    <3> QED
      BY <2>6, <3>1, <3>2, <3>3, Zenon
  <2> QED
    BY <2>7, ZenonT(60) DEF Wide!Defrag, WideProofs!Defrag
<1> QED
  BY <1>1, <1>2, <1>3, <1>4, <1>5

\* llama_kv_cache_find_slot gives a batch cells whenever that many free cells lie in a row,
\* wherever the used cells are and the search starts, in a cache of every size; the cells it
\* gives are free.  (The search tests every start, those behind the head after the wrap.)
THEOREM SearchIsExact == Spec => []FindSlotExact
<1>1. FindSlotExact
  <2>1. SUFFICES ASSUME NEW used \in SUBSET Wide!CellIds, NEW head \in Wide!CellIds, NEW n \in 1 .. WideSize + 1
                 PROVE  LET Run(h) == h + n <= WideSize /\ h .. h + n - 1 \subseteq Wide!CellIds \ used
                            f == Wide!FindSlot(Occupied(used, head), n)
                        IN  /\ f.ok <=> \E h \in Wide!CellIds : Run(h)
                            /\ f.ok => Run(f.head)
    BY Zenon DEF FindSlotExact
  <2>2. WideSize \in Nat \ {0} /\ n \in Nat \ {0}
    BY KVCacheAssumption
  <2>3. used \in SUBSET WideProofs!CellIds /\ head \in WideProofs!CellIds
    BY WideOperators
  <2>4. LET Run(h) == h + n <= WideSize /\ h .. h + n - 1 \subseteq WideProofs!CellIds \ used
            f == WideProofs!FindSlot(WideProofs!OccupiedCache(used, head), n)
        IN  /\ f.ok <=> \E h \in WideProofs!CellIds : Run(h)
            /\ f.ok => Run(f.head)
    BY <2>2, <2>3, WideProofs!EverySearch
  <2> QED
    BY <2>4, WideOperators
<1> QED
  BY <1>1, PTL

\* llama_kv_cache_defrag_internal finds a used cell for every hole (its assertion), loses and
\* doubles no token, and leaves no hole when the moves suffice, wherever the used cells are, in a
\* cache of every size.
THEOREM DefragIsRight == Spec => []DefragCompacts
<1>1. DefragCompacts
  <2>1. SUFFICES ASSUME NEW used \in SUBSET Wide!CellIds, NEW moves \in 1 .. WideSize
                 PROVE  LET d == Wide!Defrag(Occupied(used, 0), moves)
                            after == Wide!Used(d.cache.cells)
                        IN  /\ d.found
                            /\ Cardinality(after) = Cardinality(used)
                            /\ {d.cache.cells[i].tok : i \in after} = used
                            /\ d.moves < moves => after = 0 .. Cardinality(used) - 1
    BY Zenon DEF DefragCompacts
  <2>2. WideSize \in Nat \ {0} /\ moves \in Nat
    BY KVCacheAssumption
  <2>3. used \in SUBSET WideProofs!CellIds
    BY WideOperators
  <2>4. LET d == WideProofs!Defrag(WideProofs!OccupiedCache(used, 0), moves)
            after == WideProofs!Used(d.cache.cells)
        IN  /\ d.found
            /\ WideProofs!Cardinality(after) = WideProofs!Cardinality(used)
            /\ {d.cache.cells[i].tok : i \in after} = used
            /\ d.moves < moves => after = 0 .. WideProofs!Cardinality(used) - 1
    BY <2>2, <2>3, WideProofs!EveryDefrag
  <2>5. \A S : WideProofs!Cardinality(S) = Cardinality(S)
    BY DEF WideProofs!Cardinality, Cardinality
  <2> QED
    BY <2>4, <2>5, WideOperators
<1> QED
  BY <1>1, PTL

=============================================================================
