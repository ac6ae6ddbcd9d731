--------------------------- MODULE KVCells_proofs ---------------------------
(***************************************************************************)
(* What the operators on a KV cache do, for a cache of any size: the       *)
(* search for a slot and the defragmentation.                              *)
(*                                                                         *)
(* Induction is over sets: a set of natural numbers that is not empty has  *)
(* a least element (LeastNat), which is the first one a claim fails for.   *)
(***************************************************************************)
EXTENDS KVCells, FiniteSetTheorems, TLAPS

LEMMA LeastNat ==
  ASSUME NEW T \in SUBSET Nat, T # {}
  PROVE  \E x \in T : \A y \in T : x <= y
<1> DEFINE R == OpToRel(<, Nat)
<1>1. IsWellFoundedOn(R, Nat)
  BY NatLessThanWellFounded
<1>2. \A x, y \in Nat : <<x, y>> \in R <=> x < y
  BY DEF OpToRel
<1> HIDE DEF R
<1>3. PICK x \in T : \A y \in T : ~(<<y, x>> \in R)
  BY <1>1, WFMin
<1>4. ASSUME NEW y \in T PROVE x <= y
  <2>1. x \in Nat /\ y \in Nat /\ ~(<<y, x>> \in R)
    BY <1>3
  <2> QED
    BY <1>2, <2>1
<1> QED
  BY <1>4

\* A set of natural numbers that starts at zero and never stops has all of them.
LEMMA NatSetInduction ==
  ASSUME NEW T, 0 \in T, \A n \in Nat : n \in T => n + 1 \in T
  PROVE  \A n \in Nat : n \in T
<1> DEFINE U == {n \in Nat : n \notin T}
<1> SUFFICES ASSUME U # {} PROVE FALSE
  OBVIOUS
<1>1. PICK x \in U : \A y \in U : x <= y
  <2>1. U \in SUBSET Nat
    OBVIOUS
  <2> HIDE DEF U
  <2> QED
    BY <2>1, LeastNat
<1>2. x # 0 /\ x - 1 \in Nat
  OBVIOUS
<1>3. x - 1 \in T
  BY <1>1, <1>2
<1> QED
  BY <1>1, <1>2, <1>3

\* The numbers that have a property because all smaller ones have it.
LEMMA NatSetComplete ==
  ASSUME NEW T, \A n \in Nat : (\A m \in Nat : m < n => m \in T) => n \in T
  PROVE  \A n \in Nat : n \in T
<1> DEFINE U == {n \in Nat : n \notin T}
<1> SUFFICES ASSUME U # {} PROVE FALSE
  OBVIOUS
<1>1. PICK x \in U : \A y \in U : x <= y
  <2>1. U \in SUBSET Nat
    OBVIOUS
  <2> HIDE DEF U
  <2> QED
    BY <2>1, LeastNat
<1>2. \A m \in Nat : m < x => m \in T
  BY <1>1
<1> QED
  BY <1>1, <1>2

LEMMA LeastMin ==
  ASSUME NEW T \in SUBSET Nat, T # {}
  PROVE  Min(T) \in T /\ Min(T) \in Nat /\ \A y \in T : Min(T) <= y
<1>1. \E x \in T : \A y \in T : x <= y
  BY LeastNat
<1>2. Min(T) \in T /\ \A y \in T : Min(T) <= y
  BY <1>1, Zenon DEF Min
<1> QED
  BY <1>2

-----------------------------------------------------------------------------
(* The search for a slot                                                   *)

Starts == (0 .. Size) \X Nat

Busy(c, n, h) == {i \in 0 .. n - 1 : c.cells[h + i].pos >= 0}

\* One step of the search, which goes on as f says.
SearchStep(c, n, f, at) ==
  LET skip == Min(Busy(c, n, at[1])) + 1
  IN  IF at[1] + n > Size THEN f[<<0, at[2] + Size - at[1]>>]
      ELSE IF Busy(c, n, at[1]) = {} THEN [ok |-> TRUE, head |-> at[1]]
      ELSE IF at[2] + skip >= Size THEN [ok |-> FALSE, head |-> at[1] + skip]
      ELSE f[<<at[1] + skip, at[2] + skip>>]

IsSearch(c, n, f) == f = [at \in Starts |-> SearchStep(c, n, f, at)]

Search(c, n) == CHOOSE f : IsSearch(c, n, f)

LEMMA FindSlotIs ==
  ASSUME NEW c, NEW n
  PROVE  FindSlot(c, n) = IF n > Size THEN [ok |-> FALSE, head |-> c.head] ELSE Search(c, n)[<<c.head, 0>>]
BY DEF FindSlot, Search, IsSearch, SearchStep, Starts, Busy

\* Where a step goes on, fewer cells are left to be tested, or as many and the end is behind.
Wraps(n, at) == IF at[1] + n > Size THEN 1 ELSE 0
Steps(n, at) == IF at[2] < Size THEN 2 * (Size - at[2]) + Wraps(n, at) ELSE Wraps(n, at)

LEMMA StepsType ==
  ASSUME NEW n \in 1 .. Size, NEW at \in Starts
  PROVE  /\ at = <<at[1], at[2]>> /\ at[1] \in 0 .. Size /\ at[2] \in Nat
         /\ Steps(n, at) \in Nat /\ Steps(n, at) < 2 * Size + 2
BY SizeAssumption DEF Starts, Steps, Wraps

LEMMA SkipType ==
  ASSUME NEW c, NEW n \in 1 .. Size, NEW h \in 0 .. Size, Busy(c, n, h) # {}
  PROVE  /\ Min(Busy(c, n, h)) \in 0 .. n - 1 /\ Min(Busy(c, n, h)) \in Busy(c, n, h)
         /\ \A i \in Busy(c, n, h) : Min(Busy(c, n, h)) <= i
<1>1. Busy(c, n, h) \in SUBSET Nat
  BY DEF Busy
<1>2. Busy(c, n, h) \subseteq 0 .. n - 1
  BY DEF Busy
<1> QED
  BY <1>1, <1>2, LeastMin

\* A step looks only at what f says where fewer steps are left.
LEMMA SearchStepSame ==
  ASSUME NEW c, NEW n \in 1 .. Size, NEW at \in Starts, NEW f, NEW g,
         \A y \in Starts : Steps(n, y) < Steps(n, at) => f[y] = g[y]
  PROVE  SearchStep(c, n, f, at) = SearchStep(c, n, g, at)
<1> DEFINE skip == Min(Busy(c, n, at[1])) + 1
           wrapped == <<0, at[2] + Size - at[1]>>
           next == <<at[1] + skip, at[2] + skip>>
<1> USE SizeAssumption
<1>1. at[1] \in 0 .. Size /\ at[2] \in Nat
  BY StepsType
<1>2. CASE at[1] + n > Size
  <2>1. wrapped \in Starts /\ wrapped[1] = 0 /\ wrapped[2] = at[2] + Size - at[1] /\ wrapped[2] >= at[2]
    BY <1>1 DEF Starts
  <2>2. Steps(n, wrapped) < Steps(n, at)
    BY <1>1, <1>2, <2>1 DEF Steps, Wraps
  <2>3. f[wrapped] = g[wrapped]
    BY <2>1, <2>2
  <2> QED
    BY <1>2, <2>3 DEF SearchStep
<1>3. CASE ~(at[1] + n > Size) /\ Busy(c, n, at[1]) # {} /\ ~(at[2] + skip >= Size)
  <2>1. skip \in 1 .. n
    BY <1>1, <1>3, SkipType
  <2> HIDE DEF skip
  <2>2. next \in Starts /\ next[1] = at[1] + skip /\ next[2] = at[2] + skip
    BY <1>1, <1>3, <2>1 DEF Starts
  <2>3. Steps(n, next) < Steps(n, at)
    BY <1>1, <1>3, <2>1, <2>2 DEF Steps, Wraps
  <2>4. f[next] = g[next]
    BY <2>2, <2>3
  <2> QED
    BY <1>3, <2>4 DEF SearchStep, skip
<1>4. CASE ~(at[1] + n > Size) /\ (Busy(c, n, at[1]) = {} \/ at[2] + skip >= Size)
  BY <1>4 DEF SearchStep
<1> QED
  BY <1>2, <1>3, <1>4

\* The search comes to an end.
LEMMA SearchExists ==
  ASSUME NEW c, NEW n \in 1 .. Size
  PROVE  IsSearch(c, n, Search(c, n))
<1> DEFINE Upto(m, f) == \A at \in Starts : Steps(n, at) < m => f[at] = SearchStep(c, n, f, at)
           T == {m \in Nat : \E f : Upto(m, f)}
<1>1. 0 \in T
  BY StepsType
<1>2. ASSUME NEW m \in Nat, m \in T
      PROVE  m + 1 \in T
  <2>1. PICK f : Upto(m, f)
    BY <1>2
  <2> DEFINE g == [at \in Starts |-> SearchStep(c, n, f, at)]
  <2>2. ASSUME NEW at \in Starts, Steps(n, at) < m + 1
        PROVE  g[at] = SearchStep(c, n, g, at)
    <3>1. \A y \in Starts : Steps(n, y) < Steps(n, at) => f[y] = g[y]
      <4>1. ASSUME NEW y \in Starts, Steps(n, y) < Steps(n, at)
            PROVE  f[y] = g[y]
        <5>1. Steps(n, y) < m
          BY <2>2, <4>1, StepsType
        <5> QED
          BY <2>1, <5>1
      <4> QED
        BY <4>1
    <3> HIDE DEF g
    <3>2. SearchStep(c, n, f, at) = SearchStep(c, n, g, at)
      BY <3>1, SearchStepSame
    <3> QED
      BY <3>2 DEF g
  <2>3. Upto(m + 1, g)
    BY <2>2
  <2> HIDE DEF g, Upto
  <2> QED
    BY <2>3
<1> HIDE DEF T
<1>3. 2 * Size + 2 \in T
  <2>1. \A m \in Nat : m \in T
    BY <1>1, <1>2, NatSetInduction
  <2> QED
    BY <2>1, SizeAssumption
<1>4. PICK f : Upto(2 * Size + 2, f)
  BY <1>3 DEF T
<1> DEFINE g == [at \in Starts |-> SearchStep(c, n, f, at)]
<1>5. \A at \in Starts : f[at] = g[at]
  BY <1>4, StepsType
<1>6. ASSUME NEW at \in Starts
      PROVE  g[at] = SearchStep(c, n, g, at)
  <2> HIDE DEF g
  <2>1. SearchStep(c, n, f, at) = SearchStep(c, n, g, at)
    BY <1>5, SearchStepSame
  <2> QED
    BY <2>1 DEF g
<1>7. g = [at \in Starts |-> SearchStep(c, n, g, at)]
  <2>1. [at \in Starts |-> g[at]] = [at \in Starts |-> SearchStep(c, n, g, at)]
    BY <1>6
  <2> QED
    BY <2>1
<1> HIDE DEF g
<1>8. IsSearch(c, n, g)
  BY <1>7 DEF IsSearch
<1> QED
  BY <1>8, Zenon DEF Search

\* From cell h on, n cells are free.
FreeRun(c, n, h) == h + n <= Size /\ \A i \in h .. h + n - 1 : ~(c.cells[i].pos >= 0)

\* At cell h, with t cells tested: no run starts at the cells behind, since the first or, after
\* the end of the cache, in two parts, or all of them are tested.
Tested(c, n, at) ==
  \/ /\ at[1] >= c.head /\ at[2] = at[1] - c.head
     /\ \A h \in c.head .. at[1] - 1 : ~FreeRun(c, n, h)
  \/ /\ at[2] = Size - c.head + at[1]
     /\ \A h \in (c.head .. Size - 1) \cup (0 .. at[1] - 1) : ~FreeRun(c, n, h)
  \/ at[2] >= Size /\ \A h \in 0 .. Size - 1 : ~FreeRun(c, n, h)

\* What a search has to find.
Right(c, n, r) ==
  /\ r.ok \in BOOLEAN /\ r.head \in 0 .. Size
  /\ r.ok <=> \E h \in CellIds : FreeRun(c, n, h)
  /\ r.ok => r.head \in CellIds /\ FreeRun(c, n, r.head)

LEMMA StepIsRight ==
  ASSUME NEW c, c.head \in 0 .. Size, NEW n \in 1 .. Size, NEW f, NEW at \in Starts, Tested(c, n, at),
         \A y \in Starts : Steps(n, y) < Steps(n, at) /\ Tested(c, n, y) => Right(c, n, f[y])
  PROVE  Right(c, n, SearchStep(c, n, f, at))
<1> USE SizeAssumption
<1> DEFINE busy == Busy(c, n, at[1])
           skip == Min(busy) + 1
           wrapped == <<0, at[2] + Size - at[1]>>
           next == <<at[1] + skip, at[2] + skip>>
<1>1. at[1] \in 0 .. Size /\ at[2] \in Nat
  BY StepsType
<1>2. CASE at[1] + n > Size
  <2>1. wrapped \in Starts /\ wrapped[1] = 0 /\ wrapped[2] = at[2] + Size - at[1] /\ wrapped[2] >= at[2]
    BY <1>1 DEF Starts
  <2>2. Steps(n, wrapped) < Steps(n, at)
    BY <1>1, <1>2, <2>1 DEF Steps, Wraps
  <2>3. \A h \in at[1] .. Size : ~FreeRun(c, n, h)
    BY <1>1, <1>2 DEF FreeRun
  <2>4. CASE at[1] >= c.head /\ at[2] = at[1] - c.head /\ \A h \in c.head .. at[1] - 1 : ~FreeRun(c, n, h)
    <3>1. \A h \in c.head .. Size - 1 : ~FreeRun(c, n, h)
      BY <1>1, <2>3, <2>4
    <3>2. Tested(c, n, wrapped)
      BY <1>1, <2>1, <2>4, <3>1 DEF Tested
    <3> QED
      BY <1>2, <2>1, <2>2, <3>2 DEF SearchStep
  <2>5. CASE \/ /\ at[2] = Size - c.head + at[1]
                /\ \A h \in (c.head .. Size - 1) \cup (0 .. at[1] - 1) : ~FreeRun(c, n, h)
             \/ at[2] >= Size /\ \A h \in 0 .. Size - 1 : ~FreeRun(c, n, h)
    <3>1. \A h \in 0 .. Size - 1 : ~FreeRun(c, n, h)
      BY <1>1, <2>3, <2>5
    <3>2. wrapped[2] >= Size
      BY <1>1, <2>1, <2>5
    <3>3. Tested(c, n, wrapped)
      BY <3>1, <3>2 DEF Tested
    <3> QED
      BY <1>2, <2>1, <2>2, <3>3 DEF SearchStep
  <2> QED
    BY <2>4, <2>5 DEF Tested
<1>3. CASE ~(at[1] + n > Size) /\ busy = {}
  <2>1. \A i \in at[1] .. at[1] + n - 1 : ~(c.cells[i].pos >= 0)
    <3>1. ASSUME NEW i \in at[1] .. at[1] + n - 1, c.cells[i].pos >= 0
          PROVE  i - at[1] \in busy
      <4>1. i - at[1] \in 0 .. n - 1 /\ at[1] + (i - at[1]) = i
        BY <1>1
      <4> QED
        BY <3>1, <4>1 DEF Busy
    <3> QED
      BY <1>3, <3>1
  <2>2. FreeRun(c, n, at[1]) /\ at[1] \in CellIds
    BY <1>1, <1>3, <2>1 DEF FreeRun, CellIds
  <2>3. SearchStep(c, n, f, at) = [ok |-> TRUE, head |-> at[1]]
    BY <1>3 DEF SearchStep
  <2> QED
    BY <1>1, <2>2, <2>3 DEF Right
<1>4. CASE ~(at[1] + n > Size) /\ busy # {}
  <2>1. skip \in 1 .. n /\ skip - 1 \in busy
    BY <1>1, <1>4, SkipType
  <2> HIDE DEF skip
  <2>2. c.cells[at[1] + skip - 1].pos >= 0
    <3>1. at[1] + (skip - 1) = at[1] + skip - 1
      BY <1>1, <2>1
    <3> QED
      BY <2>1, <3>1 DEF Busy
  <2>3. \A h \in at[1] .. at[1] + skip - 1 : ~FreeRun(c, n, h)
    <3> SUFFICES ASSUME NEW h \in at[1] .. at[1] + skip - 1
                 PROVE  ~FreeRun(c, n, h)
      OBVIOUS
    <3>1. at[1] + skip - 1 \in h .. h + n - 1
      BY <1>1, <2>1
    <3> QED
      BY <2>2, <3>1 DEF FreeRun
  <2>4. next \in Starts /\ next[1] = at[1] + skip /\ next[2] = at[2] + skip
    BY <1>1, <1>4, <2>1 DEF Starts
  <2>5. Tested(c, n, next)
    <3>1. CASE at[1] >= c.head /\ at[2] = at[1] - c.head /\ \A h \in c.head .. at[1] - 1 : ~FreeRun(c, n, h)
      <4>1. \A h \in c.head .. next[1] - 1 : ~FreeRun(c, n, h)
        BY <1>1, <2>1, <2>3, <2>4, <3>1
      <4> QED
        BY <1>1, <2>1, <2>4, <3>1, <4>1 DEF Tested
    <3>2. CASE /\ at[2] = Size - c.head + at[1]
               /\ \A h \in (c.head .. Size - 1) \cup (0 .. at[1] - 1) : ~FreeRun(c, n, h)
      <4>1. \A h \in (c.head .. Size - 1) \cup (0 .. next[1] - 1) : ~FreeRun(c, n, h)
        BY <1>1, <2>1, <2>3, <2>4, <3>2
      <4> QED
        BY <1>1, <2>1, <2>4, <3>2, <4>1 DEF Tested
    <3>3. CASE at[2] >= Size /\ \A h \in 0 .. Size - 1 : ~FreeRun(c, n, h)
      BY <1>1, <2>1, <2>4, <3>3 DEF Tested
    <3> QED
      BY <3>1, <3>2, <3>3 DEF Tested
  <2>6. CASE ~(at[2] + skip >= Size)
    <3>1. Steps(n, next) < Steps(n, at)
      BY <1>1, <1>4, <2>1, <2>4, <2>6 DEF Steps, Wraps
    <3>2. SearchStep(c, n, f, at) = f[next]
      BY <1>4, <2>6 DEF SearchStep, skip
    <3> QED
      BY <2>4, <2>5, <3>1, <3>2
  <2>7. CASE at[2] + skip >= Size
    <3>1. \A h \in CellIds : ~FreeRun(c, n, h)
      BY <1>1, <1>4, <2>1, <2>4, <2>5, <2>7 DEF Tested, CellIds
    <3>2. SearchStep(c, n, f, at) = [ok |-> FALSE, head |-> at[1] + skip]
      BY <1>4, <2>7 DEF SearchStep, skip
    <3> QED
      BY <1>1, <1>4, <2>1, <3>1, <3>2 DEF Right
  <2> QED
    BY <2>6, <2>7
<1> QED
  BY <1>2, <1>3, <1>4

\* find_slot succeeds exactly when there are n free cells in a row, and then gives such cells.
LEMMA FindSlotRight ==
  ASSUME NEW c, c.head \in 0 .. Size, NEW n \in Nat \ {0}
  PROVE  Right(c, n, FindSlot(c, n))
<1> USE SizeAssumption
<1>1. CASE n > Size
  <2>1. \A h \in CellIds : ~FreeRun(c, n, h)
    BY <1>1 DEF FreeRun, CellIds
  <2>2. FindSlot(c, n) = [ok |-> FALSE, head |-> c.head]
    BY <1>1, FindSlotIs
  <2> QED
    BY <2>1, <2>2 DEF Right
<1>2. CASE n \in 1 .. Size
  <2> DEFINE f == Search(c, n)
             T == {m \in Nat : \A at \in Starts : Steps(n, at) = m /\ Tested(c, n, at) => Right(c, n, f[at])}
  <2>1. \A at \in Starts : f[at] = SearchStep(c, n, f, at)
    <3>1. f = [at \in Starts |-> SearchStep(c, n, f, at)]
      BY <1>2, SearchExists DEF IsSearch
    <3> HIDE DEF f
    <3> QED
      BY <3>1
  <2> HIDE DEF f
  <2>2. ASSUME NEW m \in Nat, \A k \in Nat : k < m => k \in T
        PROVE  m \in T
    <3> SUFFICES ASSUME NEW at \in Starts, Steps(n, at) = m, Tested(c, n, at)
                 PROVE  Right(c, n, f[at])
      OBVIOUS
    <3>1. ASSUME NEW y \in Starts, Steps(n, y) < m, Tested(c, n, y)
          PROVE  Right(c, n, f[y])
      BY <1>2, <2>2, <3>1, StepsType
    <3>2. Right(c, n, SearchStep(c, n, f, at))
      BY <1>2, <3>1, StepIsRight
    <3> QED
      BY <2>1, <3>2
  <2> HIDE DEF T
  <2>3. \A m \in Nat : m \in T
    BY <2>2, NatSetComplete
  <2> DEFINE start == <<c.head, 0>>
  <2>4. start \in Starts /\ start[1] = c.head /\ start[2] = 0
    BY DEF Starts
  <2>5. Tested(c, n, start)
    BY <2>4 DEF Tested
  <2>6. Right(c, n, f[start])
    <3> HIDE DEF start
    <3>1. Steps(n, start) \in T
      BY <1>2, <2>3, <2>4, StepsType
    <3> QED
      BY <2>4, <2>5, <3>1 DEF T
  <2>7. FindSlot(c, n) = f[start]
    BY <1>2, FindSlotIs DEF f
  <2> QED
    BY <2>6, <2>7
<1> QED
  BY <1>1, <1>2

-----------------------------------------------------------------------------
(* Counting                                                                *)

LEMMA CountMinus ==
  ASSUME NEW S, IsFiniteSet(S), NEW T \in SUBSET S
  PROVE  /\ IsFiniteSet(T) /\ IsFiniteSet(S \ T) /\ Cardinality(T) \in Nat /\ Cardinality(S) \in Nat
         /\ Cardinality(S \ T) = Cardinality(S) - Cardinality(T)
         /\ Cardinality(T) <= Cardinality(S) /\ (Cardinality(S) = Cardinality(T) => S = T)
<1>1. S \cap T = T
  OBVIOUS
<1>2. IsFiniteSet(T) /\ Cardinality(T) <= Cardinality(S) /\ (Cardinality(S) = Cardinality(T) => S = T)
  BY FS_Subset
<1>3. IsFiniteSet(S \ T) /\ Cardinality(S \ T) = Cardinality(S) - Cardinality(T)
  BY <1>1, FS_Difference
<1> QED
  BY <1>2, <1>3, FS_CardinalityType

LEMMA CountPlus ==
  ASSUME NEW S, IsFiniteSet(S), NEW T, IsFiniteSet(T), S \cap T = {}
  PROVE  IsFiniteSet(S \cup T) /\ Cardinality(S \cup T) = Cardinality(S) + Cardinality(T)
BY FS_Union, FS_EmptySet, FS_CardinalityType

LEMMA CellIdsFinite ==
  /\ IsFiniteSet(CellIds) /\ Cardinality(CellIds) = Size
  /\ \A S \in SUBSET CellIds : IsFiniteSet(S) /\ Cardinality(S) \in 0 .. Size
<1>1. IsFiniteSet(CellIds) /\ Cardinality(CellIds) = Size
  BY FS_Interval, SizeAssumption DEF CellIds
<1>2. ASSUME NEW S \in SUBSET CellIds
      PROVE  IsFiniteSet(S) /\ Cardinality(S) \in 0 .. Size
  <2>1. IsFiniteSet(S) /\ Cardinality(S) \in Nat /\ Cardinality(S) <= Cardinality(CellIds)
    BY <1>1, CountMinus
  <2> QED
    BY <1>1, <2>1, SizeAssumption
<1> QED
  BY <1>1, <1>2

LEMMA CountInterval ==
  ASSUME NEW a \in Nat, NEW n \in Nat
  PROVE  IsFiniteSet(a .. a + n - 1) /\ Cardinality(a .. a + n - 1) = n
<1>1. a + n - 1 \in Int
  OBVIOUS
<1> QED
  BY <1>1, FS_Interval

LEMMA SameCount ==
  ASSUME NEW S, IsFiniteSet(S), NEW T, NEW f \in [S -> T], \A x, y \in S : f[x] = f[y] => x = y,
         \A z \in T : \E x \in S : f[x] = z
  PROVE  IsFiniteSet(T) /\ Cardinality(T) = Cardinality(S)
<1>1. f \in Surjection(S, T)
  BY DEF Surjection
<1>2. f \in Injection(S, T)
  BY DEF Injection, IsInjective
<1> QED
  BY <1>1, <1>2, FS_Surjection

\* How many elements of a set are below one of them, and above it.
Below(S, i) == {k \in S : k < i}
Above(S, i) == {k \in S : k > i}

LEMMA RanksBelow ==
  ASSUME NEW S \in SUBSET Int, IsFiniteSet(S)
  PROVE  /\ \A i \in S : Cardinality(Below(S, i)) \in 0 .. Cardinality(S) - 1
         /\ \A i, j \in S : Cardinality(Below(S, i)) = Cardinality(Below(S, j)) => i = j
         /\ \A r \in 0 .. Cardinality(S) - 1 : \E i \in S : Cardinality(Below(S, i)) = r
<1> DEFINE n == Cardinality(S)
           f == [i \in S |-> Cardinality(Below(S, i))]
<1>0. n \in Nat
  BY FS_CardinalityType
<1>1. ASSUME NEW i \in S
      PROVE  Cardinality(Below(S, i)) \in 0 .. n - 1
  <2>1. Below(S, i) \in SUBSET (S \ {i})
    BY DEF Below
  <2>2. IsFiniteSet(S \ {i}) /\ Cardinality(S \ {i}) = n - 1
    BY FS_RemoveElement
  <2>3. Cardinality(Below(S, i)) \in Nat /\ Cardinality(Below(S, i)) <= n - 1
    BY <2>1, <2>2, CountMinus
  <2> QED
    BY <1>0, <2>3
<1>2. ASSUME NEW i \in S, NEW j \in S, i < j
      PROVE  Cardinality(Below(S, i)) < Cardinality(Below(S, j))
  <2>1. Below(S, i) \cup {i} \in SUBSET Below(S, j) /\ i \notin Below(S, i)
    <3>1. i \in Int /\ j \in Int /\ \A k \in S : k \in Int
      OBVIOUS
    <3>2. \A k \in S : k < i => k < j
      BY <1>2, <3>1
    <3>3. \A k : k \in Below(S, i) => k \in Below(S, j)
      BY <3>2 DEF Below
    <3>4. i \in Below(S, j) /\ i \notin Below(S, i)
      BY <1>2, <3>1 DEF Below
    <3> QED
      BY <3>3, <3>4
  <2>2. IsFiniteSet(Below(S, i)) /\ IsFiniteSet(Below(S, j))
    BY FS_Subset DEF Below
  <2>3. IsFiniteSet(Below(S, i) \cup {i}) /\ Cardinality(Below(S, i) \cup {i}) = Cardinality(Below(S, i)) + 1
    BY <2>1, <2>2, FS_AddElement
  <2>4. Cardinality(Below(S, i) \cup {i}) <= Cardinality(Below(S, j))
    BY <2>1, <2>2, FS_Subset
  <2> QED
    BY <2>2, <2>3, <2>4, FS_CardinalityType
<1>3. \A i, j \in S : Cardinality(Below(S, i)) = Cardinality(Below(S, j)) => i = j
  <2> SUFFICES ASSUME NEW i \in S, NEW j \in S, Cardinality(Below(S, i)) = Cardinality(Below(S, j)), i # j
               PROVE  FALSE
    OBVIOUS
  <2>1. i < j \/ j < i
    OBVIOUS
  <2> QED
    BY <1>0, <1>1, <1>2, <2>1
<1>4. f \in Injection(S, 0 .. n - 1)
  BY <1>1, <1>3 DEF Injection, IsInjective
<1>5. IsFiniteSet(0 .. n - 1) /\ Cardinality(0 .. n - 1) = n
  BY <1>0, FS_Interval
<1>6. f \in Surjection(S, 0 .. n - 1)
  <2> HIDE DEF f
  <2> QED
    BY <1>4, <1>5, FS_Injection
<1>7. \A r \in 0 .. n - 1 : \E i \in S : f[i] = r
  BY <1>6 DEF Surjection
<1> QED
  BY <1>1, <1>3, <1>7

LEMMA RanksAbove ==
  ASSUME NEW S \in SUBSET Int, IsFiniteSet(S)
  PROVE  /\ \A i \in S : Cardinality(Above(S, i)) \in 0 .. Cardinality(S) - 1
         /\ \A i, j \in S : Cardinality(Above(S, i)) = Cardinality(Above(S, j)) => i = j
         /\ \A r \in 0 .. Cardinality(S) - 1 : \E i \in S : Cardinality(Above(S, i)) = r
<1> DEFINE n == Cardinality(S)
<1>0. n \in Nat
  BY FS_CardinalityType
<1>1. ASSUME NEW i \in S
      PROVE  Cardinality(Above(S, i)) = n - 1 - Cardinality(Below(S, i))
  <2>1. S \ {i} = Below(S, i) \cup Above(S, i) /\ Below(S, i) \cap Above(S, i) = {}
    <3>1. i \in Int /\ \A k \in S : k \in Int
      OBVIOUS
    <3>2. \A k \in S : k # i <=> k < i \/ k > i
      BY <3>1
    <3>3. \A k \in S : ~(k < i /\ k > i)
      BY <3>1
    <3> QED
      BY <3>2, <3>3 DEF Below, Above
  <2>2. IsFiniteSet(Below(S, i)) /\ IsFiniteSet(Above(S, i))
    BY FS_Subset DEF Below, Above
  <2>3. Cardinality(S \ {i}) = n - 1
    BY FS_RemoveElement
  <2>4. Cardinality(S \ {i}) = Cardinality(Below(S, i)) + Cardinality(Above(S, i))
    BY <2>1, <2>2, CountPlus
  <2> QED
    BY <1>0, <2>2, <2>3, <2>4, FS_CardinalityType
<1>2. \A i \in S : Cardinality(Below(S, i)) \in 0 .. n - 1
  BY RanksBelow
<1>3. \A i, j \in S : Cardinality(Below(S, i)) = Cardinality(Below(S, j)) => i = j
  BY RanksBelow
<1>4. \A r \in 0 .. n - 1 : \E i \in S : Cardinality(Below(S, i)) = r
  BY RanksBelow
<1> HIDE DEF n
<1>5. \A i \in S : Cardinality(Above(S, i)) \in 0 .. n - 1
  BY <1>0, <1>1, <1>2
<1>6. \A i, j \in S : Cardinality(Above(S, i)) = Cardinality(Above(S, j)) => i = j
  BY <1>0, <1>1, <1>2, <1>3
<1>7. ASSUME NEW r \in 0 .. n - 1
      PROVE  \E i \in S : Cardinality(Above(S, i)) = r
  <2>1. n - 1 - r \in 0 .. n - 1
    BY <1>0
  <2>2. PICK i \in S : Cardinality(Below(S, i)) = n - 1 - r
    BY <1>4, <2>1
  <2>3. Cardinality(Above(S, i)) = r
    BY <1>0, <1>1, <2>2
  <2> QED
    BY <2>3
<1> QED
  BY <1>5, <1>6, <1>7 DEF n

\* The first m elements of a set, and the last m.
LEMMA FirstOnes ==
  ASSUME NEW S \in SUBSET Int, IsFiniteSet(S), NEW m \in Nat, m <= Cardinality(S)
  PROVE  Cardinality({i \in S : Cardinality(Below(S, i)) < m}) = m
<1> DEFINE T == {i \in S : Cardinality(Below(S, i)) < m}
           f == [i \in T |-> Cardinality(Below(S, i))]
<1>0. Cardinality(S) \in Nat
  BY FS_CardinalityType
<1>1. IsFiniteSet(T)
  BY FS_Subset
<1>2. f \in [T -> 0 .. m - 1]
  <2>1. \A i \in T : Cardinality(Below(S, i)) \in 0 .. m - 1
    BY RanksBelow
  <2> QED
    BY <2>1
<1>3. \A x, y \in T : f[x] = f[y] => x = y
  BY RanksBelow
<1>4. ASSUME NEW z \in 0 .. m - 1
      PROVE  \E x \in T : f[x] = z
  <2>1. z \in 0 .. Cardinality(S) - 1
    BY <1>0
  <2>2. PICK x \in S : Cardinality(Below(S, x)) = z
    BY <2>1, RanksBelow
  <2>3. x \in T /\ f[x] = z
    BY <2>2
  <2> QED
    BY <2>3
<1> HIDE DEF T, f
<1>5. Cardinality(0 .. m - 1) = Cardinality(T)
  BY <1>1, <1>2, <1>3, <1>4, SameCount
<1>6. Cardinality(0 .. m - 1) = m
  BY FS_Interval
<1> QED
  BY <1>5, <1>6 DEF T

LEMMA LastOnes ==
  ASSUME NEW S \in SUBSET Int, IsFiniteSet(S), NEW m \in Nat
  PROVE  /\ m <= Cardinality(S) => Cardinality({i \in S : Cardinality(Above(S, i)) < m}) = m
         /\ Cardinality({i \in S : Cardinality(Above(S, i)) < m}) <= m
<1> DEFINE T == {i \in S : Cardinality(Above(S, i)) < m}
           f == [i \in T |-> Cardinality(Above(S, i))]
<1>0. Cardinality(S) \in Nat
  BY FS_CardinalityType
<1>1. IsFiniteSet(T) /\ T \in SUBSET S
  BY FS_Subset
<1>2. f \in [T -> 0 .. m - 1]
  <2>1. \A i \in T : Cardinality(Above(S, i)) \in 0 .. m - 1
    BY RanksAbove
  <2> QED
    BY <2>1
<1>3. \A x, y \in T : f[x] = f[y] => x = y
  BY RanksAbove
<1>4. ASSUME m <= Cardinality(S), NEW z \in 0 .. m - 1
      PROVE  \E x \in T : f[x] = z
  <2>1. z \in 0 .. Cardinality(S) - 1
    BY <1>0, <1>4
  <2>2. PICK x \in S : Cardinality(Above(S, x)) = z
    BY <2>1, RanksAbove
  <2>3. x \in T /\ f[x] = z
    BY <2>2
  <2> QED
    BY <2>3
<1> HIDE DEF T, f
<1>5. Cardinality(0 .. m - 1) = m /\ IsFiniteSet(0 .. m - 1)
  BY FS_Interval
<1>6. m <= Cardinality(S) => Cardinality(T) = m
  BY <1>1, <1>2, <1>3, <1>4, <1>5, SameCount
<1>7. Cardinality(T) <= m
  <2>1. f \in Injection(T, 0 .. m - 1)
    BY <1>2, <1>3 DEF Injection, IsInjective
  <2> QED
    BY <1>5, <2>1, FS_Injection
<1> QED
  BY <1>6, <1>7 DEF T

-----------------------------------------------------------------------------
(* Defragmentation                                                         *)

\* The hole from cell i0 on ends at the count or at a used cell.
LEMMA HoleIs ==
  ASSUME NEW cells, NEW i0 \in Nat, NEW n \in Nat, i0 < n, cells[i0].seqs = {}
  PROVE  \E e \in i0 + 1 .. n :
           /\ Hole(cells, i0, n) = i0 .. e - 1
           /\ \A i \in i0 .. e - 1 : cells[i].seqs = {}
<1> DEFINE T == {e \in i0 + 1 .. n : e = n \/ cells[e].seqs # {}}
<1>1. T \in SUBSET Nat /\ n \in T
  OBVIOUS
<1>2. PICK e \in T : \A y \in T : e <= y
  BY <1>1, LeastNat
<1>3. e \in i0 + 1 .. n /\ (e = n \/ cells[e].seqs # {})
  BY <1>2
<1>4. \A i \in i0 .. e - 1 : cells[i].seqs = {}
  <2> SUFFICES ASSUME NEW i \in i0 .. e - 1, cells[i].seqs # {}
               PROVE  FALSE
    OBVIOUS
  <2>1. i # i0
    OBVIOUS
  <2>2. i \in T
    BY <1>3, <2>1
  <2> QED
    BY <1>2, <1>3, <2>2
<1> HIDE DEF T
<1>5. ASSUME NEW i \in i0 .. n - 1, \A j \in i0 .. i : cells[j].seqs = {}
      PROVE  i \in i0 .. e - 1
  <2> SUFFICES ASSUME ~(i <= e - 1) PROVE FALSE
    BY <1>3
  <2>1. e \in i0 .. i /\ e # n
    BY <1>3
  <2> QED
    BY <1>3, <1>5, <2>1
<1>6. ASSUME NEW i \in i0 .. e - 1
      PROVE  i \in i0 .. n - 1 /\ \A j \in i0 .. i : cells[j].seqs = {}
  <2>1. i \in i0 .. n - 1 /\ \A j \in i0 .. i : j \in i0 .. e - 1
    BY <1>3
  <2> QED
    BY <1>4, <2>1
<1>7. Hole(cells, i0, n) = i0 .. e - 1
  BY <1>5, <1>6 DEF Hole
<1> QED
  BY <1>3, <1>4, <1>7

\* With enough used cells behind the hole, the last ones are found, and the first run of
\* them is not empty.
LEMMA SourceIs ==
  ASSUME NEW cells, NEW i0 \in CellIds, NEW k \in Nat \ {0}, NEW m \in Nat \ {0},
         k <= Cardinality({i \in Used(cells) : i > i0})
  PROVE  /\ Cardinality(LastUsed(cells, i0, k)) = k
         /\ FirstRuns(LastUsed(cells, i0, k), m) \in SUBSET {i \in Used(cells) : i > i0}
         /\ FirstRuns(LastUsed(cells, i0, k), m) # {}
         /\ Cardinality(FirstRuns(LastUsed(cells, i0, k), m)) \in 1 .. k
<1> DEFINE S == {i \in Used(cells) : i > i0}
           src == LastUsed(cells, i0, k)
           runs == FirstRuns(src, m)
<1>1. S \in SUBSET CellIds /\ S \in SUBSET Int /\ IsFiniteSet(S)
  BY CellIdsFinite, SizeAssumption DEF Used, CellIds
<1>2. \A i \in S : Above(S, i) = {j \in Used(cells) : j > i}
  BY SizeAssumption DEF Above, Used, CellIds
<1>3. src = {i \in S : Cardinality(Above(S, i)) < k}
  BY <1>2 DEF LastUsed
<1> HIDE DEF S
<1>4. Cardinality(src) = k
  <2>1. k <= Cardinality(S) /\ k \in Nat
    BY DEF S
  <2> QED
    BY <1>1, <1>3, <2>1, LastOnes
<1>5. src \in SUBSET S /\ src # {} /\ src \in SUBSET Nat /\ IsFiniteSet(src)
  <2>1. src \in SUBSET S
    BY <1>3
  <2>2. src # {}
    BY <1>4, FS_EmptySet
  <2>3. S \in SUBSET Nat
    BY <1>1, SizeAssumption DEF CellIds
  <2> HIDE DEF src
  <2> QED
    BY <1>1, <2>1, <2>2, <2>3, FS_Subset
<1> HIDE DEF src
<1>6. PICK a \in src : \A y \in src : a <= y
  BY <1>5, LeastNat
<1>7. {j \in RunStarts(src) : j <= a} = {a}
  <2>1. a \in Nat /\ \A y \in src : y \in Nat
    BY <1>5
  <2>2. a - 1 \notin src
    <3>1. ~(a <= a - 1)
      BY <2>1
    <3> QED
      BY <1>6, <3>1
  <2>3. \A j \in src : j <= a => j = a
    BY <1>6, <2>1
  <2>4. a \in RunStarts(src) /\ a <= a
    BY <2>1, <2>2 DEF RunStarts
  <2>5. RunStarts(src) \in SUBSET src
    BY DEF RunStarts
  <2> QED
    BY <2>3, <2>4, <2>5
<1>8. a \in runs
  <2>1. Cardinality({a}) = 1
    BY FS_Singleton
  <2> QED
    BY <1>7, <2>1 DEF FirstRuns
<1>9. runs \in SUBSET src
  BY DEF FirstRuns
<1>10. Cardinality(runs) \in 1 .. k
  <2>1. IsFiniteSet(runs) /\ Cardinality(runs) \in Nat /\ Cardinality(runs) <= k
    BY <1>4, <1>5, <1>9, CountMinus
  <2>2. Cardinality(runs) # 0
    BY <1>8, <2>1, FS_EmptySet
  <2> QED
    BY <2>1, <2>2
<1> HIDE DEF runs
<1> QED
  BY <1>4, <1>5, <1>8, <1>9, <1>10 DEF runs, src, S

\* The same tokens in other cells.
SameContents(old, new) ==
  /\ Cardinality(Used(new)) = Cardinality(Used(old))
  /\ \A i \in Used(new) : \E j \in Used(old) : new[i] = old[j]
  /\ \A j \in Used(old) : \E i \in Used(new) : new[i] = old[j]
  /\ \A i \in CellIds \ Used(new) : new[i] = Free \/ \E j \in CellIds \ Used(old) : new[i] = old[j]

LEMMA SameContentsTransitive ==
  ASSUME NEW x, NEW y, NEW z, SameContents(x, y), SameContents(y, z)
  PROVE  SameContents(x, z)
BY DEF SameContents

\* The cells once those of a set are moved, in their order, to where i0 is the first.
From(moved, r) == CHOOSE j \in moved : Cardinality({k \in moved : k < j}) = r
MovedTo(cells, i0, moved) ==
  [i \in CellIds |-> IF i \in moved THEN Free
                     ELSE IF i - i0 \in 0 .. Cardinality(moved) - 1 THEN cells[From(moved, i - i0)]
                     ELSE cells[i]]

LEMMA MovedToIs ==
  ASSUME NEW Cell, Free \in Cell, NEW cells \in [CellIds -> Cell], NEW i0 \in CellIds,
         NEW moved \in SUBSET Used(cells),
         i0 + Cardinality(moved) <= Size,
         \A i \in i0 .. i0 + Cardinality(moved) - 1 : cells[i].seqs = {}
  PROVE  /\ MovedTo(cells, i0, moved) \in [CellIds -> Cell]
         /\ Used(MovedTo(cells, i0, moved))
              = (Used(cells) \ moved) \cup (i0 .. i0 + Cardinality(moved) - 1)
         /\ SameContents(cells, MovedTo(cells, i0, moved))
<1> DEFINE n == Cardinality(moved)
           new == MovedTo(cells, i0, moved)
           targets == i0 .. i0 + n - 1
<1>1. /\ moved \in SUBSET CellIds /\ moved \in SUBSET Int /\ IsFiniteSet(moved) /\ n \in Nat
      /\ i0 \in Nat /\ Size \in Nat
  BY CellIdsFinite, SizeAssumption DEF Used, CellIds
<1>2. ASSUME NEW r \in 0 .. n - 1
      PROVE  From(moved, r) \in moved /\ Cardinality(Below(moved, From(moved, r))) = r
  <2>1. \E j \in moved : Cardinality(Below(moved, j)) = r
    BY <1>1, RanksBelow
  <2>2. From(moved, r) = CHOOSE j \in moved : Cardinality(Below(moved, j)) = r
    BY DEF From, Below
  <2> QED
    BY <2>1, <2>2, Zenon
<1>3. ASSUME NEW j \in moved
      PROVE  \E r \in 0 .. n - 1 : From(moved, r) = j
  <2>1. Cardinality(Below(moved, j)) \in 0 .. n - 1
    BY <1>1, RanksBelow
  <2> DEFINE r == Cardinality(Below(moved, j))
             x == From(moved, r)
  <2>2. x \in moved /\ Cardinality(Below(moved, x)) = r
    BY <1>2, <2>1
  <2> HIDE DEF x
  <2>3. x = j
    BY <1>1, <2>2, RanksBelow
  <2> QED
    BY <2>1, <2>3 DEF x
<1>4. targets \in SUBSET CellIds /\ \A i \in targets : cells[i].seqs = {} /\ i \notin Used(cells) /\ i \notin moved
  <2>1. targets \in SUBSET CellIds
    BY <1>1 DEF CellIds
  <2>2. \A i \in targets : i \notin Used(cells)
    BY DEF Used
  <2> QED
    BY <2>1, <2>2
<1>5. \A i \in CellIds : i \in targets <=> i - i0 \in 0 .. n - 1
  BY <1>1 DEF CellIds
<1> HIDE DEF n, targets
<1>6. /\ \A i \in moved : new[i] = Free
      /\ \A i \in targets : new[i] = cells[From(moved, i - i0)]
      /\ \A i \in CellIds \ (moved \cup targets) : new[i] = cells[i]
      /\ DOMAIN new = CellIds
  BY <1>1, <1>4, <1>5 DEF MovedTo, n
<1>7. \A i \in targets : From(moved, i - i0) \in moved
  BY <1>2, <1>4, <1>5
<1>8. new \in [CellIds -> Cell]
  <2>1. \A i \in CellIds : new[i] \in Cell
    BY <1>1, <1>6, <1>7
  <2>2. new = [i \in CellIds |-> new[i]]
    BY DEF MovedTo
  <2> HIDE DEF new
  <2> QED
    BY <2>1, <2>2
<1> HIDE DEF new
<1>9. \A j \in moved : \E i \in targets : From(moved, i - i0) = j
  <2> SUFFICES ASSUME NEW j \in moved
               PROVE  \E i \in targets : From(moved, i - i0) = j
    OBVIOUS
  <2>1. PICK r \in 0 .. n - 1 : From(moved, r) = j
    BY <1>3
  <2>2. i0 + r \in targets /\ (i0 + r) - i0 = r
    BY <1>1 DEF targets, n
  <2> QED
    BY <2>1, <2>2
<1>10. \A i \in CellIds : i \in Used(cells) <=> cells[i].seqs # {}
  BY DEF Used
<1>11. \A i \in CellIds : i \in Used(new) <=> new[i].seqs # {}
  BY DEF Used
<1>12. Used(new) \in SUBSET CellIds /\ Used(cells) \in SUBSET CellIds
  BY DEF Used
<1>13. ASSUME NEW i \in CellIds
       PROVE  i \in Used(new) <=> i \in (Used(cells) \ moved) \cup targets
  <2>1. CASE i \in moved
    BY <1>4, <1>6, <1>11, <2>1 DEF Free
  <2>2. CASE i \in targets
    <3>1. From(moved, i - i0) \in Used(cells)
      BY <1>7, <2>2
    <3>2. cells[From(moved, i - i0)].seqs # {}
      BY <3>1 DEF Used
    <3> QED
      BY <1>6, <1>11, <2>2, <3>2
  <2>3. CASE i \notin moved \cup targets
    BY <1>6, <1>10, <1>11, <2>3
  <2> QED
    BY <2>1, <2>2, <2>3
<1>14. Used(new) = (Used(cells) \ moved) \cup targets
  BY <1>4, <1>12, <1>13
<1>15. Cardinality(Used(new)) = Cardinality(Used(cells))
  <2>1. IsFiniteSet(Used(cells)) /\ IsFiniteSet(targets) /\ Cardinality(targets) = n
    BY <1>1, <1>12, CellIdsFinite, CountInterval DEF targets, n
  <2>2. /\ IsFiniteSet(Used(cells) \ moved) /\ Cardinality(Used(cells)) \in Nat
        /\ Cardinality(Used(cells) \ moved) = Cardinality(Used(cells)) - n
    BY <2>1, CountMinus DEF n
  <2>3. (Used(cells) \ moved) \cap targets = {}
    BY <1>4
  <2>4. Cardinality(Used(new)) = Cardinality(Used(cells) \ moved) + n
    BY <1>14, <2>1, <2>2, <2>3, CountPlus
  <2> QED
    BY <1>1, <2>2, <2>4 DEF n
<1>16. \A i \in Used(new) : \E j \in Used(cells) : new[i] = cells[j]
  BY <1>1, <1>6, <1>7, <1>12, <1>14
<1>17. ASSUME NEW j \in Used(cells)
       PROVE  \E i \in Used(new) : new[i] = cells[j]
  <2>1. CASE j \in moved
    BY <1>6, <1>9, <1>14, <2>1
  <2>2. CASE j \notin moved
    BY <1>4, <1>6, <1>12, <1>14, <2>2
  <2> QED
    BY <2>1, <2>2
<1>18. \A i \in CellIds \ Used(new) : new[i] = Free \/ \E j \in CellIds \ Used(cells) : new[i] = cells[j]
  BY <1>6, <1>14
<1>19. SameContents(cells, new)
  BY <1>15, <1>16, <1>17, <1>18 DEF SameContents
<1> QED
  BY <1>8, <1>14, <1>19 DEF new, targets, n

\* The caches whose cells are of a given kind; a changed cache field by field.
Caches(Cell) == [cells : [CellIds -> Cell], head : Int, used : Int, has_shift : BOOLEAN, do_defrag : BOOLEAN]

CacheOf(cells, head, used, has_shift, do_defrag) ==
  [cells |-> cells, head |-> head, used |-> used, has_shift |-> has_shift, do_defrag |-> do_defrag]

LEMMA CacheFields ==
  ASSUME NEW Cell
  PROVE  /\ \A c \in Caches(Cell) :
              /\ c = CacheOf(c.cells, c.head, c.used, c.has_shift, c.do_defrag)
              /\ c.cells \in [CellIds -> Cell] /\ c.head \in Int /\ c.used \in Int
              /\ c.has_shift \in BOOLEAN /\ c.do_defrag \in BOOLEAN
         /\ \A cells \in [CellIds -> Cell], head, used \in Int, has_shift, do_defrag \in BOOLEAN :
              CacheOf(cells, head, used, has_shift, do_defrag) \in Caches(Cell)
BY DEF Caches, CacheOf

LEMMA CacheOfFields ==
  ASSUME NEW cells, NEW head, NEW used, NEW has_shift, NEW do_defrag
  PROVE  /\ CacheOf(cells, head, used, has_shift, do_defrag).cells = cells
         /\ CacheOf(cells, head, used, has_shift, do_defrag).head = head
         /\ CacheOf(cells, head, used, has_shift, do_defrag).used = used
         /\ CacheOf(cells, head, used, has_shift, do_defrag).has_shift = has_shift
         /\ CacheOf(cells, head, used, has_shift, do_defrag).do_defrag = do_defrag
BY DEF CacheOf

Fillings(Cell) == [cache : Caches(Cell), moves : Nat, found : BOOLEAN, n_used : Nat]

FillingOf(cache, moves, found, n_used) ==
  [cache |-> cache, moves |-> moves, found |-> found, n_used |-> n_used]

LEMMA FillingFields ==
  ASSUME NEW Cell
  PROVE  /\ \A d \in Fillings(Cell) :
              /\ d = FillingOf(d.cache, d.moves, d.found, d.n_used)
              /\ d.cache \in Caches(Cell) /\ d.moves \in Nat /\ d.found \in BOOLEAN /\ d.n_used \in Nat
         /\ \A c \in Caches(Cell), moves \in Nat, found \in BOOLEAN, n_used \in Nat :
              FillingOf(c, moves, found, n_used) \in Fillings(Cell)
BY DEF Fillings, FillingOf

LEMMA FillingOfFields ==
  ASSUME NEW cache, NEW moves, NEW found, NEW n_used
  PROVE  /\ FillingOf(cache, moves, found, n_used).cache = cache
         /\ FillingOf(cache, moves, found, n_used).moves = moves
         /\ FillingOf(cache, moves, found, n_used).found = found
         /\ FillingOf(cache, moves, found, n_used).n_used = n_used
BY DEF FillingOf

MovedInto(cells, i0, n, m) == FirstRuns(LastUsed(cells, i0, Cardinality(Hole(cells, i0, n))), m)

\* What one hole does, field by field.
LEMMA FillHoleIs ==
  ASSUME NEW Cell, NEW d \in Fillings(Cell), NEW i0, NEW m
  PROVE  LET cells == d.cache.cells
             moved == MovedInto(cells, i0, d.n_used, m - d.moves)
             k     == Cardinality(Hole(cells, i0, d.n_used))
         IN  FillHole(d, i0, m) =
               FillingOf(CacheOf(MovedTo(cells, i0, moved), d.n_used, d.cache.used, d.cache.has_shift,
                                 d.cache.do_defrag),
                         d.moves + Cardinality(RunStarts(moved)),
                         d.found /\ Cardinality(LastUsed(cells, i0, k)) = k, d.n_used)
<1> DEFINE cells == d.cache.cells
           moved == MovedInto(cells, i0, d.n_used, m - d.moves)
           k == Cardinality(Hole(cells, i0, d.n_used))
           new == MovedTo(cells, i0, moved)
           moves == d.moves + Cardinality(RunStarts(moved))
           found == d.found /\ Cardinality(LastUsed(cells, i0, k)) = k
           a == [d EXCEPT !.cache.cells = new]
           b == [a EXCEPT !.cache.head = d.n_used]
           e == [b EXCEPT !.moves = moves]
<1>1. /\ d = FillingOf(d.cache, d.moves, d.found, d.n_used)
      /\ d.cache = CacheOf(d.cache.cells, d.cache.head, d.cache.used, d.cache.has_shift, d.cache.do_defrag)
  BY CacheFields, FillingFields
<1>2. FillHole(d, i0, m) = [d EXCEPT !.cache.cells = new, !.cache.head = d.n_used, !.moves = moves,
                                     !.found = found]
  BY Zenon DEF FillHole, MovedInto, MovedTo, From
<1> HIDE DEF new, moves, found
<1>3. FillHole(d, i0, m) = [e EXCEPT !.found = found]
  BY <1>2, Zenon
<1> HIDE DEF a, b, e
<1>4. a = FillingOf(CacheOf(new, d.cache.head, d.cache.used, d.cache.has_shift, d.cache.do_defrag),
                    d.moves, d.found, d.n_used)
  <2>1. a = FillingOf([d.cache EXCEPT !.cells = new], d.moves, d.found, d.n_used)
    BY <1>1, SMT DEF a, FillingOf
  <2>2. [d.cache EXCEPT !.cells = new]
          = CacheOf(new, d.cache.head, d.cache.used, d.cache.has_shift, d.cache.do_defrag)
    BY <1>1, SMT DEF CacheOf
  <2> QED
    BY <2>1, <2>2
<1> DEFINE ca == CacheOf(new, d.cache.head, d.cache.used, d.cache.has_shift, d.cache.do_defrag)
           cb == CacheOf(new, d.n_used, d.cache.used, d.cache.has_shift, d.cache.do_defrag)
<1>5. [ca EXCEPT !.head = d.n_used] = cb
  BY SMT DEF CacheOf
<1> HIDE DEF ca, cb
<1>6. b = FillingOf(cb, d.moves, d.found, d.n_used)
  BY <1>4, <1>5, SMT DEF b, ca, FillingOf
<1>7. e = FillingOf(cb, moves, d.found, d.n_used)
  BY <1>6, SMT DEF e, FillingOf
<1>8. [e EXCEPT !.found = found] = FillingOf(cb, moves, found, d.n_used)
  BY <1>7, SMT DEF FillingOf
<1> QED
  BY <1>3, <1>8, Zenon DEF cb, new, moves, found

\* A hole whose cells before it are all used is filled from the first cell on.
LEMMA FillHoleRight ==
  ASSUME NEW Cell, Free \in Cell, NEW d \in Fillings(Cell), NEW i0 \in CellIds, NEW m \in Nat,
         d.moves < m, i0 < d.n_used, d.n_used = Cardinality(Used(d.cache.cells)),
         d.cache.cells[i0].seqs = {}, \A i \in 0 .. i0 - 1 : i \in Used(d.cache.cells)
  PROVE  LET e == FillHole(d, i0, m)
         IN  /\ e \in Fillings(Cell) /\ e.n_used = d.n_used
             /\ e.cache.used = d.cache.used /\ e.cache.has_shift = d.cache.has_shift
             /\ e.cache.do_defrag = d.cache.do_defrag /\ e.cache.head \in {d.cache.head, d.n_used}
             /\ e.found = d.found
             /\ SameContents(d.cache.cells, e.cache.cells)
             /\ \A i \in 0 .. i0 : i \in Used(e.cache.cells)
<1> DEFINE cells == d.cache.cells
           n == d.n_used
           hole == Hole(cells, i0, n)
           k == Cardinality(hole)
           moved == MovedInto(cells, i0, n, m - d.moves)
           new == MovedTo(cells, i0, moved)
<1>1. /\ d.cache \in Caches(Cell) /\ d.moves \in Nat /\ d.found \in BOOLEAN /\ n \in Nat
      /\ cells \in [CellIds -> Cell] /\ d.cache.head \in Int /\ d.cache.used \in Int
      /\ d.cache.has_shift \in BOOLEAN /\ d.cache.do_defrag \in BOOLEAN
  BY FillingFields, CacheFields
<1>2. i0 \in Nat /\ Size \in Nat
  BY SizeAssumption DEF CellIds
<1> HIDE DEF cells
<1>3. Used(cells) \in SUBSET CellIds /\ IsFiniteSet(Used(cells)) /\ Cardinality(Used(cells)) = n /\ n <= Size
  <2>1. Used(cells) \in SUBSET CellIds
    BY DEF Used
  <2>2. IsFiniteSet(Used(cells)) /\ Cardinality(Used(cells)) \in 0 .. Size
    BY <2>1, CellIdsFinite
  <2>3. Cardinality(Used(cells)) = n
    BY DEF cells
  <2> QED
    BY <2>1, <2>2, <2>3
<1> HIDE DEF n
<1>4. PICK x \in i0 + 1 .. n : hole = i0 .. x - 1 /\ \A i \in i0 .. x - 1 : cells[i].seqs = {}
  <2>1. i0 < n /\ cells[i0].seqs = {}
    BY DEF n, cells
  <2> QED
    BY <1>1, <1>2, <2>1, HoleIs
<1>5. k = x - i0 /\ k \in Nat \ {0} /\ i0 + k <= n
  <2>1. x - i0 \in Nat \ {0} /\ i0 + (x - i0) - 1 = x - 1 /\ i0 + (x - i0) <= n
    BY <1>1, <1>2
  <2> QED
    BY <1>2, <1>4, <2>1, CountInterval
<1> HIDE DEF k, hole
<1>6. Cardinality({i \in Used(cells) : i > i0}) = n - i0
  <2>1. \A i \in 0 .. i0 - 1 : i \in Used(cells)
    BY DEF cells
  <2>2. i0 \notin Used(cells)
    BY <1>2, <1>4 DEF Used
  <2>3. \A i \in Used(cells) : i \in Nat
    BY <1>3 DEF CellIds
  <2>4. \A i \in Used(cells) : i > i0 <=> i \notin 0 .. i0 - 1
    BY <1>2, <2>2, <2>3
  <2>5. {i \in Used(cells) : i > i0} = Used(cells) \ (0 .. i0 - 1)
    BY <2>4
  <2>6. Cardinality(0 .. i0 - 1) = i0
    BY <1>2, CountInterval
  <2>7. 0 .. i0 - 1 \in SUBSET Used(cells)
    BY <2>1
  <2>8. Cardinality(Used(cells) \ (0 .. i0 - 1)) = n - i0
    <3> DEFINE T == 0 .. i0 - 1
               S == Used(cells)
    <3>1. IsFiniteSet(S) /\ T \in SUBSET S /\ Cardinality(S) = n /\ Cardinality(T) = i0
      BY <1>3, <2>6, <2>7
    <3> HIDE DEF S, T
    <3>2. Cardinality(S \ T) = Cardinality(S) - Cardinality(T)
      BY <3>1, CountMinus
    <3> QED
      BY <3>1, <3>2 DEF S, T
  <2> QED
    BY <2>5, <2>8
<1>7. /\ Cardinality(LastUsed(cells, i0, k)) = k
      /\ moved \in SUBSET {i \in Used(cells) : i > i0}
      /\ Cardinality(moved) \in 1 .. k
  <2>1. k <= Cardinality({i \in Used(cells) : i > i0})
    BY <1>1, <1>2, <1>5, <1>6
  <2>2. m - d.moves \in Nat \ {0}
    BY <1>1
  <2>3. moved = FirstRuns(LastUsed(cells, i0, k), m - d.moves)
    BY DEF MovedInto, k, hole
  <2> HIDE DEF moved
  <2> QED
    BY <1>5, <2>1, <2>2, <2>3, SourceIs
<1> HIDE DEF moved
<1>8. /\ moved \in SUBSET Used(cells) /\ i0 + Cardinality(moved) <= Size
      /\ \A i \in i0 .. i0 + Cardinality(moved) - 1 : cells[i].seqs = {}
  <2>1. \A i \in i0 .. i0 + Cardinality(moved) - 1 : i \in i0 .. x - 1
    BY <1>2, <1>5, <1>7
  <2>2. moved \in SUBSET Used(cells)
    BY <1>7
  <2>3. i0 + Cardinality(moved) <= Size
    BY <1>1, <1>2, <1>3, <1>5, <1>7
  <2> QED
    BY <1>4, <2>1, <2>2, <2>3
<1>9. /\ new \in [CellIds -> Cell] /\ SameContents(cells, new)
      /\ Used(new) = (Used(cells) \ moved) \cup (i0 .. i0 + Cardinality(moved) - 1)
  BY <1>1, <1>8, MovedToIs
<1> HIDE DEF new
<1>10. \A i \in 0 .. i0 : i \in Used(new)
  <2>1. ASSUME NEW i \in 0 .. i0 - 1
        PROVE  i \in Used(new)
    <3>1. i \in Used(cells)
      BY DEF cells
    <3>2. ~(i > i0)
      BY <1>2
    <3>3. i \notin moved
      BY <1>7, <3>2
    <3> QED
      BY <1>9, <3>1, <3>3
  <2>2. i0 \in Used(new)
    BY <1>2, <1>7, <1>9
  <2> QED
    BY <1>2, <2>1, <2>2
<1> DEFINE cache == CacheOf(new, n, d.cache.used, d.cache.has_shift, d.cache.do_defrag)
           moves == d.moves + Cardinality(RunStarts(moved))
           found == d.found /\ Cardinality(LastUsed(cells, i0, k)) = k
<1>11. FillHole(d, i0, m) = FillingOf(cache, moves, found, n)
  BY FillHoleIs DEF cells, n, moved, new, k, hole
<1>12. cache \in Caches(Cell)
  BY <1>1, <1>9 DEF Caches, CacheOf
<1>13. moves \in Nat
  <2>1. RunStarts(moved) \in SUBSET CellIds
    BY <1>3, <1>8 DEF RunStarts
  <2>2. Cardinality(RunStarts(moved)) \in Nat
    BY <2>1, CellIdsFinite
  <2> QED
    BY <1>1, <2>2
<1>14. found = d.found
  BY <1>1, <1>7
<1>15. /\ cache.cells = new /\ cache.head = n /\ cache.used = d.cache.used
       /\ cache.has_shift = d.cache.has_shift /\ cache.do_defrag = d.cache.do_defrag
  BY CacheOfFields
<1> HIDE DEF cache, moves, found
<1> DEFINE e == FillingOf(cache, moves, found, n)
<1>16. e \in Fillings(Cell) /\ e.cache = cache /\ e.n_used = n /\ e.found = found
  BY <1>1, <1>12, <1>13, <1>14 DEF Fillings, FillingOf
<1> HIDE DEF e
<1>17. FillHole(d, i0, m) = e
  BY <1>11 DEF e
<1> QED
  BY <1>9, <1>10, <1>14, <1>15, <1>16, <1>17 DEF cells, n

\* One step of the defragmentation, after those that f says.
DefragStep(c, m, f, n) ==
  IF n = 0 THEN FillingOf(c, 0, TRUE, c.used)
  ELSE IF f[n - 1].cache.cells[n - 1].seqs = {} /\ f[n - 1].moves < m
         THEN FillHole(f[n - 1], n - 1, m) ELSE f[n - 1]

IsDefrag(c, m, f) == f = [n \in 0 .. c.used |-> DefragStep(c, m, f, n)]

DefragSteps(c, m) == CHOOSE f : IsDefrag(c, m, f)

LEMMA DefragIs ==
  ASSUME NEW c, NEW m
  PROVE  Defrag(c, m) = DefragSteps(c, m)[c.used]
BY DEF Defrag, DefragSteps, IsDefrag, DefragStep, FillingOf

LEMMA DefragExists ==
  ASSUME NEW c, c.used \in Nat, NEW m
  PROVE  IsDefrag(c, m, DefragSteps(c, m))
<1> DEFINE S == 0 .. c.used
           Upto(k, f) == \A n \in S : n < k => f[n] = DefragStep(c, m, f, n)
           T == {k \in Nat : \E f : Upto(k, f)}
<1>0. ASSUME NEW n \in S, NEW f, NEW g, n # 0 => f[n - 1] = g[n - 1]
      PROVE  DefragStep(c, m, f, n) = DefragStep(c, m, g, n)
  <2>1. CASE n = 0
    BY <2>1 DEF DefragStep
  <2>2. CASE n # 0
    <3>1. f[n - 1] = g[n - 1]
      BY <1>0, <2>2
    <3> QED
      BY <2>2, <3>1, Zenon DEF DefragStep
  <2> QED
    BY <2>1, <2>2
<1>1. 0 \in T
  <2>1. ~(\E n \in S : n < 0)
    OBVIOUS
  <2> QED
    BY <2>1
<1>2. ASSUME NEW k \in Nat, k \in T
      PROVE  k + 1 \in T
  <2>1. PICK f : Upto(k, f)
    BY <1>2
  <2> DEFINE g == [n \in S |-> DefragStep(c, m, f, n)]
  <2>2. ASSUME NEW n \in S, n < k + 1
        PROVE  g[n] = DefragStep(c, m, g, n)
    <3>1. n # 0 => f[n - 1] = g[n - 1]
      <4> SUFFICES ASSUME n # 0 PROVE f[n - 1] = g[n - 1]
        OBVIOUS
      <4>1. n - 1 \in S /\ n - 1 < k
        BY <2>2
      <4> QED
        BY <2>1, <4>1
    <3> HIDE DEF g
    <3>2. DefragStep(c, m, f, n) = DefragStep(c, m, g, n)
      BY <1>0, <3>1
    <3> QED
      BY <3>2 DEF g
  <2>3. Upto(k + 1, g)
    BY <2>2
  <2> HIDE DEF g, Upto
  <2> QED
    BY <2>3
<1> HIDE DEF T
<1>3. c.used + 1 \in T
  <2>1. \A k \in Nat : k \in T
    BY <1>1, <1>2, NatSetInduction
  <2> QED
    BY <2>1
<1>4. PICK f : Upto(c.used + 1, f)
  BY <1>3 DEF T
<1> DEFINE g == [n \in S |-> DefragStep(c, m, f, n)]
<1>5. \A n \in S : f[n] = g[n]
  BY <1>4
<1>6. ASSUME NEW n \in S
      PROVE  g[n] = DefragStep(c, m, g, n)
  <2> HIDE DEF g
  <2>1. n # 0 => n - 1 \in S
    OBVIOUS
  <2>2. n # 0 => f[n - 1] = g[n - 1]
    BY <1>5, <2>1
  <2>3. DefragStep(c, m, f, n) = DefragStep(c, m, g, n)
    BY <1>0, <2>2
  <2> QED
    BY <2>3 DEF g
<1>7. g = [n \in S |-> DefragStep(c, m, g, n)]
  <2>1. [n \in S |-> g[n]] = [n \in S |-> DefragStep(c, m, g, n)]
    BY <1>6
  <2> QED
    BY <2>1
<1> HIDE DEF g
<1>8. IsDefrag(c, m, g)
  BY <1>7 DEF IsDefrag
<1> QED
  BY <1>8, Zenon DEF DefragSteps

\* Once n cells are seen to, the tokens are those of before, every hole found its cells, and
\* while there are moves left the n cells are used.
SeenTo(Cell, c, m, n, d) ==
  /\ d \in Fillings(Cell) /\ d.n_used = c.used /\ d.found
  /\ d.cache.used = c.used /\ d.cache.has_shift = c.has_shift /\ d.cache.do_defrag = c.do_defrag
  /\ d.cache.head \in {c.head, c.used}
  /\ SameContents(c.cells, d.cache.cells)
  /\ d.moves < m => \A i \in 0 .. n - 1 : i \in Used(d.cache.cells)

LEMMA DefragRight ==
  ASSUME NEW Cell, Free \in Cell, NEW c \in Caches(Cell), NEW m \in Nat,
         c.used = Cardinality(Used(c.cells))
  PROVE  SeenTo(Cell, c, m, c.used, Defrag(c, m))
<1> DEFINE f == DefragSteps(c, m)
           T == {n \in Nat : n <= c.used => SeenTo(Cell, c, m, n, f[n])}
<1>1. c.used \in 0 .. Size /\ Size \in Nat
  <2>1. Used(c.cells) \in SUBSET CellIds
    BY DEF Used
  <2> QED
    BY <2>1, CellIdsFinite, SizeAssumption
<1>2. \A n \in 0 .. c.used : f[n] = DefragStep(c, m, f, n)
  <2>1. f = [n \in 0 .. c.used |-> DefragStep(c, m, f, n)]
    BY <1>1, DefragExists DEF IsDefrag
  <2> HIDE DEF f
  <2> QED
    BY <2>1
<1>3. Defrag(c, m) = f[c.used]
  BY DefragIs
<1> HIDE DEF f
<1>4. /\ c.cells \in [CellIds -> Cell] /\ c.head \in Int /\ c.has_shift \in BOOLEAN /\ c.do_defrag \in BOOLEAN
      /\ c = CacheOf(c.cells, c.head, c.used, c.has_shift, c.do_defrag)
  BY CacheFields
<1>5. 0 \in T
  <2>1. f[0] = FillingOf(c, 0, TRUE, c.used)
    <3>1. 0 \in 0 .. c.used /\ f[0] = DefragStep(c, m, f, 0)
      BY <1>1, <1>2
    <3> QED
      BY <3>1, Zenon DEF DefragStep
  <2>2. f[0] \in Fillings(Cell) /\ f[0].cache = c /\ f[0].found = TRUE /\ f[0].n_used = c.used
    BY <1>1, <2>1 DEF Fillings, FillingOf
  <2>3. SameContents(c.cells, c.cells)
    BY DEF SameContents
  <2>4. SeenTo(Cell, c, m, 0, f[0])
    BY <2>2, <2>3 DEF SeenTo
  <2> QED
    BY <2>4
<1>6. ASSUME NEW n \in Nat, n \in T
      PROVE  n + 1 \in T
  <2> SUFFICES ASSUME n + 1 <= c.used
               PROVE  SeenTo(Cell, c, m, n + 1, f[n + 1])
    OBVIOUS
  <2>1. SeenTo(Cell, c, m, n, f[n])
    BY <1>1, <1>6
  <2> DEFINE d == f[n]
  <2>2. f[n + 1] = IF d.cache.cells[n].seqs = {} /\ d.moves < m THEN FillHole(d, n, m) ELSE d
    <3>1. n + 1 \in 0 .. c.used /\ n + 1 # 0 /\ (n + 1) - 1 = n
      BY <1>1
    <3>2. f[n + 1] = DefragStep(c, m, f, n + 1)
      BY <1>2, <3>1
    <3> QED
      BY <3>1, <3>2, Zenon DEF DefragStep
  <2> HIDE DEF d
  <2>3. SeenTo(Cell, c, m, n, d)
    BY <2>1 DEF d
  <2>4. n \in CellIds
    BY <1>1 DEF CellIds
  <2>5. d \in Fillings(Cell) /\ d.moves \in Nat
    BY <2>3, FillingFields DEF SeenTo
  <2>6. CASE d.cache.cells[n].seqs = {} /\ d.moves < m
    <3> DEFINE e == FillHole(d, n, m)
    <3>1. /\ n < d.n_used /\ d.n_used = Cardinality(Used(d.cache.cells))
          /\ \A i \in 0 .. n - 1 : i \in Used(d.cache.cells)
      BY <1>1, <2>3, <2>6 DEF SeenTo, SameContents
    <3>2. /\ e \in Fillings(Cell) /\ e.n_used = d.n_used
          /\ e.cache.used = d.cache.used /\ e.cache.has_shift = d.cache.has_shift
          /\ e.cache.do_defrag = d.cache.do_defrag /\ e.cache.head \in {d.cache.head, d.n_used}
          /\ e.found = d.found
          /\ SameContents(d.cache.cells, e.cache.cells)
          /\ \A i \in 0 .. n : i \in Used(e.cache.cells)
      BY <2>4, <2>5, <2>6, <3>1, FillHoleRight
    <3> HIDE DEF e
    <3>3. SameContents(c.cells, e.cache.cells)
      BY <2>3, <3>2, SameContentsTransitive DEF SeenTo
    <3>4. \A i \in 0 .. (n + 1) - 1 : i \in Used(e.cache.cells)
      BY <3>2
    <3>5. SeenTo(Cell, c, m, n + 1, e)
      BY <2>3, <3>2, <3>3, <3>4 DEF SeenTo
    <3> QED
      BY <2>2, <2>6, <3>5 DEF e
  <2>7. CASE ~(d.moves < m)
    <3>1. SeenTo(Cell, c, m, n + 1, d)
      BY <2>3, <2>7 DEF SeenTo
    <3> QED
      BY <2>2, <2>7, <3>1
  <2>8. CASE d.cache.cells[n].seqs # {} /\ d.moves < m
    <3>1. n \in Used(d.cache.cells)
      BY <2>4, <2>8 DEF Used
    <3>2. \A i \in 0 .. (n + 1) - 1 : i \in Used(d.cache.cells)
      <4>1. \A i \in 0 .. n - 1 : i \in Used(d.cache.cells)
        BY <2>3, <2>8 DEF SeenTo
      <4>2. \A i \in 0 .. (n + 1) - 1 : i \in 0 .. n - 1 \/ i = n
        OBVIOUS
      <4> QED
        BY <3>1, <4>1, <4>2
    <3>3. SeenTo(Cell, c, m, n + 1, d)
      BY <2>3, <3>2 DEF SeenTo
    <3> QED
      BY <2>2, <2>8, <3>3
  <2> QED
    BY <2>6, <2>7, <2>8
<1> HIDE DEF T
<1>7. c.used \in T
  <2>1. \A n \in Nat : n \in T
    BY <1>5, <1>6, NatSetInduction
  <2> QED
    BY <1>1, <2>1
<1> QED
  BY <1>1, <1>3, <1>7 DEF T

\* With moves left, the used cells are the first ones.
LEMMA DefragCompact ==
  ASSUME NEW Cell, Free \in Cell, NEW c \in Caches(Cell), NEW m \in Nat,
         c.used = Cardinality(Used(c.cells)), Defrag(c, m).moves < m
  PROVE  Used(Defrag(c, m).cache.cells) = 0 .. c.used - 1
<1> DEFINE new == Defrag(c, m).cache.cells
<1>1. SeenTo(Cell, c, m, c.used, Defrag(c, m))
  BY DefragRight
<1>2. Cardinality(Used(new)) = c.used /\ \A i \in 0 .. c.used - 1 : i \in Used(new)
  BY <1>1 DEF SeenTo, SameContents
<1> HIDE DEF new
<1>3. Used(new) \in SUBSET CellIds
  BY DEF Used
<1>4. IsFiniteSet(Used(new)) /\ c.used \in Nat
  BY <1>2, <1>3, CellIdsFinite
<1>5. 0 .. c.used - 1 \in SUBSET Used(new) /\ Cardinality(0 .. c.used - 1) = c.used
  <2>1. 0 .. c.used - 1 \in SUBSET Used(new)
    BY <1>2
  <2>2. Cardinality(0 .. 0 + c.used - 1) = c.used
    BY <1>4, CountInterval
  <2>3. 0 + c.used - 1 = c.used - 1
    BY <1>4
  <2> QED
    BY <2>1, <2>2, <2>3
<1>6. Used(new) = 0 .. c.used - 1
  BY <1>2, <1>4, <1>5, CountMinus
<1> QED
  BY <1>6 DEF new

-----------------------------------------------------------------------------
(* Sound caches                                                            *)

Cell == [pos : Int, seqs : SUBSET Int, tok : Int \cup {Nothing}, rot : Int, delta : Int]

CellOf(pos, seqs, tok, rot, delta) ==
  [pos |-> pos, seqs |-> seqs, tok |-> tok, rot |-> rot, delta |-> delta]

\* A cell has a position exactly when it belongs to a sequence; then its token is one of the
\* first n, and its keys are where the position says or will be shifted there.  A cell that is
\* not in use may hold a shift as well, as long as the next update clears it.
SoundData(x, n) ==
  /\ x \in Cell
  /\ x.pos >= 0 <=> x.seqs # {}
  /\ x.seqs # {} => x.tok \in 0 .. n - 1 /\ x.rot + x.delta = x.pos

SoundCell(x, n, shifting) == SoundData(x, n) /\ (x.delta # 0 => shifting)

Sound(c, n) ==
  /\ c \in Caches(Cell) /\ c.head \in 0 .. Size
  /\ c.used = Cardinality(Used(c.cells))
  /\ \A i \in CellIds : SoundCell(c.cells[i], n, c.has_shift)

LEMMA FreeIsSound ==
  /\ Free \in Cell
  /\ \A n \in Nat, shifting \in BOOLEAN : SoundCell(Free, n, shifting)
BY DEF Free, Cell, SoundCell, SoundData

LEMMA CellForms ==
  ASSUME NEW x \in Cell
  PROVE  /\ Freed(x) = CellOf(-1, {}, Nothing, -1, x.delta)
         /\ \A S : [x EXCEPT !.seqs = S] = CellOf(x.pos, S, x.tok, x.rot, x.delta)
         /\ \A pos \in Int : Moved(x, pos) = CellOf(pos, x.seqs, x.tok, x.rot, x.delta + pos - x.pos)
         /\ \A rot \in Int : [x EXCEPT !.rot = rot, !.delta = 0] = CellOf(x.pos, x.seqs, x.tok, rot, 0)
<1>1. Freed(x) = CellOf(-1, {}, Nothing, -1, x.delta)
  BY DEF Freed, Free, CellOf
<1>2. \A S : [x EXCEPT !.seqs = S] = CellOf(x.pos, S, x.tok, x.rot, x.delta)
  BY DEF Cell, CellOf
<1>3. ASSUME NEW pos \in Int
      PROVE  Moved(x, pos) = CellOf(pos, x.seqs, x.tok, x.rot, x.delta + pos - x.pos)
  <2> DEFINE a == [x EXCEPT !.pos = pos]
             y == x.delta + pos - x.pos
  <2>1. a = CellOf(pos, x.seqs, x.tok, x.rot, x.delta)
    BY DEF Cell, CellOf
  <2>2. Moved(x, pos) = [x EXCEPT !.pos = pos, !.delta = y]
    BY Zenon DEF Moved
  <2> HIDE DEF y
  <2>3. Moved(x, pos) = [a EXCEPT !.delta = y]
    BY <2>2, Zenon
  <2> HIDE DEF a
  <2>4. [a EXCEPT !.delta = y] = CellOf(pos, x.seqs, x.tok, x.rot, y)
    BY <2>1 DEF CellOf
  <2> QED
    BY <2>3, <2>4 DEF y
<1>4. ASSUME NEW rot \in Int
      PROVE  [x EXCEPT !.rot = rot, !.delta = 0] = CellOf(x.pos, x.seqs, x.tok, rot, 0)
  <2> DEFINE a == [x EXCEPT !.rot = rot]
  <2>1. a = CellOf(x.pos, x.seqs, x.tok, rot, x.delta)
    BY DEF Cell, CellOf
  <2>2. [x EXCEPT !.rot = rot, !.delta = 0] = [a EXCEPT !.delta = 0]
    BY Zenon
  <2> HIDE DEF a
  <2>3. [a EXCEPT !.delta = 0] = CellOf(x.pos, x.seqs, x.tok, rot, 0)
    BY <2>1 DEF CellOf
  <2> QED
    BY <2>2, <2>3
<1> QED
  BY <1>1, <1>2, <1>3, <1>4

LEMMA CellOfFields ==
  ASSUME NEW pos, NEW seqs, NEW tok, NEW rot, NEW delta
  PROVE  /\ CellOf(pos, seqs, tok, rot, delta).pos = pos
         /\ CellOf(pos, seqs, tok, rot, delta).seqs = seqs
         /\ CellOf(pos, seqs, tok, rot, delta).tok = tok
         /\ CellOf(pos, seqs, tok, rot, delta).rot = rot
         /\ CellOf(pos, seqs, tok, rot, delta).delta = delta
BY DEF CellOf

WithSeqs(x, S) == [x EXCEPT !.seqs = S]

\* The forms that the operations give a cell.
LEMMA SoundFreed ==
  ASSUME NEW n \in Nat, NEW shifting \in BOOLEAN, NEW x, SoundCell(x, n, shifting)
  PROVE  SoundCell(Freed(x), n, shifting) /\ Freed(x).seqs = {}
<1>1. x \in Cell /\ x.delta \in Int /\ (x.delta # 0 => shifting)
  BY DEF SoundCell, SoundData, Cell
<1>2. Freed(x) = CellOf(-1, {}, Nothing, -1, x.delta)
  BY <1>1, CellForms
<1> QED
  BY <1>1, <1>2 DEF SoundCell, SoundData, Cell, CellOf

LEMMA SoundWithSeqs ==
  ASSUME NEW n \in Nat, NEW shifting \in BOOLEAN, NEW x, SoundCell(x, n, shifting),
         NEW S \in SUBSET Int, S # {}, x.seqs # {}
  PROVE  SoundCell(WithSeqs(x, S), n, shifting) /\ WithSeqs(x, S).seqs = S
<1>1. /\ x \in Cell /\ x.pos \in Int /\ x.tok \in Int \cup {Nothing} /\ x.rot \in Int /\ x.delta \in Int
      /\ x.pos >= 0 /\ x.tok \in 0 .. n - 1 /\ x.rot + x.delta = x.pos /\ (x.delta # 0 => shifting)
  BY DEF SoundCell, SoundData, Cell
<1>2. WithSeqs(x, S) = CellOf(x.pos, S, x.tok, x.rot, x.delta)
  BY <1>1, CellForms DEF WithSeqs
<1> QED
  BY <1>1, <1>2 DEF SoundCell, SoundData, Cell, CellOf

LEMMA SoundMoved ==
  ASSUME NEW n \in Nat, NEW shifting \in BOOLEAN, NEW x, SoundCell(x, n, shifting), NEW pos \in Int
  PROVE  /\ pos >= 0 /\ x.seqs # {} => SoundData(Moved(x, pos), n) /\ Moved(x, pos).seqs = x.seqs
         /\ SoundData(Freed(Moved(x, pos)), n) /\ Freed(Moved(x, pos)).seqs = {}
<1> DEFINE y == Moved(x, pos)
<1>1. /\ x \in Cell /\ x.pos \in Int /\ x.seqs \in SUBSET Int /\ x.tok \in Int \cup {Nothing}
      /\ x.rot \in Int /\ x.delta \in Int
  BY DEF SoundCell, SoundData, Cell
<1>2. y = CellOf(pos, x.seqs, x.tok, x.rot, x.delta + pos - x.pos)
  BY <1>1, CellForms
<1>3. y \in Cell /\ y.delta \in Int
  BY <1>1, <1>2 DEF Cell, CellOf
<1>4. ASSUME pos >= 0, x.seqs # {}
      PROVE  SoundData(y, n) /\ y.seqs = x.seqs
  <2>1. x.tok \in 0 .. n - 1 /\ x.rot + (x.delta + pos - x.pos) = pos
    BY <1>1, <1>4 DEF SoundCell, SoundData
  <2> QED
    BY <1>1, <1>2, <1>4, <2>1 DEF SoundCell, SoundData, Cell, CellOf
<1> HIDE DEF y
<1>5. SoundData(Freed(y), n) /\ Freed(y).seqs = {}
  <2>1. Freed(y) = CellOf(-1, {}, Nothing, -1, y.delta)
    BY <1>3, CellForms
  <2> QED
    BY <1>3, <2>1 DEF SoundCell, SoundData, Cell, CellOf
<1> QED
  BY <1>4, <1>5 DEF y

\* The forms that the operations give a cache.
WithCellsHeadUsed(c, x, y, z)         == [c EXCEPT !.cells = x, !.head = y, !.used = z]
WithHeadCells(c, x, y)                == [c EXCEPT !.head = x, !.cells = y]
WithCellsHeadUsedShift(c, x, y, z, w) == [c EXCEPT !.cells = x, !.head = y, !.used = z, !.has_shift = w]
WithCellsShift(c, x, y)               == [c EXCEPT !.cells = x, !.has_shift = y]
WithShiftCells(c, x, y)               == [c EXCEPT !.has_shift = x, !.cells = y]
WithCellsUsed(c, x, y)                == [c EXCEPT !.cells = x, !.used = y]
WithHead(c, x)                        == [c EXCEPT !.head = x]
WithoutDefrag(c)                      == [c EXCEPT !.do_defrag = FALSE]

LEMMA CellsHeadUsedForm ==
  ASSUME NEW c \in Caches(Cell), NEW x, NEW y, NEW z
  PROVE  WithCellsHeadUsed(c, x, y, z) = CacheOf(x, y, z, c.has_shift, c.do_defrag)
<1>0. c = CacheOf(c.cells, c.head, c.used, c.has_shift, c.do_defrag)
  BY CacheFields
<1> DEFINE a == [c EXCEPT !.cells = x]
           b == [a EXCEPT !.head = y]
<1>1. WithCellsHeadUsed(c, x, y, z) = [b EXCEPT !.used = z]
  BY Zenon DEF WithCellsHeadUsed
<1>2. a = CacheOf(x, c.head, c.used, c.has_shift, c.do_defrag)
  BY <1>0 DEF CacheOf
<1> HIDE DEF a
<1>3. b = CacheOf(x, y, c.used, c.has_shift, c.do_defrag)
  BY <1>2 DEF CacheOf
<1> HIDE DEF b
<1>4. [b EXCEPT !.used = z] = CacheOf(x, y, z, c.has_shift, c.do_defrag)
  BY <1>3 DEF CacheOf
<1> QED
  BY <1>1, <1>4

LEMMA HeadCellsForm ==
  ASSUME NEW c \in Caches(Cell), NEW x, NEW y
  PROVE  WithHeadCells(c, x, y) = CacheOf(y, x, c.used, c.has_shift, c.do_defrag)
<1>0. c = CacheOf(c.cells, c.head, c.used, c.has_shift, c.do_defrag)
  BY CacheFields
<1> DEFINE a == [c EXCEPT !.head = x]
<1>1. WithHeadCells(c, x, y) = [a EXCEPT !.cells = y]
  BY Zenon DEF WithHeadCells
<1>2. a = CacheOf(c.cells, x, c.used, c.has_shift, c.do_defrag)
  BY <1>0 DEF CacheOf
<1> HIDE DEF a
<1>3. [a EXCEPT !.cells = y] = CacheOf(y, x, c.used, c.has_shift, c.do_defrag)
  BY <1>2 DEF CacheOf
<1> QED
  BY <1>1, <1>3

LEMMA CellsHeadUsedShiftForm ==
  ASSUME NEW c \in Caches(Cell), NEW x, NEW y, NEW z, NEW w
  PROVE  WithCellsHeadUsedShift(c, x, y, z, w) = CacheOf(x, y, z, w, c.do_defrag)
<1>0. c = CacheOf(c.cells, c.head, c.used, c.has_shift, c.do_defrag)
  BY CacheFields
<1> DEFINE a == [c EXCEPT !.cells = x]
           b == [a EXCEPT !.head = y]
           d == [b EXCEPT !.used = z]
<1>1. WithCellsHeadUsedShift(c, x, y, z, w) = [d EXCEPT !.has_shift = w]
  BY Zenon DEF WithCellsHeadUsedShift
<1>2. a = CacheOf(x, c.head, c.used, c.has_shift, c.do_defrag)
  BY <1>0 DEF CacheOf
<1> HIDE DEF a
<1>3. b = CacheOf(x, y, c.used, c.has_shift, c.do_defrag)
  BY <1>2 DEF CacheOf
<1> HIDE DEF b
<1>4. d = CacheOf(x, y, z, c.has_shift, c.do_defrag)
  BY <1>3 DEF CacheOf
<1> HIDE DEF d
<1>5. [d EXCEPT !.has_shift = w] = CacheOf(x, y, z, w, c.do_defrag)
  BY <1>4 DEF CacheOf
<1> QED
  BY <1>1, <1>5

LEMMA CellsShiftForm ==
  ASSUME NEW c \in Caches(Cell), NEW x, NEW y
  PROVE  WithCellsShift(c, x, y) = CacheOf(x, c.head, c.used, y, c.do_defrag)
<1>0. c = CacheOf(c.cells, c.head, c.used, c.has_shift, c.do_defrag)
  BY CacheFields
<1> DEFINE a == [c EXCEPT !.cells = x]
<1>1. WithCellsShift(c, x, y) = [a EXCEPT !.has_shift = y]
  BY Zenon DEF WithCellsShift
<1>2. a = CacheOf(x, c.head, c.used, c.has_shift, c.do_defrag)
  BY <1>0 DEF CacheOf
<1> HIDE DEF a
<1>3. [a EXCEPT !.has_shift = y] = CacheOf(x, c.head, c.used, y, c.do_defrag)
  BY <1>2 DEF CacheOf
<1> QED
  BY <1>1, <1>3

LEMMA ShiftCellsForm ==
  ASSUME NEW c \in Caches(Cell), NEW x, NEW y
  PROVE  WithShiftCells(c, x, y) = CacheOf(y, c.head, c.used, x, c.do_defrag)
<1>0. c = CacheOf(c.cells, c.head, c.used, c.has_shift, c.do_defrag)
  BY CacheFields
<1> DEFINE a == [c EXCEPT !.has_shift = x]
<1>1. WithShiftCells(c, x, y) = [a EXCEPT !.cells = y]
  BY Zenon DEF WithShiftCells
<1>2. a = CacheOf(c.cells, c.head, c.used, x, c.do_defrag)
  BY <1>0 DEF CacheOf
<1> HIDE DEF a
<1>3. [a EXCEPT !.cells = y] = CacheOf(y, c.head, c.used, x, c.do_defrag)
  BY <1>2 DEF CacheOf
<1> QED
  BY <1>1, <1>3

LEMMA CellsUsedForm ==
  ASSUME NEW c \in Caches(Cell), NEW x, NEW y
  PROVE  WithCellsUsed(c, x, y) = CacheOf(x, c.head, y, c.has_shift, c.do_defrag)
<1>0. c = CacheOf(c.cells, c.head, c.used, c.has_shift, c.do_defrag)
  BY CacheFields
<1> DEFINE a == [c EXCEPT !.cells = x]
<1>1. WithCellsUsed(c, x, y) = [a EXCEPT !.used = y]
  BY Zenon DEF WithCellsUsed
<1>2. a = CacheOf(x, c.head, c.used, c.has_shift, c.do_defrag)
  BY <1>0 DEF CacheOf
<1> HIDE DEF a
<1>3. [a EXCEPT !.used = y] = CacheOf(x, c.head, y, c.has_shift, c.do_defrag)
  BY <1>2 DEF CacheOf
<1> QED
  BY <1>1, <1>3

LEMMA HeadForm ==
  ASSUME NEW c \in Caches(Cell), NEW x
  PROVE  WithHead(c, x) = CacheOf(c.cells, x, c.used, c.has_shift, c.do_defrag)
<1>0. c = CacheOf(c.cells, c.head, c.used, c.has_shift, c.do_defrag)
  BY CacheFields
<1> QED
  BY <1>0 DEF WithHead, CacheOf

LEMMA WithoutDefragForm ==
  ASSUME NEW c \in Caches(Cell)
  PROVE  WithoutDefrag(c) = CacheOf(c.cells, c.head, c.used, c.has_shift, FALSE)
<1>0. c = CacheOf(c.cells, c.head, c.used, c.has_shift, c.do_defrag)
  BY CacheFields
<1>1. \A v : [c EXCEPT !.do_defrag = v] = CacheOf(c.cells, c.head, c.used, c.has_shift, v)
  BY <1>0 DEF CacheOf
<1> QED
  BY <1>1, Zenon DEF WithoutDefrag

\* What an operation that changes cells where they are has to show.
LEMMA ChangedIsSound ==
  ASSUME NEW n \in Nat, NEW c, Sound(c, n), NEW cells \in [CellIds -> Cell], NEW head \in 0 .. Size,
         NEW shifting \in BOOLEAN, NEW do_defrag \in BOOLEAN, NEW freed \in SUBSET CellIds,
         \A i \in CellIds : SoundCell(cells[i], n, shifting),
         \A i \in CellIds : cells[i].seqs # {} <=> c.cells[i].seqs # {} /\ i \notin freed,
         \A i \in freed : c.cells[i].seqs # {}
  PROVE  Sound(CacheOf(cells, head, c.used - Cardinality(freed), shifting, do_defrag), n)
<1> DEFINE new == CacheOf(cells, head, c.used - Cardinality(freed), shifting, do_defrag)
<1>1. Used(cells) = Used(c.cells) \ freed /\ freed \in SUBSET Used(c.cells)
  BY DEF Used
<1>2. Used(c.cells) \in SUBSET CellIds
  BY DEF Used
<1>3. IsFiniteSet(Used(c.cells))
  BY <1>2, CellIdsFinite
<1>4. Cardinality(Used(cells)) = Cardinality(Used(c.cells)) - Cardinality(freed)
      /\ Cardinality(freed) \in Nat /\ Cardinality(Used(c.cells)) \in Nat
  BY <1>1, <1>3, CountMinus
<1>5. c.used = Cardinality(Used(c.cells))
  BY DEF Sound
<1>6. new.cells = cells /\ new.head = head /\ new.used = c.used - Cardinality(freed)
      /\ new.has_shift = shifting /\ new.do_defrag = do_defrag
  BY CacheOfFields
<1>7. new \in Caches(Cell)
  <2>1. head \in Int /\ c.used - Cardinality(freed) \in Int
    BY <1>4, <1>5, SizeAssumption
  <2> DEFINE u == c.used - Cardinality(freed)
  <2>2. u \in Int
    BY <2>1
  <2> HIDE DEF u
  <2>3. CacheOf(cells, head, u, shifting, do_defrag) \in Caches(Cell)
    BY <2>1, <2>2 DEF Caches, CacheOf
  <2> QED
    BY <2>3 DEF u
<1> HIDE DEF new
<1>8. Sound(new, n)
  BY <1>4, <1>5, <1>6, <1>7 DEF Sound
<1> QED
  BY <1>8 DEF new

LEMMA SoundFields ==
  ASSUME NEW n \in Nat, NEW c, Sound(c, n)
  PROVE  /\ c \in Caches(Cell) /\ c.cells \in [CellIds -> Cell] /\ c.head \in 0 .. Size /\ c.head \in Int
         /\ c.used \in 0 .. Size /\ c.has_shift \in BOOLEAN /\ c.do_defrag \in BOOLEAN
         /\ c = CacheOf(c.cells, c.head, c.used, c.has_shift, c.do_defrag)
<1>1. c \in Caches(Cell) /\ c.head \in 0 .. Size
  BY DEF Sound
<1>2. c.used \in 0 .. Size
  <2>1. Used(c.cells) \in SUBSET CellIds
    BY DEF Used
  <2> QED
    BY <2>1, CellIdsFinite DEF Sound
<1> QED
  BY <1>1, <1>2, CacheFields

LEMMA FreedHeadType ==
  ASSUME NEW c, c.head \in 0 .. Size, NEW freed \in SUBSET CellIds
  PROVE  /\ FreedHead(c, freed) \in 0 .. Size
         /\ freed # {} => Min(freed) \in CellIds
<1> SUFFICES ASSUME freed # {}
             PROVE  Min(freed) \in CellIds /\ FreedHead(c, freed) \in 0 .. Size
  BY DEF FreedHead
<1>1. freed \in SUBSET Nat
  BY SizeAssumption DEF CellIds
<1>2. Min(freed) \in CellIds
  BY <1>1, LeastMin
<1> QED
  BY <1>2, SizeAssumption DEF FreedHead, CellIds

-----------------------------------------------------------------------------
(* What the operations leave behind, cell by cell                          *)

RmSeqs(c, s, i) == IF s < 0 THEN {} ELSE c.cells[i].seqs \ {s}
RmFreed(c, s, p0, p1) == {i \in Selected(c, s, p0, p1) : RmSeqs(c, s, i) = {}}
RmCell(c, s, p0, p1, i) ==
  IF i \in RmFreed(c, s, p0, p1) THEN Freed(c.cells[i])
  ELSE IF i \in Selected(c, s, p0, p1) THEN [c.cells[i] EXCEPT !.seqs = RmSeqs(c, s, i)]
  ELSE c.cells[i]

LEMMA SelectedUsed ==
  ASSUME NEW n \in Nat, NEW c, Sound(c, n), NEW s \in Int, NEW p0 \in Int, NEW p1 \in Int
  PROVE  /\ Selected(c, s, p0, p1) \in SUBSET CellIds
         /\ \A i \in Selected(c, s, p0, p1) : c.cells[i].seqs # {} /\ c.cells[i].pos >= 0
         /\ \A i \in CellIds : c.cells[i] \in Cell /\ c.cells[i].pos \in Int /\ c.cells[i].seqs \in SUBSET Int
                               /\ SoundCell(c.cells[i], n, c.has_shift)
<1>1. \A i \in CellIds : SoundCell(c.cells[i], n, c.has_shift)
  BY DEF Sound
<1>2. \A i \in CellIds : c.cells[i].pos >= 0 => c.cells[i].seqs # {}
  BY <1>1 DEF SoundCell, SoundData
<1>3. \A i \in CellIds : c.cells[i] \in Cell /\ c.cells[i].pos \in Int /\ c.cells[i].seqs \in SUBSET Int
  BY <1>1 DEF SoundCell, SoundData, Cell
<1>4. Selected(c, s, p0, p1) \in SUBSET CellIds
  BY DEF Selected
<1>5. \A i \in Selected(c, s, p0, p1) : c.cells[i].pos >= 0
  BY DEF Selected, InRange
<1> QED
  BY <1>1, <1>2, <1>3, <1>4, <1>5

LEMMA SeqRmIs ==
  ASSUME NEW n \in Nat, NEW c, Sound(c, n), NEW s \in Int, NEW p0 \in Int, NEW p1 \in Int
  PROVE  /\ Sound(SeqRm(c, s, p0, p1), n)
         /\ SeqRm(c, s, p0, p1).cells = [i \in CellIds |-> RmCell(c, s, p0, p1, i)]
<1> DEFINE hit == Selected(c, s, p0, p1)
           freed == RmFreed(c, s, p0, p1)
           cells == [i \in CellIds |-> RmCell(c, s, p0, p1, i)]
           head == FreedHead(c, freed)
           used == c.used - Cardinality(freed)
<1>1. SeqRm(c, s, p0, p1) = WithCellsHeadUsed(c, cells, head, used)
  BY Zenon DEF SeqRm, WithCellsHeadUsed, RmCell, RmFreed, RmSeqs
<1>2. /\ c \in Caches(Cell) /\ c.head \in 0 .. Size /\ c.has_shift \in BOOLEAN /\ c.do_defrag \in BOOLEAN
      /\ hit \in SUBSET CellIds /\ \A i \in hit : c.cells[i].seqs # {}
      /\ \A i \in CellIds : c.cells[i].seqs \in SUBSET Int /\ SoundCell(c.cells[i], n, c.has_shift)
  BY SoundFields, SelectedUsed
<1>3. freed \in SUBSET hit /\ freed \in SUBSET CellIds
  BY <1>2 DEF RmFreed
<1>4. ASSUME NEW i \in CellIds
      PROVE  /\ SoundCell(cells[i], n, c.has_shift)
             /\ cells[i].seqs # {} <=> c.cells[i].seqs # {} /\ i \notin freed
  <2>1. cells[i] = RmCell(c, s, p0, p1, i)
    OBVIOUS
  <2> HIDE DEF cells
  <2> DEFINE x == c.cells[i]
             S == RmSeqs(c, s, i)
  <2>2. SoundCell(x, n, c.has_shift) /\ x.seqs \in SUBSET Int
    BY <1>2
  <2>3. CASE i \in freed
    <3>1. cells[i] = Freed(x)
      BY <2>1, <2>3 DEF RmCell
    <3> HIDE DEF x
    <3> QED
      BY <1>2, <2>2, <2>3, <3>1, SoundFreed DEF x
  <2>4. CASE i \in hit /\ i \notin freed
    <3>1. cells[i] = WithSeqs(x, S)
      BY <2>1, <2>4, Zenon DEF RmCell, WithSeqs
    <3>2. S # {} /\ x.seqs # {}
      BY <1>2, <2>4 DEF RmFreed
    <3>3. S \in SUBSET Int
      BY <2>2 DEF RmSeqs
    <3> HIDE DEF x, S
    <3>4. SoundCell(WithSeqs(x, S), n, c.has_shift) /\ WithSeqs(x, S).seqs = S
      BY <1>2, <2>2, <3>2, <3>3, SoundWithSeqs
    <3>5. SoundCell(cells[i], n, c.has_shift) /\ cells[i].seqs = S
      BY <3>1, <3>4
    <3> QED
      BY <2>4, <3>2, <3>5 DEF x
  <2>5. CASE i \notin hit
    <3>1. cells[i] = x /\ i \notin freed
      BY <1>3, <2>1, <2>5 DEF RmCell
    <3> QED
      BY <2>2, <3>1
  <2> QED
    BY <2>3, <2>4, <2>5
<1>5. cells \in [CellIds -> Cell]
  <2>1. \A i \in CellIds : cells[i] \in Cell
    BY <1>4 DEF SoundCell, SoundData
  <2>2. cells = [i \in CellIds |-> cells[i]]
    OBVIOUS
  <2> HIDE DEF cells
  <2> QED
    BY <2>1, <2>2
<1>6. head \in 0 .. Size
  BY <1>2, <1>3, FreedHeadType
<1> HIDE DEF cells, head, freed
<1>7. Sound(CacheOf(cells, head, used, c.has_shift, c.do_defrag), n)
  BY <1>2, <1>3, <1>4, <1>5, <1>6, ChangedIsSound
<1>8. SeqRm(c, s, p0, p1) = CacheOf(cells, head, used, c.has_shift, c.do_defrag)
  BY <1>1, <1>2, CellsHeadUsedForm
<1>9. SeqRm(c, s, p0, p1).cells = cells
  BY <1>8, CacheOfFields
<1> QED
  BY <1>7, <1>8, <1>9 DEF cells

CpHit(c, src, p0, p1) == {i \in Selected(c, src, p0, p1) : src \in c.cells[i].seqs}
CpCell(c, src, dst, p0, p1, i) ==
  IF i \in CpHit(c, src, p0, p1) THEN WithSeqs(c.cells[i], c.cells[i].seqs \cup {dst}) ELSE c.cells[i]

LEMMA SeqCpIs ==
  ASSUME NEW n \in Nat, NEW c, Sound(c, n), NEW src \in Int, NEW dst \in Int, NEW p0 \in Int, NEW p1 \in Int,
         src # dst
  PROVE  /\ Sound(SeqCp(c, src, dst, p0, p1), n)
         /\ SeqCp(c, src, dst, p0, p1).cells = [i \in CellIds |-> CpCell(c, src, dst, p0, p1, i)]
<1> DEFINE hit == CpHit(c, src, p0, p1)
           cells == [i \in CellIds |-> CpCell(c, src, dst, p0, p1, i)]
<1>1. SeqCp(c, src, dst, p0, p1) = WithHeadCells(c, 0, cells)
  BY Zenon DEF SeqCp, WithHeadCells, CpCell, CpHit, WithSeqs
<1>2. /\ c \in Caches(Cell) /\ c.used \in 0 .. Size /\ c.has_shift \in BOOLEAN /\ c.do_defrag \in BOOLEAN
      /\ \A i \in CellIds : c.cells[i].seqs \in SUBSET Int /\ SoundCell(c.cells[i], n, c.has_shift)
  BY SoundFields, SelectedUsed
<1>3. \A i \in hit : i \in CellIds /\ c.cells[i].seqs # {}
  <2>1. hit \in SUBSET Selected(c, src, p0, p1)
    BY DEF CpHit
  <2> QED
    BY <2>1, SelectedUsed
<1>4. ASSUME NEW i \in CellIds
      PROVE  SoundCell(cells[i], n, c.has_shift) /\ (cells[i].seqs # {} <=> c.cells[i].seqs # {})
  <2>1. cells[i] = CpCell(c, src, dst, p0, p1, i)
    OBVIOUS
  <2> HIDE DEF cells
  <2> DEFINE x == c.cells[i]
             S == x.seqs \cup {dst}
  <2>2. SoundCell(x, n, c.has_shift) /\ x.seqs \in SUBSET Int
    BY <1>2
  <2>3. CASE i \in hit
    <3>1. cells[i] = WithSeqs(x, S)
      BY <2>1, <2>3 DEF CpCell
    <3>2. S # {} /\ x.seqs # {} /\ S \in SUBSET Int
      BY <1>3, <2>2, <2>3
    <3> HIDE DEF x, S
    <3>3. SoundCell(WithSeqs(x, S), n, c.has_shift) /\ WithSeqs(x, S).seqs = S
      BY <1>2, <2>2, <3>2, SoundWithSeqs
    <3> QED
      BY <3>1, <3>2, <3>3 DEF x
  <2>4. CASE i \notin hit
    BY <2>1, <2>2, <2>4 DEF CpCell
  <2> QED
    BY <2>3, <2>4
<1>5. cells \in [CellIds -> Cell]
  <2>1. \A i \in CellIds : cells[i] \in Cell
    BY <1>4 DEF SoundCell, SoundData
  <2>2. cells = [i \in CellIds |-> cells[i]]
    OBVIOUS
  <2> HIDE DEF cells
  <2> QED
    BY <2>1, <2>2
<1> HIDE DEF cells
<1> DEFINE used == c.used - Cardinality({})
<1>6. used = c.used /\ 0 \in 0 .. Size
  BY <1>2, FS_EmptySet, SizeAssumption
<1>7. Sound(CacheOf(cells, 0, used, c.has_shift, c.do_defrag), n)
  BY <1>2, <1>4, <1>5, <1>6, ChangedIsSound
<1> HIDE DEF used
<1>8. SeqCp(c, src, dst, p0, p1) = CacheOf(cells, 0, used, c.has_shift, c.do_defrag)
  BY <1>1, <1>2, <1>6, HeadCellsForm
<1>9. SeqCp(c, src, dst, p0, p1).cells = cells
  BY <1>8, CacheOfFields
<1> QED
  BY <1>7, <1>8, <1>9 DEF cells

KeepDropped(c, s) == {i \in CellIds : s \notin c.cells[i].seqs}
KeepCell(c, s, i) == IF i \in KeepDropped(c, s) THEN Freed(c.cells[i]) ELSE WithSeqs(c.cells[i], {s})

LEMMA SeqKeepIs ==
  ASSUME NEW n \in Nat, NEW c, Sound(c, n), NEW s \in Int
  PROVE  /\ Sound(SeqKeep(c, s), n)
         /\ SeqKeep(c, s).cells = [i \in CellIds |-> KeepCell(c, s, i)]
<1> DEFINE dropped == KeepDropped(c, s)
           freed == {i \in dropped : c.cells[i].pos >= 0}
           cells == [i \in CellIds |-> KeepCell(c, s, i)]
           head == FreedHead(c, dropped)
           used == c.used - Cardinality(freed)
<1>1. SeqKeep(c, s) = WithCellsHeadUsed(c, cells, head, used)
  BY Zenon DEF SeqKeep, WithCellsHeadUsed, KeepCell, KeepDropped, WithSeqs
<1>2. /\ c \in Caches(Cell) /\ c.head \in 0 .. Size /\ c.has_shift \in BOOLEAN /\ c.do_defrag \in BOOLEAN
      /\ \A i \in CellIds : /\ c.cells[i].seqs \in SUBSET Int /\ SoundCell(c.cells[i], n, c.has_shift)
                            /\ c.cells[i].pos >= 0 <=> c.cells[i].seqs # {}
  <2>1. \A i \in CellIds : c.cells[i].seqs \in SUBSET Int /\ SoundCell(c.cells[i], n, c.has_shift)
    BY SelectedUsed
  <2>2. \A i \in CellIds : c.cells[i].pos >= 0 <=> c.cells[i].seqs # {}
    BY <2>1 DEF SoundCell, SoundData
  <2> QED
    BY <2>1, <2>2, SoundFields
<1>3. dropped \in SUBSET CellIds /\ freed \in SUBSET CellIds
  BY DEF KeepDropped
<1>4. ASSUME NEW i \in CellIds
      PROVE  /\ SoundCell(cells[i], n, c.has_shift)
             /\ cells[i].seqs # {} <=> c.cells[i].seqs # {} /\ i \notin freed
  <2>1. cells[i] = KeepCell(c, s, i)
    OBVIOUS
  <2> HIDE DEF cells
  <2> DEFINE x == c.cells[i]
             S == {s}
  <2>2. SoundCell(x, n, c.has_shift)
    BY <1>2
  <2>3. CASE i \in dropped
    <3>1. cells[i] = Freed(x)
      BY <2>1, <2>3 DEF KeepCell
    <3>2. SoundCell(Freed(x), n, c.has_shift) /\ Freed(x).seqs = {}
      <4> HIDE DEF x
      <4> QED
        BY <1>2, <2>2, SoundFreed
    <3>3. i \in freed \/ x.seqs = {}
      BY <1>2, <2>3
    <3> QED
      BY <3>1, <3>2, <3>3
  <2>4. CASE i \notin dropped
    <3>1. cells[i] = WithSeqs(x, S)
      BY <2>1, <2>4 DEF KeepCell
    <3>2. S # {} /\ x.seqs # {} /\ S \in SUBSET Int
      BY <2>4 DEF KeepDropped
    <3>3. i \notin freed
      BY <2>4
    <3> HIDE DEF x, S
    <3>4. SoundCell(WithSeqs(x, S), n, c.has_shift) /\ WithSeqs(x, S).seqs = S
      BY <1>2, <2>2, <3>2, SoundWithSeqs
    <3> QED
      BY <3>1, <3>2, <3>3, <3>4 DEF x
  <2> QED
    BY <2>3, <2>4
<1>5. cells \in [CellIds -> Cell]
  <2>1. \A i \in CellIds : cells[i] \in Cell
    BY <1>4 DEF SoundCell, SoundData
  <2>2. cells = [i \in CellIds |-> cells[i]]
    OBVIOUS
  <2> HIDE DEF cells
  <2> QED
    BY <2>1, <2>2
<1>6. head \in 0 .. Size
  BY <1>2, <1>3, FreedHeadType
<1>7. \A i \in freed : c.cells[i].seqs # {}
  BY <1>2, <1>3
<1> HIDE DEF cells, head, freed
<1>8. Sound(CacheOf(cells, head, used, c.has_shift, c.do_defrag), n)
  BY <1>2, <1>3, <1>4, <1>5, <1>6, <1>7, ChangedIsSound
<1>9. SeqKeep(c, s) = CacheOf(cells, head, used, c.has_shift, c.do_defrag)
  BY <1>1, <1>2, CellsHeadUsedForm
<1>10. SeqKeep(c, s).cells = cells
  BY <1>9, CacheOfFields
<1> QED
  BY <1>8, <1>9, <1>10 DEF cells

AddFreed(c, s, p0, p1, delta) == {i \in CpHit(c, s, p0, p1) : c.cells[i].pos + delta < 0}
AddMoved(c, delta, i) == Moved(c.cells[i], c.cells[i].pos + delta)
AddCell(c, s, p0, p1, delta, i) ==
  IF i \in AddFreed(c, s, p0, p1, delta) THEN Freed(AddMoved(c, delta, i))
  ELSE IF i \in CpHit(c, s, p0, p1) THEN AddMoved(c, delta, i) ELSE c.cells[i]

LEMMA SeqAddIs ==
  ASSUME NEW n \in Nat, NEW c, Sound(c, n), NEW s \in Int, NEW p0 \in Int, NEW p1 \in Int, NEW delta \in Int,
         ~(delta = 0 \/ EmptyRange(p0, p1))
  PROVE  /\ Sound(SeqAdd(c, s, p0, p1, delta), n)
         /\ SeqAdd(c, s, p0, p1, delta).cells = [i \in CellIds |-> AddCell(c, s, p0, p1, delta, i)]
<1> DEFINE hit == CpHit(c, s, p0, p1)
           freed == AddFreed(c, s, p0, p1, delta)
           cells == [i \in CellIds |-> AddCell(c, s, p0, p1, delta, i)]
           head == IF freed = {} THEN 0 ELSE Min(freed)
           used == c.used - Cardinality(freed)
           shifting == c.has_shift \/ hit # {}
<1>1. SeqAdd(c, s, p0, p1, delta) = WithCellsHeadUsedShift(c, cells, head, used, shifting)
  BY Zenon DEF SeqAdd, WithCellsHeadUsedShift, AddCell, AddFreed, AddMoved, CpHit
<1>2. /\ c \in Caches(Cell) /\ c.head \in 0 .. Size /\ c.has_shift \in BOOLEAN /\ c.do_defrag \in BOOLEAN
      /\ \A i \in CellIds : SoundCell(c.cells[i], n, c.has_shift) /\ c.cells[i].pos \in Int
  BY SoundFields, SelectedUsed
<1>3. hit \in SUBSET CellIds /\ \A i \in hit : c.cells[i].seqs # {}
  <2>1. hit \in SUBSET Selected(c, s, p0, p1)
    BY DEF CpHit
  <2> QED
    BY <2>1, SelectedUsed
<1>4. freed \in SUBSET hit /\ freed \in SUBSET CellIds
  BY <1>3 DEF AddFreed
<1>5. ASSUME NEW i \in CellIds
      PROVE  /\ SoundCell(cells[i], n, shifting)
             /\ cells[i].seqs # {} <=> c.cells[i].seqs # {} /\ i \notin freed
  <2>1. cells[i] = AddCell(c, s, p0, p1, delta, i)
    OBVIOUS
  <2> HIDE DEF cells
  <2> DEFINE x == c.cells[i]
             pos == x.pos + delta
  <2>2. SoundCell(x, n, c.has_shift) /\ pos \in Int /\ AddMoved(c, delta, i) = Moved(x, pos)
    BY <1>2 DEF AddMoved
  <2>3. CASE i \in freed
    <3>1. cells[i] = Freed(Moved(x, pos))
      BY <2>1, <2>2, <2>3 DEF AddCell
    <3>2. shifting
      BY <1>2, <1>4, <2>3
    <3>3. SoundData(Freed(Moved(x, pos)), n) /\ Freed(Moved(x, pos)).seqs = {}
      <4> HIDE DEF x, pos
      <4> QED
        BY <1>2, <2>2, SoundMoved
    <3> QED
      BY <2>3, <3>1, <3>2, <3>3 DEF SoundCell
  <2>4. CASE i \in hit /\ i \notin freed
    <3>1. cells[i] = Moved(x, pos)
      BY <2>1, <2>2, <2>4 DEF AddCell
    <3>2. shifting
      BY <1>2, <2>4
    <3>3. pos >= 0 /\ x.seqs # {}
      BY <1>2, <1>3, <2>2, <2>4 DEF AddFreed
    <3>4. SoundData(Moved(x, pos), n) /\ Moved(x, pos).seqs = x.seqs
      <4> HIDE DEF x, pos
      <4> QED
        BY <1>2, <2>2, <3>3, SoundMoved
    <3> QED
      BY <2>4, <3>1, <3>2, <3>3, <3>4 DEF SoundCell
  <2>5. CASE i \notin hit
    <3>1. cells[i] = x /\ i \notin freed
      BY <1>4, <2>1, <2>5 DEF AddCell
    <3>2. SoundCell(x, n, shifting)
      BY <2>2 DEF SoundCell, SoundData
    <3> QED
      BY <3>1, <3>2
  <2> QED
    BY <2>3, <2>4, <2>5
<1>6. cells \in [CellIds -> Cell]
  <2>1. \A i \in CellIds : cells[i] \in Cell
    BY <1>5 DEF SoundCell, SoundData
  <2>2. cells = [i \in CellIds |-> cells[i]]
    OBVIOUS
  <2> HIDE DEF cells
  <2> QED
    BY <2>1, <2>2
<1>7. head \in 0 .. Size
  <2>1. freed # {} => Min(freed) \in CellIds
    BY <1>2, <1>4, FreedHeadType
  <2> QED
    BY <2>1, SizeAssumption DEF CellIds
<1>8. shifting \in BOOLEAN /\ \A i \in freed : c.cells[i].seqs # {}
  BY <1>3, <1>4
<1> HIDE DEF cells, head, freed, shifting
<1>9. Sound(CacheOf(cells, head, used, shifting, c.do_defrag), n)
  BY <1>2, <1>4, <1>5, <1>6, <1>7, <1>8, ChangedIsSound
<1>10. SeqAdd(c, s, p0, p1, delta) = CacheOf(cells, head, used, shifting, c.do_defrag)
  BY <1>1, <1>2, CellsHeadUsedShiftForm
<1>11. SeqAdd(c, s, p0, p1, delta).cells = cells
  BY <1>10, CacheOfFields
<1> QED
  BY <1>9, <1>10, <1>11 DEF cells

DivCell(c, s, p0, p1, d, i) ==
  IF i \in CpHit(c, s, p0, p1) THEN Moved(c.cells[i], c.cells[i].pos \div d) ELSE c.cells[i]

LEMMA SeqDivIs ==
  ASSUME NEW n \in Nat, NEW c, Sound(c, n), NEW s \in Int, NEW p0 \in Int, NEW p1 \in Int,
         NEW d \in Nat \ {0}, ~(d = 1 \/ EmptyRange(p0, p1))
  PROVE  /\ Sound(SeqDiv(c, s, p0, p1, d), n)
         /\ SeqDiv(c, s, p0, p1, d).cells = [i \in CellIds |-> DivCell(c, s, p0, p1, d, i)]
<1> DEFINE hit == CpHit(c, s, p0, p1)
           cells == [i \in CellIds |-> DivCell(c, s, p0, p1, d, i)]
           shifting == c.has_shift \/ hit # {}
<1>1. SeqDiv(c, s, p0, p1, d) = WithCellsShift(c, cells, shifting)
  BY Zenon DEF SeqDiv, WithCellsShift, DivCell, CpHit
<1>2. /\ c \in Caches(Cell) /\ c.head \in 0 .. Size /\ c.has_shift \in BOOLEAN /\ c.do_defrag \in BOOLEAN
      /\ c.used \in 0 .. Size
      /\ \A i \in CellIds : SoundCell(c.cells[i], n, c.has_shift) /\ c.cells[i].pos \in Int
  BY SoundFields, SelectedUsed
<1>3. hit \in SUBSET CellIds /\ \A i \in hit : c.cells[i].seqs # {} /\ c.cells[i].pos >= 0
  <2>1. hit \in SUBSET Selected(c, s, p0, p1)
    BY DEF CpHit
  <2> QED
    BY <2>1, SelectedUsed
<1>4. ASSUME NEW i \in CellIds
      PROVE  SoundCell(cells[i], n, shifting) /\ (cells[i].seqs # {} <=> c.cells[i].seqs # {})
  <2>1. cells[i] = DivCell(c, s, p0, p1, d, i)
    OBVIOUS
  <2> HIDE DEF cells
  <2> DEFINE x == c.cells[i]
             pos == x.pos \div d
  <2>2. SoundCell(x, n, c.has_shift) /\ x.pos \in Int
    BY <1>2
  <2>3. CASE i \in hit
    <3>1. cells[i] = Moved(x, pos)
      BY <2>1, <2>3 DEF DivCell
    <3>2. shifting
      BY <1>2, <2>3
    <3>3. x.pos >= 0 /\ x.seqs # {}
      BY <1>3, <2>3
    <3>4. pos \in Int /\ pos >= 0
      <4> HIDE DEF x
      <4> QED
        BY <2>2, <3>3
    <3>5. SoundData(Moved(x, pos), n) /\ Moved(x, pos).seqs = x.seqs
      <4> HIDE DEF x, pos
      <4> QED
        BY <1>2, <2>2, <3>3, <3>4, SoundMoved
    <3> QED
      BY <3>1, <3>2, <3>3, <3>5 DEF SoundCell
  <2>4. CASE i \notin hit
    <3>1. cells[i] = x
      BY <2>1, <2>4 DEF DivCell
    <3>2. SoundCell(x, n, shifting)
      BY <2>2 DEF SoundCell, SoundData
    <3> QED
      BY <3>1, <3>2
  <2> QED
    BY <2>3, <2>4
<1>5. cells \in [CellIds -> Cell]
  <2>1. \A i \in CellIds : cells[i] \in Cell
    BY <1>4 DEF SoundCell, SoundData
  <2>2. cells = [i \in CellIds |-> cells[i]]
    OBVIOUS
  <2> HIDE DEF cells
  <2> QED
    BY <2>1, <2>2
<1> DEFINE used == c.used - Cardinality({})
<1>6. used = c.used /\ shifting \in BOOLEAN
  BY <1>2, FS_EmptySet
<1> HIDE DEF cells, shifting
<1>7. Sound(CacheOf(cells, c.head, used, shifting, c.do_defrag), n)
  BY <1>2, <1>4, <1>5, <1>6, ChangedIsSound
<1> HIDE DEF used
<1>8. SeqDiv(c, s, p0, p1, d) = CacheOf(cells, c.head, used, shifting, c.do_defrag)
  BY <1>1, <1>2, <1>6, CellsShiftForm
<1>9. SeqDiv(c, s, p0, p1, d).cells = cells
  BY <1>8, CacheOfFields
<1> QED
  BY <1>7, <1>8, <1>9 DEF cells

LEMMA ClearedIs ==
  ASSUME NEW n \in Nat, NEW c, Sound(c, n)
  PROVE  Sound(Cleared(c), n) /\ Used(Cleared(c).cells) = {}
<1> DEFINE cells == [i \in CellIds |-> Freed(c.cells[i])]
<1>1. Cleared(c) = WithCellsHeadUsed(c, cells, 0, 0)
  BY Zenon DEF Cleared, WithCellsHeadUsed
<1>2. /\ c \in Caches(Cell) /\ c.has_shift \in BOOLEAN /\ c.do_defrag \in BOOLEAN
      /\ \A i \in CellIds : SoundCell(c.cells[i], n, c.has_shift)
  BY SoundFields DEF Sound
<1>3. \A i \in CellIds : SoundCell(cells[i], n, c.has_shift) /\ cells[i].seqs = {}
  BY <1>2, SoundFreed
<1>4. cells \in [CellIds -> Cell]
  <2>1. \A i \in CellIds : cells[i] \in Cell
    BY <1>3 DEF SoundCell, SoundData
  <2>2. cells = [i \in CellIds |-> cells[i]]
    OBVIOUS
  <2> HIDE DEF cells
  <2> QED
    BY <2>1, <2>2
<1> HIDE DEF cells
<1>5. Used(cells) = {}
  BY <1>3 DEF Used
<1>6. Cleared(c) = CacheOf(cells, 0, 0, c.has_shift, c.do_defrag)
  BY <1>1, <1>2, CellsHeadUsedForm
<1>7. CacheOf(cells, 0, 0, c.has_shift, c.do_defrag) \in Caches(Cell)
  BY <1>2, <1>4 DEF Caches, CacheOf
<1> DEFINE e == CacheOf(cells, 0, 0, c.has_shift, c.do_defrag)
<1>8. e.cells = cells /\ e.head = 0 /\ e.used = 0 /\ e.has_shift = c.has_shift
  BY CacheOfFields
<1> HIDE DEF e
<1>9. Sound(e, n)
  BY <1>3, <1>5, <1>7, <1>8, FS_EmptySet, SizeAssumption DEF Sound, e
<1> QED
  BY <1>5, <1>6, <1>8, <1>9 DEF e

-----------------------------------------------------------------------------
(* What is stored                                                          *)

Token(x) == [tok |-> x.tok, pos |-> x.pos, seqs |-> x.seqs]
Tokens(cells) == {Token(cells[i]) : i \in Used(cells)}

ShiftedCell(x) == [x EXCEPT !.rot = IF x.seqs = {} THEN @ ELSE @ + x.delta, !.delta = 0]

LEMMA ShiftedCellIs ==
  ASSUME NEW n \in Nat, NEW shifting, NEW x, SoundCell(x, n, shifting)
  PROVE  /\ SoundCell(ShiftedCell(x), n, FALSE)
         /\ ShiftedCell(x).seqs = x.seqs /\ Token(ShiftedCell(x)) = Token(x)
<1> DEFINE rot == IF x.seqs = {} THEN x.rot ELSE x.rot + x.delta
<1>1. x \in Cell /\ x.pos \in Int /\ x.seqs \in SUBSET Int /\ x.tok \in Int \cup {Nothing}
      /\ x.rot \in Int /\ x.delta \in Int
  BY DEF SoundCell, SoundData, Cell
<1>2. rot \in Int
  BY <1>1
<1>3. x.seqs # {} => rot = x.pos /\ x.tok \in 0 .. n - 1
  BY DEF SoundCell, SoundData
<1>4. x.pos >= 0 <=> x.seqs # {}
  BY DEF SoundCell, SoundData
<1>5. ShiftedCell(x) = [x EXCEPT !.rot = rot, !.delta = 0]
  BY Zenon DEF ShiftedCell
<1> HIDE DEF rot
<1>6. ShiftedCell(x) = CellOf(x.pos, x.seqs, x.tok, rot, 0)
  BY <1>1, <1>2, <1>5, CellForms, Zenon
<1>7. SoundData(ShiftedCell(x), n) /\ ShiftedCell(x).delta = 0
  BY <1>1, <1>2, <1>3, <1>4, <1>6 DEF SoundData, Cell, CellOf
<1>8. ShiftedCell(x).seqs = x.seqs /\ Token(ShiftedCell(x)) = Token(x)
  BY <1>6, CellOfFields DEF Token
<1> QED
  BY <1>7, <1>8 DEF SoundCell

\* The shift leaves no cell with a delta and does nothing else to the tokens.
LEMMA KShiftIs ==
  ASSUME NEW n \in Nat, NEW c, Sound(c, n)
  PROVE  /\ Sound(KShift(c), n) /\ KShift(c).has_shift = FALSE /\ KShift(c).do_defrag = c.do_defrag
         /\ Tokens(KShift(c).cells) = Tokens(c.cells)
<1> DEFINE cells == [i \in CellIds |-> ShiftedCell(c.cells[i])]
<1>1. KShift(c) = WithShiftCells(c, FALSE, cells)
  BY Zenon DEF KShift, WithShiftCells, ShiftedCell
<1>2. /\ c \in Caches(Cell) /\ c.head \in 0 .. Size /\ c.has_shift \in BOOLEAN /\ c.do_defrag \in BOOLEAN
      /\ c.used \in 0 .. Size /\ \A i \in CellIds : SoundCell(c.cells[i], n, c.has_shift)
  BY SoundFields DEF Sound
<1>3. \A i \in CellIds : SoundCell(cells[i], n, FALSE) /\ cells[i].seqs = c.cells[i].seqs
                         /\ Token(cells[i]) = Token(c.cells[i])
  BY <1>2, ShiftedCellIs
<1>4. cells \in [CellIds -> Cell]
  <2>1. \A i \in CellIds : cells[i] \in Cell
    BY <1>3 DEF SoundCell, SoundData
  <2>2. cells = [i \in CellIds |-> cells[i]]
    OBVIOUS
  <2> HIDE DEF cells
  <2> QED
    BY <2>1, <2>2
<1> HIDE DEF cells
<1> DEFINE used == c.used - Cardinality({})
<1>5. used = c.used
  BY <1>2, FS_EmptySet
<1>6. Sound(CacheOf(cells, c.head, used, FALSE, c.do_defrag), n)
  BY <1>2, <1>3, <1>4, ChangedIsSound
<1> HIDE DEF used
<1>7. KShift(c) = CacheOf(cells, c.head, used, FALSE, c.do_defrag)
  BY <1>1, <1>2, <1>5, ShiftCellsForm
<1>8. KShift(c).cells = cells /\ KShift(c).has_shift = FALSE /\ KShift(c).do_defrag = c.do_defrag
  BY <1>7 DEF CacheOf
<1>9. Tokens(cells) = Tokens(c.cells)
  <2>1. Used(cells) = Used(c.cells) /\ \A i \in Used(cells) : i \in CellIds
    BY <1>3 DEF Used
  <2>2. \A i \in Used(cells) : Token(cells[i]) = Token(c.cells[i])
    BY <1>3, <2>1
  <2> QED
    BY <2>1, <2>2 DEF Tokens
<1> QED
  BY <1>6, <1>7, <1>8, <1>9

LEMMA SameContentsTokens ==
  ASSUME NEW old, NEW new, SameContents(old, new)
  PROVE  Tokens(new) = Tokens(old)
BY DEF SameContents, Tokens

\* Moving tokens, no cell being shifted, leaves a sound cache.
LEMMA DefragIsSound ==
  ASSUME NEW n \in Nat, NEW c, Sound(c, n), NEW m \in Nat
  PROVE  LET d == Defrag(c, m).cache
         IN  /\ Sound(d, n) /\ d.has_shift = c.has_shift
             /\ Tokens(d.cells) = Tokens(c.cells) /\ Defrag(c, m).found
<1> DEFINE d == Defrag(c, m).cache
<1>1. /\ c \in Caches(Cell) /\ c.head \in 0 .. Size /\ c.used \in 0 .. Size
      /\ c.used = Cardinality(Used(c.cells)) /\ \A i \in CellIds : SoundCell(c.cells[i], n, c.has_shift)
  BY SoundFields DEF Sound
<1>2. SeenTo(Cell, c, m, c.used, Defrag(c, m))
  BY <1>1, DefragRight, FreeIsSound
<1>3. /\ d \in Caches(Cell) /\ d.used = c.used /\ d.has_shift = c.has_shift /\ d.head \in {c.head, c.used}
      /\ SameContents(c.cells, d.cells) /\ Defrag(c, m).found
  BY <1>2, FillingFields DEF SeenTo
<1> HIDE DEF d
<1>4. ASSUME NEW i \in CellIds
      PROVE  SoundCell(d.cells[i], n, c.has_shift)
  <2>1. d.cells[i] = Free \/ \E j \in CellIds : d.cells[i] = c.cells[j]
    BY <1>3 DEF SameContents, Used
  <2>2. SoundCell(Free, n, c.has_shift)
    BY <1>1, CacheFields, FreeIsSound
  <2> QED
    BY <1>1, <2>1, <2>2
<1>5. d.used = Cardinality(Used(d.cells)) /\ d.head \in 0 .. Size
  BY <1>1, <1>3 DEF SameContents
<1>6. Sound(d, n)
  BY <1>3, <1>4, <1>5 DEF Sound
<1> QED
  BY <1>3, <1>6, SameContentsTokens DEF d

\* The update settles every shift and leaves the tokens that are stored.
LEMMA UpdateIs ==
  ASSUME NEW n \in Nat, NEW c, Sound(c, n), NEW m \in Nat
  PROVE  /\ Sound(Update(c, m), n) /\ Update(c, m).has_shift = FALSE
         /\ Tokens(Update(c, m).cells) = Tokens(c.cells)
<1> DEFINE s == IF c.has_shift THEN KShift(c) ELSE c
           e == Defrag(s, m).cache
<1>1. Sound(s, n) /\ s.has_shift = FALSE /\ s.do_defrag = c.do_defrag /\ Tokens(s.cells) = Tokens(c.cells)
  <2>1. c.has_shift \in BOOLEAN
    BY SoundFields
  <2> QED
    BY <2>1, KShiftIs
<1>2. Update(c, m) = IF c.do_defrag THEN WithoutDefrag(e) ELSE s
  BY Zenon DEF Update, WithoutDefrag
<1> HIDE DEF s
<1>3. Sound(e, n) /\ e.has_shift = FALSE /\ Tokens(e.cells) = Tokens(c.cells)
  BY <1>1, DefragIsSound
<1> HIDE DEF e
<1>4. Sound(WithoutDefrag(e), n) /\ WithoutDefrag(e).has_shift = FALSE
      /\ WithoutDefrag(e).cells = e.cells
  <2>1. /\ e \in Caches(Cell) /\ e.cells \in [CellIds -> Cell] /\ e.head \in 0 .. Size /\ e.used \in 0 .. Size
        /\ e.used = Cardinality(Used(e.cells)) /\ \A i \in CellIds : SoundCell(e.cells[i], n, FALSE)
    BY <1>3, SoundFields DEF Sound
  <2>2. WithoutDefrag(e) = CacheOf(e.cells, e.head, e.used, FALSE, FALSE)
    BY <1>3, <2>1, WithoutDefragForm
  <2> DEFINE f == WithoutDefrag(e)
  <2>3. f \in Caches(Cell)
    BY <2>1, <2>2, SizeAssumption DEF Caches, CacheOf
  <2>4. f.cells = e.cells /\ f.head = e.head /\ f.used = e.used /\ f.has_shift = FALSE
    BY <2>2 DEF CacheOf
  <2> HIDE DEF f
  <2>5. Sound(f, n)
    BY <2>1, <2>3, <2>4 DEF Sound
  <2> QED
    BY <2>4, <2>5 DEF f
<1> QED
  BY <1>1, <1>2, <1>3, <1>4

\* A batch of some of the first n tokens: each has a position and a sequence.
NewTokens(batch, n) ==
  /\ Len(batch) \in Nat \ {0}
  /\ \A k \in 1 .. Len(batch) :
       /\ batch[k].tok \in 0 .. n - 1
       /\ batch[k].pos \in Int /\ batch[k].pos >= 0 /\ batch[k].seq \in Int

\* The cell a token of the batch is put in.
PutCell(c, b, i) == CellOf(b.pos, {b.seq}, b.tok, b.pos, c.cells[i].delta)

BatchToken(b) == [tok |-> b.tok, pos |-> b.pos, seqs |-> {b.seq}]
BatchTokens(batch) == {BatchToken(batch[k]) : k \in 1 .. Len(batch)}

\* The cells once a batch is put where h is the first.
PutCells(c, batch, h) ==
  [i \in CellIds |-> IF i - h \in 0 .. Len(batch) - 1 THEN PutCell(c, batch[i - h + 1], i) ELSE c.cells[i]]

\* In free cells, with no shift waiting, the tokens are put beside those that are stored.
LEMMA PutIs ==
  ASSUME NEW n \in Nat, NEW c, Sound(c, n), c.has_shift = FALSE, NEW batch, NewTokens(batch, n),
         c.head + Len(batch) <= Size,
         \A i \in c.head .. c.head + Len(batch) - 1 : ~(c.cells[i].pos >= 0)
  PROVE  /\ Sound(Put(c, batch), n) /\ Put(c, batch).cells = PutCells(c, batch, c.head)
         /\ Put(c, batch).head = c.head /\ Put(c, batch).has_shift = FALSE
         /\ Put(c, batch).do_defrag = c.do_defrag
         /\ Tokens(Put(c, batch).cells) = Tokens(c.cells) \cup BatchTokens(batch)
<1> DEFINE k == Len(batch)
           run == c.head .. c.head + k - 1
           cells == PutCells(c, batch, c.head)
<1>1. Put(c, batch) = WithCellsUsed(c, cells, c.used + k)
  BY Zenon DEF Put, WithCellsUsed, PutCells, PutCell, CellOf
<1>2. /\ c \in Caches(Cell) /\ c.head \in 0 .. Size /\ c.do_defrag \in BOOLEAN
      /\ c.used \in 0 .. Size /\ c.used = Cardinality(Used(c.cells))
      /\ \A i \in CellIds : SoundCell(c.cells[i], n, FALSE)
  BY SoundFields DEF Sound
<1>3. k \in Nat \ {0} /\ Size \in Nat
  BY SizeAssumption DEF NewTokens
<1>4. c.head + k <= Size /\ \A i \in run : ~(c.cells[i].pos >= 0)
  OBVIOUS
<1>5. \A i \in CellIds : i \in run <=> i - c.head \in 0 .. k - 1
  <2>1. c.head \in Int /\ k \in Int /\ \A i \in CellIds : i \in Int
    BY <1>2, <1>3 DEF CellIds
  <2> QED
    BY <2>1
<1>6. run \in SUBSET CellIds /\ \A i \in run : i - c.head + 1 \in 1 .. k
  <2>1. c.head \in Nat /\ c.head + k <= Size
    BY <1>2, <1>3, <1>4
  <2>2. \A i \in run : i \in Int /\ 0 <= i /\ i <= Size - 1 /\ i - c.head + 1 \in 1 .. k
    BY <1>3, <2>1
  <2> QED
    BY <1>3, <2>2 DEF CellIds
<1>7. \A j \in 1 .. k : c.head + j - 1 \in run /\ (c.head + j - 1) - c.head + 1 = j
  <2>1. c.head \in Nat
    BY <1>2, <1>3
  <2> QED
    BY <1>3, <2>1
<1>8. /\ \A i \in run : cells[i] = PutCell(c, batch[i - c.head + 1], i)
      /\ \A i \in CellIds \ run : cells[i] = c.cells[i]
      /\ cells = [i \in CellIds |-> cells[i]]
  BY <1>5, <1>6 DEF PutCells
<1>9. \A j \in 1 .. k : /\ batch[j].tok \in 0 .. n - 1
                        /\ batch[j].pos \in Int /\ batch[j].pos >= 0 /\ batch[j].seq \in Int
  BY DEF NewTokens
<1> HIDE DEF k, run, cells
<1>10. ASSUME NEW i \in run
       PROVE  /\ SoundCell(cells[i], n, FALSE) /\ cells[i].seqs # {}
              /\ Token(cells[i]) = BatchToken(batch[i - c.head + 1])
  <2> DEFINE b == batch[i - c.head + 1]
  <2>1. b.pos \in Int /\ b.pos >= 0 /\ b.seq \in Int /\ b.tok \in 0 .. n - 1
    <3>1. i - c.head + 1 \in 1 .. k
      BY <1>6
    <3> DEFINE j == i - c.head + 1
    <3>2. j \in 1 .. k /\ batch[j].tok \in 0 .. n - 1 /\ batch[j].pos \in Int /\ batch[j].pos >= 0 /\ batch[j].seq \in Int
      BY <1>9, <3>1
    <3> HIDE DEF j
    <3> QED
      BY <3>2 DEF j
  <2>2. c.cells[i].delta = 0
    BY <1>2, <1>6 DEF SoundCell, SoundData, Cell
  <2>3. cells[i] = CellOf(b.pos, {b.seq}, b.tok, b.pos, 0)
    BY <1>8, <2>2 DEF PutCell
  <2> HIDE DEF b
  <2> DEFINE x == cells[i]
  <2>4. x.pos = b.pos /\ x.seqs = {b.seq} /\ x.tok = b.tok /\ x.rot = b.pos /\ x.delta = 0 /\ x \in Cell
    BY <1>3, <2>1, <2>3 DEF Cell, CellOf
  <2> HIDE DEF x
  <2>5. SoundData(x, n) /\ x.seqs # {}
    <3>1. x.seqs # {} /\ x.pos >= 0 /\ x.rot + x.delta = x.pos
      BY <2>1, <2>4
    <3>2. x.tok \in 0 .. n - 1
      BY <2>1, <2>4
    <3> QED
      BY <1>3, <2>4, <3>1, <3>2 DEF SoundData
  <2>6. Token(x) = BatchToken(b)
    BY <2>4 DEF Token, BatchToken
  <2> QED
    BY <2>4, <2>5, <2>6 DEF SoundCell, b, x
<1>11. ASSUME NEW i \in CellIds \ run
       PROVE  SoundCell(cells[i], n, FALSE) /\ cells[i] = c.cells[i]
  <2>1. SoundCell(cells[i], n, FALSE) /\ cells[i] = c.cells[i]
    BY <1>2, <1>8
  <2> DEFINE x == cells[i]
  <2>2. SoundData(x, n) /\ (x.delta # 0 => FALSE)
    BY <2>1 DEF SoundCell
  <2> HIDE DEF x
  <2>3. SoundData(x, n)
    BY <1>3, <2>2 DEF SoundData
  <2> QED
    BY <2>1, <2>2, <2>3 DEF SoundCell, x
<1>12. \A i \in CellIds : SoundCell(cells[i], n, FALSE)
  BY <1>10, <1>11
<1>13. cells \in [CellIds -> Cell]
  <2>1. \A i \in CellIds : cells[i] \in Cell
    BY <1>12 DEF SoundCell, SoundData
  <2> QED
    BY <1>8, <2>1
<1>14. \A i \in run : i \notin Used(c.cells)
  BY <1>2, <1>4, <1>6 DEF Used, SoundCell, SoundData
<1>15. Used(cells) = Used(c.cells) \cup run
  <2>1. \A i \in CellIds : i \in Used(cells) <=> i \in Used(c.cells) \/ i \in run
    BY <1>10, <1>11 DEF Used
  <2>2. Used(cells) \in SUBSET CellIds /\ Used(c.cells) \in SUBSET CellIds
    BY DEF Used
  <2> QED
    BY <1>6, <2>1, <2>2
<1>16. Cardinality(Used(cells)) = c.used + k
  <2>1. Used(c.cells) \in SUBSET CellIds
    BY DEF Used
  <2>2. IsFiniteSet(Used(c.cells)) /\ IsFiniteSet(run)
    BY <1>6, <2>1, CellIdsFinite
  <2>3. Cardinality(run) = k
    <3>1. c.head \in Nat /\ k \in Nat
      BY <1>2, <1>3
    <3> QED
      BY <3>1, CountInterval DEF run
  <2> QED
    BY <1>2, <1>14, <1>15, <2>2, <2>3, CountPlus
<1> DEFINE p == CacheOf(cells, c.head, c.used + k, FALSE, c.do_defrag)
<1>17. Put(c, batch) = p
  BY <1>1, <1>2, CellsUsedForm
<1>18. p \in Caches(Cell)
  BY <1>2, <1>3, <1>13 DEF Caches, CacheOf
<1>19. p.cells = cells /\ p.head = c.head /\ p.used = c.used + k /\ p.has_shift = FALSE
      /\ p.do_defrag = c.do_defrag
  BY DEF CacheOf
<1> HIDE DEF p
<1>20. Sound(p, n)
  BY <1>2, <1>12, <1>16, <1>18, <1>19 DEF Sound
<1>21. Tokens(cells) = Tokens(c.cells) \cup BatchTokens(batch)
  <2>1. ASSUME NEW i \in Used(cells)
        PROVE  Token(cells[i]) \in Tokens(c.cells) \cup BatchTokens(batch)
    <3>1. CASE i \in run
      BY <1>6, <1>10, <3>1 DEF BatchTokens, k
    <3>2. CASE i \notin run
      <4>1. i \in Used(c.cells) /\ cells[i] = c.cells[i]
        BY <1>11, <1>15, <3>2 DEF Used
      <4> QED
        BY <4>1 DEF Tokens
    <3> QED
      BY <3>1, <3>2
  <2>2. ASSUME NEW i \in Used(c.cells)
        PROVE  Token(c.cells[i]) \in Tokens(cells)
    <3>1. i \in CellIds \ run /\ i \in Used(cells)
      BY <1>14, <1>15 DEF Used
    <3> QED
      BY <1>11, <3>1 DEF Tokens
  <2>3. ASSUME NEW j \in 1 .. k
        PROVE  BatchToken(batch[j]) \in Tokens(cells)
    <3> DEFINE i == c.head + j - 1
    <3>1. i \in run /\ i - c.head + 1 = j
      BY <1>7
    <3> HIDE DEF i
    <3>2. Token(cells[i]) = BatchToken(batch[j]) /\ i \in Used(cells)
      BY <1>10, <1>15, <3>1
    <3> QED
      BY <3>2 DEF Tokens
  <2>4. \A t \in Tokens(cells) : t \in Tokens(c.cells) \cup BatchTokens(batch)
    BY <2>1 DEF Tokens
  <2>5. \A t \in Tokens(c.cells) : t \in Tokens(cells)
    BY <2>2 DEF Tokens
  <2>6. \A t \in BatchTokens(batch) : t \in Tokens(cells)
    BY <2>3 DEF BatchTokens, k
  <2> QED
    BY <2>4, <2>5, <2>6
<1> QED
  BY <1>17, <1>19, <1>20, <1>21 DEF k, cells

LEMMA HeadIsSound ==
  ASSUME NEW n \in Nat, NEW c, Sound(c, n), NEW head \in 0 .. Size
  PROVE  /\ Sound(WithHead(c, head), n) /\ WithHead(c, head).head = head
         /\ WithHead(c, head).cells = c.cells /\ WithHead(c, head).has_shift = c.has_shift
         /\ WithHead(c, head).do_defrag = c.do_defrag
<1> DEFINE e == WithHead(c, head)
<1>1. /\ c \in Caches(Cell) /\ c.cells \in [CellIds -> Cell] /\ c.has_shift \in BOOLEAN /\ c.do_defrag \in BOOLEAN
      /\ c.used \in 0 .. Size /\ c.used = Cardinality(Used(c.cells))
      /\ \A i \in CellIds : SoundCell(c.cells[i], n, c.has_shift)
  BY SoundFields DEF Sound
<1>2. e = CacheOf(c.cells, head, c.used, c.has_shift, c.do_defrag)
  BY <1>1, HeadForm
<1>3. e \in Caches(Cell)
  BY <1>1, <1>2, SizeAssumption DEF Caches, CacheOf
<1>4. /\ e.cells = c.cells /\ e.head = head /\ e.used = c.used /\ e.has_shift = c.has_shift
      /\ e.do_defrag = c.do_defrag
  BY <1>2, CacheOfFields
<1> HIDE DEF e
<1>5. Sound(e, n)
  BY <1>1, <1>3, <1>4 DEF Sound
<1> QED
  BY <1>4, <1>5 DEF e

\* A batch is stored beside the tokens that are there, or, without a slot, nothing changes.
LEMMA StoreIs ==
  ASSUME NEW n \in Nat, NEW c, Sound(c, n), c.has_shift = FALSE, NEW batch, NewTokens(batch, n)
  PROVE  LET r == Store(c, batch)
         IN  /\ r.ok \in BOOLEAN /\ Sound(r.cache, n)
             /\ r.cache.has_shift = FALSE /\ r.cache.do_defrag = c.do_defrag
             /\ r.ok => /\ Tokens(r.cache.cells) = Tokens(c.cells) \cup BatchTokens(batch)
                        /\ \E h \in CellIds : /\ FreeRun(c, Len(batch), h)
                                              /\ r.cache.cells = PutCells(c, batch, h)
             /\ ~r.ok => r.cache.cells = c.cells
             /\ r.ok <=> \E h \in CellIds : FreeRun(c, Len(batch), h)
<1> DEFINE k == Len(batch)
           start == IF c.head > c.used + 2 * k THEN 0 ELSE c.head
           s == WithHead(c, start)
           f == FindSlot(s, k)
           t == WithHead(s, f.head)
           p == Put(t, batch)
           end == IF p.head + k >= Size THEN 0 ELSE p.head + k
           e == WithHead(p, end)
           r == Store(c, batch)
<1>1. r = [ok |-> f.ok, cache |-> IF f.ok THEN e ELSE t]
  BY Zenon DEF Store, WithHead
<1>2. c.head \in 0 .. Size /\ c.used \in 0 .. Size /\ k \in Nat \ {0} /\ Size \in Nat
  BY SoundFields, SizeAssumption DEF NewTokens
<1>3. start \in 0 .. Size
  BY <1>2
<1> HIDE DEF start
<1>4. Sound(s, n) /\ s.head \in 0 .. Size /\ s.cells = c.cells /\ s.has_shift = FALSE /\ s.do_defrag = c.do_defrag
  BY <1>3, HeadIsSound
<1> HIDE DEF s, k
<1>5. Right(s, k, f)
  BY <1>2, <1>4, FindSlotRight
<1>6. f.ok \in BOOLEAN /\ f.head \in 0 .. Size
  BY <1>5 DEF Right
<1> HIDE DEF f
<1>7. Sound(t, n) /\ t.head = f.head /\ t.cells = c.cells /\ t.has_shift = FALSE /\ t.do_defrag = c.do_defrag
  BY <1>4, <1>6, HeadIsSound
<1> HIDE DEF t
<1>8. f.ok <=> \E h \in CellIds : FreeRun(c, k, h)
  BY <1>4, <1>5 DEF Right, FreeRun
<1>9. ASSUME f.ok
      PROVE  /\ Sound(e, n) /\ e.has_shift = FALSE /\ e.do_defrag = c.do_defrag
             /\ Tokens(e.cells) = Tokens(c.cells) \cup BatchTokens(batch)
             /\ \E h \in CellIds : FreeRun(c, k, h) /\ e.cells = PutCells(c, batch, h)
  <2>1. FreeRun(t, k, t.head) /\ t.head \in CellIds
    BY <1>4, <1>5, <1>7, <1>9 DEF Right, FreeRun
  <2>2. t.head + k <= Size /\ \A i \in t.head .. t.head + k - 1 : ~(t.cells[i].pos >= 0)
    BY <2>1 DEF FreeRun
  <2>3. /\ Sound(p, n) /\ p.head = t.head /\ p.has_shift = FALSE /\ p.do_defrag = t.do_defrag
        /\ Tokens(p.cells) = Tokens(t.cells) \cup BatchTokens(batch)
        /\ p.cells = PutCells(t, batch, t.head)
    BY <1>7, <2>2, PutIs DEF k
  <2> HIDE DEF p
  <2>4. end \in 0 .. Size
    BY <1>2, <1>6, <1>7, <2>3
  <2> HIDE DEF end
  <2>5. Sound(e, n) /\ e.cells = p.cells /\ e.has_shift = p.has_shift /\ e.do_defrag = p.do_defrag
    BY <2>3, <2>4, HeadIsSound
  <2>6. PutCells(t, batch, t.head) = PutCells(c, batch, t.head)
    BY <1>7, Zenon DEF PutCells, PutCell
  <2>7. FreeRun(c, k, t.head)
    BY <1>7, <2>1 DEF FreeRun
  <2>8. e.cells = PutCells(c, batch, t.head)
    BY <2>3, <2>5, <2>6
  <2> QED
    BY <1>7, <2>1, <2>3, <2>5, <2>7, <2>8
<1> HIDE DEF p, end, e
<1>10. r.ok = f.ok /\ r.cache = IF f.ok THEN e ELSE t
  BY <1>1
<1> HIDE DEF r
<1>11. /\ r.ok \in BOOLEAN /\ Sound(r.cache, n)
       /\ r.cache.has_shift = FALSE /\ r.cache.do_defrag = c.do_defrag
       /\ r.ok => /\ Tokens(r.cache.cells) = Tokens(c.cells) \cup BatchTokens(batch)
                  /\ \E h \in CellIds : FreeRun(c, k, h) /\ r.cache.cells = PutCells(c, batch, h)
       /\ ~r.ok => r.cache.cells = c.cells
       /\ r.ok <=> \E h \in CellIds : FreeRun(c, k, h)
  BY <1>6, <1>7, <1>8, <1>9, <1>10
<1> QED
  BY <1>11 DEF r, k

\* A token may be one of more tokens.
LEMMA SoundMore ==
  ASSUME NEW n \in Nat, NEW m \in Nat, n <= m, NEW c, Sound(c, n)
  PROVE  Sound(c, m)
<1>1. ASSUME NEW x, NEW shifting, SoundCell(x, n, shifting)
      PROVE  SoundCell(x, m, shifting)
  BY <1>1 DEF SoundCell, SoundData
<1>2. \A i \in CellIds : SoundCell(c.cells[i], m, c.has_shift)
  BY <1>1 DEF Sound
<1> QED
  BY <1>2 DEF Sound

\* What a cache holds has not changed.
LEMMA SoundAsBefore ==
  ASSUME NEW n \in Nat, NEW m \in Nat, NEW c, Sound(c, n), NEW d, Sound(d, m),
         d.cells = c.cells, d.has_shift = c.has_shift
  PROVE  Sound(d, n)
BY DEF Sound

LEMMA EmptyIsSound ==
  Sound(EmptyCache, 0) /\ Tokens(EmptyCache.cells) = {}
<1> DEFINE cells == [i \in CellIds |-> Free]
<1>1. EmptyCache = CacheOf(cells, 0, 0, FALSE, FALSE)
  BY DEF EmptyCache, CacheOf
<1>2. cells \in [CellIds -> Cell] /\ \A i \in CellIds : cells[i] = Free
  BY FreeIsSound
<1>3. \A i \in CellIds : SoundCell(cells[i], 0, FALSE)
  BY <1>2 DEF SoundCell, SoundData, Free, Cell
<1>4. Used(cells) = {}
  BY <1>2 DEF Used, Free
<1> HIDE DEF cells
<1> DEFINE e == CacheOf(cells, 0, 0, FALSE, FALSE)
<1>5. e \in Caches(Cell)
  BY <1>2 DEF Caches, CacheOf
<1>6. e.cells = cells /\ e.head = 0 /\ e.used = 0 /\ e.has_shift = FALSE
  BY DEF CacheOf
<1> HIDE DEF e
<1>7. Sound(e, 0)
  <2>1. e.used = Cardinality(Used(e.cells))
    BY <1>4, <1>6, FS_EmptySet
  <2>2. e.head \in 0 .. Size
    BY <1>6, SizeAssumption
  <2>3. \A i \in CellIds : SoundCell(e.cells[i], 0, e.has_shift)
    BY <1>3, <1>6, Zenon
  <2> QED
    BY <1>5, <2>1, <2>2, <2>3 DEF Sound
<1>8. Tokens(e.cells) = {}
  BY <1>4, <1>6 DEF Tokens
<1> QED
  BY <1>1, <1>7, <1>8 DEF e

-----------------------------------------------------------------------------
(* Every cache with given cells in use                                     *)

OccupiedCells(used) ==
  [i \in CellIds |-> IF i \in used THEN [Free EXCEPT !.pos = i, !.seqs = {0}, !.tok = i, !.rot = i]
                                   ELSE Free]
OccupiedCache(used, head) ==
  [EmptyCache EXCEPT !.cells = OccupiedCells(used), !.head = head, !.used = Cardinality(used)]

LEMMA OccupiedIs ==
  ASSUME NEW used \in SUBSET CellIds, NEW head \in 0 .. Size
  PROVE  LET c == OccupiedCache(used, head)
         IN  /\ c \in Caches(Cell) /\ c.head = head /\ c.used = Cardinality(used)
             /\ Used(c.cells) = used
             /\ \A i \in CellIds : c.cells[i].pos >= 0 <=> i \in used
             /\ \A i \in used : c.cells[i].tok = i
<1> DEFINE cells == OccupiedCells(used)
           n == Cardinality(used)
           c == OccupiedCache(used, head)
<1>1. EmptyCache \in Caches(Cell) /\ EmptyCache.has_shift = FALSE /\ EmptyCache.do_defrag = FALSE
  BY EmptyIsSound DEF Sound, EmptyCache
<1>2. c = WithCellsHeadUsed(EmptyCache, cells, head, n)
  BY Zenon DEF OccupiedCache, WithCellsHeadUsed
<1>3. c = CacheOf(cells, head, n, FALSE, FALSE)
  BY <1>1, <1>2, CellsHeadUsedForm
<1>4. \A i \in used : cells[i] = CellOf(i, {0}, i, i, 0)
  <2>1. ASSUME NEW i \in used
        PROVE  [Free EXCEPT !.pos = i, !.seqs = {0}, !.tok = i, !.rot = i] = CellOf(i, {0}, i, i, 0)
    <3> DEFINE a == [Free EXCEPT !.pos = i]
               b == [a EXCEPT !.seqs = {0}]
               d == [b EXCEPT !.tok = i]
    <3>1. [Free EXCEPT !.pos = i, !.seqs = {0}, !.tok = i, !.rot = i] = [d EXCEPT !.rot = i]
      BY Zenon
    <3>2. a = CellOf(i, {}, Nothing, -1, 0)
      BY DEF Free, CellOf
    <3> HIDE DEF a
    <3>3. b = CellOf(i, {0}, Nothing, -1, 0)
      BY <3>2 DEF CellOf
    <3> HIDE DEF b
    <3>4. d = CellOf(i, {0}, i, -1, 0)
      BY <3>3 DEF CellOf
    <3> HIDE DEF d
    <3>5. [d EXCEPT !.rot = i] = CellOf(i, {0}, i, i, 0)
      BY <3>4 DEF CellOf
    <3> QED
      BY <3>1, <3>5
  <2>2. \A i \in used : i \in CellIds
    OBVIOUS
  <2> QED
    BY <2>1, <2>2, Zenon DEF OccupiedCells
<1>5. \A i \in CellIds \ used : cells[i] = Free
  BY Zenon DEF OccupiedCells
<1>6. DOMAIN cells = CellIds /\ cells = [i \in CellIds |-> cells[i]]
  BY DEF OccupiedCells
<1> HIDE DEF cells
<1>7. \A i \in CellIds : i \in Int /\ i >= 0
  BY SizeAssumption DEF CellIds
<1>8. \A i \in CellIds : /\ cells[i] \in Cell
                         /\ cells[i].pos >= 0 <=> i \in used
                         /\ cells[i].seqs # {} <=> i \in used
  <2>1. ASSUME NEW i \in used
        PROVE  cells[i] \in Cell /\ cells[i].pos >= 0 /\ cells[i].seqs # {}
    <3>1. i \in Int /\ i >= 0 /\ cells[i] = CellOf(i, {0}, i, i, 0)
      BY <1>4, <1>7
    <3>2. CellOf(i, {0}, i, i, 0) \in Cell
      BY <3>1 DEF CellOf, Cell
    <3> QED
      BY <3>1, <3>2, CellOfFields
  <2>2. ASSUME NEW i \in CellIds \ used
        PROVE  cells[i] \in Cell /\ ~(cells[i].pos >= 0) /\ cells[i].seqs = {}
    BY <1>5 DEF Free, Cell
  <2> QED
    BY <2>1, <2>2
<1>9. cells \in [CellIds -> Cell]
  BY <1>6, <1>8
<1>10. n \in Nat
  BY CellIdsFinite
<1>11. c \in Caches(Cell)
  <2>1. head \in Int /\ n \in Int
    BY <1>10, SizeAssumption
  <2> HIDE DEF n
  <2> QED
    BY <1>3, <1>9, <2>1 DEF Caches, CacheOf
<1>12. c.cells = cells /\ c.head = head /\ c.used = n
  <2> HIDE DEF c, n
  <2> QED
    BY <1>3 DEF CacheOf
<1> HIDE DEF c
<1>13. Used(c.cells) = used
  BY <1>8, <1>12 DEF Used
<1>14. \A i \in used : c.cells[i].tok = i
  BY <1>4, <1>12, CellOfFields
<1> QED
  BY <1>8, <1>11, <1>12, <1>13, <1>14 DEF c

\* A batch of n finds a slot whenever n free cells lie in a row, wherever the used cells are and
\* the search starts, and the cells it is given are free.
LEMMA EverySearch ==
  ASSUME NEW used \in SUBSET CellIds, NEW head \in CellIds, NEW n \in Nat \ {0}
  PROVE  LET Run(h) == h + n <= Size /\ h .. h + n - 1 \subseteq CellIds \ used
             f == FindSlot(OccupiedCache(used, head), n)
         IN  /\ f.ok <=> \E h \in CellIds : Run(h)
             /\ f.ok => Run(f.head)
<1> DEFINE c == OccupiedCache(used, head)
           f == FindSlot(c, n)
           Run(h) == h + n <= Size /\ h .. h + n - 1 \subseteq CellIds \ used
<1>1. head \in 0 .. Size
  BY SizeAssumption DEF CellIds
<1>2. c.head = head /\ \A i \in CellIds : c.cells[i].pos >= 0 <=> i \in used
  BY <1>1, OccupiedIs
<1> HIDE DEF c
<1>3. Right(c, n, f)
  BY <1>1, <1>2, FindSlotRight
<1>4. \A h \in CellIds : FreeRun(c, n, h) <=> Run(h)
  <2> SUFFICES ASSUME NEW h \in CellIds, h + n <= Size
               PROVE  (\A i \in h .. h + n - 1 : ~(c.cells[i].pos >= 0))
                        <=> h .. h + n - 1 \subseteq CellIds \ used
    BY DEF FreeRun
  <2>1. \A i \in h .. h + n - 1 : i \in CellIds
    BY SizeAssumption DEF CellIds
  <2> QED
    BY <1>2, <2>1
<1> HIDE DEF f
<1> QED
  BY <1>3, <1>4 DEF Right, f, c

\* Wherever the used cells are, every hole finds its cells, no token is lost or doubled, and with
\* moves left the used cells are the first ones.
LEMMA EveryDefrag ==
  ASSUME NEW used \in SUBSET CellIds, NEW moves \in Nat
  PROVE  LET d == Defrag(OccupiedCache(used, 0), moves)
             after == Used(d.cache.cells)
         IN  /\ d.found
             /\ Cardinality(after) = Cardinality(used) /\ {d.cache.cells[i].tok : i \in after} = used
             /\ d.moves < moves => after = 0 .. Cardinality(used) - 1
<1> DEFINE c == OccupiedCache(used, 0)
           d == Defrag(c, moves)
           after == Used(d.cache.cells)
<1>1. 0 \in 0 .. Size
  BY SizeAssumption
<1>2. /\ c \in Caches(Cell) /\ c.used = Cardinality(used) /\ Used(c.cells) = used
      /\ \A i \in used : c.cells[i].tok = i
  BY <1>1, OccupiedIs
<1> HIDE DEF c
<1>3. SeenTo(Cell, c, moves, c.used, d)
  BY <1>2, FreeIsSound, DefragRight
<1>4. d.moves < moves => after = 0 .. Cardinality(used) - 1
  BY <1>2, FreeIsSound, DefragCompact
<1> HIDE DEF d
<1>5. d.found /\ SameContents(c.cells, d.cache.cells)
  BY <1>3 DEF SeenTo
<1>6. Cardinality(after) = Cardinality(used) /\ {d.cache.cells[i].tok : i \in after} = used
  BY <1>2, <1>5 DEF SameContents
<1> QED
  BY <1>4, <1>5, <1>6 DEF d, c

=============================================================================
