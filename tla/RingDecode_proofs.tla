------------------------- MODULE RingDecode_proofs -------------------------
(***************************************************************************)
(* Proofs about RingDecode, for any number of devices, windows, layers and *)
(* calls, and whether or not the devices keep their step: the changes of   *)
(* the cache and the batches reach every device in the master's order.     *)
(***************************************************************************)
EXTENDS RingDecode, KVCells_proofs, SequenceTheorems, TLAPS

Others == Ranks \ {0}

IsAnn(m)   == m.kind = "announcement"
In(m, seq) == \E j \in DOMAIN seq : seq[j] = m

\* What is sent is not restricted: S is whatever has been sent.
Typed(S) == log \in [Ranks -> Seq(S)] /\ ring \in [Ranks -> Seq(S)]

\* The master's log is numbered.
Numbered == \A k \in DOMAIN log[0] : IsAnn(log[0][k]) /\ log[0][k].id = k

\* What a device has logged, or is about to be handed, the one before it has logged.
Handed(r) ==
  /\ \A i \in DOMAIN log[r] : In(log[r][i], log[r - 1]) /\ In(log[r][i], log[0])
  /\ \A i \in DOMAIN ring[r] : IsAnn(ring[r][i]) => In(ring[r][i], log[r - 1])

\* What a device has logged comes before what it is about to be handed, each in order.
Ordered(r) ==
  /\ \A i, j \in DOMAIN log[r] : i < j => log[r][i].id < log[r][j].id
  /\ \A i, j \in DOMAIN ring[r] :
       i < j /\ IsAnn(ring[r][i]) /\ IsAnn(ring[r][j]) => ring[r][i].id < ring[r][j].id
  /\ \A i \in DOMAIN log[r], j \in DOMAIN ring[r] :
       IsAnn(ring[r][j]) => log[r][i].id < ring[r][j].id

InOrder ==
  /\ \E S : Typed(S)
  /\ Numbered
  /\ \A r \in Others : Handed(r) /\ Ordered(r)

LEMMA MoreMessages ==
  ASSUME NEW S, NEW T, NEW s \in Seq(S) PROVE s \in Seq(S \cup T)
OBVIOUS

LEMMA AppendFacts ==
  ASSUME NEW S, NEW s \in Seq(S), NEW x \in S
  PROVE  /\ Append(s, x) \in Seq(S)
         /\ Len(s) \in Nat /\ DOMAIN s = 1 .. Len(s)
         /\ Len(s) + 1 \in DOMAIN Append(s, x) /\ Append(s, x)[Len(s) + 1] = x
         /\ \A i \in DOMAIN s : i \in DOMAIN Append(s, x) /\ Append(s, x)[i] = s[i]
         /\ \A i \in DOMAIN Append(s, x) : i \in DOMAIN s \/ i = Len(s) + 1
OBVIOUS

LEMMA TailFacts ==
  ASSUME NEW S, NEW s \in Seq(S), s # <<>>
  PROVE  /\ Tail(s) \in Seq(S) /\ Head(s) \in S /\ 1 \in DOMAIN s /\ Head(s) = s[1]
         /\ DOMAIN s \subseteq Nat \ {0} /\ DOMAIN Tail(s) \subseteq Nat \ {0}
         /\ \A i \in DOMAIN Tail(s) : i + 1 \in DOMAIN s /\ Tail(s)[i] = s[i + 1]
OBVIOUS

LEMMA ConcatFacts ==
  ASSUME NEW S, NEW s \in Seq(S), NEW t \in Seq(S)
  PROVE  /\ s \o t \in Seq(S)
         /\ Len(s) \in Nat /\ DOMAIN s = 1 .. Len(s) /\ Len(t) \in Nat /\ DOMAIN t = 1 .. Len(t)
         /\ \A i \in DOMAIN s : i \in DOMAIN (s \o t) /\ (s \o t)[i] = s[i]
         /\ \A i \in DOMAIN t : Len(s) + i \in DOMAIN (s \o t) /\ (s \o t)[Len(s) + i] = t[i]
         /\ \A i \in DOMAIN (s \o t) : i \in DOMAIN s \/ \E j \in DOMAIN t : i = Len(s) + j
<1>1. s \o t \in Seq(S) /\ Len(s \o t) = Len(s) + Len(t) /\ Len(s) \in Nat /\ Len(t) \in Nat
  OBVIOUS
<1>2. /\ DOMAIN s = 1 .. Len(s) /\ DOMAIN t = 1 .. Len(t)
      /\ DOMAIN (s \o t) = 1 .. Len(s) + Len(t)
  BY <1>1
<1>3. /\ \A i \in 1 .. Len(s) : (s \o t)[i] = s[i]
      /\ \A i \in 1 .. Len(t) : (s \o t)[Len(s) + i] = t[i]
  BY <1>1
<1>4. ASSUME NEW i \in DOMAIN (s \o t), i \notin DOMAIN s PROVE \E j \in DOMAIN t : i = Len(s) + j
  <2>1. i - Len(s) \in DOMAIN t /\ i = Len(s) + (i - Len(s))
    BY <1>1, <1>2, <1>4
  <2>. QED
    BY <2>1
<1>. QED
  BY <1>1, <1>2, <1>3, <1>4

LEMMA RankFacts ==
  /\ 0 \in Ranks /\ 1 \in Others
  /\ \A r \in Others : r \in Nat /\ r - 1 \in Ranks /\ r - 1 # r
  /\ \A r \in Others : NextRank(r) \in Ranks /\ NextRank(r) # r
  /\ \A r \in Others : NextRank(r) = 0 \/ NextRank(r) = r + 1
BY RingAssumption DEF Ranks, Others, NextRank

\* The ids that a device has logged are numbers: they are places in the master's log.
LEMMA IdsAreNumbers ==
  ASSUME InOrder PROVE \A r \in Ranks : \A i \in DOMAIN log[r] : IsAnn(log[r][i]) /\ log[r][i].id \in Nat
<1>1. PICK S : Typed(S)
  BY DEF InOrder
<1>2. \A k \in DOMAIN log[0] : k \in Nat
  BY <1>1, RankFacts DEF Typed
<1>. QED
  BY <1>2 DEF InOrder, Numbered, Handed, In, Others

-----------------------------------------------------------------------------
(* What can happen to the messages                                         *)

\* A queue has lost nothing, or its head, and has got tensors only.
Drained(old, new) ==
  \E d \in {0, 1} : \A i \in DOMAIN new :
    IsAnn(new[i]) => i + d \in DOMAIN old /\ new[i] = old[i + d]

LEMMA OnlyTensors ==
  ASSUME InOrder, \E S : Typed(S)', log' = log, \A r \in Others : Drained(ring[r], ring'[r])
  PROVE  InOrder'
<1> SUFFICES ASSUME NEW r \in Others PROVE Handed(r)' /\ Ordered(r)'
  BY DEF InOrder, Numbered
<1>1. PICK d \in {0, 1} : \A i \in DOMAIN ring'[r] :
        IsAnn(ring'[r][i]) => i + d \in DOMAIN ring[r] /\ ring'[r][i] = ring[r][i + d]
  BY DEF Drained
<1>2. PICK S : Typed(S)'
  OBVIOUS
<1>3. DOMAIN ring'[r] \subseteq Nat
  BY <1>2 DEF Typed, Others
<1>. QED
  BY <1>1, <1>3 DEF InOrder, Handed, Ordered

\* Device r takes the first message, logs it if it is an announcement, and may hand it on.
LEMMA OneTaken ==
  ASSUME InOrder, NEW r \in Others, ring[r] # <<>>, NEW on \in BOOLEAN,
         log' = [log EXCEPT ![r] = Logged(@, Head(ring[r]))],
         ring' = [ring EXCEPT ![r] = Tail(@),
                              ![NextRank(r)] = IF on THEN Append(@, Head(ring[r])) ELSE @]
  PROVE  InOrder'
<1> DEFINE m == Head(ring[r])
           q == NextRank(r)
<1>1. PICK S : Typed(S)
  BY DEF InOrder
<1>2. /\ r \in Ranks /\ ring[r] \in Seq(S) /\ log[r] \in Seq(S) /\ m \in S /\ m = ring[r][1]
      /\ 1 \in DOMAIN ring[r]
  BY <1>1 DEF Typed, Others
<1>3. /\ \A p \in Ranks \ {r} : log'[p] = log[p]
      /\ log'[r] = IF IsAnn(m) THEN Append(log[r], m) ELSE log[r]
      /\ \A p \in Ranks \ {r, q} : ring'[p] = ring[p]
      /\ ring'[r] = Tail(ring[r])
      /\ ring'[q] = IF on THEN Append(ring[q], m) ELSE ring[q]
  BY <1>1, <1>2, RankFacts DEF Typed, Logged, IsAnn
<1>4. Typed(S)'
  <2>1. Tail(ring[r]) \in Seq(S)
    BY <1>2, TailFacts
  <2>2. \A s \in Seq(S) : Append(s, m) \in Seq(S)
    BY <1>2, AppendFacts
  <2>. QED
    BY <1>1, <1>2, <2>1, <2>2, RankFacts DEF Typed, Logged
<1>5. \A i \in DOMAIN log'[r] :
        \/ i \in DOMAIN log[r] /\ log'[r][i] = log[r][i]
        \/ i = Len(log[r]) + 1 /\ IsAnn(m) /\ log'[r][i] = m
  <2>1. CASE IsAnn(m)
    <3>1. log'[r] = Append(log[r], m)
      BY <2>1, <1>3
    <3>. QED
      BY <2>1, <3>1, <1>2, AppendFacts
  <2>2. CASE ~IsAnn(m)
    BY <2>2, <1>3
  <2>. QED
    BY <2>1, <2>2
<1>6. \A i \in DOMAIN log[r] : i \in DOMAIN log'[r] /\ log'[r][i] = log[r][i]
  <2>1. CASE IsAnn(m)
    <3>1. log'[r] = Append(log[r], m)
      BY <2>1, <1>3
    <3>. QED
      BY <3>1, <1>2, AppendFacts
  <2>2. CASE ~IsAnn(m)
    BY <2>2, <1>3
  <2>. QED
    BY <2>1, <2>2
<1>7. /\ DOMAIN ring[r] \subseteq Nat \ {0} /\ DOMAIN ring'[r] \subseteq Nat \ {0}
      /\ \A i \in DOMAIN ring'[r] : i + 1 \in DOMAIN ring[r] /\ ring'[r][i] = ring[r][i + 1]
  <2>1. ring[r] # <<>> /\ ring[r] \in Seq(S) /\ ring'[r] = Tail(ring[r])
    BY <1>2, <1>3
  <2>. QED
    <3>1. /\ DOMAIN ring[r] \subseteq Nat \ {0} /\ DOMAIN Tail(ring[r]) \subseteq Nat \ {0}
          /\ \A i \in DOMAIN Tail(ring[r]) :
               i + 1 \in DOMAIN ring[r] /\ Tail(ring[r])[i] = ring[r][i + 1]
      BY <2>1, TailFacts
    <3>. QED
      BY <2>1, <3>1
<1>8. IsAnn(m) => In(m, log'[r]) /\ In(m, log[r - 1]) /\ In(m, log[0])
  <2>1. ASSUME IsAnn(m) PROVE In(m, log[r - 1])
    BY <2>1, <1>2 DEF InOrder, Handed
  <2>2. ASSUME IsAnn(m) PROVE In(m, log[0])
    <3>1. CASE r = 1
      BY <2>1, <2>2, <3>1
    <3>2. CASE r # 1
      <4>1. r - 1 \in Others
        BY <3>2, RankFacts DEF Others
      <4>. QED
        BY <4>1, <2>1, <2>2 DEF InOrder, Handed, In
    <3>. QED
      BY <3>1, <3>2
  <2>3. ASSUME IsAnn(m) PROVE In(m, log'[r])
    <3>1. Len(log[r]) + 1 \in DOMAIN log'[r] /\ log'[r][Len(log[r]) + 1] = m
      BY <2>3, <1>2, <1>3, AppendFacts
    <3>. QED
      BY <3>1 DEF In
  <2>. QED
    BY <2>1, <2>2, <2>3
<1>9. \A p \in Ranks : \A x : In(x, log[p]) => In(x, log'[p])
  BY <1>3, <1>6 DEF In
<1>10. Numbered'
  BY <1>3, RankFacts DEF InOrder, Numbered, Others
<1>11. Handed(r)'
  <2>1. log'[0] = log[0] /\ log'[r - 1] = log[r - 1]
    BY <1>3, RankFacts DEF Others
  <2>. QED
    BY <2>1, <1>5, <1>7, <1>8 DEF InOrder, Handed
<1>12. Ordered(r)'
  <2>1. \A i \in DOMAIN log[r] : IsAnn(m) => log[r][i].id < m.id
    BY <1>2 DEF InOrder, Ordered
  <2>2. \A i \in DOMAIN ring[r] : IsAnn(m) /\ i > 1 /\ IsAnn(ring[r][i]) => m.id < ring[r][i].id
    BY <1>2 DEF InOrder, Ordered
  <2>3. /\ DOMAIN log[r] = 1 .. Len(log[r]) /\ Len(log[r]) \in Nat
        /\ \A i \in DOMAIN ring'[r] : i \in Nat /\ i + 1 > 1
    <3>1. DOMAIN log[r] = 1 .. Len(log[r]) /\ Len(log[r]) \in Nat
      BY <1>2
    <3>2. \A i \in Nat \ {0} : i \in Nat /\ i + 1 > 1
      OBVIOUS
    <3>. QED
      BY <1>7, <3>1, <3>2
  <2>4. \A i, j \in DOMAIN log'[r] : i < j => log'[r][i].id < log'[r][j].id
    BY <1>5, <2>1, <2>3 DEF InOrder, Ordered
  <2>5. \A i, j \in DOMAIN ring'[r] :
          i < j /\ IsAnn(ring'[r][i]) /\ IsAnn(ring'[r][j]) => ring'[r][i].id < ring'[r][j].id
    <3> SUFFICES ASSUME NEW i \in DOMAIN ring'[r], NEW j \in DOMAIN ring'[r], i < j,
                        IsAnn(ring'[r][i]), IsAnn(ring'[r][j])
                 PROVE  ring'[r][i].id < ring'[r][j].id
      OBVIOUS
    <3>1. i \in Nat /\ j \in Nat
      BY <2>3
    <3>2. i + 1 < j + 1
      BY <3>1
    <3>. QED
      BY <3>2, <1>7 DEF InOrder, Ordered
  <2>6. \A i \in DOMAIN log'[r], j \in DOMAIN ring'[r] :
          IsAnn(ring'[r][j]) => log'[r][i].id < ring'[r][j].id
    <3> SUFFICES ASSUME NEW i \in DOMAIN log'[r], NEW j \in DOMAIN ring'[r], IsAnn(ring'[r][j])
                 PROVE  log'[r][i].id < ring'[r][j].id
      OBVIOUS
    <3>1. j + 1 \in DOMAIN ring[r] /\ j + 1 > 1 /\ ring'[r][j] = ring[r][j + 1]
      BY <1>7, <2>3
    <3>2. i \in DOMAIN log[r] => log[r][i].id < ring[r][j + 1].id
      BY <3>1 DEF InOrder, Ordered
    <3>. QED
      BY <1>5, <2>2, <3>1, <3>2
  <2>. QED
    BY <2>4, <2>5, <2>6 DEF Ordered
<1>13. ASSUME NEW p \in Others, p # r, p # q PROVE Handed(p)' /\ Ordered(p)'
  <2>1. log'[p] = log[p] /\ ring'[p] = ring[p]
    BY <1>3, <1>13 DEF Others
  <2>2. p - 1 \in Ranks /\ 0 \in Ranks
    BY RankFacts
  <2>. QED
    BY <2>1, <2>2, <1>9 DEF InOrder, Handed, Ordered
<1>14. ASSUME q \in Others PROVE Handed(q)' /\ Ordered(q)'
  <2>1. q - 1 = r /\ q # r /\ q \in Ranks
    <3>1. q # 0
      BY <1>14 DEF Others
    <3>. QED
      BY <3>1, RankFacts
  <2>2. log'[q] = log[q] /\ ring[q] \in Seq(S) /\ log[q] \in Seq(S)
    BY <1>1, <1>3, <2>1 DEF Typed
  <2>3. \A i \in DOMAIN ring'[q] :
          \/ i \in DOMAIN ring[q] /\ ring'[q][i] = ring[q][i]
          \/ i = Len(ring[q]) + 1 /\ ring'[q][i] = m
    <3>1. CASE on
      <4>1. ring'[q] = Append(ring[q], m)
        BY <3>1, <1>3
      <4>. QED
        <5>1. \A i \in DOMAIN Append(ring[q], m) :
                \/ i \in DOMAIN ring[q] /\ Append(ring[q], m)[i] = ring[q][i]
                \/ i = Len(ring[q]) + 1 /\ Append(ring[q], m)[i] = m
          BY <1>2, <2>2, AppendFacts
        <5>. QED
          BY <4>1, <5>1
    <3>2. CASE ~on
      BY <3>2, <1>3
    <3>. QED
      BY <3>1, <3>2
  <2>4. Handed(q)'
    BY <2>1, <2>2, <2>3, <1>8, <1>9, <1>14, RankFacts DEF InOrder, Handed
  <2>5. \A x : IsAnn(m) /\ In(x, log[r]) => x.id < m.id
    BY <1>2 DEF InOrder, Ordered, In
  <2>6. /\ \A i \in DOMAIN ring[q] : IsAnn(m) /\ IsAnn(ring[q][i]) => ring[q][i].id < m.id
        /\ \A i \in DOMAIN log[q] : IsAnn(m) => log[q][i].id < m.id
    BY <2>1, <2>5, <1>14 DEF InOrder, Handed
  <2>7. DOMAIN ring[q] = 1 .. Len(ring[q]) /\ Len(ring[q]) \in Nat
    BY <2>2
  <2>8. Ordered(q)'
    <3>1. \A i, j \in DOMAIN ring'[q] :
            i < j /\ IsAnn(ring'[q][i]) /\ IsAnn(ring'[q][j]) => ring'[q][i].id < ring'[q][j].id
      <4> SUFFICES ASSUME NEW i \in DOMAIN ring'[q], NEW j \in DOMAIN ring'[q], i < j,
                          IsAnn(ring'[q][i]), IsAnn(ring'[q][j])
                   PROVE  ring'[q][i].id < ring'[q][j].id
        OBVIOUS
      <4>1. i \in DOMAIN ring[q] /\ ring'[q][i] = ring[q][i]
        <5>1. \/ i # Len(ring[q]) + 1
              \/ j \notin DOMAIN ring[q] /\ j # Len(ring[q]) + 1
          BY <2>7
        <5>. QED
          BY <5>1, <2>3
      <4>2. CASE j \in DOMAIN ring[q] /\ ring'[q][j] = ring[q][j]
        BY <4>1, <4>2, <1>14 DEF InOrder, Ordered
      <4>3. CASE ring'[q][j] = m
        BY <4>1, <4>3, <2>6
      <4>. QED
        BY <4>2, <4>3, <2>3
    <3>2. \A i \in DOMAIN log[q], j \in DOMAIN ring'[q] :
            IsAnn(ring'[q][j]) => log[q][i].id < ring'[q][j].id
      BY <2>3, <2>6, <1>14 DEF InOrder, Ordered
    <3>. QED
      BY <2>2, <3>1, <3>2, <1>14 DEF InOrder, Ordered
  <2>. QED
    BY <2>4, <2>8
<1>. QED
  BY <1>4, <1>10, <1>11, <1>12, <1>13, <1>14 DEF InOrder

-----------------------------------------------------------------------------
(* The actions                                                             *)

\* The master's announcements, behind which the tensors of a physical batch may go.
LEMMA CallInOrder ==
  ASSUME InOrder, NEW C, NEW cs \in Seq(C), Call(cs)
  PROVE  InOrder'
<1> DEFINE n == Len(log[0])
           sent == Announcements(n, cs)
           emb == Embedded(NextUbatch(0, TookAll(dev[0], cs)), n + Len(cs))
           new == sent \o emb
<1>1. PICK S : Typed(S)
  BY DEF InOrder
<1> DEFINE U == {sent[k] : k \in DOMAIN cs} \cup {emb[k] : k \in DOMAIN emb}
           T == S \cup U
<1>2. /\ n \in Nat /\ log[0] \in Seq(S) /\ ring[1] \in Seq(S) /\ Len(cs) \in Nat
      /\ DOMAIN log[0] = 1 .. n /\ DOMAIN cs = 1 .. Len(cs)
  BY <1>1, RankFacts DEF Typed, Others
<1>3. /\ sent = [k \in 1 .. Len(cs) |-> Announced(n + k, cs[k])]
      /\ \A k \in 1 .. Len(cs) : IsAnn(sent[k]) /\ sent[k].id = n + k
  BY <1>2 DEF Announcements, Announced, IsAnn
<1>4. emb = <<>> \/ \E m : emb = <<m>> /\ ~IsAnn(m)
  BY DEF Embedded, Tensors, IsAnn
<1>7. /\ log' = [log EXCEPT ![0] = @ \o sent]
      /\ ring' = [ring EXCEPT ![1] = @ \o new]
  BY DEF Call, Announcements
<1> HIDE DEF sent, emb
<1>5. /\ sent \in Seq(T) /\ Len(sent) = Len(cs) /\ DOMAIN sent = DOMAIN cs
      /\ emb \in Seq(T) /\ \A i \in DOMAIN emb : ~IsAnn(emb[i])
  <2>1. sent \in Seq(U)
    BY <1>2, <1>3
  <2>2. emb \in Seq(U) /\ \A i \in DOMAIN emb : ~IsAnn(emb[i])
    <3>1. CASE emb = <<>>
      BY <3>1
    <3>2. ASSUME NEW m, emb = <<m>>, ~IsAnn(m) PROVE emb \in Seq(U) /\ \A i \in DOMAIN emb : ~IsAnn(emb[i])
      <4>1. DOMAIN emb = {1} /\ emb[1] = m
        BY <3>2
      <4>2. m \in U
        BY <4>1
      <4>. QED
        BY <4>1, <4>2, <3>2
    <3>. QED
      BY <1>4, <3>1, <3>2
  <2>3. sent \in Seq(S \cup U) /\ emb \in Seq(S \cup U)
    BY <2>1, <2>2
  <2>4. Len(sent) = Len(cs) /\ DOMAIN sent = DOMAIN cs
    BY <1>2, <1>3
  <2>. QED
    BY <2>2, <2>3, <2>4
<1>6. /\ new \in Seq(T)
      /\ \A i \in DOMAIN new : i \in Nat
      /\ \A i \in DOMAIN new : IsAnn(new[i]) => i \in 1 .. Len(cs) /\ new[i] = sent[i]
  <2>1. new \in Seq(T) /\ \A i \in DOMAIN new : i \in Nat
    BY <1>5, ConcatFacts
  <2>2. ASSUME NEW i \in DOMAIN new, IsAnn(new[i]) PROVE i \in DOMAIN sent
    BY <2>2, <1>5, ConcatFacts
  <2>. QED
    BY <2>1, <2>2, <1>2, <1>5, ConcatFacts
<1>8. log[0] \in Seq(T) /\ ring[1] \in Seq(T)
  BY <1>2
<1> HIDE DEF new, U
<1>9. /\ \A r \in Others : log'[r] = log[r]
      /\ \A r \in Others : r # 1 => ring'[r] = ring[r] /\ log'[r - 1] = log[r - 1]
      /\ log'[0] = log[0] \o sent /\ ring'[1] = ring[1] \o new
  BY <1>1, <1>7, RankFacts DEF Typed, Others
<1>10. \E V : Typed(V)'
  <2>1. log[0] \o sent \in Seq(T) /\ ring[1] \o new \in Seq(T)
    BY <1>5, <1>6, <1>8, ConcatFacts
  <2>2. \A s \in Seq(S) : s \in Seq(T)
    OBVIOUS
  <2>3. \A r \in Ranks : log[r] \in Seq(T) /\ ring[r] \in Seq(T)
    BY <1>1, <2>2 DEF Typed
  <2>4. DOMAIN log = Ranks /\ DOMAIN ring = Ranks
    BY <1>1 DEF Typed
  <2> HIDE DEF T
  <2>5. log \in [Ranks -> Seq(T)] /\ ring \in [Ranks -> Seq(T)]
    BY <1>1, <2>3, <2>4 DEF Typed
  <2>. QED
    <3>1. log' \in [Ranks -> Seq(T)] /\ ring' \in [Ranks -> Seq(T)]
      <4>1. log' \in [Ranks -> Seq(T)]
        BY <1>7, <2>1, <2>5
      <4>2. ring' \in [Ranks -> Seq(T)]
        BY <1>7, <2>1, <2>5
      <4>. QED
        BY <4>1, <4>2
    <3>2. \E V : log' \in [Ranks -> Seq(V)] /\ ring' \in [Ranks -> Seq(V)]
      BY <3>1
    <3>. QED
      BY <3>2 DEF Typed
<1>11. /\ \A i \in DOMAIN log[0] : i \in DOMAIN log'[0] /\ log'[0][i] = log[0][i]
       /\ \A k \in 1 .. Len(cs) : n + k \in DOMAIN log'[0] /\ log'[0][n + k] = sent[k]
       /\ \A x : In(x, log[0]) => In(x, log'[0])
       /\ \A k \in 1 .. Len(cs) : In(sent[k], log'[0])
  <2>1. \A i \in DOMAIN log[0] : i \in DOMAIN log'[0] /\ log'[0][i] = log[0][i]
    BY <1>5, <1>8, <1>9, ConcatFacts
  <2>2. \A k \in 1 .. Len(cs) : n + k \in DOMAIN log'[0] /\ log'[0][n + k] = sent[k]
    <3>1. \A k \in DOMAIN sent : /\ n + k \in DOMAIN (log[0] \o sent)
                                 /\ (log[0] \o sent)[n + k] = sent[k]
      BY <1>5, <1>8, ConcatFacts
    <3>. QED
      BY <3>1, <1>2, <1>5, <1>9
  <2>. QED
    BY <2>1, <2>2 DEF In
<1>12. Numbered'
  <2>3. \A i \in DOMAIN log'[0] : i \in DOMAIN log[0] \/ \E j \in 1 .. Len(cs) : i = n + j
    <3>1. \A i \in DOMAIN (log[0] \o sent) :
            i \in DOMAIN log[0] \/ \E j \in DOMAIN sent : i = n + j
      BY <1>5, <1>8, ConcatFacts
    <3>. QED
      BY <3>1, <1>2, <1>5, <1>9
  <2>. QED
    BY <1>11, <2>3, <1>3 DEF InOrder, Numbered
<1>13. ASSUME NEW r \in Others, r # 1 PROVE Handed(r)' /\ Ordered(r)'
  BY <1>9, <1>11, <1>13 DEF InOrder, Handed, Ordered
<1>14. \A i \in DOMAIN ring'[1] :
         \/ i \in DOMAIN ring[1] /\ ring'[1][i] = ring[1][i]
         \/ \E j \in DOMAIN new : i = Len(ring[1]) + j /\ ring'[1][i] = new[j]
  BY <1>6, <1>8, <1>9, ConcatFacts, SMTT(20)
<1>15. Handed(1)'
  <2>1. 1 \in Others /\ log'[1] = log[1]
    BY <1>9, RankFacts
  <2>2. \A i \in DOMAIN ring'[1] : IsAnn(ring'[1][i]) => In(ring'[1][i], log'[0])
    BY <2>1, <1>6, <1>11, <1>14, SMTT(20) DEF InOrder, Handed
  <2>. QED
    BY <2>1, <2>2, <1>11 DEF InOrder, Handed
<1>16. Ordered(1)'
  <2>1. 1 \in Others /\ log'[1] = log[1]
    BY <1>9, RankFacts
  <2>2. \A x : In(x, log[0]) => x.id \in 1 .. n
    BY <1>2 DEF InOrder, Numbered, In
  <2>3. /\ \A i \in DOMAIN log[1] : log[1][i].id \in 1 .. n
        /\ \A i \in DOMAIN ring[1] : IsAnn(ring[1][i]) => ring[1][i].id \in 1 .. n
    BY <2>1, <2>2 DEF InOrder, Handed
  <2>4. ASSUME NEW i \in DOMAIN ring'[1], IsAnn(ring'[1][i])
        PROVE  \/ /\ i \in DOMAIN ring[1] /\ ring'[1][i] = ring[1][i]
                  /\ ring'[1][i].id \in 1 .. n
               \/ \E k \in 1 .. Len(cs) : i = Len(ring[1]) + k /\ ring'[1][i].id = n + k
    <3>1. CASE i \in DOMAIN ring[1] /\ ring'[1][i] = ring[1][i]
      BY <3>1, <2>3, <2>4
    <3>2. ASSUME NEW j \in DOMAIN new, i = Len(ring[1]) + j, ring'[1][i] = new[j]
          PROVE  \E k \in 1 .. Len(cs) : i = Len(ring[1]) + k /\ ring'[1][i].id = n + k
      <4>1. j \in 1 .. Len(cs) /\ new[j] = sent[j]
        BY <3>2, <2>4, <1>6
      <4>. QED
        BY <4>1, <3>2, <1>3
    <3>. QED
      BY <3>1, <3>2, <1>14
  <2>5. DOMAIN ring[1] = 1 .. Len(ring[1]) /\ Len(ring[1]) \in Nat
    BY <1>2
  <2>6. ASSUME NEW i \in DOMAIN ring'[1], NEW j \in DOMAIN ring'[1], i < j,
               IsAnn(ring'[1][i]), IsAnn(ring'[1][j])
        PROVE  ring'[1][i].id < ring'[1][j].id
    <3>1. CASE /\ i \in DOMAIN ring[1] /\ ring'[1][i] = ring[1][i]
               /\ j \in DOMAIN ring[1] /\ ring'[1][j] = ring[1][j]
      BY <3>1, <2>1, <2>6 DEF InOrder, Ordered
    <3>2. CASE j \notin DOMAIN ring[1]
      <4>1. PICK k \in 1 .. Len(cs) : j = Len(ring[1]) + k /\ ring'[1][j].id = n + k
        BY <3>2, <2>4, <2>6
      <4>2. \/ ring'[1][i].id \in 1 .. n
            \/ \E l \in 1 .. Len(cs) : i = Len(ring[1]) + l /\ ring'[1][i].id = n + l
        BY <2>4, <2>6
      <4>. QED
        BY <4>1, <4>2, <2>5, <2>6, <1>2
    <3>3. CASE i \notin DOMAIN ring[1] /\ j \in DOMAIN ring[1]
      <4>1. PICK l \in 1 .. Len(cs) : i = Len(ring[1]) + l
        BY <3>3, <2>4, <2>6
      <4>. QED
        BY <4>1, <3>3, <2>5, <2>6, <1>2
    <3>4. \A k \in DOMAIN ring[1] : k \in DOMAIN ring'[1] => ring'[1][k] = ring[1][k]
      BY <1>6, <1>8, <1>9, ConcatFacts
    <3>. QED
      BY <3>1, <3>2, <3>3, <3>4
  <2>7. ASSUME NEW i \in DOMAIN log[1], NEW j \in DOMAIN ring'[1], IsAnn(ring'[1][j])
        PROVE  log[1][i].id < ring'[1][j].id
    <3>1. CASE j \in DOMAIN ring[1] /\ ring'[1][j] = ring[1][j]
      BY <3>1, <2>1, <2>7 DEF InOrder, Ordered
    <3>2. CASE \E k \in 1 .. Len(cs) : ring'[1][j].id = n + k
      BY <3>2, <2>3, <1>2
    <3>. QED
      BY <3>1, <3>2, <2>4, <2>7
  <2>. QED
    BY <2>1, <2>6, <2>7 DEF InOrder, Ordered
<1>. QED
  BY <1>10, <1>12, <1>13, <1>15, <1>16 DEF InOrder

LEMMA DrainedFacts ==
  ASSUME NEW S, NEW s \in Seq(S)
  PROVE  /\ Drained(s, s)
         /\ s # <<>> => Drained(s, Tail(s))
         /\ \A m : ~IsAnn(m) => Drained(s, Append(s, m))
         /\ \A m : ~IsAnn(m) => Drained(s, s \o <<m>>)
<1>1. Drained(s, s)
  <2>1. \A i \in DOMAIN s : i + 0 \in DOMAIN s /\ s[i] = s[i + 0]
    OBVIOUS
  <2>. QED
    BY <2>1 DEF Drained
<1>2. ASSUME s # <<>> PROVE Drained(s, Tail(s))
  BY <1>2, TailFacts DEF Drained
<1>3. ASSUME NEW m, ~IsAnn(m) PROVE Drained(s, Append(s, m)) /\ Drained(s, s \o <<m>>)
  <2>1. s \in Seq(S \cup {m}) /\ m \in S \cup {m}
    OBVIOUS
  <2>2. /\ \A i \in DOMAIN Append(s, m) : i \in DOMAIN s \/ i = Len(s) + 1
        /\ \A i \in DOMAIN s : Append(s, m)[i] = s[i]
        /\ Append(s, m)[Len(s) + 1] = m /\ \A i \in DOMAIN s : i + 0 = i
    BY <2>1, AppendFacts
  <2>3. s \o <<m>> = Append(s, m)
    OBVIOUS
  <2>. QED
    BY <1>3, <2>2, <2>3 DEF Drained
<1>. QED
  BY <1>1, <1>2, <1>3

\* Tensors go from one queue to another: nothing else happens to the queues.
Moves(m) ==
  /\ ring' = [r \in Ranks |-> ring'[r]]
  /\ \A r \in Ranks :
       \/ ring'[r] = ring[r]
       \/ ring[r] # <<>> /\ ring'[r] = Tail(ring[r])
       \/ ring'[r] = Append(ring[r], m)

LEMMA TensorsMove ==
  ASSUME InOrder, log' = log, NEW m, ~IsAnn(m), Moves(m) PROVE InOrder'
<1>1. PICK S : Typed(S)
  BY DEF InOrder
<1>2. \A r \in Ranks : ring[r] \in Seq(S) /\ ring'[r] \in Seq(S \cup {m})
  <2> SUFFICES ASSUME NEW r \in Ranks
               PROVE  ring[r] \in Seq(S) /\ ring'[r] \in Seq(S \cup {m})
    OBVIOUS
  <2>1. ring[r] \in Seq(S) /\ ring[r] \in Seq(S \cup {m}) /\ m \in S \cup {m}
    BY <1>1 DEF Typed
  <2>2. Append(ring[r], m) \in Seq(S \cup {m})
    BY <2>1, AppendFacts
  <2>3. ring[r] # <<>> => Tail(ring[r]) \in Seq(S \cup {m})
    BY <2>1, TailFacts
  <2>. QED
    BY <2>1, <2>2, <2>3 DEF Moves
<1>3. Typed(S \cup {m})'
  <2>1. \A s \in Seq(S) : s \in Seq(S \cup {m})
    OBVIOUS
  <2>2. \A r \in Ranks : log[r] \in Seq(S \cup {m})
    BY <1>1, <2>1 DEF Typed
  <2>3. log = [r \in Ranks |-> log[r]]
    BY <1>1 DEF Typed
  <2>. QED
    BY <1>2, <2>2, <2>3 DEF Typed, Moves
<1>4. \A r \in Ranks : Drained(ring[r], ring'[r])
  BY <1>2, DrainedFacts DEF Moves
<1>. QED
  BY <1>3, <1>4, OnlyTensors DEF Others

LEMMA UnchangedInOrder ==
  ASSUME InOrder, log' = log, ring' = ring PROVE InOrder'
BY DEF InOrder, Typed, Numbered, Handed, Ordered

LEMMA NotAnnouncements ==
  /\ \A id, left, upto : ~IsAnn(Tensors(id, left, upto))
  /\ \A g, m : ~IsAnn(Through(g, m))
  /\ \A d, id : Embedded(d, id) = <<>> \/ \E m : ~IsAnn(m) /\ Embedded(d, id) = <<m>>
<1>1. \A id, left, upto : ~IsAnn(Tensors(id, left, upto))
  BY DEF IsAnn, Tensors
<1>. QED
  BY <1>1 DEF Through, Embedded

LEMMA OutputInOrder == ASSUME InOrder, Output PROVE InOrder'
<1> DEFINE emb == Embedded(NextUbatch(0, dev[0]), Len(log[0]))
<1>1. PICK S : Typed(S)
  BY DEF InOrder
<1>2. 0 \in Ranks /\ 1 \in Ranks /\ ring[1] \in Seq(S) /\ ring[0] \in Seq(S)
  BY <1>1, RankFacts DEF Typed, Others
<1>3. PICK m : ~IsAnn(m) /\ ring[1] \o emb \in {ring[1], Append(ring[1], m)}
  <2>1. CASE emb = <<>>
    <3>1. ring[1] \o <<>> = ring[1]
      BY <1>2, ConcatEmptySeq
    <3>. QED
      BY <2>1, <3>1, NotAnnouncements
  <2>2. ASSUME NEW m, ~IsAnn(m), emb = <<m>>
        PROVE  ring[1] \o emb = Append(ring[1], m)
    <3>1. ring[1] \in Seq(S \cup {m}) /\ m \in S \cup {m}
      BY <1>2
    <3>2. Append(ring[1], m) = ring[1] \o <<m>>
      BY <3>1, AppendIsConcat
    <3>. QED
      BY <2>2, <3>2
  <2>. QED
    BY <2>1, <2>2, NotAnnouncements
<1>4. \/ ring' = [ring EXCEPT ![1] = @ \o emb]
      \/ ring[0] # <<>> /\ ring' = [ring EXCEPT ![0] = Tail(@), ![1] = @ \o emb]
  BY DEF Output
<1> HIDE DEF emb
<1>5. Moves(m)
  <2>1. DOMAIN ring = Ranks
    BY <1>1 DEF Typed
  <2>2. ring' = [r \in Ranks |-> ring'[r]]
    BY <1>4, <2>1
  <2>3. /\ \A r \in Ranks \ {0, 1} : ring'[r] = ring[r]
        /\ ring'[1] = ring[1] \o emb
        /\ \/ ring'[0] = ring[0]
           \/ ring[0] # <<>> /\ ring'[0] = Tail(ring[0])
    BY <1>2, <1>4, <2>1
  <2>4. ring'[1] = ring[1] \/ ring'[1] = Append(ring[1], m)
    BY <1>3, <2>3
  <2> SUFFICES ASSUME NEW x \in Ranks
               PROVE  \/ ring'[x] = ring[x]
                      \/ ring[x] # <<>> /\ ring'[x] = Tail(ring[x])
                      \/ ring'[x] = Append(ring[x], m)
    BY <2>2 DEF Moves
  <2>. QED
    BY <2>3, <2>4
<1>6. log' = log
  BY DEF Output
<1>. QED
  BY <1>3, <1>5, <1>6, TensorsMove

LEMMA ComputeInOrder ==
  ASSUME InOrder, ComputeMaster \/ \E r \in Others : ComputeWorker(r) PROVE InOrder'
<1>1. PICK S : Typed(S)
  BY DEF InOrder
<1>2. 0 \in Ranks /\ 1 \in Ranks /\ log' = log
  BY RankFacts DEF Others, ComputeMaster, ComputeWorker
<1>3. \E m : ~IsAnn(m) /\ Moves(m)
  <2>1. CASE ComputeMaster
    <3> DEFINE out == Through(Graphs(0)[dev[0].sub], Head(ring[0]))
    <3>1. Moves(out)
      <4>1. DOMAIN ring = Ranks /\ ring[0] # <<>>
        BY <1>1, <2>1 DEF ComputeMaster, Typed
      <4>2. PICK on \in BOOLEAN :
              ring' = [ring EXCEPT ![0] = Tail(@), ![1] = IF on THEN @ ELSE Append(@, out)]
        BY <2>1 DEF ComputeMaster
      <4> HIDE DEF out
      <4>3. ring' = [r \in Ranks |-> ring'[r]]
        BY <4>1, <4>2
      <4>4. /\ \A r \in Ranks \ {0, 1} : ring'[r] = ring[r]
            /\ ring'[0] = Tail(ring[0]) /\ ring'[1] \in {ring[1], Append(ring[1], out)}
        BY <1>2, <4>1, <4>2
      <4> SUFFICES ASSUME NEW x \in Ranks
                   PROVE  \/ ring'[x] = ring[x]
                          \/ ring[x] # <<>> /\ ring'[x] = Tail(ring[x])
                          \/ ring'[x] = Append(ring[x], out)
        BY <4>3 DEF Moves
      <4>. QED
        BY <4>1, <4>4
    <3>. QED
      BY <3>1, NotAnnouncements
  <2>2. ASSUME NEW r \in Others, ComputeWorker(r) PROVE \E m : ~IsAnn(m) /\ Moves(m)
    <3> DEFINE out == Through(Graphs(r)[dev[r].sub], Head(ring[r]))
    <3>1. r \in Ranks /\ NextRank(r) \in Ranks /\ NextRank(r) # r
      BY RankFacts DEF Others
    <3>2. Moves(out)
      <4>1. DOMAIN ring = Ranks /\ ring[r] # <<>>
        BY <1>1, <2>2 DEF ComputeWorker, Typed
      <4>2. \/ ring' = [ring EXCEPT ![r] = Tail(@)]
            \/ ring' = [ring EXCEPT ![r] = Tail(@), ![NextRank(r)] = Append(@, out)]
        BY <2>2 DEF ComputeWorker
      <4> HIDE DEF out
      <4>3. ring' = [q \in Ranks |-> ring'[q]]
        BY <4>1, <4>2
      <4>4. /\ \A q \in Ranks \ {r, NextRank(r)} : ring'[q] = ring[q]
            /\ ring'[r] = Tail(ring[r])
            /\ ring'[NextRank(r)] \in {ring[NextRank(r)], Append(ring[NextRank(r)], out)}
        BY <3>1, <4>1, <4>2
      <4> SUFFICES ASSUME NEW x \in Ranks
                   PROVE  \/ ring'[x] = ring[x]
                          \/ ring[x] # <<>> /\ ring'[x] = Tail(ring[x])
                          \/ ring'[x] = Append(ring[x], out)
        BY <4>3 DEF Moves
      <4>. QED
        BY <4>1, <4>4
    <3>. QED
      BY <3>2, NotAnnouncements
  <2>. QED
    BY <2>1, <2>2
<1>. QED
  BY <1>2, <1>3, TensorsMove

LEMMA ReceiveInOrder ==
  ASSUME InOrder, NEW r \in Others, ReceiveMeta(r) \/ Forward(r) PROVE InOrder'
<1>1. PICK S : Typed(S)
  BY DEF InOrder
<1>2. CASE ReceiveMeta(r)
  <2>1. PICK on \in BOOLEAN :
          ring' = [ring EXCEPT ![r] = Tail(@),
                               ![NextRank(r)] = IF on THEN Append(@, Head(ring[r])) ELSE @]
    BY <1>2 DEF ReceiveMeta
  <2>2. ring[r] # <<>> /\ log' = [log EXCEPT ![r] = Logged(@, Head(ring[r]))]
    BY <1>2 DEF ReceiveMeta
  <2>. QED
    BY <2>1, <2>2, OneTaken
<1>3. CASE Forward(r)
  <2>1. /\ ring[r] # <<>> /\ log' = [log EXCEPT ![r] = Logged(@, Head(ring[r]))]
        /\ ring' = [ring EXCEPT ![r] = Tail(@),
                                ![NextRank(r)] = IF TRUE THEN Append(@, Head(ring[r])) ELSE @]
    BY <1>3 DEF Forward
  <2>. QED
    BY <2>1, OneTaken
<1>. QED
  BY <1>2, <1>3

LEMMA InitInOrder == Init => InOrder
<1> SUFFICES ASSUME Init PROVE InOrder
  OBVIOUS
<1>1. /\ log = [r \in Ranks |-> <<>>] /\ ring = [r \in Ranks |-> <<>>]
  BY DEF Init
<1>2. Typed({})
  BY <1>1 DEF Typed
<1>. QED
  BY <1>1, <1>2, RankFacts DEF InOrder, Numbered, Handed, Ordered, Others

LEMMA NextInOrder == InOrder /\ [Next]_vars => InOrder'
<1> SUFFICES ASSUME InOrder, [Next]_vars PROVE InOrder'
  OBVIOUS
<1>1. CASE WarmUp
  <2>1. <<Meta(2, 0)>> \in Seq({Meta(2, 0)})
    OBVIOUS
  <2>. QED
    BY <1>1, <2>1, CallInOrder DEF WarmUp
<1>2. ASSUME NEW n \in 1 .. MaxInput, Evaluate(n) PROVE InOrder'
  <2> DEFINE d == (n_past - NKeep) \div 2
             cs(p) == (IF n_past + n >= Size THEN ContextShift(d) ELSE <<>>) \o <<Meta(n, p)>>
  <2>1. PICK p : Call(cs(p))
    BY <1>2 DEF Evaluate
  <2>2. \E C : cs(p) \in Seq(C)
    <3> DEFINE C == {Rm(0, NKeep, NKeep + d), Add(0, NKeep + d, n_past, -d), Meta(n, p)}
    <3>1. ContextShift(d) \in Seq(C) /\ <<>> \in Seq(C) /\ <<Meta(n, p)>> \in Seq(C)
      BY DEF ContextShift
    <3>2. cs(p) \in Seq(C)
      BY <3>1, ConcatFacts
    <3>. QED
      BY <3>2
  <2>. QED
    BY <2>1, <2>2, CallInOrder
<1>3. ASSUME NEW n \in 1 .. MaxInput, NEW k \in 0 .. n_past, Draft(n, k) PROVE InOrder'
  <2> DEFINE C == {Rm(0, k, -1), Keep(0), Cp(0, 0, -1, -1), Meta(n, k)}
             cs == (IF calls < 2 THEN <<>> ELSE Rejected(k) \o <<Keep(0)>>) \o <<Meta(n, k)>>
  <2>1. Call(cs)
    BY <1>3 DEF Draft
  <2>2. Rejected(k) \in Seq(C) /\ <<Keep(0)>> \in Seq(C) /\ <<>> \in Seq(C) /\ <<Meta(n, k)>> \in Seq(C)
    BY DEF Rejected
  <2>3. cs \in Seq(C)
    BY <2>2, ConcatFacts
  <2>. QED
    BY <2>1, <2>3, CallInOrder
<1>4. CASE Master
  BY <1>4, OutputInOrder, ComputeInOrder DEF Master
<1>5. CASE Finish \/ Stop
  BY <1>5, UnchangedInOrder DEF Finish, Stop, StopArrives
<1>6. ASSUME NEW r \in Others, Device(r) PROVE InOrder'
  BY <1>6, ReceiveInOrder, ComputeInOrder, UnchangedInOrder DEF Device, Timeout
<1>7. CASE UNCHANGED vars
  BY <1>7, UnchangedInOrder DEF vars
<1>. QED
  BY <1>1, <1>2, <1>3, <1>4, <1>5, <1>6, <1>7 DEF Next, Others

\* For any number of devices and calls, and even when tensors and announcements are taken for one
\* another, every device applies the changes of the cache and the batches in the master's order,
\* each at most once and after the device before it (sync_meta, llama_forward_messages).
THEOREM AppliedInMasterOrder == Spec => []AppliedInOrder
<1>1. InOrder => AppliedInOrder
  <2> SUFFICES ASSUME InOrder, NEW r \in Others, NEW i \in DOMAIN log[r]
               PROVE  /\ \A j \in DOMAIN log[r] : i < j => log[r][i].id < log[r][j].id
                      /\ log[r][i].id \in DOMAIN log[0] /\ log[0][log[r][i].id] = log[r][i]
                      /\ \E j \in DOMAIN log[r - 1] : log[r - 1][j] = log[r][i]
    BY DEF AppliedInOrder, Others
  <2>1. PICK k \in DOMAIN log[0] : log[0][k] = log[r][i]
    BY DEF InOrder, Handed, In
  <2>. QED
    BY <2>1 DEF InOrder, Numbered, Handed, Ordered, In
<1>. QED
  BY <1>1, InitInOrder, NextInOrder, PTL DEF Spec

-----------------------------------------------------------------------------
(* The devices keep their step                                             *)
(*                                                                         *)
(* The argument names what is on its way: at most one physical batch, which *)
(* is at a place, has passed the layers up to one, and has all that was    *)
(* announced before it.  A device that has taken every announcement is at  *)
(* that batch, or done with it; one that has not is still before its first *)
(* layer, and every batch it has not taken was one that found no cells.    *)

\* What a device tries with a batch of n tokens from position p on: the physical batch, the cells.
UbatchSize(n)  == IF n < NUbatch THEN n ELSE NUbatch
Tokens0(n, p)  == [k \in 1 .. UbatchSize(n) |-> [tok |-> 0, pos |-> p + k - 1, seq |-> 0]]
Tried(c, n, p) == Store(Update(c, 0), Tokens0(n, p))

TookCache(cache, c) ==
  CASE c.op = "rm"   -> SeqRm(cache, c.seq, c.p0, c.p1)
    [] c.op = "add"  -> SeqAdd(cache, c.seq, c.p0, c.p1, c.delta)
    [] c.op = "keep" -> SeqKeep(cache, c.seq)
    [] c.op = "cp"   -> SeqCp(cache, c.src, c.dst, c.p0, c.p1)
    [] c.op = "meta" -> cache

\* An announcement after which a device is ready for the next, and the cache it leaves behind.
IsQuiet(cache, c) == c.op = "meta" => ~Tried(cache, c.n, c.p0).ok
After(cache, c)   == IF c.op = "meta" THEN Tried(cache, c.n, c.p0).cache ELSE TookCache(cache, c)

\* A device is a record with the fields of Idle.
Device7(pc, warm, stop, sub, left, pos, cache) ==
  [pc |-> pc, warm |-> warm, stop |-> stop, sub |-> sub, left |-> left, pos |-> pos, cache |-> cache]

IsDevice(d) == d = Device7(d.pc, d.warm, d.stop, d.sub, d.left, d.pos, d.cache)

\* Two devices that differ in their next sub-graph at most.
Alike(d, e) ==
  /\ d.pc = e.pc /\ d.warm = e.warm /\ d.stop = e.stop
  /\ d.left = e.left /\ d.pos = e.pos /\ d.cache = e.cache

\* A worker behind the last layer it has: Returned and NextUbatch.
BackPc(stop, warm)     == IF stop /\ ~warm THEN "left" ELSE "meta"
BackCache(warm, cache) == IF warm THEN Cleared(cache) ELSE cache

BackFrom(d) ==
  Device7(BackPc(d.stop, d.warm), FALSE, d.stop, d.sub, 0, d.pos, BackCache(d.warm, d.cache))

Started(d) ==
  LET t == Tried(d.cache, d.left, d.pos)
      n == UbatchSize(d.left)
  IN  Device7(IF t.ok THEN "tensors" ELSE "failed", d.warm, d.stop, 1, d.left - n, d.pos + n, t.cache)

Onward(d) ==
  IF d.left = 0 THEN BackFrom(d) ELSE IF Started(d).pc = "failed" THEN BackFrom(Started(d)) ELSE Started(d)

\* The layers of a setup s and their devices; whether some worker has rank r or a later one.
LayersOf(s)    == 0 .. s.n_layer - 1
OwnerOf(s, il) == Owner(s.window, il)
Reached(s, r)  == \E q \in Ranks : q >= r /\ s.window[q] > 0

\* A turn ends with layer u.
TurnEnds(s, u) == u = -1 \/ u = s.n_layer - 1 \/ OwnerOf(s, u) # OwnerOf(s, u + 1)

\* The next device behind a that has layers is b.
NextWorking(s, a, b) ==
  /\ b = 0 \/ a < b
  /\ \A p \in Ranks : a < p /\ (b = 0 \/ p < b) => s.window[p] = 0

\* Where the physical batch is: on its way to a rank, or to the output layer, or there.
Nowhere  == -1
ToOutput == NWorld
AtOutput == NWorld + 1

\* The batch is at the device with the next layer, or at a forwarder before it; or it has passed
\* all layers.
OnItsWay(s, at, u) ==
  IF u = s.n_layer - 1 THEN at = IF OwnerOf(s, u) = 0 THEN AtOutput ELSE ToOutput
  ELSE LET q == OwnerOf(s, u + 1)
       IN  /\ at \in Ranks
           /\ \/ at = q
              \/ /\ at # 0 /\ (q = 0 \/ at < q)
                 /\ \A p \in Ranks : at <= p /\ (q = 0 \/ p < q) => s.window[p] = 0

\* Of the sub-graphs g, the one numbered sub is the first behind layer u.
NextGraph(g, sub, u) ==
  /\ sub \in 1 .. Len(g) + 1
  /\ \A j \in 1 .. Len(g) : IF j < sub THEN g[j].last <= u ELSE g[j].first > u

\* A log is the beginning of the master's; a queue has what is in it from lo on up to hi, then t.
StartOf(l, src) == Len(l) <= Len(src) /\ \A i \in 1 .. Len(l) : l[i] = src[i]

QueueIs(q, src, lo, hi, t) ==
  /\ Len(q) = hi - lo + Len(t)
  /\ \A i \in 1 .. hi - lo : q[i] = src[lo + i]
  /\ \A i \in 1 .. Len(t) : q[hi - lo + i] = t[i]

Held(place, at, m) == IF at = place THEN <<m>> ELSE <<>>

Announcing == Len(log[0])
Batch(u)   == Tensors(Announcing, dev[0].left, u)

\* What a device could have taken by now.
HandedTo(r) == IF Reached(setup, r) THEN Len(log[r - 1]) ELSE 0

Queues(at, u) ==
  /\ \A r \in Others :
       /\ Len(log[r]) <= HandedTo(r) /\ StartOf(log[r], log[0])
       /\ QueueIs(ring[r], log[0], Len(log[r]), HandedTo(r), Held(r, at, Batch(u)))
  /\ ring[0] = Held(0, at, Batch(u)) /\ direct = Held(ToOutput, at, Batch(u))

\* The master m is decoding; the announcements of its log l that every device could be done with.
IsDecoding(m) == m.pc \in {"tensors", "output"}
DoneIn(m, l)  == IF IsDecoding(m) THEN Len(l) - 1 ELSE Len(l)

Flight(at, u) ==
  /\ u \in -1 .. n_layer - 1 /\ Announcing > 0 /\ TurnEnds(setup, u) /\ OnItsWay(setup, at, u)
  /\ dev[0].pc = "output" <=> at = AtOutput
  /\ at # AtOutput => NextGraph(Graphs(0), dev[0].sub, u)
  /\ at \in Others /\ Reached(setup, at) => Len(log[at - 1]) = Announcing
  /\ \A r \in Workers : Len(log[r]) # Announcing => u < Graphs(r)[1].first

\* A worker that waits with this cache, k announcements taken, will come to the master's cache
\* with those it has not taken yet.
ComesTo(D, k, cache, m, l) ==
  /\ D[k] = cache
  /\ \A j \in k + 1 .. DoneIn(m, l) : IsQuiet(D[j - 1], l[j].c) /\ D[j] = After(D[j - 1], l[j].c)
  /\ IF IsDecoding(m)
       THEN LET c == l[Len(l)].c
                t == Tried(D[Len(l) - 1], c.n, c.p0)
            IN  /\ c.op = "meta" /\ t.ok /\ m.cache = t.cache
                /\ m.left = c.n - UbatchSize(c.n) /\ m.pos = c.p0 + UbatchSize(c.n)
       ELSE D[Len(l)] = m.cache

Waiting(d, k, m, l, warmup) ==
  /\ d.pc = "meta" \/ (d.pc = "left" /\ d.stop)
  /\ d.left = 0
  /\ d.warm <=> warmup /\ k = 0
  /\ d.warm => DoneIn(m, l) = 0
  /\ \E D : ComesTo(D, k, d.cache, m, l)

\* One that has not passed the last of its sub-graphs g is where the master is, one that has
\* passed it where the master will be.
WorkerIs(d, g, k, m, l, u, warmup) ==
  IF ~IsDecoding(m) \/ k < Len(l) THEN Waiting(d, k, m, l, warmup)
  ELSE IF u < g[Len(g)].last THEN Alike(d, m) /\ NextGraph(g, d.sub, u)
  ELSE Alike(d, Onward(m)) /\ (d.pc = "tensors" => d.sub = 1)

MasterIs ==
  /\ dev[0].pc \in {"ready", "tensors", "output", "failed", "stopping", "left"}
  /\ dev[0].warm <=> setup.warmup /\ (Announcing = 0 \/ (Announcing = 1 /\ IsDecoding(dev[0])))
  /\ dev[0].warm /\ ~IsDecoding(dev[0]) => dev[0].cache = EmptyCache
  /\ dev[0].pc \in {"stopping", "left"} => ~dev[0].warm
  /\ stop_at # None => dev[0].pc \in {"stopping", "left"}
  /\ \A r \in Ranks : dev[r].stop => dev[0].pc \in {"stopping", "left"}

IsAnnouncement(m, k) ==
  m.kind = "announcement" /\ m.id = k /\ (m.c.op = "meta" => m.c.n \in Nat \ {0})

DeviceOK(d) == IsDevice(d) /\ d.warm \in BOOLEAN /\ d.stop \in BOOLEAN /\ d.left \in Nat

InStep(at, u) ==
  /\ IsDecoding(dev[0]) <=> at # Nowhere
  /\ Queues(at, u)
  /\ at # Nowhere => Flight(at, u)
  /\ MasterIs
  /\ \A r \in Forwarders : dev[r].pc \in {"forward", "left"}
  /\ \A r \in Workers : WorkerIs(dev[r], Graphs(r), Len(log[r]), dev[0], log[0], u, setup.warmup)
  /\ \A k \in 1 .. Announcing : IsAnnouncement(log[0][k], k)
  /\ dev = [r \in Ranks |-> dev[r]] /\ \A r \in Ranks : DeviceOK(dev[r])

-----------------------------------------------------------------------------
(* The devices, field by field                                             *)

LEMMA DeviceFields ==
  ASSUME NEW pc, NEW warm, NEW stop, NEW sub, NEW left, NEW pos, NEW cache
  PROVE  LET d == Device7(pc, warm, stop, sub, left, pos, cache)
         IN  /\ IsDevice(d)
             /\ d.pc = pc /\ d.warm = warm /\ d.stop = stop /\ d.sub = sub
             /\ d.left = left /\ d.pos = pos /\ d.cache = cache
BY DEF Device7, IsDevice

LEMMA FieldsOf ==
  ASSUME NEW d, NEW pc, NEW warm, NEW stop, NEW sub, NEW left, NEW pos, NEW cache,
         d = Device7(pc, warm, stop, sub, left, pos, cache)
  PROVE  /\ IsDevice(d)
         /\ d.pc = pc /\ d.warm = warm /\ d.stop = stop /\ d.sub = sub
         /\ d.left = left /\ d.pos = pos /\ d.cache = cache
BY DeviceFields

LEMMA SubForm ==
  ASSUME NEW d, IsDevice(d), NEW x
  PROVE  [d EXCEPT !.sub = x]
           = Device7(d.pc, d.warm, d.stop, x, d.left, d.pos, d.cache)
<1>1. PICK pc, warm, stop, sub, left, pos, cache : d = Device7(pc, warm, stop, sub, left, pos, cache)
  BY Zenon DEF IsDevice
<1>2. /\ d.pc = pc /\ d.warm = warm /\ d.stop = stop /\ d.sub = sub
      /\ d.left = left /\ d.pos = pos /\ d.cache = cache
  BY <1>1, DeviceFields
<1>3. [d EXCEPT !.sub = x] = Device7(pc, warm, stop, x, left, pos, cache)
  BY <1>1 DEF Device7
<1>. QED
  BY <1>2, <1>3

SetSub(d, x) == [d EXCEPT !.sub = x]

LEMMA SubFields ==
  ASSUME NEW d, DeviceOK(d), NEW x
  PROVE  LET e == SetSub(d, x)
         IN  /\ DeviceOK(e) /\ e.sub = x
             /\ e.pc = d.pc /\ e.warm = d.warm /\ e.stop = d.stop
             /\ e.left = d.left /\ e.pos = d.pos /\ e.cache = d.cache
<1> DEFINE e == SetSub(d, x)
<1>1. e = Device7(d.pc, d.warm, d.stop, x, d.left, d.pos, d.cache)
  BY SubForm DEF SetSub, DeviceOK
<1> HIDE DEF e
<1>2. /\ IsDevice(e) /\ e.pc = d.pc /\ e.warm = d.warm /\ e.stop = d.stop /\ e.sub = x
      /\ e.left = d.left /\ e.pos = d.pos /\ e.cache = d.cache
  BY <1>1, FieldsOf
<1>. QED
  BY <1>2 DEF DeviceOK, e

LEMMA PcForm ==
  ASSUME NEW d, IsDevice(d), NEW x
  PROVE  [d EXCEPT !.pc = x]
           = Device7(x, d.warm, d.stop, d.sub, d.left, d.pos, d.cache)
<1>1. PICK pc, warm, stop, sub, left, pos, cache : d = Device7(pc, warm, stop, sub, left, pos, cache)
  BY Zenon DEF IsDevice
<1>2. /\ d.pc = pc /\ d.warm = warm /\ d.stop = stop /\ d.sub = sub
      /\ d.left = left /\ d.pos = pos /\ d.cache = cache
  BY <1>1, DeviceFields
<1>3. [d EXCEPT !.pc = x] = Device7(x, warm, stop, sub, left, pos, cache)
  BY <1>1 DEF Device7
<1>. QED
  BY <1>2, <1>3

LEMMA SubPcForm ==
  ASSUME NEW d, IsDevice(d), NEW x, NEW y
  PROVE  [d EXCEPT !.sub = x, !.pc = y]
           = Device7(y, d.warm, d.stop, x, d.left, d.pos, d.cache)
<1>1. PICK pc, warm, stop, sub, left, pos, cache : d = Device7(pc, warm, stop, sub, left, pos, cache)
  BY Zenon DEF IsDevice
<1>2. /\ d.pc = pc /\ d.warm = warm /\ d.stop = stop /\ d.sub = sub
      /\ d.left = left /\ d.pos = pos /\ d.cache = cache
  BY <1>1, DeviceFields
<1>3. [d EXCEPT !.sub = x, !.pc = y]
        = [[d EXCEPT !.sub = x] EXCEPT !.pc = y]
  BY Zenon
<1>4. [Device7(pc, warm, stop, sub, left, pos, cache) EXCEPT !.sub = x]
        = Device7(pc, warm, stop, x, left, pos, cache)
  BY DEF Device7
<1>5. [Device7(pc, warm, stop, x, left, pos, cache) EXCEPT !.pc = y]
        = Device7(y, warm, stop, x, left, pos, cache)
  BY DEF Device7
<1>6. [d EXCEPT !.sub = x, !.pc = y]
        = Device7(y, warm, stop, x, left, pos, cache)
  BY <1>1, <1>3, <1>4, <1>5, Zenon
<1>. QED
  BY <1>2, <1>6

LEMMA StopPcForm ==
  ASSUME NEW d, IsDevice(d), NEW x, NEW y
  PROVE  [d EXCEPT !.stop = x, !.pc = y]
           = Device7(y, d.warm, x, d.sub, d.left, d.pos, d.cache)
<1>1. PICK pc, warm, stop, sub, left, pos, cache : d = Device7(pc, warm, stop, sub, left, pos, cache)
  BY Zenon DEF IsDevice
<1>2. /\ d.pc = pc /\ d.warm = warm /\ d.stop = stop /\ d.sub = sub
      /\ d.left = left /\ d.pos = pos /\ d.cache = cache
  BY <1>1, DeviceFields
<1>3. [d EXCEPT !.stop = x, !.pc = y]
        = [[d EXCEPT !.stop = x] EXCEPT !.pc = y]
  BY Zenon
<1>4. [Device7(pc, warm, stop, sub, left, pos, cache) EXCEPT !.stop = x]
        = Device7(pc, warm, x, sub, left, pos, cache)
  BY DEF Device7
<1>5. [Device7(pc, warm, x, sub, left, pos, cache) EXCEPT !.pc = y]
        = Device7(y, warm, x, sub, left, pos, cache)
  BY DEF Device7
<1>6. [d EXCEPT !.stop = x, !.pc = y]
        = Device7(y, warm, x, sub, left, pos, cache)
  BY <1>1, <1>3, <1>4, <1>5, Zenon
<1>. QED
  BY <1>2, <1>6

\* The assignments of Returned, of StartUbatch and of Took.
SetReturned(d, x, y, z, v) == [d EXCEPT !.warm = x, !.left = y, !.cache = z, !.pc = v]

LEMMA ReturnedForm ==
  ASSUME NEW d, IsDevice(d), NEW x, NEW y, NEW z, NEW v
  PROVE  SetReturned(d, x, y, z, v)
           = Device7(v, x, d.stop, d.sub, y, d.pos, z)
<1>1. PICK pc, warm, stop, sub, left, pos, cache : d = Device7(pc, warm, stop, sub, left, pos, cache)
  BY Zenon DEF IsDevice
<1>2. /\ d.pc = pc /\ d.warm = warm /\ d.stop = stop /\ d.sub = sub
      /\ d.left = left /\ d.pos = pos /\ d.cache = cache
  BY <1>1, DeviceFields
<1>3. SetReturned(d, x, y, z, v)
        = [[[[d EXCEPT !.warm = x] EXCEPT !.left = y] EXCEPT !.cache = z] EXCEPT !.pc = v]
  BY Zenon DEF SetReturned
<1>4. [Device7(pc, warm, stop, sub, left, pos, cache) EXCEPT !.warm = x]
        = Device7(pc, x, stop, sub, left, pos, cache)
  BY DEF Device7
<1>5. [Device7(pc, x, stop, sub, left, pos, cache) EXCEPT !.left = y]
        = Device7(pc, x, stop, sub, y, pos, cache)
  BY DEF Device7
<1>6. [Device7(pc, x, stop, sub, y, pos, cache) EXCEPT !.cache = z]
        = Device7(pc, x, stop, sub, y, pos, z)
  BY DEF Device7
<1>7. [Device7(pc, x, stop, sub, y, pos, z) EXCEPT !.pc = v]
        = Device7(v, x, stop, sub, y, pos, z)
  BY DEF Device7
<1>8. SetReturned(d, x, y, z, v)
        = Device7(v, x, stop, sub, y, pos, z)
  BY <1>1, <1>3, <1>4, <1>5, <1>6, <1>7, Zenon
<1>. QED
  BY <1>2, <1>8

SetStarted(d, x, y, z, w, v) == [d EXCEPT !.cache = x, !.left = y, !.pos = z, !.sub = w, !.pc = v]

LEMMA StartedForm ==
  ASSUME NEW d, IsDevice(d), NEW x, NEW y, NEW z, NEW w, NEW v
  PROVE  SetStarted(d, x, y, z, w, v)
           = Device7(v, d.warm, d.stop, w, y, z, x)
<1>1. PICK pc, warm, stop, sub, left, pos, cache : d = Device7(pc, warm, stop, sub, left, pos, cache)
  BY Zenon DEF IsDevice
<1>2. /\ d.pc = pc /\ d.warm = warm /\ d.stop = stop /\ d.sub = sub
      /\ d.left = left /\ d.pos = pos /\ d.cache = cache
  BY <1>1, DeviceFields
<1>3. SetStarted(d, x, y, z, w, v)
        = [[[[[d EXCEPT !.cache = x] EXCEPT !.left = y] EXCEPT !.pos = z] EXCEPT !.sub = w] EXCEPT !.pc = v]
  BY Zenon DEF SetStarted
<1>4. [Device7(pc, warm, stop, sub, left, pos, cache) EXCEPT !.cache = x]
        = Device7(pc, warm, stop, sub, left, pos, x)
  BY DEF Device7
<1>5. [Device7(pc, warm, stop, sub, left, pos, x) EXCEPT !.left = y]
        = Device7(pc, warm, stop, sub, y, pos, x)
  BY DEF Device7
<1>6. [Device7(pc, warm, stop, sub, y, pos, x) EXCEPT !.pos = z]
        = Device7(pc, warm, stop, sub, y, z, x)
  BY DEF Device7
<1>7. [Device7(pc, warm, stop, sub, y, z, x) EXCEPT !.sub = w]
        = Device7(pc, warm, stop, w, y, z, x)
  BY DEF Device7
<1>8. [Device7(pc, warm, stop, w, y, z, x) EXCEPT !.pc = v]
        = Device7(v, warm, stop, w, y, z, x)
  BY DEF Device7
<1>9. [[[d EXCEPT !.cache = x] EXCEPT !.left = y] EXCEPT !.pos = z]
        = Device7(pc, warm, stop, sub, y, z, x)
  BY <1>1, <1>4, <1>5, <1>6, Zenon
<1>10. SetStarted(d, x, y, z, w, v)
        = Device7(v, warm, stop, w, y, z, x)
  BY <1>3, <1>7, <1>8, <1>9, Zenon
<1>. QED
  BY <1>2, <1>10

SetTook(d, x, y, z) == [d EXCEPT !.left = x, !.pos = y, !.cache = z]

LEMMA TookForm ==
  ASSUME NEW d, IsDevice(d), NEW x, NEW y, NEW z
  PROVE  SetTook(d, x, y, z)
           = Device7(d.pc, d.warm, d.stop, d.sub, x, y, z)
<1>1. PICK pc, warm, stop, sub, left, pos, cache : d = Device7(pc, warm, stop, sub, left, pos, cache)
  BY Zenon DEF IsDevice
<1>2. /\ d.pc = pc /\ d.warm = warm /\ d.stop = stop /\ d.sub = sub
      /\ d.left = left /\ d.pos = pos /\ d.cache = cache
  BY <1>1, DeviceFields
<1>3. SetTook(d, x, y, z)
        = [[[d EXCEPT !.left = x] EXCEPT !.pos = y] EXCEPT !.cache = z]
  BY Zenon DEF SetTook
<1>4. [Device7(pc, warm, stop, sub, left, pos, cache) EXCEPT !.left = x]
        = Device7(pc, warm, stop, sub, x, pos, cache)
  BY DEF Device7
<1>5. [Device7(pc, warm, stop, sub, x, pos, cache) EXCEPT !.pos = y]
        = Device7(pc, warm, stop, sub, x, y, cache)
  BY DEF Device7
<1>6. [Device7(pc, warm, stop, sub, x, y, cache) EXCEPT !.cache = z]
        = Device7(pc, warm, stop, sub, x, y, z)
  BY DEF Device7
<1>7. SetTook(d, x, y, z)
        = Device7(pc, warm, stop, sub, x, y, z)
  BY <1>1, <1>3, <1>4, <1>5, <1>6, Zenon
<1>. QED
  BY <1>2, <1>7

\* What Returned leaves in pc.
PcReturned(r, d) ==
  IF r # 0 THEN BackPc(d.stop, d.warm)
  ELSE IF d.pc = "failed" /\ ~d.warm /\ setup.driver = "main" THEN "failed"
  ELSE "ready"

LEMMA ReturnedIs ==
  ASSUME NEW d, IsDevice(d), NEW r
  PROVE  Returned(r, d) = Device7(PcReturned(r, d), FALSE, d.stop, d.sub, 0, d.pos,
                                  BackCache(d.warm, d.cache))
<1> DEFINE c == BackCache(d.warm, d.cache)
           p == PcReturned(r, d)
<1>1. Returned(r, d) = SetReturned(d, FALSE, 0, c, p)
  BY DEF Returned, PcReturned, SetReturned, BackPc, BackCache
<1> HIDE DEF c, p
<1>2. SetReturned(d, FALSE, 0, c, p) = Device7(p, FALSE, d.stop, d.sub, 0, d.pos, c)
  BY ReturnedForm
<1>. QED
  BY <1>1, <1>2 DEF c, p

LEMMA BackFromIs ==
  ASSUME NEW d, IsDevice(d), NEW r, r # 0
  PROVE  Returned(r, d) = BackFrom(d)
<1>1. PcReturned(r, d) = BackPc(d.stop, d.warm)
  BY DEF PcReturned
<1>. QED
  BY <1>1, ReturnedIs, Zenon DEF BackFrom

LEMMA StartedIs ==
  ASSUME NEW d, IsDevice(d)
  PROVE  StartUbatch(d) = Started(d)
<1> DEFINE t == Tried(d.cache, d.left, d.pos)
           p == IF t.ok THEN "tensors" ELSE "failed"
           c == t.cache
           l == d.left - UbatchSize(d.left)
           q == d.pos + UbatchSize(d.left)
<1>1. StartUbatch(d) = SetStarted(d, c, l, q, 1, p)
  BY Zenon DEF StartUbatch, Tried, Tokens0, UbatchSize, SetStarted
<1>2. Started(d) = Device7(p, d.warm, d.stop, 1, l, q, c)
  BY Zenon DEF Started
<1> HIDE DEF c, p, l, q
<1>3. SetStarted(d, c, l, q, 1, p) = Device7(p, d.warm, d.stop, 1, l, q, c)
  BY StartedForm
<1>. QED
  BY <1>1, <1>2, <1>3

LEMMA StartedFields ==
  ASSUME NEW d
  PROVE  LET t == Tried(d.cache, d.left, d.pos)
             n == UbatchSize(d.left)
             e == Started(d)
         IN  /\ IsDevice(e)
             /\ e.pc = IF t.ok THEN "tensors" ELSE "failed"
             /\ e.warm = d.warm /\ e.stop = d.stop /\ e.sub = 1
             /\ e.left = d.left - n /\ e.pos = d.pos + n /\ e.cache = t.cache
<1> DEFINE t == Tried(d.cache, d.left, d.pos)
           p == IF t.ok THEN "tensors" ELSE "failed"
           c == t.cache
           l == d.left - UbatchSize(d.left)
           q == d.pos + UbatchSize(d.left)
           e == Started(d)
<1>1. e = Device7(p, d.warm, d.stop, 1, l, q, c)
  BY Zenon DEF Started
<1> HIDE DEF e, c, p, l, q
<1>2. /\ IsDevice(e) /\ e.pc = p /\ e.warm = d.warm /\ e.stop = d.stop /\ e.sub = 1
      /\ e.left = l /\ e.pos = q /\ e.cache = c
  BY <1>1, FieldsOf
<1>. QED
  BY <1>2 DEF e, c, p, l, q

LEMMA BackFromFields ==
  ASSUME NEW d
  PROVE  LET e == BackFrom(d)
         IN  /\ IsDevice(e)
             /\ e.pc = BackPc(d.stop, d.warm)
             /\ e.warm = FALSE /\ e.stop = d.stop /\ e.sub = d.sub
             /\ e.left = 0 /\ e.pos = d.pos
             /\ e.cache = BackCache(d.warm, d.cache)
             /\ e.pc \in {"meta", "left"}
             /\ d.stop \in BOOLEAN => DeviceOK(e)
<1> DEFINE w == FALSE
           e == BackFrom(d)
<1>1. e = Device7(BackPc(d.stop, d.warm), w, d.stop, d.sub, 0, d.pos, BackCache(d.warm, d.cache))
  BY Zenon DEF BackFrom
<1> HIDE DEF e, w
<1>2. /\ IsDevice(e) /\ e.pc = BackPc(d.stop, d.warm) /\ e.warm = w /\ e.stop = d.stop
      /\ e.sub = d.sub /\ e.left = 0 /\ e.pos = d.pos /\ e.cache = BackCache(d.warm, d.cache)
  BY <1>1, FieldsOf
<1>3. e.pc \in {"meta", "left"}
  BY <1>2 DEF BackPc
<1>4. w \in BOOLEAN
  BY DEF w
<1>5. d.stop \in BOOLEAN => DeviceOK(e)
  BY <1>2, <1>4 DEF DeviceOK
<1>. QED
  BY <1>2, <1>3, <1>5 DEF e, w

LEMMA OnwardIs ==
  ASSUME NEW d, IsDevice(d), NEW r, r # 0
  PROVE  NextUbatch(r, d) = Onward(d)
<1>1. StartUbatch(d) = Started(d) /\ IsDevice(Started(d))
  BY StartedIs, StartedFields
<1>2. Returned(r, d) = BackFrom(d) /\ Returned(r, Started(d)) = BackFrom(Started(d))
  BY <1>1, BackFromIs
<1>. QED
  BY <1>1, <1>2 DEF NextUbatch, Onward

LEMMA UbatchSizeType ==
  \A n \in Nat : n # 0 => /\ UbatchSize(n) \in Nat /\ UbatchSize(n) <= n
                          /\ n - UbatchSize(n) \in Nat
BY RingAssumption DEF UbatchSize

\* The master begins the next physical batch, or its call returns.
LEMMA MasterOnward ==
  ASSUME NEW d, DeviceOK(d)
  PROVE  LET e == NextUbatch(0, d)
             t == Tried(d.cache, d.left, d.pos)
         IN  \/ d.left # 0 /\ t.ok /\ e = Started(d)
             \/ /\ d.left = 0 \/ ~t.ok
                /\ DeviceOK(e) /\ e.pc \in {"ready", "failed"}
                /\ e.warm = FALSE /\ e.stop = d.stop /\ e.left = 0
                /\ e.cache = Onward(d).cache
<1> DEFINE t == Tried(d.cache, d.left, d.pos)
           f == Started(d)
<1>1. StartUbatch(d) = f /\ IsDevice(f) /\ f.pc = (IF t.ok THEN "tensors" ELSE "failed")
      /\ f.stop = d.stop
  BY StartedIs, StartedFields DEF DeviceOK
<1>2. ASSUME NEW x, IsDevice(x), x.stop = d.stop
      PROVE  LET e == Returned(0, x)
             IN  /\ DeviceOK(e) /\ e.pc \in {"ready", "failed"}
                 /\ e.warm = FALSE /\ e.stop = d.stop /\ e.left = 0
                 /\ e.cache = BackFrom(x).cache
  <2> DEFINE c == BackCache(x.warm, x.cache)
             p == PcReturned(0, x)
             e == Returned(0, x)
  <2> DEFINE w == FALSE
  <2>1. e = Device7(p, w, x.stop, x.sub, 0, x.pos, c)
    BY <1>2, ReturnedIs, Zenon
  <2>2. p \in {"ready", "failed"}
    BY DEF PcReturned
  <2>3. BackFrom(x).cache = c
    BY BackFromFields
  <2> HIDE DEF c, p, e, w
  <2>4. IsDevice(e) /\ e.pc = p /\ e.warm = w /\ e.stop = x.stop /\ e.left = 0 /\ e.cache = c
    BY <2>1, FieldsOf
  <2>. QED
    <3>1. w \in BOOLEAN /\ w = FALSE /\ d.stop \in BOOLEAN /\ 0 \in Nat
      BY DEF DeviceOK, w
    <3>2. DeviceOK(e)
      BY <1>2, <2>4, <3>1 DEF DeviceOK
    <3>. QED
      BY <1>2, <2>2, <2>3, <2>4, <3>1, <3>2 DEF e
<1> HIDE DEF f, t
<1>3. CASE d.left = 0
  <2>1. NextUbatch(0, d) = Returned(0, d) /\ Onward(d) = BackFrom(d)
    BY <1>3 DEF NextUbatch, Onward
  <2>. QED
    BY <1>2, <1>3, <2>1 DEF DeviceOK, t
<1>4. CASE d.left # 0 /\ ~t.ok
  <2>1. NextUbatch(0, d) = Returned(0, f) /\ Onward(d) = BackFrom(f)
    BY <1>1, <1>4 DEF NextUbatch, Onward, f
  <2>. QED
    BY <1>1, <1>2, <1>4, <2>1 DEF t
<1>5. CASE d.left # 0 /\ t.ok
  <2>1. NextUbatch(0, d) = f
    BY <1>1, <1>5 DEF NextUbatch
  <2>. QED
    BY <1>5, <2>1 DEF f, t
<1>. QED
  BY <1>3, <1>4, <1>5

\* What a worker becomes.
LEMMA OnwardFields ==
  ASSUME NEW d, DeviceOK(d)
  PROVE  LET e == Onward(d)
             t == Tried(d.cache, d.left, d.pos)
         IN  /\ DeviceOK(e) /\ e.stop = d.stop
             /\ e.pc \in {"tensors", "meta", "left"}
             /\ e.pc = "tensors" => e.sub = 1 /\ d.left # 0 /\ t.ok
             /\ d.left # 0 /\ t.ok => e = Started(d)
             /\ d.left = 0 \/ ~t.ok =>
                  /\ e.pc = BackPc(d.stop, d.warm)
                  /\ e.warm = FALSE /\ e.left = 0
                  /\ e.cache = BackCache(d.warm, IF d.left = 0 THEN d.cache ELSE t.cache)
<1> DEFINE t == Tried(d.cache, d.left, d.pos)
           f == Started(d)
<1>1. /\ IsDevice(f) /\ f.pc = (IF t.ok THEN "tensors" ELSE "failed")
      /\ f.stop = d.stop /\ f.warm = d.warm /\ f.sub = 1 /\ f.cache = t.cache
      /\ f.left = d.left - UbatchSize(d.left)
  BY StartedFields
<1>2. d.left # 0 => DeviceOK(f)
  BY <1>1, UbatchSizeType DEF DeviceOK
<1>3. d.stop \in BOOLEAN /\ f.stop \in BOOLEAN
  BY <1>1 DEF DeviceOK
<1> HIDE DEF f, t
<1>4. CASE d.left = 0
  <2>1. Onward(d) = BackFrom(d)
    BY <1>4 DEF Onward
  <2> DEFINE e == BackFrom(d)
  <2>2. /\ DeviceOK(e) /\ e.pc = BackPc(d.stop, d.warm) /\ e.stop = d.stop /\ e.warm = FALSE
        /\ e.left = 0 /\ e.cache = BackCache(d.warm, d.cache) /\ e.pc \in {"meta", "left"}
    BY <1>3, BackFromFields
  <2> HIDE DEF e
  <2>. QED
    BY <1>4, <2>1, <2>2 DEF e
<1>5. CASE d.left # 0 /\ ~t.ok
  <2>1. Onward(d) = BackFrom(f)
    BY <1>1, <1>5 DEF Onward, f
  <2> DEFINE e == BackFrom(f)
  <2>2. /\ DeviceOK(e) /\ e.pc = BackPc(d.stop, d.warm) /\ e.stop = d.stop /\ e.warm = FALSE
        /\ e.left = 0 /\ e.cache = BackCache(d.warm, t.cache) /\ e.pc \in {"meta", "left"}
    BY <1>1, <1>3, BackFromFields
  <2> HIDE DEF e
  <2>. QED
    BY <1>5, <2>1, <2>2 DEF e, t
<1>6. CASE d.left # 0 /\ t.ok
  <2>1. Onward(d) = f
    BY <1>1, <1>6 DEF Onward, f
  <2>. QED
    BY <1>1, <1>2, <1>6, <2>1 DEF f, t
<1>. QED
  BY <1>4, <1>5, <1>6

\* It depends neither on where the device is in its code nor on its next sub-graph.
LEMMA OnwardAlike ==
  ASSUME NEW d, NEW e, DeviceOK(d), DeviceOK(e), d.warm = e.warm, d.stop = e.stop, d.left = e.left,
         d.pos = e.pos, d.cache = e.cache
  PROVE  Alike(Onward(d), Onward(e))
<1> DEFINE t == Tried(d.cache, d.left, d.pos)
<1>1. t = Tried(e.cache, e.left, e.pos)
  OBVIOUS
<1>2. /\ Started(d).pc = Started(e).pc
      /\ Started(d).pos = Started(e).pos /\ Alike(Started(d), Started(e))
  BY StartedFields DEF Alike
<1>3. ASSUME NEW x, NEW y, x.warm = y.warm, x.stop = y.stop, x.pos = y.pos, x.cache = y.cache
      PROVE  Alike(BackFrom(x), BackFrom(y))
  <2>1. /\ BackFrom(x).pc = BackPc(x.stop, x.warm) /\ BackFrom(x).warm = FALSE
        /\ BackFrom(x).stop = x.stop /\ BackFrom(x).left = 0 /\ BackFrom(x).pos = x.pos
        /\ BackFrom(x).cache = BackCache(x.warm, x.cache)
    BY BackFromFields
  <2>2. /\ BackFrom(y).pc = BackPc(x.stop, x.warm) /\ BackFrom(y).warm = FALSE
        /\ BackFrom(y).stop = x.stop /\ BackFrom(y).left = 0 /\ BackFrom(y).pos = x.pos
        /\ BackFrom(y).cache = BackCache(x.warm, x.cache)
    BY <1>3, BackFromFields
  <2>. QED
    BY <2>1, <2>2, Zenon DEF Alike
<1>. QED
  BY <1>2, <1>3 DEF Onward, Alike

LEMMA TookIs ==
  ASSUME NEW d, IsDevice(d), NEW c
  PROVE  Took(d, c) = Device7(d.pc, d.warm, d.stop, d.sub, IF c.op = "meta" THEN c.n ELSE d.left,
                              IF c.op = "meta" THEN c.p0 ELSE d.pos, TookCache(d.cache, c))
<1> DEFINE l == IF c.op = "meta" THEN c.n ELSE d.left
           p == IF c.op = "meta" THEN c.p0 ELSE d.pos
           k == TookCache(d.cache, c)
<1>1. Took(d, c) = SetTook(d, l, p, k)
  BY Zenon DEF Took, TookCache, SetTook
<1> HIDE DEF l, p, k
<1>2. SetTook(d, l, p, k)
        = Device7(d.pc, d.warm, d.stop, d.sub, l, p, k)
  BY TookForm
<1>. QED
  BY <1>1, <1>2 DEF l, p, k

-----------------------------------------------------------------------------
(* Logs and queues                                                         *)

LEMMA QueueTake ==
  ASSUME NEW S, NEW q \in Seq(S), NEW src \in Seq(S), NEW lo \in Nat, NEW hi \in Nat, NEW t \in Seq(S),
         QueueIs(q, src, lo, hi, t), lo < hi, hi <= Len(src)
  PROVE  q # <<>> /\ Head(q) = src[lo + 1] /\ QueueIs(Tail(q), src, lo + 1, hi, t)
<1>1. Len(q) = hi - lo + Len(t) /\ Len(q) \in Nat /\ Len(t) \in Nat
  BY DEF QueueIs
<1>2. q # <<>> /\ Head(q) = q[1]
  BY <1>1
<1>3. Head(q) = src[lo + 1]
  BY <1>2 DEF QueueIs
<1>4. Len(Tail(q)) = Len(q) - 1 /\ \A i \in 1 .. Len(q) - 1 : Tail(q)[i] = q[i + 1]
  BY <1>2
<1>5. ASSUME NEW i \in 1 .. hi - (lo + 1) PROVE Tail(q)[i] = src[lo + 1 + i]
  <2>1. i + 1 \in 1 .. hi - lo /\ i \in 1 .. Len(q) - 1 /\ lo + (i + 1) = lo + 1 + i
    BY <1>1
  <2>2. Tail(q)[i] = src[lo + (i + 1)]
    BY <1>4, <2>1 DEF QueueIs
  <2>. QED
    BY <2>1, <2>2
<1>6. ASSUME NEW i \in 1 .. Len(t) PROVE Tail(q)[hi - (lo + 1) + i] = t[i]
  <2>1. hi - (lo + 1) + i \in 1 .. Len(q) - 1 /\ hi - (lo + 1) + i + 1 = hi - lo + i
    BY <1>1
  <2>2. Tail(q)[hi - (lo + 1) + i] = q[hi - lo + i]
    BY <1>4, <2>1
  <2>. QED
    BY <2>2 DEF QueueIs
<1>. QED
  BY <1>1, <1>2, <1>3, <1>4, <1>5, <1>6 DEF QueueIs

LEMMA QueueEmpty ==
  ASSUME NEW S, NEW q \in Seq(S), NEW src, NEW lo \in Nat, NEW hi \in Nat, lo <= hi,
         QueueIs(q, src, lo, hi, <<>>), q # <<>>
  PROVE  lo < hi
BY DEF QueueIs

LEMMA QueueHeld ==
  ASSUME NEW S, NEW q \in Seq(S), NEW src, NEW lo \in Nat, NEW m \in S,
         QueueIs(q, src, lo, lo, <<m>>)
  PROVE  q # <<>> /\ Head(q) = m /\ QueueIs(Tail(q), src, lo, lo, <<>>)
<1>1. Len(q) = 1 /\ q[1] = m
  BY DEF QueueIs
<1>2. q # <<>> /\ Head(q) = q[1] /\ Len(Tail(q)) = 0
  BY <1>1
<1>. QED
  BY <1>1, <1>2 DEF QueueIs

LEMMA QueueGive ==
  ASSUME NEW S, NEW q \in Seq(S), NEW src \in Seq(S), NEW lo \in Nat, NEW hi \in Nat, lo <= hi,
         QueueIs(q, src, lo, hi, <<>>), NEW m \in S, m = src[hi + 1]
  PROVE  QueueIs(Append(q, m), src, lo, hi + 1, <<>>)
<1>1. Len(q) = hi - lo /\ Len(Append(q, m)) = Len(q) + 1
  BY DEF QueueIs
<1>2. ASSUME NEW i \in 1 .. hi + 1 - lo PROVE Append(q, m)[i] = src[lo + i]
  <2>1. CASE i \in 1 .. hi - lo
    BY <1>1, <2>1 DEF QueueIs
  <2>2. CASE i = hi + 1 - lo
    <3>1. i = Len(q) + 1 /\ lo + i = hi + 1
      BY <1>1, <2>2
    <3>. QED
      BY <3>1
  <2>3. i \in 1 .. hi - lo \/ i = hi + 1 - lo
    OBVIOUS
  <2>. QED
    BY <2>1, <2>2, <2>3
<1>3. Len(Append(q, m)) = hi + 1 - lo + Len(<<>>)
  BY <1>1
<1>. QED
  BY <1>2, <1>3 DEF QueueIs

LEMMA QueueHold ==
  ASSUME NEW S, NEW q \in Seq(S), NEW src, NEW lo \in Nat, NEW hi \in Nat, lo <= hi,
         QueueIs(q, src, lo, hi, <<>>), NEW m \in S
  PROVE  QueueIs(Append(q, m), src, lo, hi, <<m>>)
<1>1. Len(q) = hi - lo /\ Len(Append(q, m)) = Len(q) + 1
  BY DEF QueueIs
<1>2. \A i \in 1 .. hi - lo : Append(q, m)[i] = q[i]
  BY <1>1
<1>3. Append(q, m)[hi - lo + 1] = m
  BY <1>1
<1>4. \A i \in 1 .. hi - lo : q[i] = src[lo + i]
  BY DEF QueueIs
<1>. QED
  BY <1>1, <1>2, <1>3, <1>4 DEF QueueIs

\* The master's log grows, and what is new is sent at once, followed by t.
LEMMA QueueMore ==
  ASSUME NEW S, NEW q \in Seq(S), NEW src \in Seq(S), NEW more \in Seq(S), NEW t \in Seq(S),
         NEW lo \in Nat, lo <= Len(src), QueueIs(q, src, lo, Len(src), <<>>)
  PROVE  QueueIs(q \o (more \o t), src \o more, lo, Len(src) + Len(more), t)
<1> DEFINE a == Len(src) - lo
           p == q \o (more \o t)
<1>1. Len(q) = a /\ Len(src) \in Nat /\ Len(more) \in Nat /\ Len(t) \in Nat /\ a \in Nat
  BY DEF QueueIs
<1>2. Len(more \o t) = Len(more) + Len(t) /\ more \o t \in Seq(S)
  OBVIOUS
<1>3. Len(p) = a + Len(more) + Len(t)
  <2>1. Len(p) = Len(q) + Len(more \o t)
    BY <1>2
  <2>. QED
    BY <1>1, <1>2, <2>1
<1>4. /\ \A i \in 1 .. a : p[i] = q[i]
      /\ \A i \in 1 .. Len(more) + Len(t) : p[a + i] = (more \o t)[i]
  <2> DEFINE w == more \o t
  <2>1. w \in Seq(S) /\ Len(w) = Len(more) + Len(t)
    BY <1>2
  <2> HIDE DEF w
  <2>2. /\ \A i \in 1 .. Len(q) : (q \o w)[i] = q[i]
        /\ \A i \in 1 .. Len(w) : (q \o w)[Len(q) + i] = w[i]
    BY <2>1
  <2>. QED
    BY <1>1, <2>1, <2>2 DEF w
<1>5. /\ \A i \in 1 .. Len(more) : (more \o t)[i] = more[i]
      /\ \A i \in 1 .. Len(t) : (more \o t)[Len(more) + i] = t[i]
  OBVIOUS
<1>6. /\ \A i \in 1 .. Len(src) : (src \o more)[i] = src[i]
      /\ \A i \in 1 .. Len(more) : (src \o more)[Len(src) + i] = more[i]
  OBVIOUS
<1> HIDE DEF p
<1>7. ASSUME NEW i \in 1 .. Len(src) + Len(more) - lo PROVE p[i] = (src \o more)[lo + i]
  <2>1. CASE i \in 1 .. a
    <3>1. lo + i \in 1 .. Len(src) /\ q[i] = src[lo + i]
      BY <1>1, <2>1 DEF QueueIs
    <3>. QED
      BY <1>4, <1>6, <2>1, <3>1
  <2>2. CASE i \notin 1 .. a
    <3> DEFINE j == i - a
    <3>1. j \in 1 .. Len(more) /\ j \in 1 .. Len(more) + Len(t) /\ i = a + j /\ lo + i = Len(src) + j
      BY <1>1, <2>2
    <3> HIDE DEF j
    <3>2. p[a + j] = more[j] /\ (src \o more)[Len(src) + j] = more[j]
      BY <1>4, <1>5, <1>6, <3>1
    <3>. QED
      BY <3>1, <3>2
  <2>. QED
    BY <2>1, <2>2
<1>8. ASSUME NEW i \in 1 .. Len(t) PROVE p[Len(src) + Len(more) - lo + i] = t[i]
  <2>1. Len(more) + i \in 1 .. Len(more) + Len(t)
        /\ Len(src) + Len(more) - lo + i = a + (Len(more) + i)
    BY <1>1
  <2>. QED
    BY <1>4, <1>5, <2>1
<1>9. Len(p) = Len(src) + Len(more) - lo + Len(t)
  BY <1>1, <1>3
<1>10. \A i \in 1 .. Len(src) + Len(more) - lo : p[i] = (src \o more)[lo + i]
  BY <1>7
<1>11. \A i \in 1 .. Len(t) : p[Len(src) + Len(more) - lo + i] = t[i]
  BY <1>8
<1>12. QueueIs(p, src \o more, lo, Len(src) + Len(more), t)
  <2> DEFINE s == src \o more
             h == Len(src) + Len(more)
  <2>1. /\ Len(p) = h - lo + Len(t)
        /\ \A i \in 1 .. h - lo : p[i] = s[lo + i]
        /\ \A i \in 1 .. Len(t) : p[h - lo + i] = t[i]
    BY <1>9, <1>10, <1>11
  <2> HIDE DEF s, h
  <2>2. QueueIs(p, s, lo, h, t)
    BY <2>1, Zenon DEF QueueIs
  <2>. QED
    BY <2>2 DEF s, h
<1>. QED
  BY <1>12 DEF p

LEMMA QueueSame ==
  ASSUME NEW S, NEW q, NEW src \in Seq(S), NEW more \in Seq(S), NEW t,
         NEW lo \in Nat, NEW hi \in Nat, hi <= Len(src), QueueIs(q, src, lo, hi, t)
  PROVE  QueueIs(q, src \o more, lo, hi, t)
<1>1. \A i \in 1 .. Len(src) : (src \o more)[i] = src[i]
  OBVIOUS
<1>2. ASSUME NEW i \in 1 .. hi - lo PROVE (src \o more)[lo + i] = src[lo + i]
  <2>1. lo + i \in 1 .. Len(src)
    OBVIOUS
  <2>. QED
    BY <1>1, <2>1
<1>. QED
  BY <1>2 DEF QueueIs

LEMMA StartSame ==
  ASSUME NEW S, NEW l \in Seq(S), NEW src \in Seq(S), NEW more \in Seq(S), StartOf(l, src)
  PROVE  StartOf(l, src \o more)
<1>1. /\ \A i \in 1 .. Len(src) : (src \o more)[i] = src[i]
      /\ Len(src \o more) = Len(src) + Len(more)
  OBVIOUS
<1>. QED
  BY <1>1 DEF StartOf

LEMMA StartMore ==
  ASSUME NEW S, NEW l \in Seq(S), NEW src \in Seq(S), NEW m \in S, StartOf(l, src), Len(l) < Len(src),
         m = src[Len(l) + 1]
  PROVE  StartOf(Append(l, m), src) /\ Len(Append(l, m)) = Len(l) + 1
<1>1. /\ \A i \in 1 .. Len(l) : Append(l, m)[i] = l[i]
      /\ Len(Append(l, m)) = Len(l) + 1 /\ Append(l, m)[Len(l) + 1] = m
  OBVIOUS
<1>. QED
  BY <1>1 DEF StartOf

-----------------------------------------------------------------------------
(* Layers and turns                                                        *)

\* The sub-graphs of a device are runs of its layers, in their order, as long as they can be, and
\* have all of them.
GraphsAre(s, r) ==
  LET g == s.graphs[r]
  IN  /\ g \in Seq([first : LayersOf(s), last : LayersOf(s)])
      /\ \A j \in 1 .. Len(g) :
           /\ g[j].first <= g[j].last /\ TurnEnds(s, g[j].last)
           /\ \A il \in g[j].first .. g[j].last : OwnerOf(s, il) = r
      /\ \A i, j \in 1 .. Len(g) : i < j => g[i].last < g[j].first
      /\ \A il \in LayersOf(s) :
           OwnerOf(s, il) = r => \E j \in 1 .. Len(g) : g[j].first <= il /\ il <= g[j].last
      /\ r # 0 /\ s.window[r] > 0 => Len(g) > 0

\* The devices with layers take turns, from rank 1 on.
TurnsAre(s) ==
  /\ \A il \in LayersOf(s) : OwnerOf(s, il) \in Ranks /\ s.window[OwnerOf(s, il)] > 0
  /\ OwnerOf(s, 0) # 0 /\ NextWorking(s, 0, OwnerOf(s, 0))
  /\ \A il \in LayersOf(s) :
       il + 1 \in LayersOf(s) /\ OwnerOf(s, il) # OwnerOf(s, il + 1)
         => NextWorking(s, OwnerOf(s, il), OwnerOf(s, il + 1))

SetupIs(s) ==
  /\ s.window \in [Ranks -> Nat] /\ s.n_layer \in Nat /\ s.n_layer > 0 /\ s.warmup \in BOOLEAN
  /\ \E r \in Others : s.window[r] > 0
  /\ TurnsAre(s) /\ \A r \in Ranks : GraphsAre(s, r)

\* Layer v is the last one of a turn of device r behind layer u.
TurnOf(s, r, u, v) ==
  /\ u < v /\ v \in LayersOf(s) /\ TurnEnds(s, v)
  /\ \A il \in u + 1 .. v : OwnerOf(s, il) = r

LEMMA GraphTypes ==
  ASSUME NEW L, NEW g \in Seq([first : L, last : L])
  PROVE  Len(g) \in Nat /\ \A j \in 1 .. Len(g) : g[j].first \in L /\ g[j].last \in L
<1> DEFINE R == [first : L, last : L]
<1>1. \A x \in R : x.first \in L /\ x.last \in L
  OBVIOUS
<1>2. g \in Seq(R)
  OBVIOUS
<1> HIDE DEF R
<1>3. Len(g) \in Nat /\ \A j \in 1 .. Len(g) : g[j] \in R
  BY <1>2
<1>. QED
  BY <1>1, <1>3

\* The next sub-graph of the device with the next layer starts with it, and is its turn.
LEMMA TurnTaken ==
  ASSUME NEW s, NEW r \in Ranks, SetupIs(s), NEW u \in -1 .. s.n_layer - 1, u # s.n_layer - 1,
         OwnerOf(s, u + 1) = r, NEW sub, NextGraph(s.graphs[r], sub, u)
  PROVE  LET g == s.graphs[r]
         IN  /\ sub \in 1 .. Len(g) /\ g[sub].first = u + 1
             /\ TurnOf(s, r, u, g[sub].last)
             /\ NextGraph(g, sub + 1, g[sub].last)
             /\ g[sub].last \in LayersOf(s) /\ (sub = Len(g) <=> g[sub].last = g[Len(g)].last)
             /\ g[sub].last <= g[Len(g)].last
<1> DEFINE g == s.graphs[r]
<1>1. /\ g \in Seq([first : LayersOf(s), last : LayersOf(s)])
      /\ \A j \in 1 .. Len(g) :
           /\ g[j].first <= g[j].last /\ TurnEnds(s, g[j].last)
           /\ \A il \in g[j].first .. g[j].last : OwnerOf(s, il) = r
      /\ \A i, j \in 1 .. Len(g) : i < j => g[i].last < g[j].first
      /\ \A il \in LayersOf(s) :
           OwnerOf(s, il) = r => \E j \in 1 .. Len(g) : g[j].first <= il /\ il <= g[j].last
  BY DEF SetupIs, GraphsAre
<1>2. Len(g) \in Nat /\ \A j \in 1 .. Len(g) : g[j].first \in LayersOf(s) /\ g[j].last \in LayersOf(s)
  BY <1>1, GraphTypes
<1>3. sub \in 1 .. Len(g) + 1
      /\ \A j \in 1 .. Len(g) : IF j < sub THEN g[j].last <= u ELSE g[j].first > u
  BY DEF NextGraph
<1>4. LayersOf(s) \subseteq Nat /\ u + 1 \in LayersOf(s)
  BY DEF LayersOf, SetupIs
<1> HIDE DEF g
<1>5. PICK j \in 1 .. Len(g) : g[j].first <= u + 1 /\ u + 1 <= g[j].last
  BY <1>1, <1>4
<1>6. g[j].first \in Nat /\ g[j].last \in Nat
  BY <1>2, <1>4
<1>7. ~(j < sub)
  BY <1>3, <1>5, <1>6
<1>8. g[j].first = u + 1
  BY <1>3, <1>5, <1>6, <1>7
<1>9. sub \in 1 .. Len(g)
  BY <1>2, <1>3, <1>5, <1>7
<1>10. ~(sub < j)
  <2> SUFFICES ASSUME sub < j PROVE FALSE
    OBVIOUS
  <2>1. g[sub].last < g[j].first /\ g[sub].first <= g[sub].last /\ g[sub].first > u
    BY <1>1, <1>3, <1>9, <1>5
  <2>2. g[sub].first \in Nat /\ g[sub].last \in Nat
    BY <1>2, <1>4, <1>9
  <2>. QED
    BY <1>8, <2>1, <2>2
<1>11. sub = j
  BY <1>2, <1>7, <1>9, <1>10
<1> DEFINE v == g[sub].last
<1>12. v \in Nat /\ v \in LayersOf(s) /\ u < v /\ g[sub].first = u + 1
  BY <1>2, <1>4, <1>5, <1>6, <1>8, <1>11
<1>13. TurnOf(s, r, u, v)
  BY <1>1, <1>9, <1>12 DEF TurnOf
<1>14. ASSUME NEW i \in 1 .. Len(g)
       PROVE  /\ i < sub => g[i].last < v
              /\ i > sub => g[i].first > v /\ g[i].last > v
  <2>1. g[i].first \in Nat /\ g[i].last \in Nat
    BY <1>2, <1>4
  <2>2. g[i].first <= g[i].last /\ (i < sub => g[i].last < g[sub].first)
        /\ (sub < i => g[sub].last < g[i].first)
    BY <1>1, <1>9
  <2>. QED
    BY <1>9, <1>12, <2>1, <2>2
<1>15. NextGraph(g, sub + 1, v)
  <2>1. sub + 1 \in 1 .. Len(g) + 1
    BY <1>2, <1>9
  <2>2. ASSUME NEW i \in 1 .. Len(g) PROVE IF i < sub + 1 THEN g[i].last <= v ELSE g[i].first > v
    <3>1. g[i].last \in Nat /\ v \in Nat
      BY <1>2, <1>4, <1>12
    <3>2. CASE i < sub
      BY <1>9, <1>14, <3>1, <3>2
    <3>3. CASE i = sub
      BY <1>9, <3>1, <3>3
    <3>4. CASE i > sub
      BY <1>9, <1>14, <3>1, <3>4
    <3>. QED
      BY <1>9, <3>2, <3>3, <3>4
  <2> HIDE DEF v
  <2>. QED
    BY <2>1, <2>2 DEF NextGraph
<1>16. (sub = Len(g) <=> v = g[Len(g)].last) /\ v <= g[Len(g)].last
  <2>1. Len(g) \in 1 .. Len(g)
    BY <1>2, <1>9
  <2>. QED
    BY <1>2, <1>4, <1>9, <1>12, <1>14, <2>1
<1>. QED
  BY <1>9, <1>12, <1>13, <1>15, <1>16 DEF g

\* It leaves the sub-graphs of the others where they are.
LEMMA TurnSkipped ==
  ASSUME NEW s, NEW q \in Ranks, SetupIs(s), NEW u \in -1 .. s.n_layer - 1, NEW v, NEW r, q # r,
         TurnOf(s, r, u, v)
  PROVE  LET g == s.graphs[q]
         IN  /\ \A j \in 1 .. Len(g) : /\ g[j].last <= u <=> g[j].last <= v
                                       /\ u < g[j].last <=> v < g[j].last
                                       /\ g[j].first > u <=> g[j].first > v
                                       /\ u < g[j].first <=> v < g[j].first
             /\ \A sub : NextGraph(g, sub, u) => NextGraph(g, sub, v)
<1> DEFINE g == s.graphs[q]
<1>1. /\ g \in Seq([first : LayersOf(s), last : LayersOf(s)])
      /\ \A j \in 1 .. Len(g) :
           /\ g[j].first <= g[j].last
           /\ \A il \in g[j].first .. g[j].last : OwnerOf(s, il) = q
  BY DEF SetupIs, GraphsAre
<1>2. LayersOf(s) \subseteq Nat
  BY DEF LayersOf, SetupIs
<1>3. v \in Nat /\ u < v /\ \A il \in u + 1 .. v : OwnerOf(s, il) = r
  BY <1>2 DEF TurnOf
<1>4. ASSUME NEW j \in 1 .. Len(g)
      PROVE  /\ g[j].first \in Nat /\ g[j].last \in Nat
             /\ g[j].first \notin u + 1 .. v /\ g[j].last \notin u + 1 .. v
  <2>1. g[j].first \in Nat /\ g[j].last \in Nat
    BY <1>1, <1>2, GraphTypes
  <2>2. OwnerOf(s, g[j].first) = q /\ OwnerOf(s, g[j].last) = q
    BY <1>1, <2>1
  <2>. QED
    BY <1>3, <2>1, <2>2
<1>5. ASSUME NEW j \in 1 .. Len(g)
      PROVE  /\ g[j].last <= u <=> g[j].last <= v
             /\ u < g[j].last <=> v < g[j].last
             /\ g[j].first > u <=> g[j].first > v
             /\ u < g[j].first <=> v < g[j].first
  BY <1>3, <1>4, SMTT(20)
<1> HIDE DEF g
<1>6. \A sub : NextGraph(g, sub, u) => NextGraph(g, sub, v)
  BY <1>5 DEF NextGraph
<1>. QED
  BY <1>5, <1>6 DEF g

-----------------------------------------------------------------------------
(* The way of a physical batch                                             *)

LEMMA RankTypes ==
  /\ NWorld \in Nat /\ NWorld > 1 /\ Ranks = 0 .. NWorld - 1 /\ Others = 1 .. NWorld - 1
  /\ \A r \in Others : r \in Ranks /\ r - 1 \in Ranks
  /\ \A r \in Others : NextRank(r) = 0 \/ (NextRank(r) = r + 1 /\ r + 1 \in Others)
  /\ \A r \in Others : NextRank(r) = 0 <=> r = NWorld - 1
<1>1. NWorld \in Nat /\ NWorld > 1 /\ Ranks = 0 .. NWorld - 1 /\ Others = 1 .. NWorld - 1
  BY RingAssumption DEF Ranks, Others
<1>2. ASSUME NEW r \in 1 .. NWorld - 1
      PROVE  /\ r = NWorld - 1 => NextRank(r) = 0
             /\ r # NWorld - 1 => NextRank(r) = r + 1 /\ r + 1 \in Others
  BY <1>1, RingAssumption DEF NextRank
<1>. QED
  BY <1>1, <1>2

LEMMA WayAt ==
  ASSUME NEW s, SetupIs(s), NEW at \in Ranks, NEW u \in -1 .. s.n_layer - 1, OnItsWay(s, at, u)
  PROVE  /\ u # s.n_layer - 1 /\ u + 1 \in LayersOf(s)
         /\ at = 0 \/ s.window[at] > 0 => OwnerOf(s, u + 1) = at
<1>1. u # s.n_layer - 1
  BY RankTypes DEF OnItsWay, ToOutput, AtOutput
<1>2. u + 1 \in LayersOf(s)
  BY <1>1 DEF LayersOf, SetupIs
<1> DEFINE q == OwnerOf(s, u + 1)
<1>3. \/ at = q
      \/ /\ at # 0 /\ (q = 0 \/ at < q)
         /\ \A p \in Ranks : at <= p /\ (q = 0 \/ p < q) => s.window[p] = 0
  BY <1>1 DEF OnItsWay
<1> HIDE DEF q
<1>4. at # q => at # 0 /\ s.window[at] = 0
  BY <1>3, RankTypes
<1>. QED
  BY <1>1, <1>2, <1>4 DEF q

LEMMA WayIn ==
  ASSUME NEW s, SetupIs(s)
  PROVE  -1 \in -1 .. s.n_layer - 1 /\ TurnEnds(s, -1) /\ OnItsWay(s, 1, -1) /\ 1 \in Ranks
<1>1. -1 # s.n_layer - 1 /\ -1 + 1 = 0 /\ 0 \in LayersOf(s) /\ -1 \in -1 .. s.n_layer - 1
  BY DEF SetupIs, LayersOf
<1> DEFINE q == OwnerOf(s, 0)
<1>2. q \in Ranks /\ q # 0 /\ NextWorking(s, 0, q)
  BY <1>1 DEF SetupIs, TurnsAre
<1> HIDE DEF q
<1>3. 1 \in Ranks /\ 1 # 0 /\ (1 = q \/ (1 < q /\ \A p \in Ranks : 1 <= p /\ p < q => s.window[p] = 0))
  BY <1>2, RankTypes DEF NextWorking
<1>4. OnItsWay(s, 1, -1)
  BY <1>1, <1>2, <1>3 DEF OnItsWay, q
<1>. QED
  BY <1>1, <1>3, <1>4 DEF TurnEnds

LEMMA WayForward ==
  ASSUME NEW s, SetupIs(s), NEW r \in Others, s.window[r] = 0, NEW u \in -1 .. s.n_layer - 1,
         OnItsWay(s, r, u)
  PROVE  OnItsWay(s, NextRank(r), u) /\ NextRank(r) \in Ranks
<1>1. u # s.n_layer - 1 /\ u + 1 \in LayersOf(s)
  BY WayAt, RankTypes
<1> DEFINE q == OwnerOf(s, u + 1)
           n == NextRank(r)
<1>2. q \in Ranks /\ s.window[q] > 0
  BY <1>1 DEF SetupIs, TurnsAre
<1>3. \/ r = q
      \/ /\ r # 0 /\ (q = 0 \/ r < q)
         /\ \A p \in Ranks : r <= p /\ (q = 0 \/ p < q) => s.window[p] = 0
  BY <1>1 DEF OnItsWay
<1>4. n = 0 \/ (n = r + 1 /\ r + 1 \in Others)
  BY RankTypes
<1>5. n = 0 => r = NWorld - 1
  BY RankTypes
<1> HIDE DEF q, n
<1>6. r # q
  BY <1>2
<1>7. /\ n \in Ranks
      /\ \/ n = q
         \/ /\ n # 0 /\ (q = 0 \/ n < q)
            /\ \A p \in Ranks : n <= p /\ (q = 0 \/ p < q) => s.window[p] = 0
  <2>1. CASE n = 0
    <3>1. q = 0
      BY <1>2, <1>3, <1>5, <1>6, <2>1, RankTypes
    <3>. QED
      BY <2>1, <3>1, RankTypes
  <2>2. CASE n = r + 1 /\ r + 1 \in Others
    BY <1>2, <1>3, <1>6, <2>2, RankTypes
  <2>. QED
    BY <1>4, <2>1, <2>2
<1>. QED
  BY <1>1, <1>7 DEF OnItsWay, q, n

LEMMA WayOn ==
  ASSUME NEW s, SetupIs(s), NEW r \in Ranks, NEW u \in -1 .. s.n_layer - 1, NEW v, TurnOf(s, r, u, v),
         NEW n, n = IF r = 0 THEN 1 ELSE NextRank(r)
  PROVE  /\ v \in -1 .. s.n_layer - 1
         /\ v = s.n_layer - 1 => OnItsWay(s, IF r = 0 THEN AtOutput ELSE ToOutput, v)
         /\ v # s.n_layer - 1 => OnItsWay(s, n, v) /\ n \in Ranks
<1>1. v \in LayersOf(s) /\ v \in -1 .. s.n_layer - 1 /\ v \in u + 1 .. v
  BY DEF TurnOf, LayersOf, SetupIs
<1>2. OwnerOf(s, v) = r
  BY <1>1 DEF TurnOf
<1>3. CASE v = s.n_layer - 1
  BY <1>1, <1>2, <1>3 DEF OnItsWay
<1>4. CASE v # s.n_layer - 1
  <2> DEFINE q == OwnerOf(s, v + 1)
  <2>1. v + 1 \in LayersOf(s)
    BY <1>1, <1>4 DEF LayersOf, SetupIs
  <2>2. q \in Ranks /\ q # r
    BY <1>1, <1>2, <1>4, <2>1 DEF TurnOf, TurnEnds, SetupIs, TurnsAre, LayersOf
  <2>3. NextWorking(s, r, q)
    BY <1>1, <1>2, <2>1, <2>2 DEF SetupIs, TurnsAre
  <2>4. /\ r = 0 => n = 1 /\ 1 \in Ranks
        /\ r # 0 => (n = 0 /\ r = NWorld - 1) \/ (n = r + 1 /\ r + 1 \in Ranks)
    BY RankTypes DEF Others
  <2> HIDE DEF q
  <2>5. n \in Ranks
    BY <2>4, RankTypes
  <2>6. \/ n = q
        \/ /\ n # 0 /\ (q = 0 \/ n < q)
           /\ \A p \in Ranks : n <= p /\ (q = 0 \/ p < q) => s.window[p] = 0
    <3>1. (q = 0 \/ r < q) /\ \A p \in Ranks : r < p /\ (q = 0 \/ p < q) => s.window[p] = 0
      BY <2>3 DEF NextWorking
    <3>2. CASE r = 0
      BY <2>2, <2>4, <3>1, <3>2, RankTypes
    <3>3. CASE r # 0 /\ n = 0 /\ r = NWorld - 1
      BY <2>2, <3>1, <3>3, RankTypes
    <3>4. CASE r # 0 /\ n = r + 1
      BY <2>2, <3>1, <3>4, RankTypes
    <3>. QED
      BY <2>4, <3>2, <3>3, <3>4
  <2>7. OnItsWay(s, n, v)
    BY <1>4, <2>5, <2>6 DEF OnItsWay, q
  <2>. QED
    BY <1>1, <1>4, <2>5, <2>7
<1>. QED
  BY <1>3, <1>4

-----------------------------------------------------------------------------
(* What a step makes of a worker                                           *)

LEMMA GraphsOf ==
  ASSUME NEW s, SetupIs(s), NEW r \in Others, s.window[r] > 0
  PROVE  LET g == s.graphs[r]
         IN  /\ Len(g) \in Nat /\ Len(g) \in 1 .. Len(g) /\ 1 \in 1 .. Len(g)
             /\ \A j \in 1 .. Len(g) : /\ g[j].first \in Nat /\ g[j].last \in Nat
                                       /\ g[j].first < s.n_layer /\ g[j].last < s.n_layer
                                       /\ g[1].first <= g[j].first /\ g[j].last <= g[Len(g)].last
                                       /\ g[j].first <= g[j].last
<1> DEFINE g == s.graphs[r]
<1>1. /\ g \in Seq([first : LayersOf(s), last : LayersOf(s)]) /\ Len(g) > 0
      /\ \A j \in 1 .. Len(g) : g[j].first <= g[j].last
      /\ \A i, j \in 1 .. Len(g) : i < j => g[i].last < g[j].first
  <2>1. r \in Ranks /\ r # 0
    BY RankTypes
  <2>. QED
    BY <2>1 DEF SetupIs, GraphsAre
<1>2. Len(g) \in Nat /\ \A j \in 1 .. Len(g) : g[j].first \in LayersOf(s) /\ g[j].last \in LayersOf(s)
  BY <1>1, GraphTypes
<1> HIDE DEF g
<1>3. \A j \in 1 .. Len(g) : /\ g[j].first \in Nat /\ g[j].last \in Nat
                             /\ g[j].first < s.n_layer /\ g[j].last < s.n_layer
  BY <1>2 DEF LayersOf, SetupIs
<1>4. ASSUME NEW j \in 1 .. Len(g) PROVE g[1].first <= g[j].first /\ g[j].last <= g[Len(g)].last
  <2>1. 1 \in 1 .. Len(g) /\ Len(g) \in 1 .. Len(g)
    BY <1>1, <1>2
  <2>2. 1 < j => g[1].last < g[j].first
    BY <1>1, <2>1
  <2>3. j < Len(g) => g[j].last < g[Len(g)].first
    BY <1>1, <2>1
  <2>4. g[1].first <= g[1].last /\ g[Len(g)].first <= g[Len(g)].last
    BY <1>1, <2>1
  <2>. QED
    BY <1>2, <1>3, <2>1, <2>2, <2>3, <2>4
<1>. QED
  BY <1>1, <1>2, <1>3, <1>4 DEF g

\* The others, when a device has had its turn.
LEMMA WorkerSkips ==
  ASSUME NEW s, SetupIs(s), NEW q \in Others, s.window[q] > 0, NEW u \in -1 .. s.n_layer - 1,
         NEW r, NEW v, q # r, TurnOf(s, r, u, v),
         NEW d, NEW k, NEW m, NEW l, NEW w, WorkerIs(d, s.graphs[q], k, m, l, u, w)
  PROVE  WorkerIs(d, s.graphs[q], k, m, l, v, w)
<1> DEFINE g == s.graphs[q]
<1>1. /\ \A j \in 1 .. Len(g) : u < g[j].last <=> v < g[j].last
      /\ \A sub : NextGraph(g, sub, u) => NextGraph(g, sub, v)
  BY TurnSkipped, RankTypes
<1>2. Len(g) \in 1 .. Len(g)
  BY GraphsOf
<1> HIDE DEF g
<1>3. WorkerIs(d, g, k, m, l, u, w) => WorkerIs(d, g, k, m, l, v, w)
  BY <1>1, <1>2 DEF WorkerIs
<1>. QED
  BY <1>3 DEF g

\* The one that has had it is at its next sub-graph.
LEMMA WorkerPasses ==
  ASSUME NEW g, NEW d, DeviceOK(d), NEW m, DeviceOK(m), Alike(d, m), IsDecoding(m),
         NEW k, NEW l, ~(k < Len(l)), NEW v, v < g[Len(g)].last, NEW sub, NextGraph(g, sub, v), NEW w,
         NEW e, e = SetSub(d, sub)
  PROVE  WorkerIs(e, g, k, m, l, v, w) /\ DeviceOK(e) /\ e.stop = d.stop
<1>1. /\ DeviceOK(e) /\ e.pc = d.pc /\ e.warm = d.warm /\ e.stop = d.stop /\ e.sub = sub
      /\ e.left = d.left /\ e.pos = d.pos /\ e.cache = d.cache
  BY SubFields
<1>2. Alike(e, m)
  BY <1>1 DEF Alike
<1>. QED
  BY <1>1, <1>2 DEF WorkerIs

\* The one that has had it at its last sub-graph begins the next physical batch.
LEMMA WorkerEnds ==
  ASSUME NEW g, NEW d, DeviceOK(d), NEW m, DeviceOK(m), Alike(d, m), IsDecoding(m),
         NEW k, NEW l, ~(k < Len(l)), NEW v, ~(v < g[Len(g)].last), NEW w, NEW e, e = Onward(d)
  PROVE  WorkerIs(e, g, k, m, l, v, w) /\ DeviceOK(e) /\ e.stop = d.stop
<1>1. Alike(e, Onward(m))
  BY OnwardAlike DEF Alike
<1>2. DeviceOK(e) /\ e.stop = d.stop /\ (e.pc = "tensors" => e.sub = 1)
  BY OnwardFields
<1>. QED
  BY <1>1, <1>2 DEF WorkerIs

\* The master is at its next sub-graph, or at the output layer.
LEMMA WorkerSeesMaster ==
  ASSUME NEW m, NEW n, DeviceOK(m), DeviceOK(n), IsDecoding(m), IsDecoding(n),
         n.warm = m.warm, n.stop = m.stop, n.left = m.left, n.pos = m.pos, n.cache = m.cache,
         NEW d, NEW g, NEW k, NEW l, NEW u, NEW w, WorkerIs(d, g, k, m, l, u, w),
         n.pc = m.pc \/ ~(u < g[Len(g)].last)
  PROVE  WorkerIs(d, g, k, n, l, u, w)
<1>1. ASSUME NEW D, ComesTo(D, k, d.cache, m, l) PROVE ComesTo(D, k, d.cache, n, l)
  BY <1>1 DEF ComesTo, DoneIn
<1>2. Waiting(d, k, m, l, w) => Waiting(d, k, n, l, w)
  BY <1>1 DEF Waiting, DoneIn
<1>3. Alike(Onward(m), Onward(n))
  BY OnwardAlike
<1>4. Alike(d, m) /\ n.pc = m.pc => Alike(d, n)
  BY DEF Alike
<1>5. Alike(d, Onward(m)) => Alike(d, Onward(n))
  BY <1>3 DEF Alike
<1>. QED
  BY <1>2, <1>4, <1>5 DEF WorkerIs

\* The master begins the next physical batch, or its call returns.
LEMMA WorkerStarts ==
  ASSUME NEW m, DeviceOK(m), IsDecoding(m), m.left # 0, Tried(m.cache, m.left, m.pos).ok,
         NEW d, DeviceOK(d), NEW g, Len(g) \in Nat, Len(g) > 0,
         \A j \in 1 .. Len(g) : g[j].first \in Nat /\ g[j].last \in Nat,
         NEW k, NEW l, NEW u, NEW w, ~(k < Len(l)), ~(u < g[Len(g)].last),
         WorkerIs(d, g, k, m, l, u, w)
  PROVE  WorkerIs(d, g, k, Started(m), l, -1, w)
<1>1. Alike(d, Onward(m)) /\ (d.pc = "tensors" => d.sub = 1)
  BY DEF WorkerIs
<1>2. Onward(m) = Started(m)
  BY OnwardFields
<1>3. Started(m).pc = "tensors"
  BY StartedFields
<1>4. d.sub = 1 /\ Alike(d, Started(m)) /\ IsDecoding(Started(m))
  BY <1>1, <1>2, <1>3 DEF Alike, IsDecoding
<1>5. NextGraph(g, 1, -1)
  BY DEF NextGraph
<1>6. -1 < g[Len(g)].last
  OBVIOUS
<1>. QED
  BY <1>4, <1>5, <1>6 DEF WorkerIs

LEMMA WorkerReturns ==
  ASSUME NEW m, DeviceOK(m), IsDecoding(m), ~m.stop, m.left = 0 \/ ~Tried(m.cache, m.left, m.pos).ok,
         NEW n, ~IsDecoding(n), n.cache = Onward(m).cache,
         NEW d, DeviceOK(d), NEW g, NEW l, NEW k, k = Len(l), Len(l) \in Nat, Len(l) > 0,
         NEW u, NEW w, ~(u < g[Len(g)].last),
         WorkerIs(d, g, k, m, l, u, w)
  PROVE  WorkerIs(d, g, k, n, l, -1, w)
<1>1. Alike(d, Onward(m))
  BY DEF WorkerIs
<1>2. d.pc = BackPc(m.stop, m.warm) /\ d.warm = FALSE /\ d.left = 0 /\ d.cache = n.cache
  BY <1>1, OnwardFields DEF Alike
<1>3. d.pc = "meta"
  BY <1>2 DEF BackPc
<1>4. ComesTo([j \in {k} |-> n.cache], k, d.cache, n, l)
  BY <1>2 DEF ComesTo, DoneIn
<1>5. \E D : ComesTo(D, k, d.cache, n, l)
  BY <1>4
<1>6. Waiting(d, k, n, l, w)
  BY <1>2, <1>3, <1>5 DEF Waiting
<1>. QED
  BY <1>6 DEF WorkerIs

\* The master is done: it waits for the STOP to come round.
LEMMA WaitingSame ==
  ASSUME NEW m, NEW n, ~IsDecoding(m), ~IsDecoding(n), n.cache = m.cache,
         NEW d, NEW k, NEW l, NEW w, Waiting(d, k, m, l, w)
  PROVE  Waiting(d, k, n, l, w)
<1>1. ASSUME NEW D, ComesTo(D, k, d.cache, m, l) PROVE ComesTo(D, k, d.cache, n, l)
  BY <1>1 DEF ComesTo, DoneIn
<1>. QED
  BY <1>1 DEF Waiting, DoneIn

LEMMA WaitingStops ==
  ASSUME NEW m, NEW d, NEW e, NEW k, NEW l, NEW w, Waiting(d, k, m, l, w),
         e.stop, e.pc = d.pc \/ e.pc = "left", e.left = 0, e.warm = d.warm, e.cache = d.cache
  PROVE  Waiting(e, k, m, l, w)
<1>1. \E D : ComesTo(D, k, e.cache, m, l)
  BY DEF Waiting
<1>. QED
  BY <1>1 DEF Waiting

LEMMA TookFields ==
  ASSUME NEW d, DeviceOK(d), NEW c, c.op = "meta" => c.n \in Nat \ {0}
  PROVE  LET e == Took(d, c)
         IN  /\ DeviceOK(e) /\ e.pc = d.pc /\ e.warm = d.warm /\ e.stop = d.stop /\ e.sub = d.sub
             /\ e.cache = TookCache(d.cache, c)
             /\ c.op = "meta" => e.left = c.n /\ e.pos = c.p0
             /\ c.op # "meta" => e.left = d.left /\ e.pos = d.pos
<1> DEFINE e == Took(d, c)
           n == IF c.op = "meta" THEN c.n ELSE d.left
           p == IF c.op = "meta" THEN c.p0 ELSE d.pos
<1>1. e = Device7(d.pc, d.warm, d.stop, d.sub, n, p, TookCache(d.cache, c))
  BY TookIs DEF DeviceOK
<1>2. n \in Nat /\ (c.op = "meta" => n = c.n /\ p = c.p0) /\ (c.op # "meta" => n = d.left /\ p = d.pos)
  BY DEF DeviceOK
<1> HIDE DEF e, n, p
<1>3. /\ IsDevice(e) /\ e.pc = d.pc /\ e.warm = d.warm /\ e.stop = d.stop /\ e.sub = d.sub
      /\ e.left = n /\ e.pos = p /\ e.cache = TookCache(d.cache, c)
  BY <1>1, FieldsOf
<1>. QED
  BY <1>2, <1>3 DEF e, DeviceOK

LEMMA TookCacheMeta ==
  ASSUME NEW cache, NEW c, c.op = "meta" PROVE TookCache(cache, c) = cache
BY DEF TookCache

\* A worker takes the next announcement: it waits again, or it is where the master is.
LEMMA WorkerTakes ==
  ASSUME NEW d, DeviceOK(d), NEW m, DeviceOK(m), NEW l, Len(l) \in Nat, NEW k \in Nat, k < Len(l),
         NEW w, w \in BOOLEAN, Waiting(d, k, m, l, w), NEW c, c = l[k + 1].c,
         c.op = "meta" => c.n \in Nat \ {0},
         IsDecoding(m) /\ k + 1 = Len(l) =>
           m.pc = "tensors" /\ ~m.stop /\ ~d.stop /\ (m.warm <=> w /\ Len(l) = 1),
         NEW e, e = Onward(Took(d, c))
  PROVE  /\ DeviceOK(e) /\ e.stop = d.stop
         /\ IF ~IsDecoding(m) \/ k + 1 < Len(l) THEN Waiting(e, k + 1, m, l, w)
            ELSE Alike(e, m) /\ e.sub = 1
<1> DEFINE t == Took(d, c)
           y == Tried(d.cache, c.n, c.p0)
<1>1. /\ DeviceOK(t) /\ t.warm = d.warm /\ t.stop = d.stop
      /\ t.cache = TookCache(d.cache, c)
      /\ c.op = "meta" => t.left = c.n /\ t.pos = c.p0 /\ c.n # 0
      /\ c.op # "meta" => t.left = d.left
  BY TookFields
<1> HIDE DEF t
<1>2. e = Onward(t)
  BY DEF t
<1>3. DeviceOK(e) /\ e.stop = d.stop
  <2>1. DeviceOK(t) /\ t.stop = d.stop
    BY <1>1
  <2>2. DeviceOK(Onward(t)) /\ Onward(t).stop = t.stop
    BY <2>1, OnwardFields, Zenon
  <2>. QED
    BY <1>2, <2>1, <2>2, Zenon
<1>4. PICK D : ComesTo(D, k, d.cache, m, l)
  BY DEF Waiting
<1>5. CASE k + 1 <= DoneIn(m, l)
  <2>1. d.warm = FALSE /\ d.left = 0
    BY <1>5 DEF Waiting, DeviceOK
  <2>2. D[k] = d.cache /\ IsQuiet(d.cache, c) /\ D[k + 1] = After(d.cache, c)
    <3>1. k + 1 \in k + 1 .. DoneIn(m, l) /\ k + 1 - 1 = k
      BY <1>5 DEF DoneIn
    <3>. QED
      BY <1>4, <3>1 DEF ComesTo
  <2>3. /\ e.warm = FALSE /\ e.left = 0 /\ e.pc = BackPc(d.stop, d.warm)
        /\ e.cache = BackCache(d.warm, After(d.cache, c))
    <3>1. CASE c.op = "meta"
      <4>1. t.cache = d.cache /\ After(d.cache, c) = y.cache /\ ~y.ok
        BY <1>1, <2>2, <3>1, TookCacheMeta DEF After, IsQuiet
      <4>2. t.left # 0 /\ Tried(t.cache, t.left, t.pos) = y
        BY <1>1, <3>1, <4>1
      <4> HIDE DEF y
      <4>. QED
        BY <1>1, <1>2, <4>1, <4>2, OnwardFields
    <3>2. CASE c.op # "meta"
      <4>1. t.left = 0 /\ t.cache = After(d.cache, c)
        BY <1>1, <2>1, <3>2 DEF After
      <4>. QED
        BY <1>1, <1>2, <4>1, OnwardFields
    <3>. QED
      BY <3>1, <3>2
  <2>4. e.cache = D[k + 1]
    BY <2>1, <2>2, <2>3 DEF BackCache
  <2>5. ComesTo(D, k + 1, e.cache, m, l)
    <3>1. \A j \in k + 1 + 1 .. DoneIn(m, l) : j \in k + 1 .. DoneIn(m, l)
      BY DEF DoneIn
    <3>. QED
      BY <1>4, <2>4, <3>1 DEF ComesTo
  <2>6. e.pc = IF d.stop THEN "left" ELSE "meta"
    BY <2>1, <2>3 DEF BackPc
  <2>7. Waiting(e, k + 1, m, l, w)
    <3>1. ~(k + 1 = 0)
      OBVIOUS
    <3>2. \E E : ComesTo(E, k + 1, e.cache, m, l)
      BY <2>5
    <3>. QED
      BY <1>3, <2>3, <2>6, <3>1, <3>2 DEF Waiting
  <2>. QED
    BY <1>3, <1>5, <2>7 DEF DoneIn
<1>6. CASE ~(k + 1 <= DoneIn(m, l))
  <2>1. IsDecoding(m) /\ k + 1 = Len(l) /\ k = Len(l) - 1
    <3>1. ~IsDecoding(m) => DoneIn(m, l) = Len(l)
      BY DEF DoneIn
    <3>2. IsDecoding(m) => DoneIn(m, l) = Len(l) - 1
      BY DEF DoneIn
    <3>3. IsDecoding(m)
      <4> SUFFICES ASSUME ~IsDecoding(m) PROVE FALSE
        OBVIOUS
      <4>1. DoneIn(m, l) = Len(l)
        BY <3>1
      <4>. QED
        BY <1>6, <4>1
    <3>4. ~(k + 1 <= Len(l) - 1)
      BY <1>6, <3>2, <3>3
    <3>5. k + 1 = Len(l) /\ k = Len(l) - 1
      BY <3>4
    <3>. QED
      BY <3>3, <3>5
  <2>2. /\ c.op = "meta" /\ D[k] = d.cache /\ y.ok /\ m.cache = y.cache
        /\ m.left = c.n - UbatchSize(c.n) /\ m.pos = c.p0 + UbatchSize(c.n)
    BY <1>4, <2>1 DEF ComesTo
  <2>3. t.cache = d.cache /\ t.left = c.n /\ t.pos = c.p0 /\ t.left # 0
    BY <1>1, <2>2, TookCacheMeta
  <2>4. e = Started(t)
    BY <1>1, <1>2, <2>2, <2>3, OnwardFields
  <2>5. /\ e.pc = "tensors" /\ e.sub = 1 /\ e.warm = d.warm /\ e.stop = d.stop
        /\ e.left = m.left /\ e.pos = m.pos /\ e.cache = m.cache
    BY <1>1, <2>2, <2>3, <2>4, StartedFields
  <2>6. d.warm <=> m.warm
    BY <2>1 DEF Waiting
  <2>7. d.warm = m.warm /\ d.stop = m.stop
    BY <2>1, <2>6 DEF DeviceOK
  <2>8. Alike(e, m)
    BY <2>1, <2>5, <2>7 DEF Alike
  <2>. QED
    BY <1>3, <2>1, <2>5, <2>8
<1>. QED
  BY <1>5, <1>6

-----------------------------------------------------------------------------
(* A call of the master                                                    *)

LEMMA ConcatLengths ==
  ASSUME NEW S, NEW s \in Seq(S), NEW t \in Seq(S)
  PROVE  /\ Len(s \o t) = Len(s) + Len(t)
         /\ \A i \in 1 .. Len(s) : (s \o t)[i] = s[i]
         /\ \A i \in 1 .. Len(t) : (s \o t)[Len(s) + i] = t[i]
OBVIOUS

TookStep(d, cs, f, k) == IF k = 0 THEN d ELSE Took(f[k - 1], cs[k])

IsTook(d, cs, f) == f = [k \in 0 .. Len(cs) |-> TookStep(d, cs, f, k)]

TookSteps(d, cs) == CHOOSE f : IsTook(d, cs, f)

LEMMA TookAllIs ==
  ASSUME NEW d, NEW cs
  PROVE  TookAll(d, cs) = TookSteps(d, cs)[Len(cs)]
BY DEF TookAll, TookSteps, IsTook, TookStep

\* The recursion is well defined: its steps are those of some function.
LEMMA TookExists ==
  ASSUME NEW d, NEW cs, Len(cs) \in Nat
  PROVE  IsTook(d, cs, TookSteps(d, cs))
<1> DEFINE S == 0 .. Len(cs)
           Upto(k, f) == \A n \in S : n < k => f[n] = TookStep(d, cs, f, n)
           T == {k \in Nat : \E f : Upto(k, f)}
<1>0. ASSUME NEW n \in S, NEW f, NEW g, n # 0 => f[n - 1] = g[n - 1]
      PROVE  TookStep(d, cs, f, n) = TookStep(d, cs, g, n)
  <2>1. CASE n = 0
    BY <2>1 DEF TookStep
  <2>2. CASE n # 0
    <3>1. f[n - 1] = g[n - 1]
      BY <1>0, <2>2
    <3> QED
      BY <2>2, <3>1, Zenon DEF TookStep
  <2> QED
    BY <2>1, <2>2
<1>1. 0 \in T
  <2>1. ~(\E n \in S : n < 0)
    OBVIOUS
  <2> QED
    BY <2>1
<1>2. ASSUME NEW k \in Nat, k \in T
      PROVE  k + 1 \in T
  <2>1. PICK f : Upto(k, f)
    BY <1>2
  <2> DEFINE g == [n \in S |-> TookStep(d, cs, f, n)]
  <2>2. ASSUME NEW n \in S, n < k + 1
        PROVE  g[n] = TookStep(d, cs, g, n)
    <3>1. n # 0 => f[n - 1] = g[n - 1]
      <4> SUFFICES ASSUME n # 0 PROVE f[n - 1] = g[n - 1]
        OBVIOUS
      <4>1. n - 1 \in S /\ n - 1 < k
        BY <2>2
      <4> QED
        BY <2>1, <4>1
    <3> HIDE DEF g
    <3>2. TookStep(d, cs, f, n) = TookStep(d, cs, g, n)
      BY <1>0, <3>1
    <3> QED
      BY <3>2 DEF g
  <2>3. Upto(k + 1, g)
    BY <2>2
  <2> HIDE DEF g, Upto
  <2> QED
    BY <2>3
<1> HIDE DEF T
<1>3. Len(cs) + 1 \in T
  <2>1. \A k \in Nat : k \in T
    BY <1>1, <1>2, NatSetInduction
  <2> QED
    BY <2>1
<1>4. PICK f : Upto(Len(cs) + 1, f)
  BY <1>3 DEF T
<1> DEFINE g == [n \in S |-> TookStep(d, cs, f, n)]
<1>5. \A n \in S : f[n] = g[n]
  BY <1>4
<1>6. ASSUME NEW n \in S
      PROVE  g[n] = TookStep(d, cs, g, n)
  <2> HIDE DEF g
  <2>1. n # 0 => n - 1 \in S
    OBVIOUS
  <2>2. n # 0 => f[n - 1] = g[n - 1]
    BY <1>5, <2>1
  <2>3. TookStep(d, cs, f, n) = TookStep(d, cs, g, n)
    BY <1>0, <2>2
  <2> QED
    BY <2>3 DEF g
<1>7. g = [n \in S |-> TookStep(d, cs, g, n)]
  <2>1. [n \in S |-> g[n]] = [n \in S |-> TookStep(d, cs, g, n)]
    BY <1>6
  <2> QED
    BY <2>1
<1> HIDE DEF g
<1>8. IsTook(d, cs, g)
  BY <1>7 DEF IsTook
<1> QED
  BY <1>8 DEF TookSteps

\* The announcements of a call: changes of the cache, and a batch at the end.
IsCall(cs) ==
  /\ Len(cs) \in Nat /\ Len(cs) > 0
  /\ \A k \in 1 .. Len(cs) : cs[k].op = "meta" <=> k = Len(cs)
  /\ cs[Len(cs)].n \in Nat \ {0}

CachesOf(f, cs) == \A k \in 1 .. Len(cs) : f[k].cache = TookCache(f[k - 1].cache, cs[k])

\* What the master is in the course of it, and at its end.
LEMMA CallSteps ==
  ASSUME NEW d, DeviceOK(d), NEW cs, IsCall(cs)
  PROVE  LET f == TookSteps(d, cs)
             n == Len(cs)
         IN  /\ f[0] = d
             /\ CachesOf(f, cs)
             /\ f[n].cache = f[n - 1].cache
             /\ f[n] = TookAll(d, cs) /\ DeviceOK(f[n]) /\ f[n].pc = d.pc
             /\ f[n].warm = d.warm /\ f[n].stop = d.stop
             /\ f[n].left = cs[n].n /\ f[n].pos = cs[n].p0
<1> DEFINE f == TookSteps(d, cs)
           n == Len(cs)
<1>1. n \in Nat /\ n > 0 /\ (\A k \in 1 .. n : cs[k].op = "meta" <=> k = n) /\ cs[n].n \in Nat \ {0}
  BY DEF IsCall
<1>2. f = [k \in 0 .. n |-> TookStep(d, cs, f, k)]
  BY <1>1, TookExists DEF IsTook
<1>3. f[n] = TookAll(d, cs)
  BY TookAllIs
<1> HIDE DEF f, n
<1>4. f[0] = d /\ \A k \in 1 .. n : f[k] = Took(f[k - 1], cs[k])
  <2>1. \A k \in 0 .. n : f[k] = TookStep(d, cs, f, k)
    BY <1>2
  <2>2. \A k \in 1 .. n : k \in 0 .. n /\ k # 0
    BY <1>1
  <2>. QED
    BY <1>1, <2>1, <2>2 DEF TookStep
<1> DEFINE Good(k) == DeviceOK(f[k]) /\ f[k].pc = d.pc /\ f[k].warm = d.warm /\ f[k].stop = d.stop
           T == {k \in Nat : k <= n => Good(k)}
<1>5. \A k \in Nat : k \in T
  <2>1. 0 \in T
    BY <1>4
  <2>2. ASSUME NEW k \in Nat, k \in T PROVE k + 1 \in T
    <3> SUFFICES ASSUME k + 1 <= n PROVE Good(k + 1)
      OBVIOUS
    <3>1. Good(k) /\ k + 1 \in 1 .. n /\ f[k + 1] = Took(f[k], cs[k + 1])
      BY <1>1, <1>4, <2>2
    <3>2. cs[k + 1].op = "meta" => cs[k + 1].n \in Nat \ {0}
      BY <1>1, <3>1
    <3>. QED
      BY <3>1, <3>2, TookFields
  <2> HIDE DEF T
  <2>. QED
    BY <2>1, <2>2, NatSetInduction
<1>6. \A k \in 0 .. n : Good(k)
  BY <1>1, <1>5
<1>7. ASSUME NEW k \in 1 .. n
      PROVE  /\ f[k].cache = TookCache(f[k - 1].cache, cs[k])
             /\ k = n => f[k].left = cs[n].n /\ f[k].pos = cs[n].p0
  <2>1. k - 1 \in 0 .. n /\ DeviceOK(f[k - 1]) /\ f[k] = Took(f[k - 1], cs[k])
    BY <1>1, <1>4, <1>6
  <2>2. cs[k].op = "meta" => cs[k].n \in Nat \ {0}
    BY <1>1
  <2>. QED
    BY <1>1, <2>1, <2>2, TookFields
<1>8. f[n].cache = f[n - 1].cache
  BY <1>1, <1>7, TookCacheMeta
<1>9. n \in 0 .. n /\ n \in 1 .. n
  BY <1>1
<1>10. CachesOf(f, cs)
  BY <1>7 DEF CachesOf, n
<1>. QED
  BY <1>3, <1>4, <1>6, <1>7, <1>8, <1>9, <1>10 DEF f, n

\* The master at the end of a call.
CallGives(m, cs, n, f, a, t, e) ==
  /\ n \in Nat /\ n > 0 /\ cs[n].n \in Nat \ {0}
  /\ \A j \in 1 .. n : cs[j].op = "meta" <=> j = n
  /\ f[0] = m /\ a.cache = f[n - 1].cache
  /\ CachesOf(f, cs)
  /\ DeviceOK(e) /\ e.stop = m.stop
  /\ t.ok => /\ e.pc = "tensors" /\ e.warm = m.warm /\ e.sub = 1 /\ e.cache = t.cache
             /\ e.left = cs[n].n - UbatchSize(cs[n].n) /\ e.pos = cs[n].p0 + UbatchSize(cs[n].n)
  /\ ~t.ok => /\ e.pc \in {"ready", "failed"} /\ e.warm = FALSE /\ e.left = 0
              /\ e.cache = BackCache(m.warm, t.cache)

LEMMA CallIs ==
  ASSUME NEW m, DeviceOK(m), NEW cs, IsCall(cs), NEW n, n = Len(cs), NEW f, f = TookSteps(m, cs),
         NEW a, a = TookAll(m, cs), NEW t, t = Tried(a.cache, cs[n].n, cs[n].p0),
         NEW e, e = NextUbatch(0, a)
  PROVE  CallGives(m, cs, n, f, a, t, e)
<1>1. n \in Nat /\ n > 0 /\ cs[n].n \in Nat \ {0} /\ \A j \in 1 .. n : cs[j].op = "meta" <=> j = n
  BY DEF IsCall
<1>2. /\ f[0] = m
      /\ CachesOf(f, cs)
      /\ f[n].cache = f[n - 1].cache
      /\ f[n] = a /\ DeviceOK(f[n]) /\ f[n].pc = m.pc
      /\ f[n].warm = m.warm /\ f[n].stop = m.stop
      /\ f[n].left = cs[n].n /\ f[n].pos = cs[n].p0
  BY CallSteps
<1>3. t = Tried(a.cache, a.left, a.pos) /\ a.left # 0 /\ DeviceOK(a)
  BY <1>1, <1>2
<1>4. \/ t.ok /\ e = Started(a)
      \/ /\ ~t.ok
         /\ DeviceOK(e) /\ e.pc \in {"ready", "failed"}
         /\ e.warm = FALSE /\ e.stop = a.stop /\ e.left = 0
         /\ e.cache = Onward(a).cache
  <2>1. LET x == NextUbatch(0, a)
            y == Tried(a.cache, a.left, a.pos)
        IN  \/ a.left # 0 /\ y.ok /\ x = Started(a)
            \/ /\ a.left = 0 \/ ~y.ok
               /\ DeviceOK(x) /\ x.pc \in {"ready", "failed"}
               /\ x.warm = FALSE /\ x.stop = a.stop /\ x.left = 0
               /\ x.cache = Onward(a).cache
    BY <1>3, MasterOnward
  <2>. QED
    BY <1>3, <2>1
<1>5. CASE t.ok /\ e = Started(a)
  <2>1. Onward(a) = Started(a) /\ DeviceOK(Onward(a))
    BY <1>3, <1>5, OnwardFields
  <2>2. /\ e.pc = "tensors" /\ e.warm = a.warm /\ e.stop = a.stop /\ e.sub = 1 /\ e.cache = t.cache
        /\ e.left = a.left - UbatchSize(a.left) /\ e.pos = a.pos + UbatchSize(a.left)
    BY <1>3, <1>5, StartedFields
  <2>. QED
    BY <1>1, <1>2, <1>5, <2>1, <2>2 DEF CallGives
<1>6. CASE ~t.ok /\ e.cache = Onward(a).cache /\ DeviceOK(e) /\ e.pc \in {"ready", "failed"}
           /\ e.warm = FALSE /\ e.stop = a.stop /\ e.left = 0
  <2>1. Onward(a).cache = BackCache(a.warm, t.cache)
    BY <1>3, <1>6, OnwardFields
  <2>. QED
    BY <1>1, <1>2, <1>6, <2>1 DEF CallGives
<1>. QED
  BY <1>4, <1>5, <1>6

\* The same without the master's own fields: n announcements, the last of which is a batch that
\* finds its cells or not.
CallEnds(m, cs, n, f, t, e) ==
  /\ f[0] = m /\ t = Tried(f[n - 1].cache, cs[n].n, cs[n].p0)
  /\ \A j \in 1 .. n : cs[j].op = "meta" <=> j = n
  /\ n = Len(cs) /\ CachesOf(f, cs)
  /\ IsDecoding(e) <=> t.ok
  /\ e.cache = t.cache
  /\ t.ok => e.left = cs[n].n - UbatchSize(cs[n].n) /\ e.pos = cs[n].p0 + UbatchSize(cs[n].n)

\* The log l2 is l with the announcements cs behind it.
Extends(l2, l, cs, n) ==
  /\ Len(l) \in Nat /\ Len(l2) = Len(l) + n
  /\ \A j \in 1 .. Len(l) : l2[j] = l[j]
  /\ \A j \in 1 .. n : l2[Len(l) + j].c = cs[j]

\* One announcement leads from one cache to the next.
Leads(D, l, j) == IsQuiet(D[j - 1], l[j].c) /\ D[j] = After(D[j - 1], l[j].c)

\* A worker that waits still comes to the master's cache when the master has made a call.
LEMMA WorkerCalled ==
  ASSUME NEW m, NEW cs, NEW n \in Nat, n > 0, NEW f, NEW t, NEW e,
         CallEnds(m, cs, n, f, t, e), ~IsDecoding(m),
         NEW l, NEW l2, Extends(l2, l, cs, n),
         NEW d, NEW k \in Nat, k <= Len(l), NEW w, Waiting(d, k, m, l, w),
         d.warm => IsDecoding(e) /\ Len(l) + n = 1
  PROVE  Waiting(d, k, e, l2, w)
<1> DEFINE L == Len(l)
<1>1. L \in Nat /\ k <= L
  BY DEF Extends
<1>3. /\ Len(l2) = L + n /\ \A j \in 1 .. L : l2[j] = l[j]
      /\ \A j \in 1 .. n : l2[L + j].c = cs[j]
  BY DEF Extends
<1>6. d.warm => IsDecoding(e) /\ L + n = 1
  OBVIOUS
<1>7. DoneIn(m, l) = L
  BY DEF DoneIn
<1>8. PICK D : ComesTo(D, k, d.cache, m, l)
  BY DEF Waiting
<1>9. D[k] = d.cache /\ D[L] = m.cache /\ \A j \in k + 1 .. L : Leads(D, l, j)
  BY <1>7, <1>8 DEF ComesTo, Leads
<1>20. /\ f[0].cache = m.cache /\ t = Tried(f[n - 1].cache, cs[n].n, cs[n].p0)
       /\ \A j \in 1 .. n : cs[j].op = "meta" <=> j = n
       /\ CachesOf(f, cs)
       /\ IsDecoding(e) <=> t.ok
       /\ e.cache = t.cache
       /\ t.ok => e.left = cs[n].n - UbatchSize(cs[n].n) /\ e.pos = cs[n].p0 + UbatchSize(cs[n].n)
  BY DEF CallEnds
<1>21. ASSUME NEW j \in 1 .. n PROVE f[j].cache = TookCache(f[j - 1].cache, cs[j])
  BY <1>21 DEF CallEnds, CachesOf
<1> HIDE DEF L
<1> DEFINE E == [j \in Nat |-> IF j <= L THEN D[j] ELSE IF j < L + n THEN f[j - L].cache ELSE t.cache]
<1>10. /\ \A j \in Nat : j <= L => E[j] = D[j]
       /\ \A j \in 1 .. n - 1 : E[L + j] = f[j].cache
       /\ E[L + n] = t.cache
  <2>1. ASSUME NEW j \in Nat, j <= L PROVE E[j] = D[j]
    BY <2>1
  <2>2. ASSUME NEW j \in 1 .. n - 1 PROVE E[L + j] = f[j].cache
    <3>1. L + j \in Nat /\ ~(L + j <= L) /\ L + j < L + n /\ L + j - L = j
      BY <1>1
    <3>. QED
      BY <1>1, <3>1
  <2>3. E[L + n] = t.cache
    <3>1. L + n \in Nat /\ ~(L + n <= L) /\ ~(L + n < L + n)
      BY <1>1
    <3>. QED
      BY <3>1
  <2> HIDE DEF E
  <2>. QED
    BY <2>1, <2>2, <2>3
<1> HIDE DEF E

<1>11. ASSUME NEW j \in 0 .. n - 1 PROVE E[L + j] = f[j].cache
  <2>1. E[L] = f[0].cache
    BY <1>1, <1>9, <1>10, <1>20
  <2>2. L + 0 = L /\ (j = 0 \/ j \in 1 .. n - 1)
    BY <1>1
  <2>. QED
    BY <1>10, <2>1, <2>2
<1>12. ASSUME NEW j \in k + 1 .. L + n, j < L + n \/ ~t.ok PROVE Leads(E, l2, j)
  <2>1. CASE j <= L
    <3>1. j \in k + 1 .. L /\ j \in 1 .. L /\ j \in Nat /\ j - 1 \in Nat /\ j - 1 <= L
      BY <1>1, <2>1
    <3>2. E[j] = D[j] /\ E[j - 1] = D[j - 1] /\ l2[j] = l[j] /\ Leads(D, l, j)
      BY <1>3, <1>9, <1>10, <3>1
    <3>. QED
      BY <3>2 DEF Leads
  <2>2. CASE ~(j <= L)
    <3> DEFINE i == j - L
    <3>1. i \in 1 .. n /\ j = L + i /\ i - 1 \in 0 .. n - 1 /\ j - 1 = L + (i - 1)
      BY <1>1, <2>2
    <3> HIDE DEF i
    <3>2. E[j - 1] = f[i - 1].cache /\ l2[j].c = cs[i]
      BY <1>3, <1>11, <3>1
    <3>3. CASE i < n
      <4>1. i \in 1 .. n - 1 /\ cs[i].op # "meta"
        BY <1>1, <1>20, <3>1, <3>3
      <4>2. E[j] = f[i].cache /\ f[i].cache = TookCache(f[i - 1].cache, cs[i])
        BY <1>10, <1>21, <3>1, <4>1
      <4>. QED
        BY <3>2, <4>1, <4>2 DEF Leads, IsQuiet, After
    <3>4. CASE i = n
      <4>1. ~t.ok
        BY <1>1, <1>12, <3>1, <3>4
      <4>2. cs[i].op = "meta" /\ E[j] = t.cache
        BY <1>10, <1>20, <3>1, <3>4
      <4>3. t = Tried(E[j - 1], cs[i].n, cs[i].p0)
        BY <1>20, <3>2, <3>4
      <4>. QED
        BY <3>2, <4>1, <4>2, <4>3 DEF Leads, IsQuiet, After
    <3>5. i < n \/ i = n
      BY <3>1
    <3>. QED
      BY <3>3, <3>4, <3>5
  <2>. QED
    BY <2>1, <2>2
<1>13. E[k] = d.cache
  BY <1>1, <1>9, <1>10
<1>14. E[L + n - 1] = f[n - 1].cache
  <2>1. L + n - 1 = L + (n - 1) /\ n - 1 \in 0 .. n - 1
    BY <1>1
  <2>. QED
    BY <1>11, <2>1
<1>15. ComesTo(E, k, d.cache, e, l2)
  <2>1. CASE IsDecoding(e)
    <3>1. DoneIn(e, l2) = L + n - 1 /\ L + n = Len(l2)
      BY <1>1, <1>3, <2>1 DEF DoneIn
    <3>2. ASSUME NEW j \in k + 1 .. DoneIn(e, l2) PROVE Leads(E, l2, j)
      <4>1. j \in k + 1 .. L + n /\ j < L + n
        BY <1>1, <3>1
      <4>. QED
        BY <1>12, <4>1
    <3>3. t.ok /\ l2[Len(l2)].c = cs[n] /\ cs[n].op = "meta"
      <4>1. n \in 1 .. n
        OBVIOUS
      <4>. QED
        BY <1>3, <1>20, <2>1, <3>1, <4>1
    <3>4. t = Tried(E[Len(l2) - 1], cs[n].n, cs[n].p0)
      BY <1>1, <1>3, <1>14, <1>20, <3>1
    <3>. QED
      BY <1>13, <1>20, <2>1, <3>2, <3>3, <3>4 DEF ComesTo, Leads
  <2>2. CASE ~IsDecoding(e)
    <3>1. DoneIn(e, l2) = L + n /\ Len(l2) = L + n
      BY <1>3, <2>2 DEF DoneIn
    <3>2. ASSUME NEW j \in k + 1 .. DoneIn(e, l2) PROVE Leads(E, l2, j)
      BY <1>12, <1>20, <2>2, <3>1
    <3>3. E[Len(l2)] = e.cache
      BY <1>10, <1>20, <3>1
    <3>. QED
      BY <1>13, <2>2, <3>2, <3>3 DEF ComesTo, Leads
  <2>. QED
    BY <2>1, <2>2
<1>16. d.warm => DoneIn(e, l2) = 0
  <2> SUFFICES ASSUME d.warm PROVE DoneIn(e, l2) = 0
    OBVIOUS
  <2>1. IsDecoding(e) /\ Len(l2) = 1
    BY <1>3, <1>6
  <2>. QED
    BY <2>1 DEF DoneIn
<1>. QED
  <2>1. \E F : ComesTo(F, k, d.cache, e, l2)
    BY <1>15
  <2>. QED
    BY <1>16, <2>1 DEF Waiting

-----------------------------------------------------------------------------
(* The steps                                                               *)

LEMMA OneDevice ==
  ASSUME NEW f, f = [r \in Ranks |-> f[r]], NEW q \in Ranks, NEW x, NEW g, g = [f EXCEPT ![q] = x]
  PROVE  /\ g[q] = x /\ \A r \in Ranks : r # q => g[r] = f[r]
         /\ g = [r \in Ranks |-> g[r]]
<1>1. \A r \in Ranks : g[r] = IF r = q THEN x ELSE f[r]
  OBVIOUS
<1>2. g = [r \in Ranks |-> g[r]]
  BY Zenon
<1>. QED
  BY <1>1, <1>2

\* Nothing but devices changes, and not the tokens that the master has left.
LEMMA QueuesSame ==
  ASSUME UNCHANGED <<setup, log, ring, direct>>, dev'[0].left = dev[0].left,
         NEW at, NEW u, Queues(at, u)
  PROVE  Queues(at, u)'
<1>1. Batch(u)' = Batch(u)
  BY DEF Batch, Announcing
<1>2. \A r : HandedTo(r)' = HandedTo(r)
  BY DEF HandedTo, Reached
<1>. QED
  BY <1>1, <1>2 DEF Queues

\* Between two calls of the master one device changes, and nothing that is on its way.
LEMMA QuietInStep ==
  ASSUME NEW at, NEW u, InStep(at, u), ~IsDecoding(dev[0]), UNCHANGED <<setup, log, ring, direct>>,
         NEW r \in Ranks, NEW x, dev' = [dev EXCEPT ![r] = x], DeviceOK(x), MasterIs',
         r = 0 => ~IsDecoding(x) /\ x.cache = dev[0].cache /\ x.left = dev[0].left,
         r \in Forwarders => x.pc \in {"forward", "left"},
         r \in Workers => Waiting(x, Len(log[r]), dev[0], log[0], setup.warmup)
  PROVE  InStep(at, u)'
<1> DEFINE m == dev[0]
           n == dev'[0]
<1>1. 0 \in Ranks /\ at = Nowhere
  BY RankTypes DEF InStep
<1>2. dev'[r] = x /\ (\A q \in Ranks : q # r => dev'[q] = dev[q]) /\ dev' = [q \in Ranks |-> dev'[q]]
  BY <1>1, OneDevice DEF InStep
<1>3. ~IsDecoding(m) /\ ~IsDecoding(n) /\ n.cache = m.cache /\ n.left = m.left
  BY <1>1, <1>2 DEF InStep
<1>4. Queues(at, u)'
  BY <1>3, QueuesSame DEF InStep
<1>5. ASSUME NEW q \in Workers
      PROVE  WorkerIs(dev[q], Graphs(q), Len(log[q]), dev[0], log[0], u, setup.warmup)'
  <2>1. q \in Ranks /\ q # 0 /\ Graphs(q)' = Graphs(q)
    BY DEF Workers, Graphs
  <2>2. q # r => Waiting(dev[q], Len(log[q]), m, log[0], setup.warmup)
    BY <1>3 DEF InStep, WorkerIs
  <2>3. Waiting(dev'[q], Len(log[q]), m, log[0], setup.warmup)
    BY <1>2, <2>1, <2>2
  <2>4. Waiting(dev'[q], Len(log[q]), n, log[0], setup.warmup)
    BY <1>3, <2>3, WaitingSame
  <2>. QED
    BY <1>3, <2>1, <2>4 DEF WorkerIs
<1>6. Workers' = Workers /\ Forwarders' = Forwarders /\ Forwarders \subseteq Ranks
  BY DEF Workers, Forwarders, window
<1>7. \A q \in Forwarders : dev'[q].pc \in {"forward", "left"}
  BY <1>2, <1>6 DEF InStep
<1>8. \A q \in Ranks : DeviceOK(dev'[q])
  BY <1>2 DEF InStep
<1>9. \A k \in 1 .. Announcing' : IsAnnouncement(log'[0][k], k)
  BY DEF InStep, Announcing
<1>. QED
  BY <1>1, <1>2, <1>3, <1>4, <1>5, <1>6, <1>7, <1>8, <1>9 DEF InStep

LEMMA FinishInStep ==
  ASSUME NEW at, NEW u, InStep(at, u), Finish PROVE InStep(at, u)'
<1> DEFINE m == dev[0]
           n == [m EXCEPT !.pc = "stopping"]
<1>1. 0 \in Ranks /\ DeviceOK(m) /\ m.pc = "ready" /\ ~m.warm
  BY RankTypes DEF InStep, Finish
<1>2. /\ DeviceOK(n) /\ n.pc = "stopping" /\ n.warm = m.warm /\ n.stop = m.stop /\ n.left = m.left
      /\ n.cache = m.cache
  <2> HIDE DEF n
  <2>1. n = Device7("stopping", m.warm, m.stop, m.sub, m.left, m.pos, m.cache)
    BY <1>1, PcForm DEF DeviceOK, n
  <2>. QED
    BY <1>1, <2>1, FieldsOf DEF DeviceOK
<1>3. dev' = [dev EXCEPT ![0] = n] /\ stop_at' = 1 /\ UNCHANGED <<setup, log, ring, direct>>
  BY DEF Finish
<1> HIDE DEF n
<1>4. dev'[0] = n
  BY <1>1, <1>3, OneDevice DEF InStep
<1>5. ~IsDecoding(m) /\ ~IsDecoding(n)
  BY <1>1, <1>2 DEF IsDecoding
<1>6. MasterIs'
  <2>1. n.warm <=> m.warm
    BY <1>2, Zenon
  <2>2. /\ m.warm <=> setup.warmup /\ (Announcing = 0 \/ (Announcing = 1 /\ IsDecoding(m)))
        /\ m.warm /\ ~IsDecoding(m) => m.cache = EmptyCache
    BY DEF InStep, MasterIs
  <2>3. Announcing' = Announcing /\ setup' = setup
    BY <1>3 DEF Announcing
  <2>. QED
    BY <1>1, <1>2, <1>4, <1>5, <2>1, <2>2, <2>3 DEF MasterIs
<1>7. 0 \notin Forwarders /\ 0 \notin Workers
  BY DEF Forwarders, Workers
<1>. QED
  BY <1>1, <1>2, <1>3, <1>5, <1>6, <1>7, QuietInStep

LEMMA StopInStep ==
  ASSUME NEW at, NEW u, InStep(at, u), NEW r \in Ranks, StopArrives(r) PROVE InStep(at, u)'
<1> DEFINE m == dev[0]
           d == dev[r]
           p == IF r = 0 THEN "left" ELSE IF d.pc = "forward" THEN "left" ELSE d.pc
           yes == TRUE
           x == [d EXCEPT !.stop = yes, !.pc = p]
<1>1. 0 \in Ranks /\ DeviceOK(m) /\ DeviceOK(d) /\ m.pc \in {"stopping", "left"} /\ ~m.warm
  <2>1. stop_at # None
    BY RankTypes DEF StopArrives, None
  <2>. QED
    BY <2>1, RankTypes DEF InStep, MasterIs
<1>2. dev' = [dev EXCEPT ![r] = x] /\ UNCHANGED <<setup, log, ring, direct>>
  BY DEF StopArrives, InStep
<1> HIDE DEF x, yes, p
<1>3. /\ IsDevice(x) /\ x.pc = p /\ x.warm = d.warm /\ x.stop = yes /\ x.left = d.left
      /\ x.cache = d.cache
  <2>1. x = Device7(p, d.warm, yes, d.sub, d.left, d.pos, d.cache)
    <3>1. IsDevice(d)
      BY <1>1 DEF DeviceOK
    <3>2. [d EXCEPT !.stop = yes, !.pc = p] = Device7(p, d.warm, yes, d.sub, d.left, d.pos, d.cache)
      BY <3>1, StopPcForm
    <3>. QED
      BY <3>2 DEF x
  <2>. QED
    BY <2>1, FieldsOf
<1>4. yes \in BOOLEAN /\ yes
  BY DEF yes
<1>5. DeviceOK(x) /\ x.stop
  BY <1>1, <1>3, <1>4 DEF DeviceOK
<1>6. dev'[r] = x /\ \A q \in Ranks : q # r => dev'[q] = dev[q]
  BY <1>1, <1>2, OneDevice DEF InStep
<1>7. /\ r = 0 => p = "left"
      /\ r # 0 => p = d.pc \/ p = "left"
      /\ d.pc \in {"forward", "left"} => p = "left"
  BY DEF p
<1>8. dev'[0].pc \in {"stopping", "left"} /\ dev'[0].warm = m.warm /\ dev'[0].cache = m.cache
  BY <1>1, <1>3, <1>6, <1>7
<1>9. ~IsDecoding(m) /\ ~IsDecoding(dev'[0])
  BY <1>1, <1>8 DEF IsDecoding
<1>10. MasterIs'
  <2>1. dev'[0].warm <=> m.warm
    BY <1>8, Zenon
  <2>2. m.warm <=> setup.warmup /\ (Announcing = 0 \/ (Announcing = 1 /\ IsDecoding(m)))
    BY DEF InStep, MasterIs
  <2>3. Announcing' = Announcing /\ setup' = setup
    BY <1>2 DEF Announcing
  <2>. QED
    BY <1>1, <1>8, <1>9, <2>1, <2>2, <2>3 DEF MasterIs
<1>11. r \in Forwarders => x.pc \in {"forward", "left"}
  BY <1>3, <1>7 DEF InStep
<1>12. ASSUME r \in Workers PROVE Waiting(x, Len(log[r]), m, log[0], setup.warmup)
  <2>1. Waiting(d, Len(log[r]), m, log[0], setup.warmup) /\ r # 0
    BY <1>9, <1>12 DEF InStep, WorkerIs, Workers
  <2>2. d.left = 0
    BY <2>1 DEF Waiting
  <2>. QED
    BY <1>3, <1>5, <1>7, <2>1, <2>2, WaitingStops
<1>13. r = 0 => ~IsDecoding(x) /\ x.cache = dev[0].cache /\ x.left = dev[0].left
  BY <1>3, <1>6, <1>9
<1>. QED
  BY <1>2, <1>5, <1>9, <1>10, <1>11, <1>12, <1>13, QuietInStep

\* A worker that has a forwarder's place does not compute; the others do.
LEMMA WorkersAndForwarders ==
  ASSUME SetupIs(setup)
  PROVE  /\ Workers \subseteq Others /\ Forwarders \subseteq Others /\ Others = Workers \cup Forwarders
         /\ \A r \in Workers : setup.window[r] > 0
         /\ \A r \in Forwarders : setup.window[r] = 0
BY DEF SetupIs, Workers, Forwarders, Others, window

LEMMA TimeoutInStep ==
  ASSUME ~SlowMaster, SetupIs(setup), NEW at, NEW u, InStep(at, u), NEW r \in Others, Timeout(r)
  PROVE  InStep(at, u)'
<1> DEFINE m == dev[0]
           d == dev[r]
           x == Returned(r, d)
<1>1. 0 \in Ranks /\ r \in Ranks /\ r # 0 /\ DeviceOK(d) /\ d.pc = "meta" /\ d.stop
  BY RankTypes DEF InStep, Timeout
<1>2. dev' = [dev EXCEPT ![r] = x] /\ UNCHANGED <<setup, log, ring, direct, stop_at>>
  BY DEF Timeout
<1>3. m.pc \in {"stopping", "left"} /\ ~m.warm
  BY <1>1 DEF InStep, MasterIs
<1>4. ~IsDecoding(m)
  BY <1>3 DEF IsDecoding
<1>5. r \in Workers /\ r \notin Forwarders
  BY <1>1, WorkersAndForwarders DEF InStep
<1>6. Waiting(d, Len(log[r]), m, log[0], setup.warmup)
  BY <1>4, <1>5 DEF InStep, WorkerIs
<1>7. ~d.warm
  <2> SUFFICES ASSUME d.warm PROVE FALSE
    OBVIOUS
  <2>1. DoneIn(m, log[0]) = 0 /\ setup.warmup
    BY <1>6 DEF Waiting
  <2>2. Announcing = 0
    BY <1>4, <2>1 DEF DoneIn, Announcing
  <2>. QED
    BY <1>3, <2>1, <2>2 DEF InStep, MasterIs
<1>8. /\ DeviceOK(x) /\ x.pc = "left" /\ x.warm = d.warm /\ x.stop /\ x.left = 0 /\ x.cache = d.cache
  <2>1. x = BackFrom(d)
    BY <1>1, BackFromIs DEF DeviceOK
  <2>2. d.warm = FALSE /\ d.stop = TRUE
    BY <1>1, <1>7 DEF DeviceOK
  <2>3. BackPc(d.stop, d.warm) = "left" /\ BackCache(d.warm, d.cache) = d.cache
    BY <1>1, <1>7 DEF BackPc, BackCache
  <2> HIDE DEF x
  <2>. QED
    BY <2>1, <2>2, <2>3, BackFromFields
<1> HIDE DEF x
<1>9. Waiting(x, Len(log[r]), m, log[0], setup.warmup)
  BY <1>6, <1>8, WaitingStops
<1>10. MasterIs'
  <2>1. dev'[0] = m /\ dev' [r] = x /\ \A q \in Ranks : q # r => dev'[q] = dev[q]
    BY <1>1, <1>2, OneDevice DEF InStep
  <2>2. Announcing' = Announcing
    BY <1>2 DEF Announcing
  <2>. QED
    BY <1>2, <1>3, <2>1, <2>2 DEF InStep, MasterIs
<1>. QED
  BY <1>1, <1>2, <1>4, <1>5, <1>8, <1>9, <1>10, QuietInStep

SetTwo(f, r, x, n, y) == [f EXCEPT ![r] = x, ![n] = y]

LEMMA TwoQueues ==
  ASSUME NEW S, NEW f \in [Ranks -> Seq(S)], NEW r \in Others, NEW n, n = NextRank(r), NEW x, NEW y,
         NEW g, g = SetTwo(f, r, x, n, y)
  PROVE  /\ n \in Ranks /\ n # r /\ g[r] = x /\ g[n] = y
         /\ \A q \in Ranks : q # r /\ q # n => g[q] = f[q]
<1>1. n \in Ranks /\ n # r /\ r \in Ranks
  BY RankTypes
<1>2. g = [[f EXCEPT ![r] = x] EXCEPT ![n] = y]
  BY DEF SetTwo
<1>. QED
  BY <1>1, <1>2

LEMMA TypedWith ==
  ASSUME InOrder, NEW x PROVE \E S : Typed(S) /\ x \in S
<1>1. PICK S : Typed(S)
  BY DEF InOrder
<1> DEFINE T == S \cup {x}
<1>2. \A s \in Seq(S) : s \in Seq(T)
  BY MoreMessages
<1>3. x \in T
  OBVIOUS
<1> HIDE DEF T
<1>4. log \in [Ranks -> Seq(T)] /\ ring \in [Ranks -> Seq(T)]
  BY <1>1, <1>2 DEF Typed
<1>. QED
  BY <1>3, <1>4 DEF Typed

LEMMA QueueBounds ==
  ASSUME NEW S, Typed(S), NEW at, NEW u, Queues(at, u), NEW r \in Others
  PROVE  /\ Len(log[r]) \in Nat /\ HandedTo(r) \in Nat /\ Len(log[0]) \in Nat /\ Len(log[r - 1]) \in Nat
         /\ Len(log[r]) <= HandedTo(r) /\ HandedTo(r) <= Len(log[0])
         /\ HandedTo(r) = IF Reached(setup, r) THEN Len(log[r - 1]) ELSE 0
         /\ r \in Ranks /\ r - 1 \in Ranks /\ 0 \in Ranks
         /\ log[r] \in Seq(S) /\ ring[r] \in Seq(S) /\ log[0] \in Seq(S) /\ ring[0] \in Seq(S)
<1>1. r \in Ranks /\ r - 1 \in Ranks /\ 0 \in Ranks /\ (r - 1 = 0 \/ r - 1 \in Others)
  BY RankTypes
<1>2. \A q \in Ranks : log[q] \in Seq(S) /\ ring[q] \in Seq(S) /\ Len(log[q]) \in Nat
  BY DEF Typed
<1>3. Len(log[r]) <= HandedTo(r) /\ (r - 1 # 0 => Len(log[r - 1]) <= Len(log[0]))
  BY <1>1 DEF Queues, StartOf
<1>. QED
  BY <1>1, <1>2, <1>3 DEF HandedTo

LEMMA NextTaken ==
  ASSUME NEW at, NEW u, NEW S, Typed(S), Batch(u) \in S, Queues(at, u), NEW r \in Others,
         Len(log[r]) < HandedTo(r)
  PROVE  /\ ring[r] # <<>> /\ Head(ring[r]) = log[0][Len(log[r]) + 1]
         /\ QueueIs(Tail(ring[r]), log[0], Len(log[r]) + 1, HandedTo(r), Held(r, at, Batch(u)))
         /\ Head(ring[r]) \in S
<1> DEFINE lo == Len(log[r])
           hi == HandedTo(r)
           t == Held(r, at, Batch(u))
<1>1. /\ lo \in Nat /\ hi \in Nat /\ Len(log[0]) \in Nat /\ lo < hi /\ hi <= Len(log[0])
      /\ ring[r] \in Seq(S) /\ log[0] \in Seq(S)
  BY QueueBounds
<1>2. QueueIs(ring[r], log[0], lo, hi, t)
  BY DEF Queues
<1>3. t \in Seq(S)
  BY DEF Held
<1> HIDE DEF t, lo, hi
<1>4. ring[r] # <<>> /\ Head(ring[r]) = log[0][lo + 1] /\ QueueIs(Tail(ring[r]), log[0], lo + 1, hi, t)
  BY <1>1, <1>2, <1>3, QueueTake
<1>5. log[0][lo + 1] \in S
  BY <1>1
<1>. QED
  BY <1>4, <1>5 DEF t, lo, hi

LEMMA HeldTaken ==
  ASSUME NEW at, NEW u, NEW S, Typed(S), Batch(u) \in S, Queues(at, u), NEW r \in Others,
         Len(log[r]) = HandedTo(r), ring[r] # <<>>
  PROVE  at = r /\ Head(ring[r]) = Batch(u)
<1> DEFINE lo == Len(log[r])
           b == Batch(u)
<1>1. lo \in Nat /\ ring[r] \in Seq(S) /\ QueueIs(ring[r], log[0], lo, lo, Held(r, at, b))
  BY QueueBounds DEF Queues
<1> HIDE DEF lo, b
<1>2. at = r
  <2> SUFFICES ASSUME at # r PROVE FALSE
    OBVIOUS
  <2>1. QueueIs(ring[r], log[0], lo, lo, <<>>)
    BY <1>1 DEF Held
  <2>2. lo < lo
    BY <1>1, <2>1, QueueEmpty
  <2>. QED
    BY <1>1, <2>2
<1>3. QueueIs(ring[r], log[0], lo, lo, <<b>>) /\ b \in S
  BY <1>1, <1>2 DEF Held, b
<1>4. ring[r] # <<>> /\ Head(ring[r]) = b /\ QueueIs(Tail(ring[r]), log[0], lo, lo, <<>>)
  BY <1>1, <1>3, QueueHeld
<1>. QED
  BY <1>2, <1>4 DEF b

\* A device takes the next announcement, and hands it on if somebody behind it needs it.
LEMMA QueuesTaken ==
  ASSUME NEW at, NEW u, NEW S, Typed(S), Batch(u) \in S, Queues(at, u),
         at # Nowhere => Flight(at, u), NEW r \in Others, Len(log[r]) < HandedTo(r), NEW m, m = Head(ring[r]),
         setup' = setup, direct' = direct, dev'[0].left = dev[0].left,
         log' = [log EXCEPT ![r] = Append(@, m)],
         ring' = SetTwo(ring, r, Tail(ring[r]), NextRank(r),
                        IF Reached(setup, r + 1) THEN Append(ring[NextRank(r)], m) ELSE ring[NextRank(r)])
  PROVE  /\ m = log[0][Len(log[r]) + 1] /\ Len(log'[r]) = Len(log[r]) + 1
         /\ \A q \in Ranks : q # r => log'[q] = log[q]
         /\ at # r + 1 \/ ~Reached(setup, r + 1)
         /\ Queues(at, u)'
<1> DEFINE n == NextRank(r)
           lo == Len(log[r])
           hi == HandedTo(r)
           t == Held(r, at, Batch(u))
<1>1. /\ lo \in Nat /\ hi \in Nat /\ Len(log[0]) \in Nat /\ lo < hi /\ hi <= Len(log[0])
      /\ r \in Ranks /\ 0 \in Ranks /\ r # 0
      /\ log[r] \in Seq(S) /\ ring[r] \in Seq(S) /\ log[0] \in Seq(S)
  BY QueueBounds, RankTypes
<1>2. StartOf(log[r], log[0])
  BY DEF Queues
<1>4. ring[r] # <<>> /\ m = log[0][lo + 1] /\ QueueIs(Tail(ring[r]), log[0], lo + 1, hi, t) /\ m \in S
  BY NextTaken
<1> HIDE DEF t, n, lo, hi
<1>5. StartOf(Append(log[r], m), log[0]) /\ Len(Append(log[r], m)) = lo + 1
  <2>1. lo < Len(log[0]) /\ m = log[0][lo + 1]
    BY <1>1, <1>4
  <2>. QED
    BY <1>1, <1>2, <1>4, <2>1, StartMore DEF lo
<1>6. log'[r] = Append(log[r], m) /\ \A q \in Ranks : q # r => log'[q] = log[q]
  BY <1>1 DEF Typed
<1>7. /\ n \in Ranks /\ n # r /\ ring'[r] = Tail(ring[r])
      /\ ring'[n] = IF Reached(setup, r + 1) THEN Append(ring[n], m) ELSE ring[n]
      /\ \A q \in Ranks : q # r /\ q # n => ring'[q] = ring[q]
  <2> DEFINE y == IF Reached(setup, r + 1) THEN Append(ring[n], m) ELSE ring[n]
             z == Tail(ring[r])
  <2>2. ring' = SetTwo(ring, r, z, n, y)
    BY DEF n
  <2>3. ring \in [Ranks -> Seq(S)] /\ n = NextRank(r)
    BY DEF Typed, n
  <2> HIDE DEF y, z
  <2>4. /\ n \in Ranks /\ n # r /\ ring'[r] = z /\ ring'[n] = y
        /\ \A q \in Ranks : q # r /\ q # n => ring'[q] = ring[q]
    BY <2>2, <2>3, TwoQueues
  <2>. QED
    BY <2>4 DEF y, z
<1>8. Batch(u)' = Batch(u) /\ 0 # r
  BY <1>1, <1>6 DEF Batch, Announcing
<1>9. Reached(setup, r) /\ (Reached(setup, r + 1) => n = r + 1 /\ r + 1 \in Others)
      /\ (n # 0 => n = r + 1) /\ (n = 0 => ~Reached(setup, r + 1))
  <2>1. Reached(setup, r)
    BY <1>1 DEF HandedTo, hi, lo
  <2>2. n = 0 \/ (n = r + 1 /\ r + 1 \in Others)
    BY RankTypes DEF n
  <2>3. n = 0 => ~Reached(setup, r + 1)
    BY RankTypes DEF Reached, n
  <2>. QED
    BY <2>1, <2>2, <2>3
<1>10. at # r + 1 \/ ~Reached(setup, r + 1)
  <2> SUFFICES ASSUME at = r + 1, Reached(setup, r + 1) PROVE FALSE
    OBVIOUS
  <2>1. at \in Others /\ at # Nowhere
    BY <1>9, RankTypes DEF Nowhere
  <2>2. Len(log[at - 1]) = Announcing
    BY <2>1 DEF Flight
  <2>. QED
    BY <1>1, <2>2, RankTypes DEF Announcing, lo
<1>11. \A q \in Others : q - 1 \in Ranks /\ (q - 1 = r => q = n)
  BY <1>9, RankTypes DEF n
<1>12. ASSUME NEW q \in Others
       PROVE  /\ q # n => HandedTo(q)' = HandedTo(q)
              /\ q = n => IF Reached(setup, r + 1) THEN HandedTo(q) = lo /\ HandedTo(q)' = lo + 1
                          ELSE HandedTo(q) = 0 /\ HandedTo(q)' = 0
  <2>1. Reached(setup, q)' = Reached(setup, q)
    BY DEF Reached
  <2>2. CASE q # n
    BY <1>6, <1>11, <2>1, <2>2 DEF HandedTo
  <2>3. CASE q = n
    <3>1. q = r + 1 /\ q - 1 = r
      BY <1>1, <1>9, <2>3, RankTypes
    <3>2. Len(log'[r]) = lo + 1 /\ Len(log[r]) = lo
      BY <1>5, <1>6 DEF lo
    <3>3. log'[q - 1] = log'[r] /\ log[q - 1] = log[r]
      BY <3>1
    <3>4. /\ Reached(setup, q)' <=> Reached(setup, r + 1)
          /\ Reached(setup, q) <=> Reached(setup, r + 1)
      BY <2>1, <3>1
    <3>5. /\ HandedTo(q) = IF Reached(setup, r + 1) THEN lo ELSE 0
          /\ HandedTo(q)' = IF Reached(setup, r + 1) THEN lo + 1 ELSE 0
      BY <3>2, <3>3, <3>4 DEF HandedTo
    <3>. QED
      BY <2>3, <3>5
  <2>. QED
    BY <2>2, <2>3
<1>13. ASSUME NEW q \in Others
       PROVE  /\ Len(log'[q]) <= HandedTo(q)' /\ StartOf(log'[q], log'[0])
              /\ QueueIs(ring'[q], log'[0], Len(log'[q]), HandedTo(q)', Held(q, at, Batch(u)))
  <2>1. /\ Len(log[q]) <= HandedTo(q) /\ StartOf(log[q], log[0])
        /\ QueueIs(ring[q], log[0], Len(log[q]), HandedTo(q), Held(q, at, Batch(u)))
        /\ Len(log[q]) \in Nat /\ HandedTo(q) \in Nat /\ q \in Ranks
    BY QueueBounds DEF Queues
  <2>2. log'[0] = log[0]
    BY <1>1, <1>6
  <2>3. CASE q = r
    <3>1. HandedTo(q)' = hi
      BY <1>7, <1>12, <2>3 DEF hi
    <3>2. Len(log'[q]) = lo + 1 /\ StartOf(log'[q], log[0])
      BY <1>5, <1>6, <2>3
    <3>3. QueueIs(ring'[q], log[0], lo + 1, hi, Held(q, at, Batch(u)))
      BY <1>4, <1>7, <2>3 DEF t
    <3>. QED
      BY <1>1, <2>2, <3>1, <3>2, <3>3
  <2>4. CASE q # r /\ q = n /\ Reached(setup, r + 1)
    <3>1. HandedTo(q) = lo /\ HandedTo(q)' = lo + 1 /\ log'[q] = log[q] /\ ring'[q] = Append(ring[q], m)
      BY <1>6, <1>7, <1>12, <2>1, <2>4
    <3>2. Held(q, at, Batch(u)) = <<>>
      BY <1>9, <1>10, <2>4 DEF Held
    <3>3. QueueIs(ring[q], log[0], Len(log[q]), lo, <<>>) /\ ring[q] \in Seq(S)
      BY <2>1, <3>1, <3>2 DEF Typed
    <3>4. QueueIs(Append(ring[q], m), log[0], Len(log[q]), lo + 1, <<>>)
      BY <1>1, <1>4, <2>1, <3>1, <3>3, QueueGive
    <3>5. Len(log[q]) <= lo + 1
      BY <1>1, <2>1, <3>1
    <3>. QED
      BY <2>1, <2>2, <3>1, <3>2, <3>4, <3>5
  <2>5. CASE q # r /\ ~(q = n /\ Reached(setup, r + 1))
    <3>1. HandedTo(q)' = HandedTo(q) /\ log'[q] = log[q] /\ ring'[q] = ring[q]
      BY <1>6, <1>7, <1>12, <2>1, <2>5
    <3>. QED
      BY <2>1, <2>2, <3>1
  <2>. QED
    BY <2>3, <2>4, <2>5
<1>14. ring'[0] = ring[0]
  BY <1>1, <1>7, <1>8, <1>9
<1>15. Queues(at, u)'
  <2>1. ring'[0] = Held(0, at, Batch(u)) /\ direct' = Held(ToOutput, at, Batch(u))
    BY <1>14 DEF Queues
  <2>. QED
    BY <1>8, <1>13, <2>1 DEF Queues
<1>. QED
  BY <1>4, <1>5, <1>6, <1>10, <1>15 DEF lo

\* What is held moves from one place to the next; the announcements stay.
LEMMA QueuesMoved ==
  ASSUME NEW at, NEW u, NEW to, NEW v, NEW S, Typed(S), NEW a, a = Batch(u), a \in S,
         NEW b, b = Batch(v)', b \in S, Queues(at, u), to # at, setup' = setup, log' = log,
         \A q \in Ranks : ring'[q] = IF q = at THEN Tail(ring[q])
                                     ELSE IF q = to THEN Append(ring[q], b) ELSE ring[q],
         direct' = IF at = ToOutput THEN Tail(direct) ELSE IF to = ToOutput THEN Append(direct, b) ELSE direct,
         at \in Others => Len(log[at]) = HandedTo(at)
  PROVE  Queues(to, v)' /\ (at \in Ranks => ring[at] # <<>> /\ Head(ring[at]) = a)
<1>1. \A q \in Others : HandedTo(q)' = HandedTo(q)
  BY DEF HandedTo, Reached
<1>2. ASSUME NEW q \in Others
      PROVE  /\ QueueIs(ring'[q], log[0], Len(log[q]), HandedTo(q), Held(q, to, b))
             /\ q = at => ring[q] # <<>> /\ Head(ring[q]) = a
  <2>1. /\ QueueIs(ring[q], log[0], Len(log[q]), HandedTo(q), Held(q, at, a))
        /\ Len(log[q]) \in Nat /\ HandedTo(q) \in Nat /\ Len(log[q]) <= HandedTo(q)
        /\ ring[q] \in Seq(S) /\ log[0] \in Seq(S) /\ q \in Ranks
    BY QueueBounds DEF Queues
  <2>2. CASE q = at
    <3>1. Held(q, at, a) = <<a>> /\ Held(q, to, b) = <<>> /\ ring'[q] = Tail(ring[q])
      BY <2>1, <2>2 DEF Held
    <3>2. QueueIs(ring[q], log[0], Len(log[q]), Len(log[q]), <<a>>) /\ HandedTo(q) = Len(log[q])
      BY <2>1, <2>2, <3>1
    <3>3. ring[q] # <<>> /\ Head(ring[q]) = a /\ QueueIs(Tail(ring[q]), log[0], Len(log[q]), Len(log[q]), <<>>)
      <4>1. Len(log[q]) \in Nat /\ ring[q] \in Seq(S)
        BY <2>1
      <4>. QED
        BY <3>2, <4>1, QueueHeld, ZenonT(40)
    <3>. QED
      BY <3>1, <3>2, <3>3
  <2>3. CASE q # at /\ q = to
    <3>1. Held(q, at, a) = <<>> /\ Held(q, to, b) = <<b>> /\ ring'[q] = Append(ring[q], b)
      BY <2>1, <2>3 DEF Held
    <3>2. QueueIs(ring[q], log[0], Len(log[q]), HandedTo(q), <<>>)
      BY <2>1, <3>1
    <3>. QED
      BY <2>1, <2>3, <3>1, <3>2, QueueHold
  <2>4. CASE q # at /\ q # to
    <3>1. Held(q, at, a) = <<>> /\ Held(q, to, b) = <<>> /\ ring'[q] = ring[q]
      BY <2>1, <2>4 DEF Held
    <3>. QED
      BY <2>1, <2>4, <3>1
  <2>. QED
    BY <2>2, <2>3, <2>4
<1>3. ASSUME NEW s, NEW t, NEW p, s = Held(p, at, a),
             p = at => t = Tail(s),
             p # at /\ p = to => t = Append(s, b),
             p # at /\ p # to => t = s
      PROVE  t = Held(p, to, b) /\ (p = at => s # <<>> /\ Head(s) = a)
  <2>1. CASE p = at
    BY <1>3, <2>1 DEF Held
  <2>2. CASE p # at
    <3>1. s = <<>> /\ Append(<<>>, b) = <<b>>
      BY <1>3, <2>2 DEF Held
    <3>2. CASE p = to
      BY <1>3, <2>2, <3>1, <3>2 DEF Held
    <3>3. CASE p # to
      BY <1>3, <2>2, <3>1, <3>3 DEF Held
    <3>. QED
      BY <3>2, <3>3
  <2>. QED
    BY <2>1, <2>2
<1>4. ring'[0] = Held(0, to, b) /\ (0 = at => ring[0] # <<>> /\ Head(ring[0]) = a)
  <2> DEFINE s == ring[0]
             t == ring'[0]
  <2>1. 0 \in Ranks /\ s = Held(0, at, a)
    BY RankTypes DEF Queues
  <2>2. /\ 0 = at => t = Tail(s)
        /\ 0 # at /\ 0 = to => t = Append(s, b)
        /\ 0 # at /\ 0 # to => t = s
    BY <2>1
  <2> HIDE DEF s, t
  <2>3. t = Held(0, to, b)
    BY <1>3, <2>1, <2>2
  <2>4. 0 = at => s # <<>> /\ Head(s) = a
    BY <2>1 DEF Held
  <2>. QED
    BY <2>3, <2>4 DEF s, t
<1>5. direct' = Held(ToOutput, to, b)
  <2>1. direct = Held(ToOutput, at, a)
    BY DEF Queues
  <2>2. /\ ToOutput = at => direct' = Tail(direct)
        /\ ToOutput # at /\ ToOutput = to => direct' = Append(direct, b)
        /\ ToOutput # at /\ ToOutput # to => direct' = direct
    OBVIOUS
  <2>. QED
    BY <1>3, <2>1, <2>2
<1>6. \A q \in Others : Len(log[q]) <= HandedTo(q) /\ StartOf(log[q], log[0])
  BY DEF Queues
<1>7. Queues(to, v)'
  BY <1>1, <1>2, <1>4, <1>5, <1>6 DEF Queues
<1>8. at \in Ranks => at = 0 \/ at \in Others
  BY RankTypes
<1>. QED
  BY <1>2, <1>4, <1>7, <1>8

\* Who is in recv_meta or in llama_forward_messages, and who has a batch.
LEMMA WorkerPc ==
  ASSUME NEW d, NEW g, NEW k, NEW m, DeviceOK(m), NEW l, NEW u, NEW w, WorkerIs(d, g, k, m, l, u, w)
  PROVE  d.pc \in {"meta", "left", "tensors", "output"}
<1>1. Onward(m).pc \in {"tensors", "meta", "left"}
  BY OnwardFields
<1>. QED
  BY <1>1 DEF WorkerIs, Waiting, Alike, IsDecoding

LEMMA ForwardInStep ==
  ASSUME InOrder, SetupIs(setup), NEW at, NEW u, InStep(at, u), NEW r \in Others, Forward(r)
  PROVE  \E to : InStep(to, u)'
<1> DEFINE n == NextRank(r)
           m == Head(ring[r])
           lo == Len(log[r])
           hi == HandedTo(r)
<1>1. PICK S : Typed(S) /\ Batch(u) \in S
  BY TypedWith
<1>2. /\ dev[r].pc = "forward" /\ ring[r] # <<>> /\ dev' = dev /\ setup' = setup
      /\ direct' = direct /\ stop_at' = stop_at
      /\ log' = [log EXCEPT ![r] = Logged(@, m)]
      /\ ring' = SetTwo(ring, r, Tail(ring[r]), n, Append(ring[n], m))
  <2>1. n \in Ranks /\ n # r
    BY RankTypes
  <2>. QED
    BY <1>1, <2>1 DEF Forward, Typed, SetTwo
<1>3. r \in Forwarders /\ r \notin Workers /\ r \in Ranks /\ r # 0 /\ setup.window[r] = 0
  <2>1. r \notin Workers
    <3> SUFFICES ASSUME r \in Workers PROVE FALSE
      OBVIOUS
    <3>1. WorkerIs(dev[r], Graphs(r), Len(log[r]), dev[0], log[0], u, setup.warmup)
      BY DEF InStep
    <3>2. 0 \in Ranks /\ DeviceOK(dev[0])
      BY RankTypes DEF InStep
    <3>3. dev[r].pc \in {"meta", "left", "tensors", "output"}
      BY <3>1, <3>2, WorkerPc
    <3>. QED
      BY <1>2, <3>3
  <2>. QED
    BY <2>1, WorkersAndForwarders, RankTypes
<1>4. /\ lo \in Nat /\ hi \in Nat /\ lo <= hi /\ Len(log[0]) \in Nat /\ hi <= Len(log[0])
      /\ ring[r] \in Seq(S) /\ log[0] \in Seq(S)
      /\ QueueIs(ring[r], log[0], lo, hi, Held(r, at, Batch(u)))
  BY <1>1, QueueBounds DEF InStep, Queues
<1>5. CASE lo < hi
  <2>1. m = log[0][lo + 1] /\ m.kind = "announcement"
    <3>1. m = log[0][lo + 1]
      BY <1>1, <1>5, NextTaken DEF InStep
    <3>2. lo + 1 \in 1 .. Announcing
      BY <1>4, <1>5 DEF Announcing
    <3>. QED
      BY <3>1, <3>2 DEF InStep, IsAnnouncement
  <2>2. Reached(setup, r) /\ Reached(setup, r + 1)
    <3>1. Reached(setup, r)
      BY <1>4, <1>5 DEF HandedTo
    <3>2. PICK q \in Ranks : q >= r /\ setup.window[q] > 0
      BY <3>1 DEF Reached
    <3>3. q >= r + 1
      BY <1>3, <3>2, RankTypes
    <3>. QED
      BY <3>1, <3>2, <3>3 DEF Reached
  <2>3. log' = [log EXCEPT ![r] = Append(@, m)]
    BY <1>2, <2>1 DEF Logged
  <2>4. /\ ring' = SetTwo(ring, r, Tail(ring[r]), n, IF Reached(setup, r + 1) THEN Append(ring[n], m) ELSE ring[n])
        /\ at # Nowhere => Flight(at, u)
        /\ dev'[0].left = dev[0].left /\ Queues(at, u)
    BY <1>2, <2>2 DEF InStep
  <2>5. /\ \A q \in Ranks : q # r => log'[q] = log[q]
        /\ at # r + 1 /\ Queues(at, u)'
    <3> HIDE DEF m
    <3>1. Len(log[r]) < HandedTo(r) /\ m = Head(ring[r])
      BY <1>5 DEF m
    <3>. QED
      <4>1. /\ Typed(S) /\ Batch(u) \in S /\ Queues(at, u) /\ (at # Nowhere => Flight(at, u)) /\ r \in Others
            /\ setup' = setup /\ direct' = direct /\ dev'[0].left = dev[0].left
            /\ ring' = SetTwo(ring, r, Tail(ring[r]), NextRank(r),
                              IF Reached(setup, r + 1) THEN Append(ring[NextRank(r)], m) ELSE ring[NextRank(r)])
        BY <1>1, <1>2, <2>4, Zenon
      <4>2. /\ \A q \in Ranks : q # r => log'[q] = log[q]
            /\ at # r + 1 \/ ~Reached(setup, r + 1)
            /\ Queues(at, u)'
        BY <2>3, <3>1, <4>1, QueuesTaken, Zenon
      <4>. QED
        BY <2>2, <4>2, Zenon
  <2>6. log'[0] = log[0] /\ \A q \in Workers : log'[q] = log[q]
    BY <1>3, <2>5, RankTypes DEF Workers
  <2>7. at # Nowhere => Flight(at, u)'
    <3> SUFFICES ASSUME Flight(at, u) PROVE Flight(at, u)'
      BY <2>4
    <3>1. at \in Others => at - 1 \in Ranks /\ at - 1 # r
      BY <1>3, <2>5, RankTypes
    <3>2. at \in Others /\ Reached(setup, at) => Len(log'[at - 1]) = Announcing
      BY <2>5, <3>1 DEF Flight
    <3>. QED
      BY <1>2, <2>6, <3>2 DEF Flight, Announcing, Graphs, Reached, Workers, window, n_layer
  <2>8. InStep(at, u)'
    BY <1>2, <2>5, <2>6, <2>7 DEF InStep, MasterIs, Announcing, Graphs, Workers, Forwarders, window
  <2>. QED
    BY <2>8
<1>6. CASE lo = hi
  <2>1. at = r /\ m = Batch(u)
    BY <1>1, <1>2, <1>6, HeldTaken DEF InStep
  <2>2. m.kind = "tensors" /\ m.kind # "announcement"
    BY <2>1 DEF Batch, Tensors
  <2>3. log' = log
    BY <1>1, <1>2, <2>2 DEF Logged, Typed
  <2>4. Flight(at, u) /\ at # Nowhere /\ Queues(at, u)
    BY <1>3, <2>1, RankTypes DEF InStep, Nowhere
  <2>5. Batch(u)' = Batch(u) /\ n # at
    BY <1>2, <2>1, <2>3, RankTypes DEF Batch, Announcing
  <2>6. ring \in [Ranks -> Seq(S)]
    BY <1>1 DEF Typed
  <2>7. n \in Ranks /\ OnItsWay(setup, n, u)
    <3>1. u \in -1 .. setup.n_layer - 1 /\ OnItsWay(setup, r, u)
      BY <2>1, <2>4 DEF Flight, n_layer
    <3>. QED
      BY <1>3, <3>1, WayForward
  <2>8. Queues(n, u)'
    <3>1. /\ ring'[r] = Tail(ring[r]) /\ ring'[n] = Append(ring[n], m)
          /\ \A q \in Ranks : q # r /\ q # n => ring'[q] = ring[q]
      <4> DEFINE y == Append(ring[n], m)
                 z == Tail(ring[r])
      <4>1. ring' = SetTwo(ring, r, z, n, y) /\ n = NextRank(r)
        BY <1>2
      <4> HIDE DEF y, z, n
      <4>2. ring'[r] = z /\ ring'[n] = y /\ \A q \in Ranks : q # r /\ q # n => ring'[q] = ring[q]
        BY <2>6, <4>1, TwoQueues
      <4>. QED
        BY <4>2 DEF y, z
    <3>2. \A q \in Ranks : ring'[q] = IF q = at THEN Tail(ring[q])
                                      ELSE IF q = n THEN Append(ring[q], Batch(u)) ELSE ring[q]
      BY <2>1, <3>1
    <3>3. at # ToOutput /\ n # ToOutput
      BY <1>3, <2>1, <2>7, RankTypes DEF ToOutput
    <3>4. Len(log[at]) = HandedTo(at)
      BY <1>6, <2>1
    <3>. QED
      BY <1>1, <1>2, <2>3, <2>4, <2>5, <3>2, <3>3, <3>4, QueuesMoved
  <2>9. Flight(n, u)'
    <3>1. n # Nowhere /\ n # AtOutput /\ at # AtOutput
      BY <1>3, <2>1, <2>7, RankTypes DEF Nowhere, AtOutput
    <3>2. n \in Others /\ Reached(setup, n) => Len(log[n - 1]) = Announcing
      <4> SUFFICES ASSUME n \in Others, Reached(setup, n) PROVE Len(log[n - 1]) = Announcing
        OBVIOUS
      <4>1. n - 1 = r /\ r <= n
        BY RankTypes
      <4>2. Reached(setup, r)
        BY <4>1, RankTypes DEF Reached
      <4>3. Len(log[r]) = Len(log[r - 1])
        BY <1>6, <4>2 DEF HandedTo
      <4>4. Len(log[r - 1]) = Announcing
        BY <2>1, <2>4, <4>2 DEF Flight
      <4>. QED
        BY <4>1, <4>3, <4>4
    <3>3. /\ UNCHANGED <<Announcing, n_layer, window, Workers>>
          /\ \A q : Graphs(q)' = Graphs(q) /\ (Reached(setup, q)' <=> Reached(setup, q))
      BY <1>2, <2>3 DEF Announcing, n_layer, window, Workers, Graphs, Reached
    <3>. QED
      BY <1>2, <2>3, <2>4, <2>7, <3>1, <3>2, <3>3 DEF Flight
  <2>10. InStep(n, u)'
    <3>1. n # Nowhere
      BY <2>7, RankTypes DEF Nowhere
    <3>. QED
      BY <1>2, <2>3, <2>4, <2>8, <2>9, <3>1 DEF InStep, MasterIs, Announcing, Graphs, Workers, Forwarders, window
  <2>. QED
    BY <2>10
<1>. QED
  BY <1>4, <1>5, <1>6

LEMMA TurnAhead ==
  ASSUME NEW s, SetupIs(s), NEW r \in Others, s.window[r] > 0, NEW u \in Int,
         u + 1 \in LayersOf(s), OwnerOf(s, u + 1) = r
  PROVE  LET g == s.graphs[r] IN u < g[Len(g)].last
<1> DEFINE g == s.graphs[r]
<1>1. PICK j \in 1 .. Len(g) : u + 1 <= g[j].last
  <2>1. r \in Ranks
    BY RankTypes
  <2>. QED
    BY <2>1 DEF SetupIs, GraphsAre
<1>2. g[j].last \in Nat /\ g[Len(g)].last \in Nat /\ g[j].last <= g[Len(g)].last
  BY GraphsOf
<1> HIDE DEF g
<1>3. u < g[Len(g)].last
  BY <1>1, <1>2
<1>. QED
  BY <1>3 DEF g

\* A worker that finds something in its socket before a batch finds the next announcement.
LEMMA WorkerExpects ==
  ASSUME InOrder, SetupIs(setup), NEW at, NEW u, InStep(at, u), NEW r \in Workers,
         dev[r].pc = "meta", ring[r] # <<>>
  PROVE  /\ Len(log[r]) < HandedTo(r)
         /\ Waiting(dev[r], Len(log[r]), dev[0], log[0], setup.warmup)
<1> DEFINE d == dev[r]
           m == dev[0]
           g == Graphs(r)
           k == Len(log[r])
<1>1. PICK S : Typed(S) /\ Batch(u) \in S
  BY TypedWith
<1>2. r \in Others /\ setup.window[r] > 0 /\ r \in Ranks /\ r # 0 /\ r # Nowhere
  BY WorkersAndForwarders, RankTypes DEF Nowhere
<1>3. /\ k \in Nat /\ HandedTo(r) \in Nat /\ k <= HandedTo(r) /\ HandedTo(r) <= Announcing
      /\ Announcing \in Nat
  BY <1>1, <1>2, QueueBounds DEF InStep, Announcing
<1>4. Reached(setup, r)
  BY <1>2, RankTypes DEF Reached
<1>5. WorkerIs(d, g, k, m, log[0], u, setup.warmup)
  BY DEF InStep
<1>6. k = HandedTo(r) => at = r
  BY <1>1, <1>2, HeldTaken DEF InStep
<1>7. at = r => Flight(at, u) /\ IsDecoding(m) /\ u \in -1 .. setup.n_layer - 1 /\ OnItsWay(setup, r, u)
  BY <1>2 DEF InStep, Flight, n_layer
<1>8. k # HandedTo(r)
  <2> SUFFICES ASSUME k = HandedTo(r) PROVE FALSE
    OBVIOUS
  <2>1. Len(log[r - 1]) = Announcing
    BY <1>2, <1>4, <1>6, <1>7 DEF Flight
  <2>2. k = Announcing
    BY <1>4, <2>1 DEF HandedTo
  <2>3. OwnerOf(setup, u + 1) = r /\ u + 1 \in LayersOf(setup)
    BY <1>2, <1>6, <1>7, WayAt
  <2>4. u < g[Len(g)].last
    <3>1. u \in Int
      BY <1>6, <1>7
    <3>. QED
      BY <1>2, <2>3, <3>1, TurnAhead DEF Graphs
  <2>5. Alike(d, m)
    BY <1>3, <1>5, <1>6, <1>7, <2>2, <2>4 DEF WorkerIs, Announcing
  <2>. QED
    BY <1>6, <1>7, <2>5 DEF Alike, IsDecoding
<1>9. k < HandedTo(r) /\ k < Announcing
  BY <1>3, <1>8
<1>. QED
  BY <1>5, <1>9 DEF WorkerIs, Announcing

\* The master is at its output layer only when every worker has all that was announced.
LEMMA OutputSeen ==
  ASSUME SetupIs(setup), NEW at, NEW u, Flight(at, u), at \in {ToOutput, AtOutput}, NEW r \in Workers
  PROVE  u = n_layer - 1 /\ Len(log[r]) = Announcing
<1>1. u = n_layer - 1
  <2>1. at \notin Ranks
    BY RankTypes DEF ToOutput, AtOutput
  <2>. QED
    BY <2>1 DEF Flight, OnItsWay, n_layer
<1>2. r \in Others /\ setup.window[r] > 0
  BY WorkersAndForwarders
<1>3. Graphs(r)[1].first \in Nat /\ Graphs(r)[1].first < n_layer /\ n_layer \in Nat
  BY <1>2, GraphsOf DEF Graphs, n_layer, SetupIs
<1>4. ~(u < Graphs(r)[1].first)
  BY <1>1, <1>3
<1>. QED
  BY <1>1, <1>4 DEF Flight

LEMMA ReceiveInStep ==
  ASSUME InOrder, SetupIs(setup), NEW at, NEW u, InStep(at, u), NEW r \in Others, ReceiveMeta(r)
  PROVE  InStep(at, u)'
<1> DEFINE d == dev[r]
           m == dev[0]
           g == Graphs(r)
           k == Len(log[r])
           l == log[0]
           a == Head(ring[r])
           e == Onward(Took(d, a.c))
           w == setup.warmup
<1>1. PICK S : Typed(S) /\ Batch(u) \in S
  BY TypedWith
<1>2. d.pc = "meta" /\ ring[r] # <<>>
  BY DEF ReceiveMeta
<1>3. /\ r \in Workers /\ r \notin Forwarders /\ setup.window[r] > 0 /\ r \in Ranks /\ r # 0
      /\ 0 \in Ranks /\ DeviceOK(d) /\ DeviceOK(m)
  <2>1. r \notin Forwarders
    BY <1>2 DEF InStep
  <2>2. r \in Ranks /\ r # 0 /\ 0 \in Ranks
    BY RankTypes
  <2>. QED
    BY <2>1, <2>2, WorkersAndForwarders DEF InStep
<1>4. /\ k < HandedTo(r) /\ k \in Nat /\ HandedTo(r) \in Nat /\ HandedTo(r) <= Len(l) /\ Len(l) \in Nat
      /\ Waiting(d, k, m, l, w)
  BY <1>1, <1>2, <1>3, QueueBounds, WorkerExpects DEF InStep
<1>5. a = l[k + 1] /\ IsAnnouncement(a, k + 1) /\ k + 1 \in 1 .. Announcing
  <2>1. a = l[k + 1]
    BY <1>1, <1>4, NextTaken DEF InStep
  <2>2. k + 1 \in 1 .. Announcing
    BY <1>4 DEF Announcing
  <2>. QED
    BY <2>1, <2>2 DEF InStep
<1>6. a.kind = "announcement" /\ (a.c.op = "meta" => a.c.n \in Nat \ {0})
  BY <1>5 DEF IsAnnouncement
<1>7. NextUbatch(r, Took(d, a.c)) = e
  <2>1. DeviceOK(Took(d, a.c))
    BY <1>3, <1>6, TookFields
  <2>. QED
    BY <1>3, <2>1, OnwardIs DEF DeviceOK
<1>8. IsLastDev(r) <=> ~Reached(setup, r + 1)
  <2>1. \A q \in Ranks : setup.window[q] = 0 <=> ~(setup.window[q] > 0)
    BY DEF SetupIs
  <2>2. \A q \in Ranks : q > r <=> q >= r + 1
    BY <1>3, RankTypes
  <2>. QED
    BY <2>1, <2>2 DEF IsLastDev, Reached, window
<1>9. /\ dev' = [dev EXCEPT ![r] = e] /\ log' = [log EXCEPT ![r] = Append(@, a)]
      /\ UNCHANGED <<setup, direct, n_past, calls, stop_at>>
  BY <1>6, <1>7 DEF ReceiveMeta, Logged
<1> HIDE DEF e
<1>10. ring' = SetTwo(ring, r, Tail(ring[r]), NextRank(r),
                      IF Reached(setup, r + 1) THEN Append(ring[NextRank(r)], a) ELSE ring[NextRank(r)])
  <2>1. NextRank(r) \in Ranks /\ NextRank(r) # r
    BY RankTypes
  <2>. QED
    BY <1>1, <1>6, <1>8, <2>1 DEF ReceiveMeta, Typed, SetTwo
<1>11. /\ dev'[r] = e /\ \A q \in Ranks : q # r => dev'[q] = dev[q]
       /\ dev' = [q \in Ranks |-> dev'[q]]
  BY <1>3, <1>9, OneDevice DEF InStep
<1>12. dev'[0] = m
  BY <1>3, <1>11
<1>13. /\ Len(log'[r]) = k + 1 /\ \A q \in Ranks : q # r => log'[q] = log[q]
       /\ at # r + 1 \/ ~Reached(setup, r + 1)
       /\ Queues(at, u)'
  <2>1. dev'[0].left = dev[0].left /\ (at # Nowhere => Flight(at, u)) /\ Queues(at, u)
    BY <1>12 DEF InStep
  <2> HIDE DEF a, m, l
  <2>2. a = Head(ring[r])
    BY DEF a
  <2>. QED
    BY <1>1, <1>4, <1>9, <1>10, <2>1, <2>2, QueuesTaken
<1>14. log'[0] = l /\ Announcing' = Announcing /\ Announcing = Len(l)
  BY <1>3, <1>13 DEF Announcing
<1>15. at # Nowhere => u < g[1].first
  <2> SUFFICES ASSUME at # Nowhere PROVE u < g[1].first
    OBVIOUS
  <2>1. Flight(at, u) /\ k # Announcing
    BY <1>4, <1>14 DEF InStep
  <2>. QED
    BY <1>3, <2>1 DEF Flight
<1>16. at # Nowhere => Flight(at, u)'
  <2> SUFFICES ASSUME at # Nowhere, Flight(at, u) PROVE Flight(at, u)'
    BY DEF InStep
  <2>1. at \in Others /\ Reached(setup, at) => Len(log'[at - 1]) = Announcing
    <3>1. at \in Others /\ Reached(setup, at) => at - 1 \in Ranks /\ at - 1 # r
      BY <1>3, <1>13, RankTypes
    <3>. QED
      BY <1>13, <3>1 DEF Flight
  <2>2. \A q \in Workers : Len(log'[q]) # Announcing => u < Graphs(q)[1].first
    <3>1. \A q \in Workers : q \in Ranks
      BY WorkersAndForwarders, RankTypes
    <3>. QED
      BY <1>13, <1>15, <3>1 DEF Flight
  <2>3. /\ UNCHANGED <<n_layer, window, Workers>>
        /\ \A q : Graphs(q)' = Graphs(q) /\ (Reached(setup, q)' <=> Reached(setup, q))
    BY <1>9 DEF n_layer, window, Workers, Graphs, Reached
  <2>. QED
    BY <1>9, <1>12, <1>14, <2>1, <2>2, <2>3 DEF Flight
<1>17. IsDecoding(m) => ~m.stop /\ ~d.stop /\ (m.warm <=> w /\ Len(l) = 1)
  BY <1>3, <1>4, <1>14 DEF InStep, MasterIs, IsDecoding
<1>18. IsDecoding(m) => m.pc = "tensors"
  <2> SUFFICES ASSUME m.pc = "output" PROVE FALSE
    BY DEF IsDecoding
  <2>1. at # Nowhere /\ Flight(at, u)
    BY DEF InStep, IsDecoding
  <2>2. at = AtOutput
    BY <2>1 DEF Flight
  <2>3. k = Announcing
    BY <1>3, <2>1, <2>2, OutputSeen
  <2>. QED
    BY <1>4, <1>14, <2>3
<1>19. /\ DeviceOK(e) /\ e.stop = d.stop
       /\ IF ~IsDecoding(m) \/ k + 1 < Len(l) THEN Waiting(e, k + 1, m, l, w)
          ELSE Alike(e, m) /\ e.sub = 1
  <2> DEFINE c == a.c
  <2>1. c = l[k + 1].c /\ (c.op = "meta" => c.n \in Nat \ {0}) /\ e = Onward(Took(d, c))
    BY <1>5, <1>6 DEF e
  <2>2. w \in BOOLEAN /\ k < Len(l)
    BY <1>4 DEF SetupIs
  <2>3. IsDecoding(m) /\ k + 1 = Len(l) =>
          m.pc = "tensors" /\ ~m.stop /\ ~d.stop /\ (m.warm <=> w /\ Len(l) = 1)
    BY <1>17, <1>18
  <2>4. /\ DeviceOK(d) /\ DeviceOK(m) /\ Len(l) \in Nat /\ k \in Nat /\ Waiting(d, k, m, l, w)
    BY <1>3, <1>4
  <2> HIDE DEF c, a, d, m, l, k, w
  <2>. QED
    BY <2>1, <2>2, <2>3, <2>4, WorkerTakes, SMTT(20)
<1>20. WorkerIs(e, g, k + 1, m, l, u, w)
  <2>1. CASE ~IsDecoding(m) \/ k + 1 < Len(l)
    BY <1>19, <2>1 DEF WorkerIs
  <2>2. CASE IsDecoding(m) /\ ~(k + 1 < Len(l))
    <3>1. Alike(e, m) /\ e.sub = 1 /\ u < g[1].first /\ u \in -1 .. setup.n_layer - 1
      BY <1>15, <1>19, <2>2 DEF InStep, Flight, n_layer
    <3>2. /\ Len(g) \in Nat /\ Len(g) \in 1 .. Len(g) /\ 1 \in 1 .. Len(g)
          /\ \A j \in 1 .. Len(g) : /\ g[j].first \in Nat /\ g[j].last \in Nat
                                    /\ g[1].first <= g[j].first /\ g[j].last <= g[Len(g)].last
                                    /\ g[j].first <= g[j].last
      BY <1>3, GraphsOf DEF Graphs
    <3> HIDE DEF g
    <3>3. NextGraph(g, 1, u)
      BY <3>1, <3>2 DEF NextGraph
    <3>4. u < g[Len(g)].last
      BY <3>1, <3>2
    <3>. QED
      BY <2>2, <3>1, <3>3, <3>4 DEF WorkerIs
  <2>. QED
    BY <2>1, <2>2
<1>21. ASSUME NEW q \in Workers
       PROVE  WorkerIs(dev[q], Graphs(q), Len(log[q]), dev[0], log[0], u, setup.warmup)'
  <2>1. q \in Ranks /\ Graphs(q)' = Graphs(q) /\ setup' = setup
    BY <1>9, WorkersAndForwarders, RankTypes DEF Graphs
  <2>2. CASE q = r
    BY <1>11, <1>12, <1>13, <1>14, <1>20, <2>1, <2>2
  <2>3. CASE q # r
    <3>1. dev'[q] = dev[q] /\ log'[q] = log[q]
      BY <1>11, <1>13, <2>1, <2>3
    <3>2. WorkerIs(dev[q], Graphs(q), Len(log[q]), m, l, u, w)
      BY DEF InStep
    <3>. QED
      BY <1>12, <1>14, <2>1, <3>1, <3>2
  <2>. QED
    BY <2>2, <2>3
<1>22. MasterIs'
  <2>1. \A q \in Ranks : dev'[q].stop = dev[q].stop
    BY <1>11, <1>19
  <2>2. \A q \in Ranks : dev'[q].stop => dev[q].stop
    BY <2>1, Zenon
  <2>. QED
    BY <1>9, <1>12, <1>14, <2>2 DEF InStep, MasterIs
<1>23. /\ Workers' = Workers /\ Forwarders' = Forwarders
       /\ \A q \in Forwarders : dev'[q].pc \in {"forward", "left"}
       /\ \A q \in Ranks : DeviceOK(dev'[q])
  <2>1. Workers' = Workers /\ Forwarders' = Forwarders
    BY <1>9 DEF Workers, Forwarders, window
  <2>2. \A q \in Forwarders : q \in Ranks /\ q # r
    BY <1>3, WorkersAndForwarders, RankTypes
  <2>. QED
    BY <1>11, <1>19, <2>1, <2>2 DEF InStep
<1>24. \A j \in 1 .. Announcing' : IsAnnouncement(log'[0][j], j)
  BY <1>14 DEF InStep
<1>. QED
  BY <1>11, <1>12, <1>13, <1>16, <1>21, <1>22, <1>23, <1>24 DEF InStep

\* A worker that computes has the batch in its socket, and is where the master is.
LEMMA WorkerAtBatch ==
  ASSUME InOrder, SetupIs(setup), NEW at, NEW u, InStep(at, u), NEW r \in Workers,
         dev[r].pc = "tensors", ring[r] # <<>>
  PROVE  /\ at = r /\ Head(ring[r]) = Batch(u) /\ IsDecoding(dev[0]) /\ Flight(at, u)
         /\ Len(log[r]) = Announcing /\ Len(log[r]) = HandedTo(r)
         /\ u \in -1 .. setup.n_layer - 1 /\ u # setup.n_layer - 1 /\ OwnerOf(setup, u + 1) = r
         /\ Alike(dev[r], dev[0]) /\ NextGraph(Graphs(r), dev[r].sub, u)
<1> DEFINE d == dev[r]
           m == dev[0]
           g == Graphs(r)
           k == Len(log[r])
<1>1. PICK S : Typed(S) /\ Batch(u) \in S
  BY TypedWith
<1>2. r \in Others /\ setup.window[r] > 0 /\ r \in Ranks /\ r # 0 /\ r # Nowhere
  BY WorkersAndForwarders, RankTypes DEF Nowhere
<1>3. /\ k \in Nat /\ HandedTo(r) \in Nat /\ k <= HandedTo(r) /\ HandedTo(r) <= Announcing
      /\ Announcing \in Nat
  BY <1>1, <1>2, QueueBounds DEF InStep, Announcing
<1>4. WorkerIs(d, g, k, m, log[0], u, setup.warmup)
  BY DEF InStep
<1>5. IsDecoding(m) /\ k = Announcing /\ k = HandedTo(r)
  <2>1. ~Waiting(d, k, m, log[0], setup.warmup)
    BY DEF Waiting
  <2>. QED
    BY <1>3, <1>4, <2>1 DEF WorkerIs, Announcing
<1>6. at = r /\ Head(ring[r]) = Batch(u)
  BY <1>1, <1>2, <1>5, HeldTaken DEF InStep
<1>7. Flight(at, u) /\ u \in -1 .. setup.n_layer - 1 /\ OnItsWay(setup, r, u)
  BY <1>2, <1>6 DEF InStep, Flight, n_layer
<1>8. u # setup.n_layer - 1 /\ OwnerOf(setup, u + 1) = r /\ u + 1 \in LayersOf(setup)
  BY <1>2, <1>7, WayAt
<1>9. u < g[Len(g)].last
  BY <1>2, <1>7, <1>8, TurnAhead DEF Graphs
<1>10. Alike(d, m) /\ NextGraph(g, d.sub, u)
  BY <1>4, <1>5, <1>9 DEF WorkerIs, Announcing
<1>. QED
  BY <1>5, <1>6, <1>7, <1>8, <1>10

\* A sub-graph makes of the batch what has passed its last layer.
LEMMA ThroughIs ==
  ASSUME NEW g, NEW u, g.first = u + 1, u \in Int
  PROVE  Through(g, Batch(u)) = Batch(g.last)
BY DEF Through, Batch, Tensors

LEMMA GraphSkipped ==
  ASSUME NEW s, SetupIs(s), NEW q \in Ranks, NEW u \in -1 .. s.n_layer - 1, NEW v, NEW r, q # r,
         TurnOf(s, r, u, v), NEW sub, NextGraph(s.graphs[q], sub, u)
  PROVE  NextGraph(s.graphs[q], sub, v)
BY TurnSkipped

LEMMA TypedWithTwo ==
  ASSUME InOrder, NEW x, NEW y PROVE \E S : Typed(S) /\ x \in S /\ y \in S
<1>1. PICK S : Typed(S) /\ x \in S
  BY TypedWith
<1> DEFINE T == S \cup {y}
<1>2. \A s \in Seq(S) : s \in Seq(T)
  BY MoreMessages
<1>3. x \in T /\ y \in T
  BY <1>1
<1> HIDE DEF T
<1>4. log \in [Ranks -> Seq(T)] /\ ring \in [Ranks -> Seq(T)]
  BY <1>1, <1>2 DEF Typed
<1>. QED
  BY <1>3, <1>4 DEF Typed

\* The batch has passed the layers of the device it was at, and goes on to the next.
LEMMA FlightOn ==
  ASSUME SetupIs(setup), NEW at \in Ranks, NEW u, Flight(at, u), NEW v, TurnOf(setup, at, u, v),
         NEW to, to = IF v = setup.n_layer - 1 THEN IF at = 0 THEN AtOutput ELSE ToOutput
                      ELSE IF at = 0 THEN 1 ELSE NextRank(at),
         setup' = setup, log' = log, dev'[0].pc = "output" <=> to = AtOutput,
         to # AtOutput => NextGraph(Graphs(0), dev'[0].sub, v),
         at \in Others => Len(log[at]) = Announcing
  PROVE  Flight(to, v)' /\ to # at /\ to # Nowhere /\ (v # setup.n_layer - 1 => to \in Ranks)
<1> DEFINE n == IF at = 0 THEN 1 ELSE NextRank(at)
<1>1. u \in -1 .. setup.n_layer - 1 /\ Announcing > 0
  BY DEF Flight, n_layer
<1>2. /\ v \in -1 .. setup.n_layer - 1
      /\ v = setup.n_layer - 1 => OnItsWay(setup, IF at = 0 THEN AtOutput ELSE ToOutput, v)
      /\ v # setup.n_layer - 1 => OnItsWay(setup, n, v) /\ n \in Ranks
  BY <1>1, WayOn
<1>3. OnItsWay(setup, to, v) /\ (v # setup.n_layer - 1 => to \in Ranks)
  BY <1>2
<1>4. to \in Others => to = at + 1 /\ to - 1 = at
  <2>1. at = 0 \/ at \in Others
    BY RankTypes
  <2>2. ToOutput \notin Others /\ AtOutput \notin Others /\ 0 \notin Others
    BY RankTypes DEF ToOutput, AtOutput
  <2>. QED
    BY <2>1, <2>2, RankTypes
<1>5. to # at /\ to # Nowhere
  BY RankTypes DEF ToOutput, AtOutput, Nowhere, Others
<1>6. Len(log[at]) = Announcing
  <2>1. at = 0 \/ at \in Others
    BY RankTypes
  <2>. QED
    BY <2>1 DEF Announcing
<1>7. ASSUME NEW q \in Workers, Len(log[q]) # Announcing PROVE v < Graphs(q)[1].first
  <2>1. q \in Others /\ setup.window[q] > 0 /\ q \in Ranks /\ q # at
    BY <1>6, <1>7, WorkersAndForwarders, RankTypes
  <2>2. 1 \in 1 .. Len(setup.graphs[q])
    BY <2>1, GraphsOf
  <2>3. u < setup.graphs[q][1].first
    BY <1>7 DEF Flight, Graphs
  <2>4. v < setup.graphs[q][1].first
    BY <1>1, <2>1, <2>2, <2>3, TurnSkipped
  <2>. QED
    BY <2>4 DEF Graphs
<1>8. TurnEnds(setup, v)
  BY DEF TurnOf
<1>9. /\ UNCHANGED <<Announcing, n_layer, window, Workers>>
      /\ \A q : Graphs(q)' = Graphs(q) /\ (Reached(setup, q)' <=> Reached(setup, q))
  BY DEF Announcing, n_layer, window, Workers, Graphs, Reached
<1> HIDE DEF n
<1>10. to \in Others => Len(log[to - 1]) = Announcing
  BY <1>4, <1>6
<1>. QED
  BY <1>1, <1>2, <1>3, <1>5, <1>7, <1>8, <1>9, <1>10 DEF Flight, n_layer

\* The sub-graph that device r is at ends with layer v, and what it computes is sent to a place.
Sends(r, v, to) ==
  /\ v = Graphs(r)[dev[r].sub].last
  /\ to = IF v = setup.n_layer - 1 THEN IF r = 0 THEN AtOutput ELSE ToOutput
          ELSE IF r = 0 THEN 1 ELSE NextRank(r)

\* What a step of the system makes of the last layer u that the physical batch has passed: it stays,
\* or it is a later one; or a batch begins before the first layer, when there was none or the one
\* there was had passed the last.
PassesOn(u, v) ==
  LET busy == IsDecoding(dev[0]) IN
  \/ (busy' <=> busy) /\ (v = u \/ u < v)
  \/ ~busy /\ (busy' => v = -1)
  \/ busy /\ u = setup.n_layer - 1 /\ (busy' => v = -1)

LEMMA WorkerSteps ==
  ASSUME InOrder, SetupIs(setup), NEW at, NEW u, InStep(at, u), NEW r \in Others, ComputeWorker(r),
         NEW v, NEW to, Sends(r, v, to)
  PROVE  InStep(to, v)'
<1> DEFINE d == dev[r]
           m == dev[0]
           g == Graphs(r)
           n == NextRank(r)
           e == IF d.sub = Len(g) THEN Onward(d) ELSE SetSub(d, d.sub + 1)
           l == log[0]
           w == setup.warmup
<1>1. d.pc = "tensors" /\ ring[r] # <<>> /\ log' = log /\ UNCHANGED <<setup, n_past, calls, stop_at>>
  BY DEF ComputeWorker
<1>2. /\ r \in Workers /\ r \notin Forwarders /\ setup.window[r] > 0 /\ r \in Ranks /\ r # 0
      /\ 0 \in Ranks /\ DeviceOK(d) /\ DeviceOK(m)
  <2>1. r \notin Forwarders
    BY <1>1 DEF InStep
  <2>2. r \in Ranks /\ r # 0 /\ 0 \in Ranks
    BY RankTypes
  <2>. QED
    BY <2>1, <2>2, WorkersAndForwarders DEF InStep
<1>3. /\ at = r /\ Head(ring[r]) = Batch(u) /\ IsDecoding(m) /\ Flight(at, u)
      /\ Len(log[r]) = Announcing /\ Len(log[r]) = HandedTo(r)
      /\ u \in -1 .. setup.n_layer - 1 /\ u # setup.n_layer - 1 /\ OwnerOf(setup, u + 1) = r
      /\ Alike(d, m) /\ NextGraph(g, d.sub, u)
  BY <1>1, <1>2, WorkerAtBatch
<1>0. /\ v = g[d.sub].last
      /\ to = IF v = setup.n_layer - 1 THEN ToOutput ELSE n
  BY <1>2 DEF Sends
<1>4. /\ d.sub \in 1 .. Len(g) /\ g[d.sub].first = u + 1
      /\ TurnOf(setup, r, u, v)
      /\ NextGraph(g, d.sub + 1, v)
      /\ v \in LayersOf(setup) /\ (d.sub = Len(g) <=> v = g[Len(g)].last)
      /\ v <= g[Len(g)].last
  <2> DEFINE sub == d.sub
  <2>1. g = setup.graphs[r] /\ v = g[sub].last
    BY <1>0 DEF Graphs
  <2>2. NextGraph(g, sub, u) /\ OwnerOf(setup, u + 1) = r /\ u \in -1 .. setup.n_layer - 1 /\ u # setup.n_layer - 1
    BY <1>3
  <2> HIDE DEF g, sub
  <2>3. /\ sub \in 1 .. Len(g) /\ g[sub].first = u + 1 /\ TurnOf(setup, r, u, v)
        /\ NextGraph(g, sub + 1, v) /\ v \in LayersOf(setup) /\ (sub = Len(g) <=> v = g[Len(g)].last)
        /\ v <= g[Len(g)].last
    BY <1>2, <2>1, <2>2, TurnTaken
  <2>. QED
    BY <2>3 DEF sub
<1>5. v \in Nat /\ v \in -1 .. setup.n_layer - 1
  BY <1>4 DEF LayersOf, SetupIs
<1>6. Through(g[d.sub], Head(ring[r])) = Batch(v)
  <2>1. g[d.sub].first = u + 1 /\ u \in Int /\ v = g[d.sub].last /\ Head(ring[r]) = Batch(u)
    BY <1>0, <1>3, <1>4
  <2>. QED
    BY <2>1, ThroughIs
<1>7. n \in Ranks /\ n # r /\ n = NextRank(r) /\ r # ToOutput /\ n # ToOutput
  BY <1>2, RankTypes DEF ToOutput
<1>8. IsToMaster(r, g[d.sub]) <=> v = setup.n_layer - 1
  BY <1>0, <1>2 DEF IsToMaster, n_layer
<1>9. dev' = [dev EXCEPT ![r] = e]
  <2>1. NextUbatch(r, d) = Onward(d)
    BY <1>2, OnwardIs DEF DeviceOK
  <2>. QED
    BY <2>1 DEF ComputeWorker, SetSub
<1>10. WorkerIs(e, g, Len(log[r]), m, l, v, w) /\ DeviceOK(e) /\ e.stop = d.stop
  <2> DEFINE sub == d.sub + 1
             k == Len(log[r])
  <2>1. ~(k < Len(l))
    <3>1. k = Len(l) /\ Len(l) \in Nat
      BY <1>2, <1>3, IdsAreNumbers DEF Announcing, InOrder, Typed
    <3>. QED
      BY <3>1
  <2>2. d.sub = Len(g) => e = Onward(d) /\ ~(v < g[Len(g)].last)
    BY <1>4, <1>5
  <2>3. d.sub # Len(g) => e = SetSub(d, sub) /\ v < g[Len(g)].last
    <3>1. Len(g) \in 1 .. Len(g) /\ \A j \in 1 .. Len(g) : g[j].last \in Nat
      BY <1>2, GraphsOf DEF Graphs
    <3>2. g[Len(g)].last \in Nat
      BY <3>1
    <3>. QED
      BY <1>4, <1>5, <3>2
  <2>4. DeviceOK(d) /\ DeviceOK(m) /\ Alike(d, m) /\ IsDecoding(m) /\ NextGraph(g, sub, v)
    BY <1>2, <1>3, <1>4
  <2> HIDE DEF e, g, d, m, l, w, sub, k
  <2>5. CASE d.sub = Len(g)
    <3>1. e = Onward(d) /\ ~(v < g[Len(g)].last)
      BY <2>2, <2>5
    <3>2. WorkerIs(e, g, k, m, l, v, w) /\ DeviceOK(e) /\ e.stop = d.stop
      BY <2>1, <2>4, <3>1, WorkerEnds
    <3>. QED
      BY <3>2 DEF k
  <2>6. CASE d.sub # Len(g)
    <3>1. e = SetSub(d, sub) /\ v < g[Len(g)].last
      BY <2>3, <2>6
    <3>2. WorkerIs(e, g, k, m, l, v, w) /\ DeviceOK(e) /\ e.stop = d.stop
      BY <2>1, <2>4, <3>1, WorkerPasses
    <3>. QED
      BY <3>2 DEF k
  <2>. QED
    BY <2>5, <2>6
<1> HIDE DEF e
<1>11. /\ dev'[r] = e /\ \A q \in Ranks : q # r => dev'[q] = dev[q]
       /\ dev' = [q \in Ranks |-> dev'[q]] /\ dev'[0] = m
  <2>1. /\ dev'[r] = e /\ \A q \in Ranks : q # r => dev'[q] = dev[q]
        /\ dev' = [q \in Ranks |-> dev'[q]]
    BY <1>2, <1>9, OneDevice DEF InStep
  <2>. QED
    BY <1>2, <2>1
<1>12. Batch(v)' = Batch(v)
  BY <1>1, <1>11 DEF Batch, Announcing
<1>13. Flight(to, v)' /\ to # at /\ to # Nowhere
  <2>1. to # AtOutput /\ dev'[0].pc = "tensors"
    BY <1>1, <1>2, <1>3, <1>7, <1>11, RankTypes DEF ToOutput, AtOutput, Alike, Sends
  <2>2. NextGraph(Graphs(0), dev'[0].sub, v)
    <3>1. NextGraph(setup.graphs[0], m.sub, u)
      BY <1>2, <1>3, RankTypes DEF Flight, Graphs, AtOutput
    <3>2. TurnOf(setup, r, u, v) /\ 0 \in Ranks /\ 0 # r /\ u \in -1 .. setup.n_layer - 1
      BY <1>2, <1>3, <1>4
    <3>3. NextGraph(setup.graphs[0], m.sub, v)
      BY <3>1, <3>2, GraphSkipped
    <3>. QED
      BY <1>11, <3>3 DEF Graphs
  <2>3. Len(log[at]) = Announcing /\ TurnOf(setup, at, u, v) /\ at \in Ranks /\ at # 0
    BY <1>2, <1>3, <1>4
  <2>4. to = IF v = setup.n_layer - 1 THEN IF at = 0 THEN AtOutput ELSE ToOutput
             ELSE IF at = 0 THEN 1 ELSE NextRank(at)
    BY <1>3 DEF Sends
  <2>. QED
    BY <1>1, <1>3, <2>1, <2>2, <2>3, <2>4, FlightOn
<1>14. /\ \A q \in Ranks : ring'[q] = IF q = at THEN Tail(ring[q])
                                     ELSE IF q = to THEN Append(ring[q], Batch(v)) ELSE ring[q]
       /\ direct' = IF at = ToOutput THEN Tail(direct)
                    ELSE IF to = ToOutput THEN Append(direct, Batch(v)) ELSE direct
  <2> DEFINE y == IF v = setup.n_layer - 1 THEN ring[n] ELSE Append(ring[n], Batch(v))
             z == Tail(ring[r])
  <2>1. /\ direct' = IF v = setup.n_layer - 1 THEN Append(direct, Batch(v)) ELSE direct
        /\ ring' = IF v = setup.n_layer - 1 THEN [ring EXCEPT ![r] = z]
                   ELSE [ring EXCEPT ![r] = z, ![n] = Append(@, Batch(v))]
    BY <1>6, <1>8, <1>7 DEF ComputeWorker
  <2>2. PICK S : ring \in [Ranks -> Seq(S)]
    BY TypedWithTwo DEF Typed
  <2>3. ring[n] = y \/ v # setup.n_layer - 1
    OBVIOUS
  <2>4. ring' = SetTwo(ring, r, z, n, y)
    <3>1. CASE v = setup.n_layer - 1
      <4>1. ring' = [ring EXCEPT ![r] = z] /\ y = ring[n]
        BY <2>1, <3>1
      <4> HIDE DEF y, z, n
      <4>. QED
        BY <1>7, <2>2, <4>1 DEF SetTwo
    <3>2. CASE v # setup.n_layer - 1
      <4>1. ring' = [ring EXCEPT ![r] = z, ![n] = Append(@, Batch(v))] /\ y = Append(ring[n], Batch(v))
        BY <2>1, <3>2
      <4> HIDE DEF y, z, n
      <4>. QED
        BY <1>2, <1>7, <2>2, <4>1 DEF SetTwo
    <3>. QED
      BY <3>1, <3>2
  <2> HIDE DEF y, z
  <2>5. /\ ring'[r] = z /\ ring'[n] = y
        /\ \A q \in Ranks : q # r /\ q # n => ring'[q] = ring[q]
    BY <1>7, <2>2, <2>4, TwoQueues
  <2>6. at = r /\ r # ToOutput /\ ToOutput \notin Ranks /\ to = IF v = setup.n_layer - 1 THEN ToOutput ELSE n
    BY <1>0, <1>3, <1>7, RankTypes DEF ToOutput
  <2>7. direct' = IF at = ToOutput THEN Tail(direct)
                  ELSE IF to = ToOutput THEN Append(direct, Batch(v)) ELSE direct
    BY <1>7, <2>1, <2>6
  <2>8. \A q \in Ranks : ring'[q] = IF q = at THEN Tail(ring[q])
                                     ELSE IF q = to THEN Append(ring[q], Batch(v)) ELSE ring[q]
    <3>1. y = IF v = setup.n_layer - 1 THEN ring[n] ELSE Append(ring[n], Batch(v))
      BY DEF y
    <3>2. z = Tail(ring[r])
      BY DEF z
    <3> HIDE DEF n
    <3>. QED
      BY <1>7, <2>5, <2>6, <3>1, <3>2
  <2>. QED
    BY <2>7, <2>8
<1>15. Queues(to, v)'
  <2> DEFINE a == Batch(u)
             b == Batch(v)
  <2>1. PICK S : Typed(S) /\ a \in S /\ b \in S
    BY TypedWithTwo
  <2>2. b = Batch(v)' /\ a = Batch(u)
    BY <1>12
  <2>3. Queues(at, u) /\ (at \in Others => Len(log[at]) = HandedTo(at))
    BY <1>3 DEF InStep
  <2> HIDE DEF a, b
  <2>. QED
    BY <1>1, <1>13, <1>14, <2>1, <2>2, <2>3, QueuesMoved DEF b
<1>16. ASSUME NEW q \in Workers
       PROVE  WorkerIs(dev[q], Graphs(q), Len(log[q]), dev[0], log[0], v, setup.warmup)'
  <2>1. q \in Others /\ setup.window[q] > 0 /\ q \in Ranks /\ Graphs(q)' = Graphs(q) /\ setup' = setup
    BY <1>1, WorkersAndForwarders, RankTypes DEF Graphs
  <2>2. CASE q = r
    BY <1>1, <1>10, <1>11, <2>1, <2>2
  <2>3. CASE q # r
    <3>1. dev'[q] = dev[q]
      BY <1>11, <2>1, <2>3
    <3>2. WorkerIs(dev[q], setup.graphs[q], Len(log[q]), m, l, u, w)
      BY DEF InStep, Graphs
    <3>3. WorkerIs(dev[q], setup.graphs[q], Len(log[q]), m, l, v, w)
      <4>1. TurnOf(setup, r, u, v) /\ u \in -1 .. setup.n_layer - 1
        BY <1>3, <1>4
      <4> HIDE DEF m, l, w
      <4>. QED
        BY <2>1, <2>3, <3>2, <4>1, WorkerSkips
    <3>. QED
      BY <1>1, <1>11, <2>1, <3>1, <3>3 DEF Graphs
  <2>. QED
    BY <2>2, <2>3
<1>17. MasterIs'
  <2>1. \A q \in Ranks : dev'[q].stop = dev[q].stop
    BY <1>10, <1>11
  <2>2. \A q \in Ranks : dev'[q].stop => dev[q].stop
    BY <2>1, Zenon
  <2>. QED
    BY <1>1, <1>11, <2>2 DEF InStep, MasterIs, Announcing
<1>18. /\ Workers' = Workers /\ Forwarders' = Forwarders
       /\ \A q \in Forwarders : dev'[q].pc \in {"forward", "left"}
       /\ \A q \in Ranks : DeviceOK(dev'[q])
  <2>1. Workers' = Workers /\ Forwarders' = Forwarders
    BY <1>1 DEF Workers, Forwarders, window
  <2>2. \A q \in Forwarders : q \in Ranks /\ q # r
    BY <1>2, WorkersAndForwarders, RankTypes
  <2>. QED
    BY <1>10, <1>11, <2>1, <2>2 DEF InStep
<1>19. \A j \in 1 .. Announcing' : IsAnnouncement(log'[0][j], j)
  BY <1>1 DEF InStep, Announcing
<1>. QED
  BY <1>3, <1>11, <1>13, <1>15, <1>16, <1>17, <1>18, <1>19 DEF InStep

\* A sub-graph ends behind the layer that its tensors come from.
LEMMA SubGraphAhead ==
  ASSUME SetupIs(setup), NEW r \in Ranks, NEW u \in -1 .. setup.n_layer - 1, u # setup.n_layer - 1,
         OwnerOf(setup, u + 1) = r, NEW sub, NextGraph(Graphs(r), sub, u)
  PROVE  u < Graphs(r)[sub].last
<1>1. NextGraph(setup.graphs[r], sub, u)
  BY DEF Graphs
<1>2. TurnOf(setup, r, u, setup.graphs[r][sub].last)
  BY <1>1, TurnTaken
<1>. QED
  BY <1>2 DEF TurnOf, Graphs

LEMMA ComputeWorkerInStep ==
  ASSUME InOrder, SetupIs(setup), NEW at, NEW u, InStep(at, u), NEW r \in Others, ComputeWorker(r)
  PROVE  \E to, v : PassesOn(u, v) /\ InStep(to, v)'
<1>1. \E v, to : Sends(r, v, to)
  BY DEF Sends
<1>2. PICK v, to : Sends(r, v, to)
  BY <1>1
<1>3. InStep(to, v)'
  BY <1>2, WorkerSteps
<1>4. dev[r].pc = "tensors" /\ ring[r] # <<>> /\ r # 0 /\ r \in Ranks /\ 0 \in Ranks
  BY RankTypes DEF ComputeWorker
<1>5. r \in Workers
  <2>1. r \notin Forwarders
    BY <1>4 DEF InStep
  <2>. QED
    BY <2>1, WorkersAndForwarders
<1>6. u < v
  <2>1. /\ u \in -1 .. setup.n_layer - 1 /\ u # setup.n_layer - 1 /\ OwnerOf(setup, u + 1) = r
        /\ NextGraph(Graphs(r), dev[r].sub, u)
    BY <1>4, <1>5, WorkerAtBatch
  <2>. QED
    BY <1>2, <1>4, <2>1, SubGraphAhead DEF Sends
<1>7. IsDecoding(dev[0])' <=> IsDecoding(dev[0])
  <2>1. \E x : dev' = [dev EXCEPT ![r] = x]
    BY DEF ComputeWorker
  <2>2. dev'[0] = dev[0]
    BY <1>4, <2>1, OneDevice DEF InStep
  <2>. QED
    BY <2>2
<1>. QED
  BY <1>3, <1>6, <1>7 DEF PassesOn

\* The master's own sub-graph goes on its way as well, and the last one stays where it is.
LEMMA MasterSteps ==
  ASSUME InOrder, SetupIs(setup), NEW at, NEW u, InStep(at, u), ComputeMaster,
         NEW v, NEW to, Sends(0, v, to)
  PROVE  InStep(to, v)'
<1> DEFINE m == dev[0]
           g == Graphs(0)
           pc == IF v = setup.n_layer - 1 THEN "output" ELSE "tensors"
           e == [m EXCEPT !.sub = m.sub + 1, !.pc = pc]
           l == log[0]
           w == setup.warmup
<1>0. v = g[m.sub].last /\ to = IF v = setup.n_layer - 1 THEN AtOutput ELSE 1
  BY DEF Sends
<1>1. /\ m.pc = "tensors" /\ ring[0] # <<>> /\ log' = log /\ direct' = direct
      /\ UNCHANGED <<setup, n_past, calls, stop_at>>
  BY DEF ComputeMaster
<1>2. /\ 0 \in Ranks /\ 0 \notin Others /\ 1 \in Ranks /\ 1 \in Others /\ DeviceOK(m) /\ IsDecoding(m)
      /\ ToOutput \notin Ranks /\ AtOutput \notin Ranks /\ AtOutput # ToOutput
  BY <1>1, RankTypes DEF InStep, IsDecoding, ToOutput, AtOutput
<1>3. /\ at = 0 /\ Head(ring[0]) = Batch(u) /\ Flight(at, u)
      /\ u \in -1 .. setup.n_layer - 1 /\ u # setup.n_layer - 1 /\ OwnerOf(setup, u + 1) = 0
      /\ NextGraph(g, m.sub, u)
  <2>1. at = 0 /\ Head(ring[0]) = Batch(u)
    BY <1>1 DEF InStep, Queues, Held
  <2>2. Flight(at, u)
    BY <1>2 DEF InStep
  <2>3. u \in -1 .. setup.n_layer - 1 /\ OnItsWay(setup, at, u) /\ NextGraph(g, m.sub, u)
    BY <1>2, <2>1, <2>2 DEF Flight, n_layer
  <2>4. u # setup.n_layer - 1 /\ (at = 0 \/ setup.window[at] > 0 => OwnerOf(setup, u + 1) = at)
    BY <1>2, <2>1, <2>3, WayAt
  <2>. QED
    BY <2>1, <2>2, <2>3, <2>4
<1>4. /\ m.sub \in 1 .. Len(g) /\ g[m.sub].first = u + 1
      /\ TurnOf(setup, 0, u, v)
      /\ NextGraph(g, m.sub + 1, v)
      /\ v \in LayersOf(setup)
  <2> DEFINE sub == m.sub
             r == 0
  <2>1. g = setup.graphs[r] /\ v = g[sub].last /\ r \in Ranks
    BY <1>0, <1>2 DEF Graphs
  <2>2. NextGraph(g, sub, u) /\ OwnerOf(setup, u + 1) = r /\ u \in -1 .. setup.n_layer - 1 /\ u # setup.n_layer - 1
    BY <1>3
  <2> HIDE DEF g, sub, r
  <2>3. /\ sub \in 1 .. Len(g) /\ g[sub].first = u + 1 /\ TurnOf(setup, r, u, v)
        /\ NextGraph(g, sub + 1, v) /\ v \in LayersOf(setup)
    BY <2>1, <2>2, TurnTaken
  <2>. QED
    BY <2>3 DEF sub, r
<1>5. v \in Nat /\ v \in -1 .. setup.n_layer - 1
  BY <1>4 DEF LayersOf, SetupIs
<1>6. Through(g[m.sub], Head(ring[0])) = Batch(v)
  <2>1. g[m.sub].first = u + 1 /\ u \in Int /\ v = g[m.sub].last /\ Head(ring[0]) = Batch(u)
    BY <1>0, <1>3, <1>4
  <2>. QED
    BY <2>1, ThroughIs
<1>7. /\ DeviceOK(e) /\ e.pc = pc /\ e.sub = m.sub + 1
      /\ e.warm = m.warm /\ e.stop = m.stop /\ e.left = m.left /\ e.pos = m.pos /\ e.cache = m.cache
  <2> DEFINE x == m.sub + 1
  <2>1. IsDevice(m)
    BY <1>2 DEF DeviceOK
  <2>2. e = Device7(pc, m.warm, m.stop, x, m.left, m.pos, m.cache)
    BY <2>1, SubPcForm
  <2> HIDE DEF e, pc, x
  <2>3. /\ IsDevice(e) /\ e.pc = pc /\ e.warm = m.warm /\ e.stop = m.stop /\ e.sub = x
        /\ e.left = m.left /\ e.pos = m.pos /\ e.cache = m.cache
    BY <2>2, FieldsOf
  <2>. QED
    BY <1>2, <2>3 DEF DeviceOK, x
<1>8. dev' = [dev EXCEPT ![0] = e]
  BY <1>0, <1>1 DEF ComputeMaster, n_layer
<1> HIDE DEF e
<1>9. /\ dev'[0] = e /\ \A q \in Ranks : q # 0 => dev'[q] = dev[q]
      /\ dev' = [q \in Ranks |-> dev'[q]]
  BY <1>2, <1>8, OneDevice DEF InStep
<1>10. Batch(v)' = Batch(v) /\ Batch(u)' = Batch(u)
  BY <1>1, <1>7, <1>9 DEF Batch, Announcing
<1>11. Flight(to, v)' /\ to # at /\ to # Nowhere
  <2>1. dev'[0].pc = "output" <=> to = AtOutput
    BY <1>0, <1>2, <1>7, <1>9, RankTypes DEF AtOutput
  <2>2. NextGraph(Graphs(0), dev'[0].sub, v)
    BY <1>4, <1>7, <1>9
  <2>3. TurnOf(setup, at, u, v) /\ at \in Ranks /\ at \notin Others
    BY <1>2, <1>3, <1>4
  <2>4. to = IF v = setup.n_layer - 1 THEN IF at = 0 THEN AtOutput ELSE ToOutput
             ELSE IF at = 0 THEN 1 ELSE NextRank(at)
    BY <1>0, <1>3
  <2>. QED
    BY <1>1, <1>3, <2>1, <2>2, <2>3, <2>4, FlightOn
<1>12. /\ \A q \in Ranks : ring'[q] = IF q = at THEN Tail(ring[q])
                                     ELSE IF q = to THEN Append(ring[q], Batch(v)) ELSE ring[q]
       /\ direct' = IF at = ToOutput THEN Tail(direct)
                    ELSE IF to = ToOutput THEN Append(direct, Batch(v)) ELSE direct
  <2> DEFINE y == IF v = setup.n_layer - 1 THEN ring[1] ELSE Append(ring[1], Batch(v))
             z == Tail(ring[0])
  <2>1. ring' = [ring EXCEPT ![0] = z, ![1] = IF v = setup.n_layer - 1 THEN @ ELSE Append(@, Batch(v))]
    BY <1>0, <1>6 DEF ComputeMaster, n_layer
  <2>2. PICK S : ring \in [Ranks -> Seq(S)]
    BY TypedWithTwo DEF Typed
  <2>3. ring'[0] = z /\ ring'[1] = y /\ \A q \in Ranks : q # 0 /\ q # 1 => ring'[q] = ring[q]
    <3> HIDE DEF z
    <3>. QED
      BY <1>2, <2>1, <2>2
  <2>4. at = 0 /\ to = IF v = setup.n_layer - 1 THEN AtOutput ELSE 1
    BY <1>0, <1>3
  <2>5. to # ToOutput /\ at # ToOutput
    BY <1>2, <2>4
  <2>. QED
    BY <1>1, <1>2, <2>3, <2>4, <2>5
<1>13. Queues(to, v)'
  <2> DEFINE a == Batch(u)
             b == Batch(v)
  <2>1. PICK S : Typed(S) /\ a \in S /\ b \in S
    BY TypedWithTwo
  <2>2. b = Batch(v)' /\ a = Batch(u)
    BY <1>10
  <2>3. Queues(at, u) /\ at \notin Others
    BY <1>2, <1>3 DEF InStep
  <2> HIDE DEF a, b
  <2>. QED
    BY <1>1, <1>11, <1>12, <2>1, <2>2, <2>3, QueuesMoved DEF b
<1>14. ASSUME NEW q \in Workers
       PROVE  WorkerIs(dev[q], Graphs(q), Len(log[q]), dev[0], log[0], v, setup.warmup)'
  <2> DEFINE d == dev[q]
             k == Len(log[q])
             h == setup.graphs[q]
             r == 0
  <2>1. /\ q \in Others /\ setup.window[q] > 0 /\ q \in Ranks /\ q # r /\ setup' = setup
        /\ Graphs(q)' = h /\ dev'[q] = d /\ r \in Ranks
    BY <1>1, <1>2, <1>9, WorkersAndForwarders, RankTypes DEF Graphs
  <2>2. WorkerIs(d, h, k, m, l, u, w)
    BY DEF InStep, Graphs
  <2>3. TurnOf(setup, r, u, v) /\ u \in -1 .. setup.n_layer - 1
    BY <1>3, <1>4
  <2>4. WorkerIs(d, setup.graphs[q], k, m, l, v, w)
    <3> HIDE DEF d, k, m, l, w, r
    <3>. QED
      BY <2>1, <2>2, <2>3, WorkerSkips DEF h
  <2>5. IsDecoding(e) /\ (e.pc = m.pc \/ ~(v < h[Len(h)].last))
    <3>1. Len(h) \in 1 .. Len(h) /\ \A j \in 1 .. Len(h) : h[j].last \in Nat /\ h[j].last < setup.n_layer
      BY <2>1, GraphsOf
    <3>2. h[Len(h)].last \in Nat /\ h[Len(h)].last < setup.n_layer
      BY <3>1
    <3>3. setup.n_layer \in Nat
      BY DEF SetupIs
    <3>. QED
      BY <1>1, <1>5, <1>7, <3>2, <3>3 DEF IsDecoding
  <2>6. WorkerIs(d, h, k, e, l, v, w)
    <3>1. DeviceOK(m) /\ DeviceOK(e) /\ IsDecoding(m)
      BY <1>2, <1>7
    <3> HIDE DEF d, k, m, l, w, h
    <3>. QED
      BY <1>7, <2>4, <2>5, <3>1, WorkerSeesMaster DEF h, m
  <2>. QED
    BY <1>1, <1>9, <2>1, <2>6
<1>15. MasterIs'
  <2>1. \A q \in Ranks : dev'[q].stop = dev[q].stop
    BY <1>7, <1>9
  <2>2. \A q \in Ranks : dev'[q].stop => dev[q].stop
    BY <2>1, Zenon
  <2>3. dev'[0].pc \in {"tensors", "output"} /\ IsDecoding(dev'[0]) /\ IsDecoding(dev[0])
    BY <1>2, <1>7, <1>9 DEF IsDecoding
  <2>4. dev'[0].warm = dev[0].warm /\ Announcing' = Announcing /\ stop_at' = stop_at /\ setup' = setup
    BY <1>1, <1>7, <1>9 DEF Announcing
  <2>5. dev[0].pc = "tensors" /\ MasterIs
    BY <1>1 DEF InStep
  <2>. QED
    BY <2>2, <2>3, <2>4, <2>5 DEF MasterIs
<1>16. /\ Workers' = Workers /\ Forwarders' = Forwarders
       /\ \A q \in Forwarders : dev'[q].pc \in {"forward", "left"}
       /\ \A q \in Ranks : DeviceOK(dev'[q])
  <2>1. Workers' = Workers /\ Forwarders' = Forwarders
    BY <1>1 DEF Workers, Forwarders, window
  <2>2. \A q \in Forwarders : q \in Ranks /\ q # 0
    BY DEF Forwarders
  <2>. QED
    BY <1>7, <1>9, <2>1, <2>2 DEF InStep
<1>17. \A j \in 1 .. Announcing' : IsAnnouncement(log'[0][j], j)
  BY <1>1 DEF InStep, Announcing
<1>18. IsDecoding(dev'[0])
  BY <1>7, <1>9 DEF IsDecoding
<1>. QED
  BY <1>9, <1>11, <1>13, <1>14, <1>15, <1>16, <1>17, <1>18 DEF InStep

LEMMA ComputeMasterInStep ==
  ASSUME InOrder, SetupIs(setup), NEW at, NEW u, InStep(at, u), ComputeMaster
  PROVE  \E to, v : PassesOn(u, v) /\ InStep(to, v)'
<1>1. \E v, to : Sends(0, v, to)
  BY DEF Sends
<1>2. PICK v, to : Sends(0, v, to)
  BY <1>1
<1>3. InStep(to, v)'
  BY <1>2, MasterSteps
<1>4. dev[0].pc = "tensors" /\ ring[0] # <<>> /\ 0 \in Ranks /\ IsDecoding(dev[0])
  BY RankTypes DEF ComputeMaster, IsDecoding
<1>5. at = 0 /\ Flight(at, u)
  BY <1>4, RankTypes DEF InStep, Queues, Held, Nowhere
<1>6. u < v
  <2> DEFINE r == 0
             sub == dev[0].sub
  <2>1. /\ u \in -1 .. setup.n_layer - 1 /\ OnItsWay(setup, at, u) /\ NextGraph(Graphs(r), sub, u)
    BY <1>4, <1>5, RankTypes DEF Flight, n_layer, AtOutput
  <2>2. u # setup.n_layer - 1 /\ OwnerOf(setup, u + 1) = r
    BY <1>4, <1>5, <2>1, WayAt
  <2>3. v = Graphs(r)[sub].last /\ r \in Ranks
    BY <1>2, <1>4 DEF Sends
  <2> HIDE DEF r, sub
  <2>. QED
    BY <2>1, <2>2, <2>3, SubGraphAhead
<1>7. IsDecoding(dev[0])'
  <2>1. to # Nowhere
    BY <1>2, RankTypes DEF Sends, AtOutput, Nowhere
  <2>. QED
    BY <1>3, <2>1 DEF InStep
<1>. QED
  BY <1>3, <1>4, <1>6, <1>7 DEF PassesOn

\* The output layer is reached with the last layer; of the two connections that lead to the
\* master's socket, only that of the last worker has something then.
LEMMA OutputAt ==
  ASSUME SetupIs(setup), NEW at, NEW u, InStep(at, u), Output
  PROVE  LET e == NextUbatch(0, dev[0])
         IN  /\ at \in {ToOutput, AtOutput} /\ at \notin Ranks /\ u = setup.n_layer - 1
             /\ IsDecoding(dev[0]) /\ Flight(at, u)
             /\ direct' = IF at = ToOutput THEN Tail(direct) ELSE direct
             /\ ring' = [ring EXCEPT ![1] = ring[1] \o Embedded(e, Len(log[0]))]
             /\ dev' = [dev EXCEPT ![0] = e]
             /\ UNCHANGED <<setup, log, n_past, calls, stop_at>>
<1> DEFINE m == dev[0]
           e == NextUbatch(0, dev[0])
<1>1. /\ dev' = [dev EXCEPT ![0] = e] /\ UNCHANGED <<setup, log, n_past, calls, stop_at>>
      /\ m.pc \in {"output", "tensors"} /\ 0 \in Ranks
      /\ ToOutput \notin Ranks /\ AtOutput \notin Ranks /\ AtOutput # ToOutput
  <2>1. /\ dev' = [dev EXCEPT ![0] = e] /\ UNCHANGED <<setup, log, n_past, calls, stop_at>>
        /\ m.pc \in {"output", "tensors"}
    BY DEF Output
  <2>2. 0 \in Ranks /\ ToOutput \notin Ranks /\ AtOutput \notin Ranks /\ AtOutput # ToOutput
    BY RankTypes DEF ToOutput, AtOutput
  <2> HIDE DEF e, m
  <2>. QED
    BY <2>1, <2>2
<1>2. IsDecoding(m) /\ Flight(at, u)
  BY <1>1 DEF InStep, IsDecoding
<1>3. \/ m.pc = "output" /\ direct' = direct /\ ring' = [ring EXCEPT ![1] = @ \o Embedded(e, Len(log[0]))]
      \/ /\ m.pc = "tensors" /\ direct # <<>> /\ direct' = Tail(direct)
         /\ ring' = [ring EXCEPT ![1] = @ \o Embedded(e, Len(log[0]))]
      \/ m.pc = "tensors" /\ m.sub > Len(Graphs(0)) /\ ring[0] # <<>>
  BY DEF Output
<1>4. CASE m.pc = "output" /\ direct' = direct /\ ring' = [ring EXCEPT ![1] = @ \o Embedded(e, Len(log[0]))]
  <2>1. at = AtOutput
    BY <1>2, <1>4 DEF Flight
  <2> HIDE DEF e
  <2>2. at \in {ToOutput, AtOutput} /\ at \notin Ranks /\ at # ToOutput
    BY <1>1, <2>1
  <2>3. u = setup.n_layer - 1
    BY <1>2, <2>2 DEF Flight, OnItsWay
  <2>. QED
    BY <1>1, <1>2, <1>4, <2>2, <2>3 DEF e
<1>5. CASE /\ m.pc = "tensors" /\ direct # <<>> /\ direct' = Tail(direct)
           /\ ring' = [ring EXCEPT ![1] = @ \o Embedded(e, Len(log[0]))]
  <2>1. at = ToOutput
    BY <1>5 DEF InStep, Queues, Held
  <2>2. at \in {ToOutput, AtOutput} /\ at \notin Ranks
    BY <1>1, <2>1
  <2>3. u = setup.n_layer - 1
    BY <1>2, <2>2 DEF Flight, OnItsWay
  <2>. QED
    BY <1>1, <1>2, <1>5, <2>1, <2>2, <2>3
<1>6. CASE m.pc = "tensors" /\ m.sub > Len(Graphs(0)) /\ ring[0] # <<>>
  <2> DEFINE r == 0
             sub == m.sub
             g == setup.graphs[r]
  <2>1. at = 0 /\ r \in Ranks
    BY <1>1, <1>6 DEF InStep, Queues, Held
  <2>2. u \in -1 .. setup.n_layer - 1 /\ OnItsWay(setup, at, u) /\ NextGraph(g, sub, u)
    BY <1>1, <1>2, <2>1 DEF Flight, n_layer, Graphs
  <2>3. u # setup.n_layer - 1 /\ OwnerOf(setup, u + 1) = r
    BY <1>1, <2>1, <2>2, WayAt
  <2> HIDE DEF r, sub
  <2>4. sub \in 1 .. Len(g)
    BY <2>1, <2>2, <2>3, TurnTaken
  <2>5. sub > Len(g)
    BY <1>6 DEF Graphs, sub, r
  <2>6. Len(g) \in Nat
    BY <2>1, GraphTypes DEF SetupIs, GraphsAre
  <2>. QED
    BY <2>4, <2>5, <2>6
<1>. QED
  BY <1>3, <1>4, <1>5, <1>6

\* The next physical batch of the master goes to the first device and has passed no layer yet;
\* otherwise its call returns.
LEMMA OutputSteps ==
  ASSUME InOrder, SetupIs(setup), NEW at, NEW u, InStep(at, u), Output,
         NEW v, v = -1, NEW to, to = IF IsDecoding(NextUbatch(0, dev[0])) THEN 1 ELSE Nowhere
  PROVE  InStep(to, v)'
<1> DEFINE m == dev[0]
           e == NextUbatch(0, dev[0])
           t == Tried(m.cache, m.left, m.pos)
           l == log[0]
           w == setup.warmup
<1>1. /\ at \in {ToOutput, AtOutput} /\ at \notin Ranks /\ u = setup.n_layer - 1
      /\ IsDecoding(m) /\ Flight(at, u)
      /\ direct' = IF at = ToOutput THEN Tail(direct) ELSE direct
      /\ ring' = [ring EXCEPT ![1] = ring[1] \o Embedded(e, Len(log[0]))]
      /\ dev' = [dev EXCEPT ![0] = e]
      /\ setup' = setup /\ log' = log /\ stop_at' = stop_at
  <2>1. LET e0 == NextUbatch(0, dev[0])
        IN  /\ at \in {ToOutput, AtOutput} /\ at \notin Ranks /\ u = setup.n_layer - 1
            /\ IsDecoding(dev[0]) /\ Flight(at, u)
            /\ direct' = IF at = ToOutput THEN Tail(direct) ELSE direct
            /\ ring' = [ring EXCEPT ![1] = ring[1] \o Embedded(e0, Len(log[0]))]
            /\ dev' = [dev EXCEPT ![0] = e0]
            /\ UNCHANGED <<setup, log, n_past, calls, stop_at>>
    BY OutputAt
  <2>. QED
    BY <2>1
<1>2. /\ 0 \in Ranks /\ 0 \notin Others /\ 1 \in Ranks /\ 1 \in Others /\ DeviceOK(m)
      /\ ToOutput \notin Ranks /\ AtOutput \notin Ranks /\ AtOutput # ToOutput
      /\ Nowhere \notin Ranks /\ ToOutput # Nowhere /\ AtOutput # Nowhere /\ 1 # Nowhere
  BY <1>1, RankTypes DEF InStep, ToOutput, AtOutput, Nowhere
<1>3. \/ m.left # 0 /\ t.ok /\ e = Started(m)
      \/ /\ m.left = 0 \/ ~t.ok
         /\ DeviceOK(e) /\ e.pc \in {"ready", "failed"}
         /\ e.warm = FALSE /\ e.stop = m.stop /\ e.left = 0
         /\ e.cache = Onward(m).cache
  BY <1>2, MasterOnward
<1>4. m.left # 0 /\ t.ok /\ e = Started(m) => DeviceOK(e) /\ e.pc = "tensors" /\ e.warm = m.warm /\ e.stop = m.stop /\ e.sub = 1
  <2>1. (Onward(m) = Started(m) /\ DeviceOK(Onward(m))) \/ ~(m.left # 0 /\ t.ok)
    BY <1>2, OnwardFields
  <2>2. /\ Started(m).pc = IF t.ok THEN "tensors" ELSE "failed"
        /\ Started(m).warm = m.warm /\ Started(m).stop = m.stop /\ Started(m).sub = 1
    BY StartedFields
  <2> HIDE DEF e, t, m
  <2>. QED
    BY <2>1, <2>2
<1>5. DeviceOK(e) /\ e.stop = m.stop /\ (IsDecoding(e) <=> m.left # 0 /\ t.ok /\ e = Started(m))
  <2> HIDE DEF e, t, m
  <2>. QED
    BY <1>3, <1>4 DEF IsDecoding
<1>6. /\ dev'[0] = e /\ \A q \in Ranks : q # 0 => dev'[q] = dev[q]
      /\ dev' = [q \in Ranks |-> dev'[q]]
  <2> HIDE DEF e
  <2>. QED
    BY <1>1, <1>2, OneDevice DEF InStep
<1>7. to = (IF IsDecoding(e) THEN 1 ELSE Nowhere) /\ to # at /\ to # ToOutput /\ to # AtOutput
  BY <1>1, <1>2
<1> HIDE DEF e
<1>8. Batch(v)' = Tensors(Len(log[0]), e.left, -1)
  BY <1>1, <1>6 DEF Batch, Announcing
<1>9. Embedded(e, Len(log[0])) = IF IsDecoding(e) THEN <<Batch(v)'>> ELSE <<>>
  <2>1. e.pc = "tensors" <=> IsDecoding(e)
    BY <1>3, <1>4 DEF IsDecoding
  <2>. QED
    BY <1>8, <2>1 DEF Embedded
<1>10. /\ \A q \in Ranks : ring'[q] = IF q = at THEN Tail(ring[q])
                                     ELSE IF q = to THEN Append(ring[q], Batch(v)') ELSE ring[q]
       /\ direct' = IF at = ToOutput THEN Tail(direct)
                    ELSE IF to = ToOutput THEN Append(direct, Batch(v)') ELSE direct
  <2> DEFINE b == Batch(v)'
             y == ring[1] \o Embedded(e, Len(log[0]))
  <2>1. PICK S : ring \in [Ranks -> Seq(S)] /\ b \in S
    BY TypedWithTwo DEF Typed
  <2>2. b = Batch(v)'
    OBVIOUS
  <2> HIDE DEF b
  <2>3. y = IF IsDecoding(e) THEN Append(ring[1], b) ELSE ring[1]
    <3>1. ring[1] \in Seq(S)
      BY <1>2, <2>1
    <3>2. ring[1] \o <<b>> = Append(ring[1], b) /\ ring[1] \o <<>> = ring[1]
      BY <2>1, <3>1
    <3>. QED
      BY <1>9, <2>2, <3>2
  <2> HIDE DEF y
  <2>4. ring'[1] = y /\ \A q \in Ranks : q # 1 => ring'[q] = ring[q]
    BY <1>1, <1>2, <2>1 DEF y
  <2>5. \A q \in Ranks : ring'[q] = IF q = at THEN Tail(ring[q])
                                     ELSE IF q = to THEN Append(ring[q], b) ELSE ring[q]
    BY <1>1, <1>2, <1>7, <2>3, <2>4
  <2>. QED
    BY <1>1, <1>7, <2>2, <2>5
<1>11. Queues(to, v)'
  <2> DEFINE a == Batch(u)
             b == Batch(v)'
  <2>1. PICK S : Typed(S) /\ a \in S /\ b \in S
    BY TypedWithTwo
  <2>2. b = Batch(v)' /\ a = Batch(u)
    OBVIOUS
  <2>3. Queues(at, u) /\ at \notin Others
    BY <1>1, RankTypes DEF InStep
  <2> HIDE DEF a, b
  <2>. QED
    BY <1>1, <1>7, <1>10, <2>1, <2>2, <2>3, QueuesMoved DEF b
<1>12. \A q \in Workers : u = setup.n_layer - 1 /\ Len(log[q]) = Announcing
  BY <1>1, OutputSeen DEF n_layer
<1>13. ASSUME to # Nowhere PROVE Flight(to, v)'
  <2>1. to = 1 /\ IsDecoding(e) /\ e.pc = "tensors" /\ e.sub = 1
    BY <1>4, <1>5, <1>7, <1>13
  <2>2. v \in -1 .. setup.n_layer - 1 /\ TurnEnds(setup, v) /\ OnItsWay(setup, to, v)
    BY <2>1, WayIn
  <2>3. Announcing > 0 /\ Announcing' = Announcing
    BY <1>1 DEF Flight, Announcing
  <2>4. NextGraph(Graphs(0), 1, v)
    <3> DEFINE g == setup.graphs[0]
    <3>1. Len(g) \in Nat /\ \A j \in 1 .. Len(g) : g[j].first \in LayersOf(setup)
      BY <1>2, GraphTypes DEF SetupIs, GraphsAre
    <3>2. \A j \in 1 .. Len(g) : g[j].first \in Nat
      BY <3>1 DEF LayersOf, SetupIs
    <3>. QED
      BY <3>1, <3>2 DEF NextGraph, Graphs
  <2>5. \A q \in Workers : Len(log[q]) = Announcing
    BY <1>12
  <2>6. to - 1 = 0
    BY <2>1
  <2>7. /\ UNCHANGED <<Announcing, n_layer, window, Workers>> /\ Graphs(0)' = Graphs(0)
        /\ \A q \in Workers : Len(log'[q]) = Announcing'
    BY <1>1, <2>5 DEF Announcing, n_layer, window, Workers, Graphs
  <2>. QED
    BY <1>1, <1>6, <1>7, <2>1, <2>2, <2>3, <2>4, <2>6, <2>7 DEF Flight, n_layer, Announcing
<1>14. ASSUME NEW q \in Workers
       PROVE  WorkerIs(dev[q], Graphs(q), Len(log[q]), dev[0], log[0], v, setup.warmup)'
  <2> DEFINE d == dev[q]
             k == Len(log[q])
             h == setup.graphs[q]
  <2>1. /\ q \in Others /\ setup.window[q] > 0 /\ q \in Ranks /\ q # 0
        /\ Graphs(q)' = h /\ dev'[q] = d /\ DeviceOK(d)
    BY <1>1, <1>2, <1>6, WorkersAndForwarders, RankTypes DEF Graphs, InStep
  <2>2. WorkerIs(d, h, k, m, l, u, w)
    BY DEF InStep, Graphs
  <2>3. k = Len(l) /\ Len(l) > 0 /\ Len(l) \in Nat
    BY <1>1, <1>2, <1>12, IdsAreNumbers DEF Announcing, Flight, InOrder, Typed
  <2>4. /\ Len(h) \in Nat /\ Len(h) > 0 /\ \A j \in 1 .. Len(h) : h[j].first \in Nat /\ h[j].last \in Nat
        /\ ~(u < h[Len(h)].last)
    <3>1. Len(h) \in Nat /\ 1 \in 1 .. Len(h) /\ Len(h) \in 1 .. Len(h)
          /\ \A j \in 1 .. Len(h) : h[j].first \in Nat /\ h[j].last \in Nat /\ h[j].last < setup.n_layer
      BY <2>1, GraphsOf
    <3>2. h[Len(h)].last \in Nat /\ h[Len(h)].last < setup.n_layer
      BY <3>1
    <3>3. setup.n_layer \in Nat
      BY DEF SetupIs
    <3>. QED
      BY <1>1, <3>1, <3>2, <3>3
  <2>5. ~m.stop
    BY <1>1, <1>2 DEF InStep, MasterIs, IsDecoding
  <2>6. WorkerIs(d, h, k, e, l, v, w)
    <3> HIDE DEF d, k, h, m, l, w, t
    <3>1. ~(k < Len(l)) /\ DeviceOK(m) /\ IsDecoding(m)
      BY <1>1, <1>2, <2>3 DEF m
    <3>2. CASE IsDecoding(e)
      <4>1. m.left # 0 /\ Tried(m.cache, m.left, m.pos).ok /\ e = Started(m)
        BY <1>5, <3>2 DEF t
      <4>2. WorkerIs(d, h, k, Started(m), l, -1, w)
        BY <2>1, <2>2, <2>4, <3>1, <4>1, WorkerStarts
      <4>. QED
        BY <4>1, <4>2
    <3>3. CASE ~IsDecoding(e)
      <4>1. m.left = 0 \/ ~Tried(m.cache, m.left, m.pos).ok
        BY <1>3, <1>5, <3>3 DEF t
      <4>2. e.cache = Onward(m).cache
        BY <1>3, <1>5, <3>3
      <4>3. WorkerIs(d, h, k, e, l, -1, w)
        BY <2>1, <2>2, <2>3, <2>4, <2>5, <3>1, <3>3, <4>1, <4>2, WorkerReturns
      <4>. QED
        BY <4>3
    <3>. QED
      BY <3>2, <3>3
  <2>. QED
    BY <1>1, <1>6, <2>1, <2>6
<1>15. MasterIs'
  <2>1. \A q \in Ranks : dev'[q].stop = dev[q].stop
    BY <1>5, <1>6
  <2>2. \A q \in Ranks : dev'[q].stop => dev[q].stop
    BY <2>1, Zenon
  <2>3. Announcing > 0 /\ Announcing' = Announcing /\ stop_at' = stop_at /\ setup' = setup
    BY <1>1 DEF Announcing, Flight
  <2>4. m.pc \in {"tensors", "output"}
    BY <1>1 DEF IsDecoding
  <2>5. stop_at = None /\ \A q \in Ranks : ~dev[q].stop
    BY <2>4 DEF InStep, MasterIs
  <2>6. \A q \in Ranks : ~dev'[q].stop
    BY <2>2, <2>5
  <2>7. CASE IsDecoding(e)
    <3>1. e.pc = "tensors" /\ e.warm = m.warm
      BY <1>4, <1>5, <2>7
    <3>2. dev'[0].pc = "tensors" /\ dev'[0].warm = dev[0].warm /\ IsDecoding(dev'[0])
      BY <1>6, <2>7, <3>1
    <3>3. IsDecoding(dev[0]) /\ MasterIs
      BY <1>1 DEF InStep
    <3>. QED
      BY <2>3, <2>5, <2>6, <3>2, <3>3 DEF MasterIs
  <2>8. CASE ~IsDecoding(e)
    <3>1. e.pc \in {"ready", "failed"} /\ e.warm = FALSE
      BY <1>3, <1>5, <2>8
    <3>2. dev'[0].pc \in {"ready", "failed"} /\ ~dev'[0].warm /\ ~IsDecoding(dev'[0])
      BY <1>6, <2>8, <3>1
    <3>3. Announcing' # 0
      BY <2>3
    <3>. QED
      BY <2>3, <2>5, <2>6, <3>2, <3>3 DEF MasterIs
  <2>. QED
    BY <2>7, <2>8
<1>16. /\ Workers' = Workers /\ Forwarders' = Forwarders
       /\ \A q \in Forwarders : dev'[q].pc \in {"forward", "left"}
       /\ \A q \in Ranks : DeviceOK(dev'[q])
  <2>1. Workers' = Workers /\ Forwarders' = Forwarders
    BY <1>1 DEF Workers, Forwarders, window
  <2>2. \A q \in Forwarders : q \in Ranks /\ q # 0
    BY DEF Forwarders
  <2>. QED
    BY <1>5, <1>6, <2>1, <2>2 DEF InStep
<1>17. \A j \in 1 .. Announcing' : IsAnnouncement(log'[0][j], j)
  BY <1>1 DEF InStep, Announcing
<1>18. IsDecoding(dev'[0]) <=> to # Nowhere
  BY <1>2, <1>6, <1>7
<1>. QED
  BY <1>6, <1>11, <1>13, <1>14, <1>15, <1>16, <1>17, <1>18 DEF InStep

LEMMA OutputInStep ==
  ASSUME InOrder, SetupIs(setup), NEW at, NEW u, InStep(at, u), Output
  PROVE  \E to, v : PassesOn(u, v) /\ InStep(to, v)'
<1>1. \E v, to : v = -1 /\ to = IF IsDecoding(NextUbatch(0, dev[0])) THEN 1 ELSE Nowhere
  OBVIOUS
<1>2. PICK v, to : v = -1 /\ to = IF IsDecoding(NextUbatch(0, dev[0])) THEN 1 ELSE Nowhere
  BY <1>1
<1>3. InStep(to, v)'
  BY <1>2, OutputSteps
<1>4. u = setup.n_layer - 1 /\ IsDecoding(dev[0])
  <2>1. LET e == NextUbatch(0, dev[0])
        IN  /\ at \in {ToOutput, AtOutput} /\ at \notin Ranks /\ u = setup.n_layer - 1
            /\ IsDecoding(dev[0]) /\ Flight(at, u)
            /\ direct' = IF at = ToOutput THEN Tail(direct) ELSE direct
            /\ ring' = [ring EXCEPT ![1] = ring[1] \o Embedded(e, Len(log[0]))]
            /\ dev' = [dev EXCEPT ![0] = e]
            /\ UNCHANGED <<setup, log, n_past, calls, stop_at>>
    BY OutputAt
  <2>. QED
    BY <2>1
<1>. QED
  BY <1>2, <1>3, <1>4 DEF PassesOn

LEMMA TypedWithMore ==
  ASSUME InOrder, NEW n \in Nat, NEW more, more = [k \in 1 .. n |-> more[k]], NEW x
  PROVE  \E S : Typed(S) /\ more \in Seq(S) /\ x \in S /\ Len(more) = n
<1>1. PICK S : Typed(S) /\ x \in S
  BY TypedWith
<1> DEFINE R == {more[k] : k \in 1 .. n}
           T == S \cup R
<1>2. \A s \in Seq(S) : s \in Seq(T)
  BY MoreMessages
<1>3. x \in T /\ \A k \in 1 .. n : more[k] \in T
  BY <1>1
<1> HIDE DEF T
<1>4. log \in [Ranks -> Seq(T)] /\ ring \in [Ranks -> Seq(T)]
  BY <1>1, <1>2 DEF Typed
<1>5. more \in [1 .. n -> T]
  BY <1>3
<1>6. more \in Seq(T) /\ Len(more) = n
  BY <1>5
<1>. QED
  BY <1>3, <1>4, <1>6 DEF Typed

\* The master announces something, with the first tensors behind it or without.
LEMMA QueuesAnnounced ==
  ASSUME SetupIs(setup), NEW S, Typed(S), NEW more \in Seq(S), NEW u, Queues(Nowhere, u),
         NEW v, NEW to, to \in {1, Nowhere}, NEW b, b = Batch(v)', b \in S, NEW t, t = Held(1, to, b),
         setup' = setup, direct' = direct, NEW l2, l2 = log[0] \o more, log' = [log EXCEPT ![0] = l2],
         NEW q1, q1 = ring[1] \o (more \o t), ring' = [ring EXCEPT ![1] = q1]
  PROVE  Queues(to, v)'
<1>1. /\ 0 \in Ranks /\ 1 \in Ranks /\ 1 \in Others /\ 0 \notin Others /\ \A r \in Others : r \in Ranks
      /\ ToOutput # to /\ ToOutput # Nowhere /\ 0 # to /\ 0 # Nowhere
      /\ \A r \in Others : r # Nowhere /\ (r # 1 => r - 1 # 0 /\ r - 1 \in Ranks)
  BY RankTypes DEF ToOutput, Nowhere
<1>2. /\ log'[0] = l2 /\ \A r \in Ranks : r # 0 => log'[r] = log[r]
      /\ ring'[1] = q1 /\ \A r \in Ranks : r # 1 => ring'[r] = ring[r]
  BY <1>1 DEF Typed
<1>3. Reached(setup, 1)
  BY RankTypes DEF Reached, SetupIs
<1>4. \A r \in Others : HandedTo(r)' = IF r = 1 THEN Len(l2) ELSE HandedTo(r)
  <2> SUFFICES ASSUME NEW r \in Others PROVE HandedTo(r)' = IF r = 1 THEN Len(l2) ELSE HandedTo(r)
    OBVIOUS
  <2>1. HandedTo(r)' = IF Reached(setup, r) THEN Len(log'[r - 1]) ELSE 0
    BY DEF HandedTo, Reached
  <2>2. CASE r = 1
    BY <1>2, <1>3, <2>1, <2>2
  <2>3. CASE r # 1
    BY <1>1, <1>2, <2>1, <2>3 DEF HandedTo
  <2>. QED
    BY <2>2, <2>3
<1>5. Len(log[0]) \in Nat /\ log[0] \in Seq(S) /\ Len(l2) = Len(log[0]) + Len(more) /\ Len(more) \in Nat /\ t \in Seq(S)
  <2>1. log[0] \in Seq(S) /\ t \in Seq(S)
    BY <1>1 DEF Typed, Held
  <2>2. Len(log[0]) \in Nat /\ Len(more) \in Nat
    BY <2>1
  <2>. QED
    BY <2>1, <2>2, ConcatLengths
<1>6. ASSUME NEW r \in Others
      PROVE  /\ Len(log[r]) <= HandedTo(r)' /\ StartOf(log[r], l2)
             /\ QueueIs(ring'[r], l2, Len(log[r]), HandedTo(r)', Held(r, to, b))
  <2>1. /\ QueueIs(ring[r], log[0], Len(log[r]), HandedTo(r), Held(r, Nowhere, Batch(u)))
        /\ StartOf(log[r], log[0]) /\ Len(log[r]) <= HandedTo(r) /\ HandedTo(r) <= Len(log[0])
        /\ Len(log[r]) \in Nat /\ HandedTo(r) \in Nat
        /\ log[r] \in Seq(S) /\ ring[r] \in Seq(S)
    BY QueueBounds DEF Queues
  <2>2. QueueIs(ring[r], log[0], Len(log[r]), HandedTo(r), <<>>)
    BY <1>1, <2>1 DEF Held
  <2>3. StartOf(log[r], l2)
    BY <1>5, <2>1, StartSame
  <2>4. CASE r = 1
    <3>1. HandedTo(r) = Len(log[0]) /\ HandedTo(r)' = Len(l2)
      BY <1>3, <1>4, <2>4 DEF HandedTo
    <3>2. Len(log[r]) <= Len(log[0]) /\ QueueIs(ring[r], log[0], Len(log[r]), Len(log[0]), <<>>)
      BY <2>1, <2>2, <3>1
    <3>3. QueueIs(ring[r] \o (more \o t), l2, Len(log[r]), Len(log[0]) + Len(more), t)
      BY <1>5, <2>1, <3>2, QueueMore
    <3>4. ring'[r] = ring[r] \o (more \o t) /\ Held(r, to, b) = t
      BY <1>2, <2>4
    <3>5. Len(log[r]) <= Len(l2)
      BY <1>5, <2>1, <3>2
    <3>. QED
      BY <1>5, <2>3, <3>1, <3>3, <3>4, <3>5
  <2>5. CASE r # 1
    <3>1. HandedTo(r)' = HandedTo(r) /\ ring'[r] = ring[r] /\ r # to
      BY <1>1, <1>2, <1>4, <2>5
    <3>2. Held(r, to, b) = <<>>
      BY <3>1 DEF Held
    <3>3. QueueIs(ring[r], l2, Len(log[r]), HandedTo(r), <<>>)
      BY <1>5, <2>1, <2>2, QueueSame
    <3>. QED
      BY <2>1, <2>3, <3>1, <3>2, <3>3
  <2>. QED
    BY <2>4, <2>5
<1>7. ring'[0] = Held(0, to, b) /\ direct' = Held(ToOutput, to, b)
  BY <1>1, <1>2 DEF Queues, Held
<1>8. \A r \in Others : log'[r] = log[r]
  BY <1>1, <1>2
<1>. QED
  BY <1>2, <1>6, <1>7, <1>8 DEF Queues

\* What the call adds to the master's log.
AllAnnounced(more, l, cs, n) == \A k \in 1 .. n : more[k] = Announced(Len(l) + k, cs[k])
LogAdds(l2, l, cs, n)        == \A j \in 1 .. n : l2[Len(l) + j] = Announced(Len(l) + j, cs[j])

LEMMA CallLog ==
  ASSUME NEW S, NEW l \in Seq(S), NEW more \in Seq(S), NEW cs, AllAnnounced(more, l, cs, Len(more))
  PROVE  /\ Len(l \o more) = Len(l) + Len(more)
         /\ Extends(l \o more, l, cs, Len(more)) /\ LogAdds(l \o more, l, cs, Len(more))
<1> DEFINE n == Len(more)
           l2 == l \o more
<1>1. /\ Len(l2) = Len(l) + n
      /\ \A i \in 1 .. Len(l) : l2[i] = l[i]
      /\ \A i \in 1 .. n : l2[Len(l) + i] = more[i]
  BY ConcatLengths
<1> HIDE DEF n, l2
<1>2. \A i \in 1 .. n : l2[Len(l) + i] = Announced(Len(l) + i, cs[i])
  BY <1>1 DEF AllAnnounced, n
<1>3. \A id, c : Announced(id, c).c = c
  BY DEF Announced
<1>4. \A j \in 1 .. n : l2[Len(l) + j].c = cs[j]
  BY <1>2, <1>3
<1>5. Len(l) \in Nat
  OBVIOUS
<1>. QED
  BY <1>1, <1>2, <1>4, <1>5 DEF Extends, LogAdds, n, l2

\* A call of the master, with changes of the cache before its batch or without.
LEMMA CallMoves ==
  ASSUME InOrder, SetupIs(setup), NEW at, NEW u, InStep(at, u),
         NEW cs, IsCall(cs), DOMAIN cs = 1 .. Len(cs), Call(cs), stop_at' = stop_at,
         dev[0].warm => Announcing = 0 /\ Len(cs) = 1 /\ Tried(dev[0].cache, cs[1].n, cs[1].p0).ok,
         NEW v, v = -1,
         NEW to, to = IF IsDecoding(NextUbatch(0, TookAll(dev[0], cs))) THEN 1 ELSE Nowhere
  PROVE  InStep(to, v)'
<1> DEFINE m == dev[0]
           n == Len(cs)
           f == TookSteps(m, cs)
           a == TookAll(m, cs)
           t == Tried(a.cache, cs[n].n, cs[n].p0)
           e == NextUbatch(0, a)
           l == log[0]
           more == [k \in 1 .. n |-> Announced(Len(l) + k, cs[k])]
           l2 == l \o more
           w == setup.warmup
<1>1. /\ m.pc = "ready" /\ ~IsDecoding(m) /\ at = Nowhere /\ DeviceOK(m) /\ 0 \in Ranks /\ 0 \notin Others
      /\ Queues(Nowhere, u) /\ MasterIs
  <2>1. m.pc = "ready"
    BY DEF Call
  <2>2. 0 \in Ranks /\ 0 \notin Others
    BY RankTypes
  <2>3. ~IsDecoding(m)
    BY <2>1 DEF IsDecoding
  <2>. QED
    BY <2>1, <2>2, <2>3 DEF InStep
<1>2. /\ n \in Nat /\ n > 0 /\ cs[n].n \in Nat \ {0} /\ DOMAIN cs = 1 .. n
      /\ \A j \in 1 .. n : cs[j].op = "meta" <=> j = n
      /\ f[0] = m /\ a.cache = f[n - 1].cache
      /\ CachesOf(f, cs)
      /\ DeviceOK(e) /\ e.stop = m.stop
      /\ t.ok => /\ e.pc = "tensors" /\ e.warm = m.warm /\ e.sub = 1 /\ e.cache = t.cache
                 /\ e.left = cs[n].n - UbatchSize(cs[n].n) /\ e.pos = cs[n].p0 + UbatchSize(cs[n].n)
      /\ ~t.ok => /\ e.pc \in {"ready", "failed"} /\ e.warm = FALSE /\ e.left = 0
                  /\ e.cache = BackCache(m.warm, t.cache)
  <2>1. n = Len(cs) /\ f = TookSteps(m, cs) /\ a = TookAll(m, cs) /\ t = Tried(a.cache, cs[n].n, cs[n].p0)
        /\ e = NextUbatch(0, a) /\ DOMAIN cs = 1 .. n
    OBVIOUS
  <2>2. DeviceOK(m) /\ IsCall(cs)
    BY <1>1
  <2> HIDE DEF m, n, f, a, t, e
  <2>3. CallGives(m, cs, n, f, a, t, e)
    BY <2>1, <2>2, CallIs
  <2>4. DOMAIN cs = 1 .. n
    BY <2>1
  <2>. QED
    BY <2>3, <2>4 DEF CallGives
<1>3. /\ dev' = [dev EXCEPT ![0] = e] /\ log' = [log EXCEPT ![0] = l2]
      /\ ring' = [ring EXCEPT ![1] = ring[1] \o (more \o Embedded(e, Len(l) + n))]
      /\ UNCHANGED <<setup, direct, stop_at>>
  <2>1. /\ dev' = [dev EXCEPT ![0] = e]
        /\ log' = [log EXCEPT ![0] = @ \o [k \in DOMAIN cs |-> Announced(Len(@) + k, cs[k])]]
        /\ ring' = [ring EXCEPT ![1] = @ \o (Announcements(Len(l), cs) \o Embedded(e, Len(l) + n))]
        /\ UNCHANGED <<setup, direct, stop_at>>
    BY DEF Call
  <2>2. Announcements(Len(l), cs) = more
    BY <1>2 DEF Announcements
  <2>3. log' = [log EXCEPT ![0] = l2]
    BY <1>2, <2>1
  <2> HIDE DEF e, l2, more
  <2>. QED
    BY <2>1, <2>2, <2>3
<1>4. m.warm => t.ok /\ n = 1 /\ Announcing = 0
  <2>1. n = 1 => a.cache = m.cache
    BY <1>2
  <2> HIDE DEF a
  <2>. QED
    BY <2>1
<1>5. (IsDecoding(e) <=> t.ok) /\ (t.ok <=> e.pc = "tensors") /\ e.cache = t.cache
      /\ to = (IF IsDecoding(e) THEN 1 ELSE Nowhere)
  <2>1. to = (IF IsDecoding(e) THEN 1 ELSE Nowhere)
    OBVIOUS
  <2>2. ~t.ok => ~m.warm
    BY <1>4
  <2>3. ~m.warm => BackCache(m.warm, t.cache) = t.cache
    BY DEF BackCache
  <2> HIDE DEF e, t, m
  <2>. QED
    BY <1>2, <2>1, <2>2, <2>3 DEF IsDecoding
<1>6. CallEnds(m, cs, n, f, t, e)
  <2>1. t = Tried(f[n - 1].cache, cs[n].n, cs[n].p0) /\ n = Len(cs)
    BY <1>2
  <2> HIDE DEF e, t, m, f, n, a
  <2>. QED
    BY <1>2, <1>5, <2>1 DEF CallEnds
<1> HIDE DEF e, t, f, a
<1>7. /\ dev'[0] = e /\ \A q \in Ranks : q # 0 => dev'[q] = dev[q]
      /\ dev' = [q \in Ranks |-> dev'[q]]
  BY <1>1, <1>3, OneDevice DEF InStep
<1>8. Len(l) \in Nat /\ Announcing = Len(l)
  <2>1. PICK S : log \in [Ranks -> Seq(S)]
    BY DEF InOrder, Typed
  <2>. QED
    BY <1>1, <2>1 DEF Announcing
<1>9. more = [k \in 1 .. n |-> more[k]] /\ \A k \in 1 .. n : more[k] = Announced(Len(l) + k, cs[k])
  OBVIOUS
<1>10. log'[0] = l2 /\ Len(l2) = Len(l) + n /\ Extends(l2, l, cs, n)
       /\ \A j \in 1 .. n : l2[Len(l) + j] = Announced(Len(l) + j, cs[j])
  <2> HIDE DEF more, l, n
  <2>1. PICK S : Typed(S) /\ more \in Seq(S) /\ Len(more) = n
    BY <1>2, <1>9, TypedWithMore
  <2>2. l \in Seq(S) /\ log'[0] = l2
    BY <1>1, <1>3, <2>1 DEF Typed, l
  <2>3. AllAnnounced(more, l, cs, Len(more))
    BY <1>9, <2>1 DEF AllAnnounced
  <2>4. /\ Len(l \o more) = Len(l) + Len(more)
        /\ Extends(l \o more, l, cs, Len(more)) /\ LogAdds(l \o more, l, cs, Len(more))
    BY <2>1, <2>2, <2>3, CallLog
  <2>5. Len(l2) = Len(l) + n /\ Extends(l2, l, cs, n) /\ LogAdds(l2, l, cs, n)
    BY <2>1, <2>4
  <2> HIDE DEF l2
  <2>. QED
    BY <2>2, <2>5 DEF LogAdds
<1> HIDE DEF more, l2
<1>11. Batch(v)' = Tensors(Len(l) + n, e.left, -1) /\ Announcing' = Len(l) + n
  BY <1>7, <1>10 DEF Batch, Announcing
<1>12. Embedded(e, Len(l) + n) = Held(1, to, Batch(v)')
  BY <1>5, <1>11, RankTypes DEF Embedded, Held, Nowhere
<1>13. Queues(to, v)'
  <2> DEFINE b == Batch(v)'
             tt == Held(1, to, b)
             q1 == ring[1] \o (more \o tt)
  <2>1. PICK S : Typed(S) /\ more \in Seq(S) /\ b \in S
    <3> HIDE DEF n, b, l
    <3>. QED
      BY <1>2, <1>9, TypedWithMore
  <2>2. /\ b = Batch(v)' /\ tt = Held(1, to, b) /\ l2 = log[0] \o more /\ q1 = ring[1] \o (more \o tt)
        /\ log' = [log EXCEPT ![0] = l2] /\ ring' = [ring EXCEPT ![1] = q1] /\ setup' = setup /\ direct' = direct
    BY <1>3, <1>12 DEF l2
  <2>3. to \in {1, Nowhere}
    BY <1>5
  <2> HIDE DEF b, tt, q1
  <2>. QED
    BY <1>1, <2>1, <2>2, <2>3, QueuesAnnounced DEF b
<1>14. Workers' = Workers /\ Forwarders' = Forwarders
  BY <1>3 DEF Workers, Forwarders, window
<1>15. ASSUME NEW q \in Workers
       PROVE  /\ q \in Others /\ q \in Ranks /\ setup.window[q] > 0 /\ q # 0
              /\ log'[q] = log[q] /\ dev'[q] = dev[q] /\ Len(log[q]) \in Nat /\ Len(log[q]) <= Len(l)
              /\ Graphs(q)' = setup.graphs[q]
  <2>1. q \in Others /\ q \in Ranks /\ setup.window[q] > 0 /\ q # 0
    BY WorkersAndForwarders, RankTypes
  <2>2. PICK S : Typed(S)
    BY DEF InOrder
  <2>3. Len(log[q]) \in Nat /\ Len(log[q]) <= Len(l)
    <3>1. /\ Len(log[q]) <= HandedTo(q) /\ HandedTo(q) <= Len(log[0])
          /\ Len(log[q]) \in Nat /\ HandedTo(q) \in Nat /\ Len(log[0]) \in Nat
      BY <1>1, <2>1, <2>2, QueueBounds
    <3>. QED
      BY <3>1
  <2>. QED
    BY <1>3, <1>7, <2>1, <2>2, <2>3 DEF Typed, Graphs
<1>16. ASSUME to # Nowhere PROVE Flight(to, v)'
  <2>1. to = 1 /\ e.pc = "tensors" /\ e.sub = 1
    BY <1>2, <1>5, <1>16
  <2>2. v \in -1 .. setup.n_layer - 1 /\ TurnEnds(setup, v) /\ OnItsWay(setup, to, v)
    BY <2>1, WayIn
  <2>3. Announcing' > 0
    <3> HIDE DEF n, l
    <3>. QED
      BY <1>2, <1>8, <1>11
  <2>4. NextGraph(Graphs(0), 1, v)
    <3> DEFINE g == setup.graphs[0]
    <3>1. Len(g) \in Nat /\ \A j \in 1 .. Len(g) : g[j].first \in LayersOf(setup)
      BY <1>1, GraphTypes DEF SetupIs, GraphsAre
    <3>2. \A j \in 1 .. Len(g) : g[j].first \in Nat
      BY <3>1 DEF LayersOf, SetupIs
    <3>. QED
      BY <3>1, <3>2 DEF NextGraph, Graphs
  <2>5. \A q \in Workers : v < Graphs(q)[1].first
    <3> SUFFICES ASSUME NEW q \in Workers PROVE v < Graphs(q)[1].first
      OBVIOUS
    <3>1. 1 \in 1 .. Len(setup.graphs[q]) /\ \A j \in 1 .. Len(setup.graphs[q]) : setup.graphs[q][j].first \in Nat
      BY <1>15, GraphsOf
    <3>2. setup.graphs[q][1].first \in Nat
      BY <3>1
    <3>. QED
      BY <3>2 DEF Graphs
  <2>6. to - 1 = 0 /\ to # AtOutput
    <3>1. AtOutput # 1
      BY RankTypes DEF AtOutput
    <3>. QED
      BY <2>1, <3>1
  <2>7. /\ UNCHANGED <<n_layer, window, Workers, setup>> /\ \A q : Graphs(q)' = Graphs(q)
    BY <1>3, <1>14 DEF n_layer, window, Graphs
  <2>8. dev'[0].pc # "output" /\ dev'[0].sub = 1 /\ Len(log'[0]) = Announcing'
    BY <1>7, <2>1 DEF Announcing
  <2>. QED
    BY <2>1, <2>2, <2>3, <2>4, <2>5, <2>6, <2>7, <2>8 DEF Flight, n_layer
<1>17. ASSUME NEW q \in Workers
       PROVE  WorkerIs(dev[q], Graphs(q), Len(log[q]), dev[0], log[0], v, setup.warmup)'
  <2> DEFINE d == dev[q]
             k == Len(log[q])
             h == setup.graphs[q]
  <2>1. Waiting(d, k, m, l, w)
    BY <1>1 DEF InStep, WorkerIs
  <2>2. d.warm => IsDecoding(e) /\ Len(l) + n = 1
    <3>1. d.warm => setup.warmup /\ DoneIn(m, l) = 0
      BY <2>1 DEF Waiting
    <3>2. DoneIn(m, l) = Announcing
      BY <1>1, <1>8 DEF DoneIn
    <3>3. d.warm => m.warm
      BY <1>1, <3>1, <3>2 DEF MasterIs
    <3>. QED
      BY <1>4, <1>5, <1>8, <3>3
  <2>3. Waiting(d, k, e, l2, w)
    <3>1. k \in Nat /\ k <= Len(l)
      BY <1>15
    <3>2. Extends(l2, l, cs, n) /\ n \in Nat /\ n > 0 /\ ~IsDecoding(m)
      BY <1>1, <1>2, <1>10
    <3> HIDE DEF d, k, m, l, n, w
    <3>. QED
      BY <1>6, <2>1, <2>2, <3>1, <3>2, WorkerCalled
  <2>4. k < Len(l2)
    <3>1. k \in Nat /\ k <= Len(l)
      BY <1>15
    <3> HIDE DEF k, n, l
    <3>. QED
      BY <1>2, <1>8, <1>10, <3>1
  <2>5. WorkerIs(d, h, k, e, l2, v, w)
    BY <2>3, <2>4 DEF WorkerIs
  <2>. QED
    BY <1>3, <1>7, <1>10, <1>15, <2>5
<1>18. MasterIs'
  <2>1. \A q \in Ranks : dev'[q].stop = dev[q].stop
    BY <1>2, <1>7
  <2>2. \A q \in Ranks : dev'[q].stop => dev[q].stop
    BY <2>1, Zenon
  <2>3. stop_at = None /\ stop_at' = None /\ setup' = setup /\ \A q \in Ranks : ~dev[q].stop
    BY <1>1, <1>3 DEF MasterIs
  <2>4. \A q \in Ranks : ~dev'[q].stop
    BY <2>2, <2>3
  <2>5. Announcing' # 0 /\ (Announcing' = 1 => Announcing = 0)
    <3> HIDE DEF n, l
    <3>. QED
      BY <1>2, <1>8, <1>11
  <2>6. CASE t.ok
    <3>1. dev'[0].pc = "tensors" /\ dev'[0].warm = dev[0].warm /\ IsDecoding(dev'[0])
      BY <1>2, <1>5, <1>7, <2>6
    <3>2. dev[0].warm <=> setup.warmup /\ Announcing = 0
      BY <1>1 DEF MasterIs
    <3>3. dev[0].warm => Announcing' = 1
      <4> HIDE DEF n, l
      <4>. QED
        BY <1>4, <1>8, <1>11 DEF m
    <3>. QED
      BY <2>3, <2>4, <2>5, <3>1, <3>2, <3>3 DEF MasterIs
  <2>7. CASE ~t.ok
    <3>1. dev'[0].pc \in {"ready", "failed"} /\ ~dev'[0].warm /\ ~IsDecoding(dev'[0])
      BY <1>2, <1>5, <1>7, <2>7
    <3>. QED
      BY <2>3, <2>4, <2>5, <3>1 DEF MasterIs
  <2>. QED
    BY <2>6, <2>7
<1>19. /\ \A q \in Forwarders : dev'[q].pc \in {"forward", "left"}
       /\ \A q \in Ranks : DeviceOK(dev'[q])
  <2>1. \A q \in Forwarders : q \in Ranks /\ q # 0
    BY DEF Forwarders
  <2>. QED
    BY <1>2, <1>7, <2>1 DEF InStep
<1>20. \A j \in 1 .. Announcing' : IsAnnouncement(log'[0][j], j)
  <2> SUFFICES ASSUME NEW j \in 1 .. Announcing' PROVE IsAnnouncement(log'[0][j], j)
    OBVIOUS
  <2>1. CASE j <= Len(l)
    <3>1. l2[j] = l[j] /\ j \in 1 .. Announcing
      BY <1>8, <1>10, <1>11, <2>1 DEF Extends
    <3>2. IsAnnouncement(log[0][j], j)
      BY <3>1 DEF InStep
    <3>. QED
      BY <1>10, <3>1, <3>2
  <2>2. CASE j > Len(l)
    <3>1. PICK i \in 1 .. n : j = Len(l) + i
      <4>1. j - Len(l) \in 1 .. n /\ j = Len(l) + (j - Len(l))
        <5> HIDE DEF n, l
        <5>. QED
          BY <1>2, <1>8, <1>11, <2>2
      <4>. QED
        BY <4>1
    <3>2. log'[0][j] = Announced(j, cs[i])
      BY <1>10, <3>1
    <3>3. cs[i].op = "meta" => cs[i].n \in Nat \ {0}
      BY <1>2
    <3>. QED
      BY <3>2, <3>3 DEF Announced, IsAnnouncement
  <2>. QED
    BY <1>8, <1>11, <2>1, <2>2
<1>21. IsDecoding(dev'[0]) <=> to # Nowhere
  BY <1>5, <1>7 DEF Nowhere
<1>. QED
  BY <1>7, <1>13, <1>14, <1>16, <1>17, <1>18, <1>19, <1>20, <1>21 DEF InStep

\* The warm-up finds its cells.
LEMMA WarmUpFits ==
  Tried(EmptyCache, 2, 0).ok
<1> DEFINE n == UbatchSize(2)
           batch == Tokens0(2, 0)
           r == [EmptyCache EXCEPT !.head = IF @ > EmptyCache.used + 2 * Len(batch) THEN 0 ELSE @]
           f == FindSlot(r, Len(batch))
<1>1. n \in Nat \ {0} /\ n <= 2
  BY RingAssumption DEF UbatchSize
<1>2. batch = [k \in 1 .. n |-> [tok |-> 0, pos |-> 0 + k - 1, seq |-> 0]]
  BY DEF Tokens0
<1>3. Len(batch) = n
  <2> HIDE DEF n
  <2>. QED
    BY <1>1, <1>2
<1> HIDE DEF batch
<1>5. EmptyCache.head = 0 /\ \A i \in CellIds : EmptyCache.cells[i].pos = -1
  BY DEF EmptyCache, Free
<1>4. r = EmptyCache
  <2> DEFINE h == IF EmptyCache.head > EmptyCache.used + 2 * Len(batch) THEN 0 ELSE EmptyCache.head
             e == EmptyCache
  <2>1. h = 0
    BY <1>5
  <2>2. r = WithHead(e, h)
    BY Zenon DEF WithHead
  <2>3. e \in Caches(Cell)
    BY EmptyIsSound, SoundFields
  <2>4. e.head = 0
    BY <1>5
  <2> HIDE DEF h, r, e
  <2>5. WithHead(e, 0) = CacheOf(e.cells, 0, e.used, e.has_shift, e.do_defrag)
    BY <2>3, HeadForm
  <2>6. e = CacheOf(e.cells, e.head, e.used, e.has_shift, e.do_defrag)
    BY <2>3, CacheFields
  <2>7. r = e
    BY <2>1, <2>2, <2>4, <2>5, <2>6
  <2>. QED
    BY <2>7 DEF e
<1>6. Right(EmptyCache, n, FindSlot(EmptyCache, n))
  <2>1. EmptyCache.head \in 0 .. Size
    BY <1>5, SizeAssumption
  <2> HIDE DEF n
  <2>. QED
    BY <1>1, <2>1, FindSlotRight
<1>7. FreeRun(EmptyCache, n, 0)
  <2>1. \A i \in 0 .. n - 1 : i \in CellIds
    BY <1>1, RingAssumption, SizeAssumption DEF CellIds
  <2>2. 0 \in CellIds /\ n <= Size
    BY <1>1, RingAssumption, SizeAssumption DEF CellIds
  <2> HIDE DEF n
  <2>. QED
    BY <1>1, <1>5, <2>1, <2>2 DEF FreeRun
<1>8. FindSlot(EmptyCache, n).ok
  <2>1. 0 \in CellIds
    BY SizeAssumption DEF CellIds
  <2> HIDE DEF n
  <2>. QED
    BY <1>6, <1>7, <2>1 DEF Right
<1>9. Update(EmptyCache, 0) = EmptyCache
  <2>1. EmptyCache.has_shift = FALSE /\ EmptyCache.do_defrag = FALSE
    BY DEF EmptyCache
  <2>. QED
    BY <2>1 DEF Update
<1>10. Store(EmptyCache, batch).ok = f.ok
  BY DEF Store
<1>. QED
  BY <1>3, <1>4, <1>8, <1>9, <1>10 DEF Tried, batch

LEMMA WarmUpInStep ==
  ASSUME InOrder, SetupIs(setup), NEW at, NEW u, InStep(at, u), WarmUp
  PROVE  \E to, v : PassesOn(u, v) /\ InStep(to, v)'
<1> DEFINE cs == <<Meta(2, 0)>>
<1>1. Call(cs) /\ dev[0].warm /\ stop_at' = stop_at
  BY DEF WarmUp, Call
<1>2. Len(cs) = 1 /\ cs[1] = Meta(2, 0) /\ DOMAIN cs = 1 .. 1
  OBVIOUS
<1>3. Meta(2, 0).op = "meta" /\ Meta(2, 0).n = 2 /\ Meta(2, 0).p0 = 0
  BY DEF Meta
<1> HIDE DEF cs
<1>4. IsCall(cs)
  BY <1>2, <1>3 DEF IsCall
<1>5. dev[0].pc = "ready" /\ MasterIs
  BY <1>1 DEF Call, InStep
<1>6. ~IsDecoding(dev[0])
  BY <1>5 DEF IsDecoding
<1>7. dev[0].cache = EmptyCache /\ Announcing = 0
  BY <1>1, <1>5, <1>6 DEF MasterIs
<1>8. Tried(dev[0].cache, cs[1].n, cs[1].p0).ok
  BY <1>2, <1>3, <1>7, WarmUpFits
<1>9. \E v, to : v = -1 /\ to = IF IsDecoding(NextUbatch(0, TookAll(dev[0], cs))) THEN 1 ELSE Nowhere
  OBVIOUS
<1>10. PICK v, to : v = -1 /\ to = IF IsDecoding(NextUbatch(0, TookAll(dev[0], cs))) THEN 1 ELSE Nowhere
  BY <1>9
<1>11. InStep(to, v)'
  BY <1>1, <1>2, <1>4, <1>7, <1>8, <1>10, CallMoves
<1>. QED
  BY <1>6, <1>10, <1>11 DEF PassesOn

\* The calls of the drivers.
LEMMA DriverInStep ==
  ASSUME InOrder, SetupIs(setup), NEW at, NEW u, InStep(at, u), ~dev[0].warm,
         NEW cs, IsCall(cs), DOMAIN cs = 1 .. Len(cs), Call(cs)
  PROVE  \E to, v : PassesOn(u, v) /\ InStep(to, v)'
<1>1. stop_at' = stop_at
  BY DEF Call
<1>2. \E v, to : v = -1 /\ to = IF IsDecoding(NextUbatch(0, TookAll(dev[0], cs))) THEN 1 ELSE Nowhere
  OBVIOUS
<1>3. PICK v, to : v = -1 /\ to = IF IsDecoding(NextUbatch(0, TookAll(dev[0], cs))) THEN 1 ELSE Nowhere
  BY <1>2
<1>4. InStep(to, v)'
  BY <1>1, <1>3, CallMoves
<1>5. ~IsDecoding(dev[0])
  BY DEF Call, IsDecoding
<1>. QED
  BY <1>3, <1>4, <1>5 DEF PassesOn

\* Changes of the cache, none of which is a batch, and a batch behind them are a call.
LEMMA CallForm ==
  ASSUME NEW C, \A c \in C : c.op # "meta", NEW before \in Seq(C),
         NEW n \in Nat \ {0}, NEW p, NEW cs, cs = before \o <<Meta(n, p)>>
  PROVE  IsCall(cs) /\ DOMAIN cs = 1 .. Len(cs)
<1> DEFINE m == Meta(n, p)
           D == C \cup {m}
           t == <<m>>
<1>1. before \in Seq(D) /\ t \in Seq(D) /\ Len(t) = 1 /\ t[1] = m
  <2>1. before \in Seq(D)
    BY MoreMessages
  <2> HIDE DEF m
  <2>. QED
    BY <2>1
<1>2. m.op = "meta" /\ m.n = n
  BY DEF Meta
<1> HIDE DEF D, m, t
<1>3. /\ Len(before \o t) = Len(before) + Len(t)
      /\ \A i \in 1 .. Len(before) : (before \o t)[i] = before[i]
      /\ \A i \in 1 .. Len(t) : (before \o t)[Len(before) + i] = t[i]
      /\ before \o t \in Seq(D)
  <2>1. before \in Seq(D) /\ t \in Seq(D)
    BY <1>1
  <2>2. /\ Len(before \o t) = Len(before) + Len(t)
        /\ \A i \in 1 .. Len(before) : (before \o t)[i] = before[i]
        /\ \A i \in 1 .. Len(t) : (before \o t)[Len(before) + i] = t[i]
    BY <2>1, ConcatLengths
  <2>3. before \o t \in Seq(D)
    BY <2>1, ConcatFacts
  <2>. QED
    BY <2>2, <2>3
<1>4. cs = before \o t
  BY DEF t, m
<1>5. Len(before) \in Nat /\ Len(cs) = Len(before) + 1 /\ cs[Len(cs)] = m
  BY <1>1, <1>3, <1>4
<1>6. \A i \in 1 .. Len(before) : cs[i].op # "meta"
  <2>1. \A i \in 1 .. Len(before) : before[i] \in C
    OBVIOUS
  <2>. QED
    BY <1>3, <1>4, <2>1
<1>7. cs \in Seq(D)
  BY <1>3, <1>4
<1>8. DOMAIN cs = 1 .. Len(cs)
  BY <1>7
<1>9. \A k \in 1 .. Len(cs) : cs[k].op = "meta" <=> k = Len(cs)
  <2> SUFFICES ASSUME NEW k \in 1 .. Len(cs) PROVE cs[k].op = "meta" <=> k = Len(cs)
    OBVIOUS
  <2>1. k = Len(cs) \/ k \in 1 .. Len(before)
    BY <1>5
  <2>2. k \in 1 .. Len(before) => k # Len(cs)
    BY <1>5
  <2>. QED
    BY <1>2, <1>5, <1>6, <2>1, <2>2
<1>. QED
  BY <1>2, <1>5, <1>8, <1>9 DEF IsCall

LEMMA EvaluateInStep ==
  ASSUME InOrder, SetupIs(setup), NEW at, NEW u, InStep(at, u), NEW n \in 1 .. MaxInput, Evaluate(n)
  PROVE  \E to, v : PassesOn(u, v) /\ InStep(to, v)'
<1> DEFINE d == (n_past - NKeep) \div 2
           before == IF n_past + n >= Size THEN ContextShift(d) ELSE <<>>
           a == Rm(0, NKeep, NKeep + d)
           b == Add(0, NKeep + d, n_past, -d)
<1>1. ~dev[0].warm /\ \E p : Call(before \o <<Meta(n, p)>>)
  BY DEF Evaluate
<1>2. n \in Nat \ {0}
  BY RingAssumption
<1>3. a.op # "meta" /\ b.op # "meta" /\ ContextShift(d) = <<a, b>>
  BY DEF Rm, Add, ContextShift
<1> HIDE DEF a, b
<1>4. before \in Seq({a, b}) /\ \A x \in {a, b} : x.op # "meta"
  <2>1. <<a, b>> \in Seq({a, b}) /\ <<>> \in Seq({a, b})
    OBVIOUS
  <2>. QED
    BY <1>3, <2>1
<1> HIDE DEF before
<1>5. PICK p : Call(before \o <<Meta(n, p)>>)
  BY <1>1
<1> DEFINE cs == before \o <<Meta(n, p)>>
<1>6. cs = before \o <<Meta(n, p)>>
  OBVIOUS
<1> HIDE DEF cs
<1>7. IsCall(cs) /\ DOMAIN cs = 1 .. Len(cs)
  BY <1>2, <1>4, <1>6, CallForm
<1>. QED
  BY <1>1, <1>5, <1>6, <1>7, DriverInStep

LEMMA DraftInStep ==
  ASSUME InOrder, SetupIs(setup), NEW at, NEW u, InStep(at, u),
         NEW n \in 1 .. MaxInput, NEW k \in 0 .. n_past, Draft(n, k)
  PROVE  \E to, v : PassesOn(u, v) /\ InStep(to, v)'
<1> DEFINE before == IF calls < 2 THEN <<>> ELSE Rejected(k) \o <<Keep(0)>>
           a == Rm(0, k, -1)
           b == Keep(0)
           c == Cp(0, 0, -1, -1)
<1>1. ~dev[0].warm /\ Call(before \o <<Meta(n, k)>>)
  BY DEF Draft
<1>2. n \in Nat \ {0}
  BY RingAssumption
<1>3. a.op # "meta" /\ b.op # "meta" /\ c.op # "meta" /\ Rejected(k) = <<a, b, c, b>>
  BY DEF Rm, Keep, Cp, Rejected
<1>4. Keep(0) = b
  OBVIOUS
<1> HIDE DEF a, b, c
<1>5. before \in Seq({a, b, c}) /\ \A x \in {a, b, c} : x.op # "meta"
  <2>1. <<a, b, c, b>> \in Seq({a, b, c}) /\ <<b>> \in Seq({a, b, c}) /\ <<>> \in Seq({a, b, c})
    OBVIOUS
  <2>2. Rejected(k) \o <<Keep(0)>> \in Seq({a, b, c})
    BY <1>3, <1>4, <2>1, ConcatFacts
  <2>. QED
    BY <1>3, <2>1, <2>2
<1> HIDE DEF before
<1> DEFINE cs == before \o <<Meta(n, k)>>
<1>6. cs = before \o <<Meta(n, k)>>
  OBVIOUS
<1> HIDE DEF cs
<1>7. IsCall(cs) /\ DOMAIN cs = 1 .. Len(cs)
  BY <1>2, <1>5, <1>6, CallForm
<1>. QED
  BY <1>1, <1>6, <1>7, DriverInStep

-----------------------------------------------------------------------------
(* The turns and the sub-graphs of a set-up                                *)

LEMMA ModRange ==
  ASSUME NEW N \in Nat \ {0}, NEW k \in Nat
  PROVE  k % N \in 0 .. N - 1 /\ k \div N \in Nat /\ k = N * (k \div N) + (k % N)
OBVIOUS

LEMMA ModOf ==
  ASSUME NEW N \in Nat \ {0}, NEW k \in Nat, NEW r \in 0 .. N - 1
  PROVE  (N * k + r) % N = r
OBVIOUS

LEMMA ModSmall ==
  ASSUME NEW N \in Nat \ {0}, NEW k \in 0 .. N - 1
  PROVE  k % N = k
OBVIOUS

LEMMA TimesNext ==
  ASSUME NEW N \in Nat \ {0}, NEW k \in Nat
  PROVE  N * (k + 1) = N * k + N /\ N * k \in Nat
OBVIOUS

LEMMA ModPlus ==
  ASSUME NEW N \in Nat \ {0}, NEW k \in Nat, NEW i \in 0 .. N
  PROVE  (k + i) % N = IF (k % N) + i < N THEN (k % N) + i ELSE (k % N) + i - N
<1> DEFINE q == k \div N
           r == k % N
<1>1. q \in Nat /\ r \in 0 .. N - 1 /\ k = N * q + r
  BY ModRange
<1> HIDE DEF q, r
<1>2. CASE r + i < N
  <2>1. k + i = N * q + (r + i) /\ r + i \in 0 .. N - 1
    BY <1>1, <1>2, TimesNext
  <2>2. (N * q + (r + i)) % N = r + i
    BY <1>1, <2>1, ModOf
  <2> QED
    BY <1>2, <2>1, <2>2 DEF r
<1>3. CASE ~(r + i < N)
  <2>1. k + i = N * (q + 1) + (r + i - N) /\ r + i - N \in 0 .. N - 1 /\ q + 1 \in Nat
    BY <1>1, <1>3, TimesNext
  <2>2. (N * (q + 1) + (r + i - N)) % N = r + i - N
    BY <1>1, <2>1, ModOf
  <2> QED
    BY <1>3, <2>1, <2>2 DEF r
<1> QED
  BY <1>2, <1>3

\* f starts with a, and every step of it is one of G.
Follows(V, a, G, f) ==
  f \in [Nat -> V] /\ f[0] = a /\ \A k \in Nat : f[k + 1] = G[<<k, f[k]>>]

LEMMA Recursion ==
  ASSUME NEW V, NEW a, a \in V, NEW G, G \in [Nat \X V -> V]
  PROVE  \E f : Follows(V, a, G, f)
<1> DEFINE Upto(n, f) == f[0] = a /\ \A k \in Nat : k < n => f[k + 1] = G[<<k, f[k]>>]
           T == {n \in Nat : \E f \in [Nat -> V] : Upto(n, f)}
<1>1. \A n \in Nat : n \in T
  <2>1. 0 \in T
    <3> DEFINE f == [k \in Nat |-> a]
    <3>1. f \in [Nat -> V] /\ Upto(0, f)
      OBVIOUS
    <3> QED
      BY <3>1
  <2>2. ASSUME NEW n \in Nat, n \in T
        PROVE  n + 1 \in T
    <3>1. PICK f \in [Nat -> V] : Upto(n, f)
      BY <2>2
    <3> DEFINE x == G[<<n, f[n]>>]
               g == [f EXCEPT ![n + 1] = x]
    <3>2. x \in V
      <4>1. <<n, f[n]>> \in Nat \X V
        OBVIOUS
      <4> QED
        BY <4>1
    <3>3. x = G[<<n, f[n]>>]
      OBVIOUS
    <3> HIDE DEF x
    <3>4. /\ g \in [Nat -> V] /\ g[n + 1] = x
          /\ \A k \in Nat : k # n + 1 => g[k] = f[k]
      BY <3>2
    <3> HIDE DEF g
    <3>5. g[0] = a
      BY <3>1, <3>4
    <3>6. ASSUME NEW k \in Nat, k < n + 1
          PROVE  g[k + 1] = G[<<k, g[k]>>]
      <4>1. g[k] = f[k]
        BY <3>4, <3>6
      <4>2. CASE k = n
        BY <3>3, <3>4, <4>1, <4>2
      <4>3. CASE k < n
        <5>1. g[k + 1] = f[k + 1] /\ f[k + 1] = G[<<k, f[k]>>]
          BY <3>1, <3>4, <4>3
        <5> QED
          BY <4>1, <5>1
      <4> QED
        BY <3>6, <4>2, <4>3
    <3> QED
      BY <3>4, <3>5, <3>6
  <2> HIDE DEF T
  <2> QED
    BY <2>1, <2>2, NatSetInduction
<1> DEFINE F(n) == CHOOSE f \in [Nat -> V] : Upto(n, f)
           d == [n \in Nat |-> F(n)[n]]
<1>2. \A n \in Nat : F(n) \in [Nat -> V] /\ Upto(n, F(n))
  BY <1>1
<1>3. ASSUME NEW n \in Nat
      PROVE  F(n + 1)[n] = F(n)[n]
  <2> DEFINE f == F(n)
             g == F(n + 1)
             S == {k \in Nat : k <= n => f[k] = g[k]}
  <2>1. Upto(n, f) /\ Upto(n + 1, g)
    <3>1. n + 1 \in Nat
      OBVIOUS
    <3> HIDE DEF F, Upto
    <3> QED
      BY <1>2, <3>1
  <2> HIDE DEF f, g
  <2>2. 0 \in S
    BY <2>1
  <2>3. ASSUME NEW k \in Nat, k \in S
        PROVE  k + 1 \in S
    <3>1. CASE k + 1 <= n
      <4>1. k < n /\ k < n + 1 /\ f[k] = g[k]
        BY <2>3, <3>1
      <4>2. f[k + 1] = G[<<k, f[k]>>] /\ g[k + 1] = G[<<k, g[k]>>]
        BY <2>1, <4>1
      <4> QED
        BY <4>1, <4>2
    <3>2. CASE ~(k + 1 <= n)
      BY <3>2
    <3> QED
      BY <3>1, <3>2
  <2> HIDE DEF S
  <2>4. n \in S
    BY <2>2, <2>3, NatSetInduction
  <2> QED
    BY <2>4 DEF S, f, g
<1>4. \A n \in Nat : F(n)[n] \in V /\ F(n)[0] = a /\ F(n + 1)[n + 1] = G[<<n, F(n + 1)[n]>>]
  <2> TAKE n \in Nat
  <2>1. F(n) \in [Nat -> V] /\ Upto(n, F(n)) /\ Upto(n + 1, F(n + 1))
    <3>1. n + 1 \in Nat
      OBVIOUS
    <3> HIDE DEF F, Upto
    <3> QED
      BY <1>2, <3>1
  <2> HIDE DEF F
  <2> QED
    BY <2>1
<1> HIDE DEF F
<1>5. d \in [Nat -> V] /\ d[0] = a
  BY <1>4
<1>6. \A k \in Nat : d[k + 1] = G[<<k, d[k]>>]
  <2> TAKE k \in Nat
  <2>1. d[k + 1] = F(k + 1)[k + 1] /\ d[k] = F(k)[k]
    OBVIOUS
  <2> QED
    BY <1>3, <1>4, <2>1
<1> QED
  BY <1>5, <1>6 DEF Follows

\* c[k] is the number of layers the first k turns bring.
Counts(w, c) ==
  /\ w \in [Ranks -> Nat] /\ c \in [Nat -> Nat] /\ c[0] = 0
  /\ \A k \in Nat : c[k + 1] = c[k] + w[(k + 1) % NWorld]

\* Layer il is one of turn k.
IsTurn(c, il, k) == k \in Nat \ {0} /\ c[k - 1] <= il /\ il < c[k]

LEMMA WorldNat == NWorld \in Nat \ {0} /\ NWorld \in Nat /\ NWorld > 1
BY RingAssumption

LEMMA RankOfTurn ==
  ASSUME NEW k \in Nat
  PROVE  k % NWorld \in Ranks
BY ModRange, WorldNat DEF Ranks

LEMMA CountsGrow ==
  ASSUME NEW w, NEW c, Counts(w, c), NEW i \in Nat, NEW j \in Nat, i <= j
  PROVE  c[i] \in Nat /\ c[j] \in Nat /\ c[i] <= c[j]
<1> DEFINE T == {n \in Nat : c[i] <= c[i + n]}
<1>1. c \in [Nat -> Nat]
  BY DEF Counts
<1>2. 0 \in T
  BY <1>1
<1>3. ASSUME NEW n \in Nat, n \in T
      PROVE  n + 1 \in T
  <2>1. i + n \in Nat /\ (i + n) + 1 = i + (n + 1) /\ (i + n) + 1 \in Nat
    OBVIOUS
  <2>2. c[(i + n) + 1] = c[i + n] + w[((i + n) + 1) % NWorld] /\ w \in [Ranks -> Nat]
    BY <2>1 DEF Counts
  <2>3. w[((i + n) + 1) % NWorld] \in Nat
    BY <2>1, <2>2, RankOfTurn
  <2>4. c[i + n] \in Nat /\ c[i] \in Nat /\ c[i] <= c[i + n]
    BY <1>1, <1>3, <2>1
  <2> QED
    BY <2>1, <2>2, <2>3, <2>4
<1> HIDE DEF T
<1>4. j - i \in Nat /\ i + (j - i) = j
  OBVIOUS
<1>5. j - i \in T
  BY <1>2, <1>3, <1>4, NatSetInduction
<1> QED
  BY <1>1, <1>4, <1>5 DEF T

\* In every round at least one layer is brought.
LEMMA RoundsGrow ==
  ASSUME NEW w, NEW c, Counts(w, c), NEW p \in Ranks, w[p] > 0, p # 0, NEW n \in Nat
  PROVE  NWorld * n \in Nat /\ c[NWorld * n] \in Nat /\ c[NWorld * n] >= n
<1> DEFINE N == NWorld
           T == {j \in Nat : c[N * j] >= j}
<1>0. N \in Nat \ {0}
  BY WorldNat
<1>1. c \in [Nat -> Nat] /\ w \in [Ranks -> Nat] /\ p \in 1 .. N - 1
  <2>1. p \in 1 .. N - 1
    BY <1>0 DEF Ranks
  <2> QED
    BY <2>1 DEF Counts
<1>2. 0 \in T
  BY <1>0, <1>1
<1>3. ASSUME NEW j \in Nat, j \in T
      PROVE  j + 1 \in T
  <2> DEFINE a == N * j
             b == N * (j + 1)
  <2>1. a \in Nat /\ b = a + N /\ (a + p) % N = p
    BY <1>0, <1>1, TimesNext, ModOf
  <2>2. c[a] >= j
    BY <1>3
  <2> HIDE DEF a, b
  <2>3. /\ a + p - 1 \in Nat /\ (a + p - 1) + 1 = a + p /\ a + p \in Nat /\ b \in Nat
        /\ a <= a + p - 1 /\ a + p <= b
    BY <1>0, <1>1, <2>1
  <2> HIDE DEF N
  <2>4. c[(a + p - 1) + 1] = c[a + p - 1] + w[((a + p - 1) + 1) % N]
    BY <2>3 DEF Counts, N
  <2>5. c[a + p] = c[a + p - 1] + w[p]
    BY <2>1, <2>3, <2>4
  <2>6. /\ c[a] \in Nat /\ c[a + p - 1] \in Nat /\ c[a] <= c[a + p - 1]
        /\ c[a + p] \in Nat /\ c[b] \in Nat /\ c[a + p] <= c[b]
    BY <2>1, <2>3, CountsGrow
  <2>7. c[b] >= j + 1
    <3>1. w[p] \in Nat
      BY <1>1
    <3> QED
      BY <2>2, <2>5, <2>6, <3>1
  <2> QED
    BY <2>7 DEF b
<1>4. N * n \in Nat
  BY <1>0, TimesNext
<1> HIDE DEF T
<1>5. n \in T
  BY <1>2, <1>3, NatSetInduction
<1> QED
  BY <1>1, <1>4, <1>5 DEF T

\* Every layer comes with a turn that Owner looks at.
LEMMA TurnExists ==
  ASSUME NEW w, NEW c, Counts(w, c), NEW p \in Ranks, w[p] > 0, p # 0, NEW il \in Nat
  PROVE  \E k \in 1 .. NWorld * (il + 1) : IsTurn(c, il, k)
<1> DEFINE m == NWorld * (il + 1)
           S == {k \in Nat : c[k] > il}
<1>1. m \in Nat /\ c[m] \in Nat /\ c[m] >= il + 1
  BY RoundsGrow
<1>2. m \in S
  <2> HIDE DEF m
  <2> QED
    BY <1>1
<1> HIDE DEF m
<1>3. PICK k \in S : \A y \in S : k <= y
  <2>1. S \in SUBSET Nat /\ S # {}
    BY <1>2
  <2> HIDE DEF S
  <2> QED
    BY <2>1, LeastNat
<1>4. c[0] = 0 /\ c \in [Nat -> Nat]
  BY DEF Counts
<1>5. k # 0 /\ k <= m
  BY <1>2, <1>3, <1>4
<1>6. k - 1 \in Nat /\ k - 1 \notin S
  BY <1>3, <1>5
<1>7. IsTurn(c, il, k)
  BY <1>3, <1>4, <1>5, <1>6 DEF IsTurn
<1> QED
  BY <1>1, <1>3, <1>5, <1>7 DEF m

\* The device of a turn has a layer in its window.
LEMMA TurnHasLayers ==
  ASSUME NEW w, NEW c, Counts(w, c), NEW il \in Nat, NEW k, IsTurn(c, il, k)
  PROVE  k % NWorld \in Ranks /\ w[k % NWorld] > 0
<1>1. k \in Nat /\ k - 1 \in Nat /\ (k - 1) + 1 = k
  BY DEF IsTurn
<1>2. c[(k - 1) + 1] = c[k - 1] + w[((k - 1) + 1) % NWorld]
  BY <1>1 DEF Counts
<1>3. c[k] = c[k - 1] + w[k % NWorld] /\ c[k - 1] \in Nat /\ c[k - 1] <= il /\ il < c[k]
  BY <1>1, <1>2 DEF IsTurn, Counts
<1>4. k % NWorld \in Ranks
  BY <1>1, RankOfTurn
<1>5. w[k % NWorld] \in Nat
  BY <1>4 DEF Counts
<1> QED
  BY <1>3, <1>4, <1>5

\* A turn that brings nothing is one of a device without layers.
LEMMA EmptyTurn ==
  ASSUME NEW w, NEW c, Counts(w, c), NEW k \in Nat \ {0}, c[k] <= c[k - 1]
  PROVE  w[k % NWorld] = 0
<1>1. k \in Nat /\ k - 1 \in Nat /\ (k - 1) + 1 = k
  OBVIOUS
<1>2. c[(k - 1) + 1] = c[k - 1] + w[((k - 1) + 1) % NWorld]
  BY <1>1 DEF Counts
<1>3. c[k] = c[k - 1] + w[k % NWorld] /\ c[k - 1] \in Nat
  BY <1>1, <1>2 DEF Counts
<1>4. w[k % NWorld] \in Nat
  BY <1>1, RankOfTurn DEF Counts
<1> QED
  BY <1>3, <1>4

\* The next device with layers behind that of turn k is that of turn m, when those between
\* have none.
LEMMA NextTurn ==
  ASSUME NEW s, s.window \in [Ranks -> Nat], s.window[0] > 0, NEW k \in Nat, NEW m \in Nat, k < m,
         s.window[m % NWorld] > 0,
         \A j \in Nat : k < j /\ j < m => s.window[j % NWorld] = 0
  PROVE  NextWorking(s, k % NWorld, m % NWorld)
<1> DEFINE N == NWorld
           w == s.window
           a == k % N
<1>1. N \in Nat \ {0} /\ a \in 0 .. N - 1 /\ w \in [Ranks -> Nat]
  BY WorldNat, ModRange
<1>2. \A i \in 0 .. N : (k + i) % N = IF a + i < N THEN a + i ELSE a + i - N
  BY <1>1, ModPlus
<1>3. \A j \in Nat : k < j /\ j < m => w[j % N] = 0
  OBVIOUS
<1>4. w[m % N] > 0 /\ w[0] > 0
  OBVIOUS
<1> HIDE DEF a, w, N
<1>5. (k + (N - a)) % N = 0 /\ k + (N - a) \in Nat /\ k < k + (N - a)
  <2> DEFINE i == N - a
  <2>1. i \in 0 .. N /\ i > 0 /\ ~(a + i < N) /\ a + i - N = 0
    BY <1>1
  <2> HIDE DEF i
  <2>2. (k + i) % N = 0
    BY <1>2, <2>1
  <2>3. k + i \in Nat /\ k < k + i
    BY <2>1
  <2> QED
    BY <2>2, <2>3 DEF i
<1>6. m <= k + (N - a)
  <2> DEFINE e == k + (N - a)
  <2>1. e \in Nat /\ k < e /\ e % N = 0
    BY <1>5
  <2> HIDE DEF e
  <2>2. ~(e < m)
    BY <1>3, <1>4, <2>1
  <2> QED
    BY <2>1, <2>2 DEF e
<1> DEFINE d == m - k
<1>7. d \in 1 .. N - a /\ m = k + d /\ d \in 0 .. N
  BY <1>1, <1>6
<1> HIDE DEF d
<1>8. m % N = IF a + d < N THEN a + d ELSE 0
  <2>1. m % N = IF a + d < N THEN a + d ELSE a + d - N
    BY <1>2, <1>7
  <2> QED
    BY <1>1, <1>7, <2>1
<1>9. ASSUME NEW p \in 0 .. N - 1, a < p, m % N = 0 \/ p < m % N
      PROVE  w[p] = 0
  <2> DEFINE i == p - a
  <2>1. i \in 0 .. N /\ a + i = p /\ i > 0 /\ i \in Nat
    BY <1>1, <1>9
  <2> HIDE DEF i
  <2>2. i < d
    BY <1>1, <1>7, <1>8, <1>9, <2>1
  <2>3. (k + i) % N = p
    BY <1>1, <1>2, <2>1
  <2>4. k + i \in Nat /\ k < k + i /\ k + i < m
    BY <1>7, <2>1, <2>2
  <2> QED
    BY <1>3, <2>3, <2>4
<1>10. m % N = 0 \/ a < m % N
  BY <1>1, <1>7, <1>8
<1> QED
  BY <1>9, <1>10 DEF NextWorking, Ranks, N, a, w


\* Owner's recursion over the turns.
TurnSums(w, f) ==
  f = [k \in Nat |-> IF k = 0 THEN 0 ELSE f[k - 1] + w[k % World(w)]]

Turns(w) == CHOOSE f : TurnSums(w, f)

LEMMA OwnerIs ==
  ASSUME NEW w, NEW il
  PROVE  Owner(w, il) = (CHOOSE k \in 1 .. World(w) * (il + 1) :
                            Turns(w)[k - 1] <= il /\ il < Turns(w)[k]) % World(w)
BY DEF Owner, Turns, TurnSums

LEMMA WorldIs ==
  ASSUME NEW w \in [Ranks -> Nat]
  PROVE  World(w) = NWorld
<1>1. Cardinality(0 .. 0 + NWorld - 1) = NWorld
  BY WorldNat, CountInterval
<1>2. DOMAIN w = 0 .. 0 + NWorld - 1
  BY WorldNat DEF Ranks
<1> QED
  BY <1>1, <1>2 DEF World

LEMMA TurnsCount ==
  ASSUME NEW w \in [Ranks -> Nat]
  PROVE  Counts(w, Turns(w))
<1> DEFINE N == NWorld
           G == [x \in Nat \X Nat |-> x[2] + w[(x[1] + 1) % N]]
<1>1. G \in [Nat \X Nat -> Nat]
  <2>1. \A k \in Nat : w[(k + 1) % N] \in Nat
    <3> TAKE k \in Nat
    <3>1. k + 1 \in Nat
      OBVIOUS
    <3> QED
      BY <3>1, RankOfTurn
  <2> QED
    BY <2>1
<1>2. \A k, y \in Nat : G[<<k, y>>] = y + w[(k + 1) % N]
  OBVIOUS
<1> HIDE DEF G
<1>3. PICK f \in [Nat -> Nat] : f[0] = 0 /\ \A k \in Nat : f[k + 1] = G[<<k, f[k]>>]
  <2> DEFINE z == 0
             V == Nat
  <2>1. z \in V /\ G \in [Nat \X V -> V]
    BY <1>1
  <2> HIDE DEF z, V
  <2>2. \E f : Follows(V, z, G, f)
    BY <2>1, Recursion
  <2> QED
    BY <2>2 DEF z, V, Follows
<1>4. \A k \in Nat : f[k + 1] = f[k] + w[(k + 1) % N]
  BY <1>2, <1>3
<1>5. \A k \in Nat : k # 0 => f[k] = f[k - 1] + w[k % N]
  <2> TAKE k \in Nat
  <2> HAVE k # 0
  <2>1. k - 1 \in Nat /\ (k - 1) + 1 = k
    OBVIOUS
  <2>2. f[(k - 1) + 1] = f[k - 1] + w[((k - 1) + 1) % N]
    BY <1>4, <2>1
  <2> QED
    BY <2>1, <2>2
<1>6. TurnSums(w, f)
  <2>1. f = [k \in Nat |-> f[k]]
    OBVIOUS
  <2>2. \A k \in Nat : f[k] = IF k = 0 THEN 0 ELSE f[k - 1] + w[k % N]
    BY <1>3, <1>5
  <2>3. f = [k \in Nat |-> IF k = 0 THEN 0 ELSE f[k - 1] + w[k % N]]
    BY <2>1, <2>2, Zenon
  <2>4. World(w) = N
    BY WorldIs
  <2> QED
    BY <2>3, <2>4 DEF TurnSums
<1> DEFINE c == Turns(w)
<1>7. TurnSums(w, c)
  BY <1>6 DEF Turns
<1> HIDE DEF c
<1>8. c = [k \in Nat |-> IF k = 0 THEN 0 ELSE c[k - 1] + w[k % N]]
  BY <1>7, WorldIs DEF TurnSums
<1>9. c[0] = 0
  <2>1. \A k \in Nat : c[k] = IF k = 0 THEN 0 ELSE c[k - 1] + w[k % N]
    BY <1>8, Zenon
  <2> QED
    BY <2>1
<1>10. \A k \in Nat : c[k + 1] = c[k] + w[(k + 1) % N]
  <2> TAKE k \in Nat
  <2>1. k + 1 \in Nat /\ k + 1 # 0 /\ (k + 1) - 1 = k
    OBVIOUS
  <2>2. c[k + 1] = IF k + 1 = 0 THEN 0 ELSE c[(k + 1) - 1] + w[(k + 1) % N]
    BY <1>8, <2>1, Zenon
  <2> QED
    BY <2>1, <2>2
<1>11. c = [k \in Nat |-> c[k]]
  BY <1>8, Zenon
<1>12. \A k \in Nat : c[k] = f[k]
  <2> DEFINE T == {k \in Nat : c[k] = f[k]}
  <2>1. 0 \in T
    BY <1>3, <1>9
  <2>2. ASSUME NEW k \in Nat, k \in T
        PROVE  k + 1 \in T
    BY <1>4, <1>10, <2>2
  <2> HIDE DEF T
  <2>3. \A k \in Nat : k \in T
    BY <2>1, <2>2, NatSetInduction
  <2> QED
    BY <2>3 DEF T
<1>13. c \in [Nat -> Nat]
  BY <1>11, <1>12
<1> QED
  BY <1>9, <1>10, <1>13 DEF Counts, c

\* The turn of a layer.
LEMMA OwnersTurn ==
  ASSUME NEW w \in [Ranks -> Nat], NEW p \in Ranks, w[p] > 0, p # 0, NEW il \in Nat
  PROVE  \E k : IsTurn(Turns(w), il, k) /\ Owner(w, il) = k % NWorld
<1> DEFINE c == Turns(w)
           k == CHOOSE k \in 1 .. NWorld * (il + 1) : c[k - 1] <= il /\ il < c[k]
<1>1. Counts(w, c)
  BY TurnsCount
<1>2. Owner(w, il) = k % NWorld
  BY OwnerIs, WorldIs
<1> HIDE DEF c
<1>3. \E j \in 1 .. NWorld * (il + 1) : c[j - 1] <= il /\ il < c[j]
  BY <1>1, TurnExists DEF IsTurn
<1>4. k \in 1 .. NWorld * (il + 1) /\ c[k - 1] <= il /\ il < c[k]
  BY <1>3
<1>5. NWorld * (il + 1) \in Nat
  <2>1. il + 1 \in Nat
    OBVIOUS
  <2> QED
    BY <2>1, TimesNext, WorldNat
<1> HIDE DEF k
<1>6. IsTurn(c, il, k)
  BY <1>4, <1>5 DEF IsTurn
<1> QED
  BY <1>2, <1>6 DEF c

LEMMA TurnsAreSo ==
  ASSUME NEW s, s.window \in [Ranks -> Nat], s.n_layer \in Nat \ {0}, s.window[0] > 0,
         NEW p \in Ranks, s.window[p] > 0, p # 0
  PROVE  TurnsAre(s)
<1> DEFINE w == s.window
           c == Turns(w)
<1>1. Counts(w, c)
  BY TurnsCount
<1>2. \A il \in LayersOf(s) : il \in Nat
  BY DEF LayersOf
<1>3. \A il \in Nat : \E k : IsTurn(c, il, k) /\ OwnerOf(s, il) = k % NWorld
  BY OwnersTurn DEF OwnerOf
<1> HIDE DEF c
<1>4. ASSUME NEW il \in LayersOf(s)
      PROVE  OwnerOf(s, il) \in Ranks /\ w[OwnerOf(s, il)] > 0
  <2>1. PICK k : IsTurn(c, il, k) /\ OwnerOf(s, il) = k % NWorld
    BY <1>2, <1>3
  <2> QED
    BY <1>1, <1>2, <2>1, TurnHasLayers
<1>5. OwnerOf(s, 0) # 0 /\ NextWorking(s, 0, OwnerOf(s, 0))
  <2> DEFINE il == 0
  <2>0. il \in Nat /\ il = 0
    OBVIOUS
  <2> HIDE DEF il
  <2>1. PICK k : IsTurn(c, il, k) /\ OwnerOf(s, il) = k % NWorld
    BY <1>3, <2>0
  <2>2. k \in Nat \ {0} /\ k \in Nat /\ w[k % NWorld] > 0
    BY <1>1, <2>0, <2>1, TurnHasLayers DEF IsTurn
  <2>3. ASSUME NEW j \in Nat, il < j, j < k
        PROVE  w[j % NWorld] = 0
    <3>1. j \in Nat \ {0} /\ k - 1 \in Nat /\ j - 1 \in Nat /\ j <= k - 1 /\ j - 1 <= j
      BY <2>0, <2>2, <2>3
    <3>2. c[j] \in Nat /\ c[k - 1] \in Nat /\ c[j] <= c[k - 1] /\ c[j - 1] \in Nat
      BY <1>1, <3>1, CountsGrow
    <3>3. c[k - 1] <= 0
      BY <2>0, <2>1 DEF IsTurn
    <3>4. c[j] <= c[j - 1]
      BY <3>2, <3>3
    <3> QED
      BY <1>1, <3>1, <3>4, EmptyTurn
  <2>4. il % NWorld = 0
    <3>1. 0 \in 0 .. NWorld - 1 /\ il = 0
      BY <2>0, WorldNat
    <3> QED
      BY <2>0, <3>1, WorldNat, ModSmall
  <2>5. NextWorking(s, il % NWorld, k % NWorld)
    <3>1. il < k
      BY <2>0, <2>2
    <3> QED
      BY <2>0, <2>2, <2>3, <3>1, NextTurn
  <2>6. k <= p
    <3>1. p \in Nat /\ il < p /\ p % NWorld = p
      <4>1. p \in 0 .. NWorld - 1
        BY DEF Ranks
      <4>2. p % NWorld = p
        BY <4>1, ModSmall, WorldNat
      <4> QED
        BY <2>0, <4>1, <4>2, WorldNat
    <3>2. ~(p < k)
      BY <2>3, <3>1
    <3> QED
      BY <2>2, <3>1, <3>2
  <2>7. k % NWorld = k
    <3>1. k \in 0 .. NWorld - 1
      BY <2>2, <2>6, WorldNat DEF Ranks
    <3> QED
      BY <3>1, ModSmall, WorldNat
  <2> QED
    BY <2>0, <2>1, <2>2, <2>4, <2>5, <2>7
<1>6. ASSUME NEW il \in LayersOf(s), il + 1 \in LayersOf(s), OwnerOf(s, il) # OwnerOf(s, il + 1)
      PROVE  NextWorking(s, OwnerOf(s, il), OwnerOf(s, il + 1))
  <2>0. il \in Nat /\ il + 1 \in Nat
    BY <1>2, <1>6
  <2>1. PICK k : IsTurn(c, il, k) /\ OwnerOf(s, il) = k % NWorld
    BY <1>3, <2>0
  <2>2. PICK m : IsTurn(c, il + 1, m) /\ OwnerOf(s, il + 1) = m % NWorld
    BY <1>3, <2>0
  <2>3. /\ k \in Nat /\ m \in Nat /\ k - 1 \in Nat /\ m - 1 \in Nat /\ w[m % NWorld] > 0
        /\ c[k - 1] <= il /\ il < c[k] /\ c[m - 1] <= il + 1 /\ il + 1 < c[m]
    BY <1>1, <2>0, <2>1, <2>2, TurnHasLayers DEF IsTurn
  <2>4. k < m
    <3>1. k # m
      BY <1>6, <2>1, <2>2
    <3>2. ASSUME m < k
          PROVE  FALSE
      <4>1. m <= k - 1
        BY <2>3, <3>2
      <4>2. c[m] \in Nat /\ c[k - 1] \in Nat /\ c[m] <= c[k - 1]
        BY <1>1, <2>3, <4>1, CountsGrow
      <4> QED
        BY <2>0, <2>3, <4>2
    <3> QED
      BY <2>3, <3>1, <3>2
  <2>5. ASSUME NEW j \in Nat, k < j, j < m
        PROVE  w[j % NWorld] = 0
    <3>1. j \in Nat \ {0} /\ j - 1 \in Nat /\ j <= m - 1 /\ k <= j - 1
      BY <2>3, <2>5
    <3>2. /\ c[j] \in Nat /\ c[m - 1] \in Nat /\ c[j] <= c[m - 1]
          /\ c[k] \in Nat /\ c[j - 1] \in Nat /\ c[k] <= c[j - 1]
      BY <1>1, <2>3, <3>1, CountsGrow
    <3>3. c[j] <= c[j - 1]
      BY <2>0, <2>3, <3>2
    <3> QED
      BY <1>1, <3>1, <3>3, EmptyTurn
  <2>6. NextWorking(s, k % NWorld, m % NWorld)
    BY <2>3, <2>4, <2>5, NextTurn
  <2> QED
    BY <2>1, <2>2, <2>6
<1> QED
  BY <1>4, <1>5, <1>6 DEF TurnsAre


\* The last sub-graph gets one more layer.
WithLast(g, il) == [g EXCEPT ![Len(g)].last = il]

\* One step of SubGraphs, and its recursion over the layers.
Extend(w, r, graphs, il) ==
  IF ~ThisLayerIsMine(w, r, il) THEN graphs
  ELSE IF graphs # <<>> /\ Last(graphs).last = il - 1
    THEN [graphs EXCEPT ![Len(graphs)].last = il]
  ELSE Append(graphs, [first |-> il, last |-> il])

GraphSteps(w, n, r, f) ==
  f = [il \in 0 .. n |-> IF il = 0 THEN <<>> ELSE Extend(w, r, f[il - 1], il - 1)]

Built(w, n, r) == CHOOSE f : GraphSteps(w, n, r, f)

LEMMA SubGraphsIs ==
  ASSUME NEW w, NEW n, NEW r
  PROVE  SubGraphs(w, n, r) = Built(w, n, r)[n]
BY DEF SubGraphs, Built, GraphSteps, Extend

LEMMA ExtendLast ==
  ASSUME NEW L, NEW g \in Seq([first : L, last : L]), g # <<>>, NEW il \in L
  PROVE  LET h == WithLast(g, il)
         IN  /\ h \in Seq([first : L, last : L]) /\ Len(h) = Len(g)
             /\ Len(g) \in Nat /\ Len(g) > 0 /\ Last(g) = g[Len(g)]
             /\ h[Len(g)].first = g[Len(g)].first /\ h[Len(g)].last = il
             /\ \A j \in 1 .. Len(g) : j # Len(g) => h[j] = g[j]
<1> DEFINE R == [first : L, last : L]
           k == Len(g)
           x == [g[k] EXCEPT !.last = il]
           h == [g EXCEPT ![k] = x]
<1>1. g \in Seq(R) /\ k \in 1 .. Len(g) /\ k = Len(g)
  OBVIOUS
<1>2. g[k] \in R
  <2> HIDE DEF R
  <2> QED
    BY <1>1
<1>3. x \in R /\ x.first = g[k].first /\ x.last = il
  BY <1>2
<1>4. WithLast(g, il) = h
  BY DEF WithLast
<1>5. Last(g) = g[k]
  BY DEF Last
<1> HIDE DEF x, R
<1>6. h \in Seq(R) /\ Len(h) = Len(g) /\ h[k] = x /\ \A j \in 1 .. Len(g) : j # k => h[j] = g[j]
  <2> HIDE DEF k
  <2> QED
    BY <1>1, <1>3
<1> HIDE DEF h
<1> QED
  BY <1>1, <1>3, <1>4, <1>5, <1>6 DEF R

LEMMA AppendGraph ==
  ASSUME NEW L, NEW g \in Seq([first : L, last : L]), NEW il \in L
  PROVE  LET h == Append(g, [first |-> il, last |-> il])
         IN  /\ h \in Seq([first : L, last : L]) /\ Len(h) = Len(g) + 1 /\ Len(g) \in Nat
             /\ h[Len(g) + 1].first = il /\ h[Len(g) + 1].last = il
             /\ \A j \in 1 .. Len(g) : h[j] = g[j]
<1> DEFINE R == [first : L, last : L]
           x == [first |-> il, last |-> il]
<1>1. g \in Seq(R) /\ x \in R /\ x.first = il /\ x.last = il
  OBVIOUS
<1> HIDE DEF R, x
<1>2. /\ Append(g, x) \in Seq(R) /\ Len(Append(g, x)) = Len(g) + 1 /\ Len(g) \in Nat
      /\ Append(g, x)[Len(g) + 1] = x /\ \A j \in 1 .. Len(g) : Append(g, x)[j] = g[j]
  BY <1>1
<1> QED
  BY <1>1, <1>2 DEF R, x

\* The layers below k are in the sub-graphs g of device r.
GraphsTo(s, r, k, g) ==
  /\ g \in Seq([first : LayersOf(s), last : LayersOf(s)])
  /\ \A j \in 1 .. Len(g) :
       /\ g[j].first <= g[j].last /\ g[j].last < k
       /\ g[j].last = k - 1 \/ OwnerOf(s, g[j].last + 1) # r
       /\ \A il \in g[j].first .. g[j].last : OwnerOf(s, il) = r
  /\ \A i, j \in 1 .. Len(g) : i < j => g[i].last < g[j].first
  /\ \A il \in LayersOf(s) :
       il < k /\ OwnerOf(s, il) = r => \E j \in 1 .. Len(g) : g[j].first <= il /\ il <= g[j].last

LEMMA ExtendTyped ==
  ASSUME NEW L, NEW g \in Seq([first : L, last : L]), NEW il \in L, NEW w, NEW r
  PROVE  Extend(w, r, g, il) \in Seq([first : L, last : L])
BY ExtendLast, AppendGraph DEF Extend, WithLast

LEMMA ExtendGraphs ==
  ASSUME NEW s, s.n_layer \in Nat, NEW r, NEW k \in LayersOf(s), NEW g, GraphsTo(s, r, k, g)
  PROVE  GraphsTo(s, r, k + 1, Extend(s.window, r, g, k))
<1> DEFINE L == LayersOf(s)
           n == Len(g)
<1>1. g \in Seq([first : L, last : L]) /\ n \in Nat
  BY DEF GraphsTo
<1>2. \A j \in 1 .. n : g[j].first \in L /\ g[j].last \in L
  BY <1>1, GraphTypes
<1>3. k \in Nat /\ \A x \in L : x \in Nat
  BY DEF LayersOf
<1>4. \A j \in 1 .. n :
        /\ g[j].first <= g[j].last /\ g[j].last < k
        /\ g[j].last = k - 1 \/ OwnerOf(s, g[j].last + 1) # r
        /\ \A il \in g[j].first .. g[j].last : OwnerOf(s, il) = r
  BY DEF GraphsTo
<1>5. \A i, j \in 1 .. n : i < j => g[i].last < g[j].first
  BY DEF GraphsTo
<1>6. \A il \in L :
       il < k /\ OwnerOf(s, il) = r => \E j \in 1 .. n : g[j].first <= il /\ il <= g[j].last
  BY DEF GraphsTo
<1>7. k \in L /\ (ThisLayerIsMine(s.window, r, k) <=> OwnerOf(s, k) = r)
  BY DEF ThisLayerIsMine, OwnerOf
<1> HIDE DEF L
<1>8. \A j \in 1 .. n : j # n => g[j].last # k - 1
  <2> TAKE j \in 1 .. n
  <2> HAVE j # n
  <2>1. n \in 1 .. n /\ j < n
    BY <1>1
  <2>2. g[j].last < g[n].first /\ g[n].first <= g[n].last /\ g[n].last < k
    BY <1>4, <1>5, <2>1
  <2>3. g[j].last \in Nat /\ g[n].first \in Nat /\ g[n].last \in Nat
    BY <1>2, <1>3, <2>1
  <2> HIDE DEF n
  <2> QED
    BY <1>3, <2>2, <2>3
<1>9. CASE OwnerOf(s, k) # r
  <2>1. Extend(s.window, r, g, k) = g
    BY <1>7, <1>9 DEF Extend
  <2>2. ASSUME NEW j \in 1 .. n
        PROVE  g[j].last < k + 1 /\ OwnerOf(s, g[j].last + 1) # r
    <3>1. g[j].last \in Nat /\ g[j].last < k
      BY <1>2, <1>3, <1>4, <2>2
    <3>2. CASE g[j].last = k - 1
      <4>1. g[j].last + 1 = k
        BY <1>3, <3>2
      <4> QED
        BY <1>3, <1>9, <3>1, <4>1
    <3>3. CASE g[j].last # k - 1
      BY <1>3, <1>4, <3>1, <3>3
    <3> QED
      BY <3>2, <3>3
  <2>3. \A il \in L : il < k + 1 /\ OwnerOf(s, il) = r => il < k
    BY <1>3, <1>9
  <2> QED
    BY <1>1, <1>4, <1>5, <1>6, <2>1, <2>2, <2>3 DEF GraphsTo, L
<1>10. CASE OwnerOf(s, k) = r /\ g # <<>> /\ Last(g).last = k - 1
  <2> DEFINE h == WithLast(g, k)
  <2>1. Extend(s.window, r, g, k) = h
    BY <1>7, <1>10 DEF Extend, WithLast
  <2>2. /\ h \in Seq([first : L, last : L]) /\ Len(h) = n /\ n \in 1 .. n /\ Last(g) = g[n]
        /\ h[n].first = g[n].first /\ h[n].last = k
        /\ \A j \in 1 .. n : j # n => h[j] = g[j]
    <3>1. /\ h \in Seq([first : L, last : L]) /\ Len(h) = Len(g)
          /\ Len(g) \in Nat /\ Len(g) > 0 /\ Last(g) = g[Len(g)]
          /\ h[Len(g)].first = g[Len(g)].first /\ h[Len(g)].last = k
          /\ \A j \in 1 .. Len(g) : j # Len(g) => h[j] = g[j]
      <4> HIDE DEF n
      <4>1. g \in Seq([first : L, last : L]) /\ g # <<>> /\ k \in L
        BY <1>1, <1>7, <1>10
      <4> QED
        BY <4>1, ExtendLast, ZenonT(40)
    <3> HIDE DEF h
    <3>2. n \in 1 .. n
      BY <3>1
    <3> QED
      BY <3>1, <3>2
  <2> HIDE DEF h
  <2>3. g[n].last = k - 1
    BY <1>10, <2>2
  <2> HIDE DEF n
  <2>4. ASSUME NEW j \in 1 .. n
        PROVE  /\ h[j].first <= h[j].last /\ h[j].last < k + 1
               /\ h[j].last = (k + 1) - 1 \/ OwnerOf(s, h[j].last + 1) # r
               /\ \A il \in h[j].first .. h[j].last : OwnerOf(s, il) = r
    <3>1. CASE j = n
      <4>1. /\ h[j].first = g[n].first /\ h[j].last = k /\ g[n].first \in Nat
            /\ g[n].first <= k - 1 /\ \A il \in g[n].first .. k - 1 : OwnerOf(s, il) = r
        <5>1. h[j].first = g[n].first /\ h[j].last = k
          BY <2>2, <3>1
        <5>2. g[n].first \in Nat
          BY <1>2, <1>3, <2>2
        <5>3. g[n].first <= g[n].last /\ \A il \in g[n].first .. g[n].last : OwnerOf(s, il) = r
          BY <1>4, <2>2
        <5> QED
          BY <2>3, <5>1, <5>2, <5>3
      <4>2. \A il \in g[n].first .. k : OwnerOf(s, il) = r
        BY <1>3, <1>10, <4>1
      <4> QED
        BY <1>3, <4>1, <4>2
    <3>2. CASE j # n
      <4>1. h[j] = g[j] /\ g[j].last \in Nat /\ g[j].last # k - 1
        BY <1>2, <1>3, <1>8, <2>2, <3>2
      <4> QED
        BY <1>3, <1>4, <4>1
    <3> QED
      BY <3>1, <3>2
  <2>5. \A j \in 1 .. n : h[j].first = g[j].first /\ h[j].last >= g[j].last
    BY <1>2, <1>3, <2>2, <2>3
  <2>6. ASSUME NEW i \in 1 .. n, NEW j \in 1 .. n, i < j
        PROVE  h[i].last < h[j].first
    <3>1. h[i] = g[i]
      BY <1>1, <2>2, <2>6
    <3> QED
      BY <1>5, <2>5, <2>6, <3>1
  <2>7. ASSUME NEW il \in L, il < k + 1, OwnerOf(s, il) = r
        PROVE  \E j \in 1 .. n : h[j].first <= il /\ il <= h[j].last
    <3>1. CASE il = k
      <4>1. h[n].first <= il /\ il <= h[n].last
        <5>1. h[n].first = g[n].first /\ h[n].last = k
          BY <2>2
        <5>2. g[n].first \in Nat /\ g[n].first <= k - 1
          BY <1>2, <1>3, <1>4, <2>2, <2>3
        <5> QED
          BY <1>3, <3>1, <5>1, <5>2
      <4> QED
        BY <2>2, <4>1
    <3>2. CASE il # k
      <4>1. il \in Nat /\ il < k
        BY <1>3, <2>7, <3>2
      <4>2. PICK j \in 1 .. n : g[j].first <= il /\ il <= g[j].last
        BY <1>6, <2>7, <4>1
      <4>3. h[j].first = g[j].first /\ h[j].last >= g[j].last /\ g[j].last \in Nat
        BY <1>2, <1>3, <2>5
      <4>4. h[j].last \in Nat
        BY <1>3, <2>2, <4>3
      <4>5. h[j].first <= il /\ il <= h[j].last
        BY <4>1, <4>2, <4>3, <4>4
      <4> QED
        BY <4>5
    <3> QED
      BY <3>1, <3>2
  <2> QED
    BY <2>1, <2>2, <2>4, <2>6, <2>7 DEF GraphsTo, L
<1>11. CASE OwnerOf(s, k) = r /\ ~(g # <<>> /\ Last(g).last = k - 1)
  <2> DEFINE h == Append(g, [first |-> k, last |-> k])
             m == n + 1
  <2>1. Extend(s.window, r, g, k) = h
    BY <1>7, <1>11 DEF Extend
  <2>2. /\ h \in Seq([first : L, last : L]) /\ Len(h) = m
        /\ h[m].first = k /\ h[m].last = k /\ \A j \in 1 .. n : h[j] = g[j]
    BY <1>1, <1>7, AppendGraph
  <2>3. \A j \in 1 .. m : j = m \/ j \in 1 .. n
    BY <1>1
  <2>4. \A j \in 1 .. n : g[j].last # k - 1
    <3>1. n > 0 => g # <<>> /\ Last(g) = g[n]
      BY <1>1 DEF Last
    <3> QED
      BY <1>8, <1>11, <3>1
  <2>5. m \in 1 .. m /\ \A j \in 1 .. n : j \in 1 .. m
    BY <1>1
  <2> HIDE DEF h
  <2>6. ASSUME NEW j \in 1 .. m
        PROVE  /\ h[j].first <= h[j].last /\ h[j].last < k + 1
               /\ h[j].last = (k + 1) - 1 \/ OwnerOf(s, h[j].last + 1) # r
               /\ \A il \in h[j].first .. h[j].last : OwnerOf(s, il) = r
    <3>1. CASE j = m
      <4>1. h[j].first = k /\ h[j].last = k
        BY <2>2, <3>1
      <4>2. \A il \in k .. k : OwnerOf(s, il) = r
        BY <1>3, <1>11
      <4> QED
        BY <1>3, <4>1, <4>2
    <3>2. CASE j \in 1 .. n
      <4>1. h[j] = g[j] /\ g[j].last \in Nat /\ g[j].last # k - 1
        BY <1>2, <1>3, <2>2, <2>4, <3>2
      <4> QED
        BY <1>3, <1>4, <3>2, <4>1
    <3> QED
      BY <2>3, <3>1, <3>2
  <2>7. ASSUME NEW i \in 1 .. m, NEW j \in 1 .. m, i < j
        PROVE  h[i].last < h[j].first
    <3>1. i \in 1 .. n /\ h[i] = g[i] /\ g[i].last < k
      BY <1>1, <1>4, <2>2, <2>3, <2>7
    <3>2. CASE j = m
      BY <2>2, <3>1, <3>2
    <3>3. CASE j \in 1 .. n
      BY <1>5, <2>2, <2>7, <3>1, <3>3
    <3> QED
      BY <2>3, <3>2, <3>3
  <2>8. ASSUME NEW il \in L, il < k + 1, OwnerOf(s, il) = r
        PROVE  \E j \in 1 .. m : h[j].first <= il /\ il <= h[j].last
    <3>1. CASE il = k
      <4>1. h[m].first <= il /\ il <= h[m].last
        BY <1>3, <2>2, <3>1
      <4> QED
        BY <2>5, <4>1
    <3>2. CASE il # k
      <4>1. il < k
        BY <1>3, <2>8, <3>2
      <4>2. PICK j \in 1 .. n : g[j].first <= il /\ il <= g[j].last
        BY <1>6, <2>8, <4>1
      <4> QED
        BY <2>2, <2>5, <4>2
    <3> QED
      BY <3>1, <3>2
  <2> QED
    BY <2>1, <2>2, <2>6, <2>7, <2>8 DEF GraphsTo, L
<1> QED
  BY <1>9, <1>10, <1>11


\* The recursion over the layers is well defined.
LEMMA BuiltSteps ==
  ASSUME NEW w, NEW n \in Nat, NEW r
  PROVE  /\ Built(w, n, r)[0] = <<>>
         /\ \A k \in Nat : k < n => Built(w, n, r)[k + 1] = Extend(w, r, Built(w, n, r)[k], k)
<1> DEFINE L == 0 .. n - 1
           V == Seq([first : L, last : L])
           e == <<>>
           Step(k, g) == IF k < n THEN Extend(w, r, g, k) ELSE g
           G == [x \in Nat \X V |-> Step(x[1], x[2])]
<1>1. \A k \in Nat, g \in V : Step(k, g) \in V
  <2> TAKE k \in Nat, g \in V
  <2>1. k < n => k \in L
    OBVIOUS
  <2> HIDE DEF L
  <2>2. k < n => Extend(w, r, g, k) \in V
    BY <2>1, ExtendTyped
  <2> QED
    BY <2>2
<1>2. e \in V
  <2> HIDE DEF L
  <2> QED
    OBVIOUS
<1> HIDE DEF V, e
<1>3. G \in [Nat \X V -> V]
  <2> HIDE DEF Step
  <2> QED
    BY <1>1
<1>4. \A k \in Nat, g \in V : G[<<k, g>>] = Step(k, g)
  <2> HIDE DEF Step
  <2> QED
    OBVIOUS
<1> HIDE DEF G
<1>5. PICK f : Follows(V, e, G, f)
  BY <1>2, <1>3, Recursion
<1>6. f[0] = e /\ \A k \in Nat : k < n => f[k + 1] = Extend(w, r, f[k], k)
  <2>1. f[0] = e /\ \A k \in Nat : f[k] \in V /\ f[k + 1] = G[<<k, f[k]>>]
    BY <1>5 DEF Follows
  <2> QED
    BY <1>4, <2>1
<1> DEFINE h == [il \in 0 .. n |-> f[il]]
           b == Built(w, n, r)
<1>7. GraphSteps(w, n, r, h)
  <2>1. ASSUME NEW il \in 0 .. n
        PROVE  h[il] = IF il = 0 THEN <<>> ELSE Extend(w, r, h[il - 1], il - 1)
    <3>1. CASE il = 0
      BY <1>6, <3>1 DEF e
    <3>2. CASE il # 0
      <4> DEFINE k == il - 1
      <4>1. k \in Nat /\ k \in 0 .. n /\ k < n /\ k + 1 = il
        BY <3>2
      <4> HIDE DEF k
      <4>2. f[il] = Extend(w, r, f[k], k) /\ h[il] = f[il] /\ h[k] = f[k]
        BY <1>6, <4>1
      <4>3. h[il] = Extend(w, r, h[k], k)
        BY <4>2, Zenon
      <4> QED
        BY <3>2, <4>3, Zenon DEF k
    <3> QED
      BY <3>1, <3>2
  <2>2. h = [il \in 0 .. n |-> h[il]]
    OBVIOUS
  <2> HIDE DEF h
  <2>3. h = [il \in 0 .. n |-> IF il = 0 THEN <<>> ELSE Extend(w, r, h[il - 1], il - 1)]
    BY <2>1, <2>2, Zenon
  <2> QED
    BY <2>3 DEF GraphSteps
<1>8. GraphSteps(w, n, r, b)
  BY <1>7 DEF Built
<1> HIDE DEF b
<1>9. b = [il \in 0 .. n |-> IF il = 0 THEN <<>> ELSE Extend(w, r, b[il - 1], il - 1)]
  BY <1>8 DEF GraphSteps
<1>10. \A il \in 0 .. n : b[il] = IF il = 0 THEN <<>> ELSE Extend(w, r, b[il - 1], il - 1)
  BY <1>9, Zenon
<1>11. b[0] = <<>>
  BY <1>10
<1>12. ASSUME NEW k \in Nat, k < n
       PROVE  b[k + 1] = Extend(w, r, b[k], k)
  <2> DEFINE il == k + 1
  <2>1. il \in 0 .. n /\ il # 0 /\ il - 1 = k
    BY <1>12
  <2> HIDE DEF il
  <2>2. b[il] = Extend(w, r, b[il - 1], il - 1)
    BY <1>10, <2>1, Zenon
  <2> QED
    BY <2>1, <2>2 DEF il
<1> QED
  BY <1>11, <1>12 DEF b

LEMMA GraphsBuilt ==
  ASSUME NEW s, s.n_layer \in Nat, NEW r
  PROVE  GraphsTo(s, r, s.n_layer, SubGraphs(s.window, s.n_layer, r))
<1> DEFINE n == s.n_layer
           b == Built(s.window, n, r)
           T == {k \in Nat : k <= n => GraphsTo(s, r, k, b[k])}
<1>1. b[0] = <<>> /\ \A k \in Nat : k < n => b[k + 1] = Extend(s.window, r, b[k], k)
  BY BuiltSteps
<1> HIDE DEF b
<1>2. 0 \in T
  <2> DEFINE g == b[0]
             L == LayersOf(s)
  <2>1. L \subseteq Nat
    BY DEF LayersOf
  <2>2. g = <<>>
    BY <1>1
  <2> HIDE DEF g, L
  <2>3. g \in Seq([first : L, last : L]) /\ Len(g) = 0
    BY <2>2
  <2>4. \A il \in L : ~(il < 0)
    BY <2>1
  <2>5. GraphsTo(s, r, 0, g)
    BY <2>3, <2>4 DEF GraphsTo, L
  <2> QED
    BY <2>5 DEF g
<1>3. ASSUME NEW k \in Nat, k \in T
      PROVE  k + 1 \in T
  <2> SUFFICES ASSUME k + 1 <= n
               PROVE  GraphsTo(s, r, k + 1, b[k + 1])
    OBVIOUS
  <2>1. k < n /\ k \in LayersOf(s)
    BY DEF LayersOf
  <2>2. GraphsTo(s, r, k, b[k])
    BY <1>3, <2>1
  <2>3. GraphsTo(s, r, k + 1, Extend(s.window, r, b[k], k))
    BY <2>1, <2>2, ExtendGraphs
  <2> QED
    BY <1>1, <2>1, <2>3
<1> HIDE DEF T
<1>4. n \in T
  BY <1>2, <1>3, NatSetInduction
<1>5. GraphsTo(s, r, n, b[n])
  BY <1>4 DEF T
<1> QED
  BY <1>5, SubGraphsIs DEF b


LEMMA GraphsAreSo ==
  ASSUME NEW s, s.n_layer \in Nat, NEW r, s.graphs[r] = SubGraphs(s.window, s.n_layer, r),
         r # 0 /\ s.window[r] > 0 => \E il \in LayersOf(s) : OwnerOf(s, il) = r
  PROVE  GraphsAre(s, r)
<1> DEFINE g == s.graphs[r]
           n == s.n_layer
<1>1. GraphsTo(s, r, n, g)
  BY GraphsBuilt
<1> HIDE DEF g
<1>2. g \in Seq([first : LayersOf(s), last : LayersOf(s)])
  BY <1>1 DEF GraphsTo
<1>3. Len(g) \in Nat /\ \A j \in 1 .. Len(g) : g[j].first \in LayersOf(s) /\ g[j].last \in LayersOf(s)
  BY <1>2, GraphTypes
<1>4. ASSUME NEW j \in 1 .. Len(g)
      PROVE  /\ g[j].first <= g[j].last /\ TurnEnds(s, g[j].last)
             /\ \A il \in g[j].first .. g[j].last : OwnerOf(s, il) = r
  <2>1. /\ g[j].first <= g[j].last
        /\ g[j].last = n - 1 \/ OwnerOf(s, g[j].last + 1) # r
        /\ \A il \in g[j].first .. g[j].last : OwnerOf(s, il) = r
    BY <1>1 DEF GraphsTo
  <2>2. g[j].last \in g[j].first .. g[j].last
    BY <1>3, <2>1 DEF LayersOf
  <2>3. OwnerOf(s, g[j].last) = r
    BY <2>1, <2>2
  <2> QED
    BY <2>1, <2>3 DEF TurnEnds
<1>5. \A i, j \in 1 .. Len(g) : i < j => g[i].last < g[j].first
  BY <1>1 DEF GraphsTo
<1>6. \A il \in LayersOf(s) :
        OwnerOf(s, il) = r => \E j \in 1 .. Len(g) : g[j].first <= il /\ il <= g[j].last
  <2>1. \A il \in LayersOf(s) : il < n
    BY DEF LayersOf
  <2> QED
    BY <1>1, <2>1 DEF GraphsTo
<1>7. r # 0 /\ s.window[r] > 0 => Len(g) > 0
  <2> HAVE r # 0 /\ s.window[r] > 0
  <2>1. \E j \in 1 .. Len(g) : TRUE
    BY <1>6
  <2> QED
    BY <1>3, <2>1
<1> QED
  BY <1>2, <1>4, <1>5, <1>6, <1>7 DEF GraphsAre, g

\* The set-ups the runs start from are of the form the proof needs.
LEMMA InitSetup ==
  ASSUME Init
  PROVE  SetupIs(setup)
<1>1. PICK s \in Setups :
        setup = [window |-> s.window, n_layer |-> s.n_layer, driver |-> s.driver,
                 warmup |-> s.warmup, graphs |-> [r \in Ranks |-> SubGraphs(s.window, s.n_layer, r)]]
  BY DEF Init
<1> DEFINE G == [r \in Ranks |-> SubGraphs(s.window, s.n_layer, r)]
<1>2. /\ setup.window = s.window /\ setup.n_layer = s.n_layer /\ setup.warmup = s.warmup
      /\ setup.graphs = G
  BY <1>1
<1>3. \A r \in Ranks : G[r] = SubGraphs(s.window, s.n_layer, r)
  OBVIOUS
<1> HIDE DEF G
<1>4. /\ s \in [window : [Ranks -> Nat], n_layer : Nat \ {0}, driver : Drivers, warmup : BOOLEAN]
      /\ s.window[0] > 0 /\ \E r \in Ranks \ {0} : s.window[r] > 0
      /\ \A r \in Ranks \ {0} :
           s.window[r] > 0 => \E il \in 0 .. s.n_layer - 1 : ThisLayerIsMine(s.window, r, il)
  BY SetupAssumption
<1>5. /\ setup.window \in [Ranks -> Nat] /\ setup.n_layer \in Nat \ {0} /\ setup.warmup \in BOOLEAN
      /\ setup.window[0] > 0
  BY <1>2, <1>4
<1>6. PICK p \in Ranks \ {0} : s.window[p] > 0
  BY <1>4
<1>7. p \in Ranks /\ p # 0 /\ setup.window[p] > 0
  BY <1>2, <1>6
<1>8. TurnsAre(setup)
  BY <1>5, <1>7, TurnsAreSo
<1>9. ASSUME NEW r \in Ranks
      PROVE  GraphsAre(setup, r)
  <2>1. setup.graphs[r] = SubGraphs(setup.window, setup.n_layer, r)
    BY <1>2, <1>3
  <2>2. r # 0 /\ setup.window[r] > 0 => \E il \in LayersOf(setup) : OwnerOf(setup, il) = r
    BY <1>2, <1>4 DEF LayersOf, OwnerOf, ThisLayerIsMine
  <2> QED
    BY <1>5, <2>1, <2>2, GraphsAreSo
<1> QED
  BY <1>5, <1>7, <1>8, <1>9 DEF SetupIs, Others

-----------------------------------------------------------------------------
(* The devices keep their step                                             *)

\* The announcements are in order, the set-up is one that build_llama makes, and every device is
\* where the physical batch that is on its way needs it.
InStepAlways == InOrder /\ SetupIs(setup) /\ \E at, u : InStep(at, u)

LEMMA IdleIs ==
  ASSUME NEW r \in Ranks, setup.warmup \in BOOLEAN
  PROVE  LET d == Idle(r)
             pc == IF r = 0 THEN "ready" ELSE IF r \in Forwarders THEN "forward" ELSE "meta"
         IN  /\ DeviceOK(d) /\ d.pc = pc /\ (d.warm <=> setup.warmup /\ r \notin Forwarders)
             /\ ~d.stop /\ d.left = 0 /\ d.cache = EmptyCache
<1> DEFINE d == Idle(r)
           pc == IF r = 0 THEN "ready" ELSE IF r \in Forwarders THEN "forward" ELSE "meta"
           w == setup.warmup /\ r \notin Forwarders
           no == FALSE
           z == 0
           c == EmptyCache
           one == 1
<1>1. d = Device7(pc, w, no, one, z, z, c)
  BY DEF Idle, Device7
<1>2. w \in BOOLEAN /\ no \in BOOLEAN /\ z \in Nat
  OBVIOUS
<1> HIDE DEF d, pc, w, no, z, c, one
<1>3. /\ IsDevice(d) /\ d.pc = pc /\ d.warm = w /\ d.stop = no /\ d.left = z /\ d.cache = c
  BY <1>1, FieldsOf
<1>4. DeviceOK(d)
  BY <1>2, <1>3 DEF DeviceOK
<1>. QED
  BY <1>3, <1>4, Zenon DEF d, pc, w, no, z, c

LEMMA InitInStep ==
  ASSUME Init
  PROVE  InStep(Nowhere, -1)
<1> DEFINE m == dev[0]
           w == setup.warmup
<1>1. SetupIs(setup)
  BY InitSetup
<1>2. /\ dev = [r \in Ranks |-> Idle(r)] /\ log = [r \in Ranks |-> <<>>]
      /\ ring = [r \in Ranks |-> <<>>] /\ direct = <<>> /\ stop_at = None
  BY DEF Init
<1>3. /\ 0 \in Ranks /\ 0 \notin Others /\ Forwarders \subseteq Others /\ Workers \subseteq Others
      /\ \A r \in Others : r \in Ranks /\ r - 1 \in Ranks /\ r # 0 /\ r # Nowhere
      /\ Nowhere # 0 /\ Nowhere # ToOutput
  BY <1>1, RankTypes, WorkersAndForwarders DEF Nowhere, ToOutput
<1>4. \A r \in Ranks : dev[r] = Idle(r) /\ log[r] = <<>> /\ ring[r] = <<>>
  BY <1>2
<1>5. w \in BOOLEAN
  BY <1>1 DEF SetupIs
<1>6. ASSUME NEW r \in Ranks
      PROVE  /\ DeviceOK(dev[r]) /\ (dev[r].warm <=> w /\ r \notin Forwarders) /\ ~dev[r].stop
             /\ dev[r].left = 0 /\ dev[r].cache = EmptyCache
             /\ dev[r].pc = IF r = 0 THEN "ready" ELSE IF r \in Forwarders THEN "forward" ELSE "meta"
  BY <1>4, <1>5, IdleIs
<1>7. m.pc = "ready" /\ (m.warm <=> w) /\ m.cache = EmptyCache /\ ~IsDecoding(m)
  BY <1>3, <1>6 DEF IsDecoding
<1>8. Announcing = 0 /\ \A r \in Ranks : Len(log[r]) = 0
  BY <1>3, <1>4 DEF Announcing
<1>9. Queues(Nowhere, -1)
  <2>1. ASSUME NEW r \in Others
        PROVE  /\ Len(log[r]) <= HandedTo(r) /\ StartOf(log[r], log[0])
               /\ QueueIs(ring[r], log[0], Len(log[r]), HandedTo(r), Held(r, Nowhere, Batch(-1)))
    <3>1. Len(log[r]) = 0 /\ HandedTo(r) = 0 /\ log[r] = <<>> /\ log[0] = <<>> /\ ring[r] = <<>>
      BY <1>3, <1>4, <1>8 DEF HandedTo
    <3>2. Held(r, Nowhere, Batch(-1)) = <<>>
      BY <1>3 DEF Held
    <3>3. QueueIs(<<>>, <<>>, 0, 0, <<>>) /\ StartOf(<<>>, <<>>)
      BY DEF QueueIs, StartOf
    <3>. QED
      BY <3>1, <3>2, <3>3
  <2>2. Held(0, Nowhere, Batch(-1)) = <<>> /\ Held(ToOutput, Nowhere, Batch(-1)) = <<>>
    BY <1>3 DEF Held
  <2>. QED
    BY <1>2, <1>3, <1>4, <2>1, <2>2 DEF Queues
<1>10. MasterIs
  BY <1>2, <1>6, <1>7, <1>8 DEF MasterIs
<1>11. ASSUME NEW r \in Workers
       PROVE  WorkerIs(dev[r], Graphs(r), Len(log[r]), m, log[0], -1, w)
  <2> DEFINE d == dev[r]
             D == [k \in {0} |-> EmptyCache]
             l == log[0]
  <2>1. r \in Ranks /\ r # 0 /\ r \notin Forwarders
    BY <1>3 DEF Workers, Forwarders
  <2>2. d.pc = "meta" /\ d.left = 0 /\ (d.warm <=> w) /\ d.cache = EmptyCache
    BY <1>6, <2>1
  <2>3. Len(l) = 0 /\ DoneIn(m, l) = 0 /\ Len(log[r]) = 0
    BY <1>3, <1>7, <1>8, <2>1 DEF DoneIn
  <2>4. D[0] = EmptyCache
    OBVIOUS
  <2> HIDE DEF D, d, l, m
  <2>5. ComesTo(D, 0, d.cache, m, l)
    BY <1>7, <2>2, <2>3, <2>4 DEF ComesTo
  <2>6. Waiting(d, 0, m, l, w)
    BY <2>2, <2>3, <2>5 DEF Waiting
  <2>. QED
    BY <1>7, <2>3, <2>6 DEF WorkerIs, d, l
<1>12. \A r \in Forwarders : dev[r].pc \in {"forward", "left"}
  BY <1>3, <1>6
<1>13. \A k \in 1 .. Announcing : IsAnnouncement(log[0][k], k)
  BY <1>8
<1>14. dev = [r \in Ranks |-> dev[r]]
  BY <1>2, Zenon
<1>. QED
  BY <1>6, <1>7, <1>9, <1>10, <1>11, <1>12, <1>13, <1>14 DEF InStep

LEMMA StutterInStep ==
  ASSUME NEW at, NEW u, InStep(at, u), UNCHANGED vars
  PROVE  InStep(at, u)'
<1>1. /\ setup' = setup /\ dev' = dev /\ log' = log /\ ring' = ring /\ direct' = direct
      /\ stop_at' = stop_at
  BY DEF vars
<1>2. Workers' = Workers /\ Forwarders' = Forwarders /\ \A r : Graphs(r)' = Graphs(r)
  BY <1>1 DEF Workers, Forwarders, Graphs, window
<1>3. Queues(at, u)'
  BY <1>1, QueuesSame DEF InStep
<1>4. at # Nowhere => Flight(at, u)'
  BY <1>1, <1>2 DEF InStep, Flight, Announcing, n_layer
<1>5. MasterIs'
  BY <1>1 DEF InStep, MasterIs, Announcing
<1>. QED
  BY <1>1, <1>2, <1>3, <1>4, <1>5 DEF InStep, Announcing

LEMMA SetupStays == [Next]_vars => setup' = setup
BY DEF Next, vars, WarmUp, Evaluate, Draft, Call, Master, ComputeMaster, Output, Finish, Stop,
       StopArrives, Device, ReceiveMeta, Timeout, ComputeWorker, Forward

LEMMA NextInStep ==
  ASSUME ~SlowMaster, InOrder, SetupIs(setup), NEW at, NEW u, InStep(at, u), [Next]_vars
  PROVE  \E to, v : PassesOn(u, v) /\ InStep(to, v)'
<1>0. ASSUME NEW to, InStep(to, u)', at = Nowhere <=> to = Nowhere
      PROVE  \E x, v : PassesOn(u, v) /\ InStep(x, v)'
  <2>1. IsDecoding(dev[0])' <=> IsDecoding(dev[0])
    BY <1>0 DEF InStep
  <2>. QED
    BY <1>0, <2>1 DEF PassesOn
<1>1. CASE WarmUp
  BY <1>1, WarmUpInStep
<1>2. ASSUME NEW n \in 1 .. MaxInput, Evaluate(n)
      PROVE  \E to, v : PassesOn(u, v) /\ InStep(to, v)'
  BY <1>2, EvaluateInStep
<1>3. ASSUME NEW n \in 1 .. MaxInput, NEW k \in 0 .. n_past, Draft(n, k)
      PROVE  \E to, v : PassesOn(u, v) /\ InStep(to, v)'
  BY <1>3, DraftInStep
<1>4. CASE ComputeMaster
  BY <1>4, ComputeMasterInStep
<1>5. CASE Output
  BY <1>5, OutputInStep
<1>6. CASE Finish
  <2>1. InStep(at, u)'
    BY <1>6, FinishInStep
  <2>. QED
    BY <1>0, <2>1
<1>7. ASSUME NEW r \in Ranks, StopArrives(r)
      PROVE  \E to, v : PassesOn(u, v) /\ InStep(to, v)'
  <2>1. InStep(at, u)'
    BY <1>7, StopInStep
  <2>. QED
    BY <1>0, <2>1
<1>8. ASSUME NEW r \in Others, Device(r)
      PROVE  \E to, v : PassesOn(u, v) /\ InStep(to, v)'
  <2>1. CASE ReceiveMeta(r)
    <3>1. InStep(at, u)'
      BY <2>1, ReceiveInStep
    <3>. QED
      BY <1>0, <3>1
  <2>2. CASE Timeout(r)
    <3>1. InStep(at, u)'
      BY <2>2, TimeoutInStep
    <3>. QED
      BY <1>0, <3>1
  <2>3. CASE ComputeWorker(r)
    BY <2>3, ComputeWorkerInStep
  <2>4. CASE Forward(r)
    <3>1. PICK to : InStep(to, u)'
      BY <2>4, ForwardInStep
    <3>2. IsDecoding(dev[0])' <=> IsDecoding(dev[0])
      BY <2>4 DEF Forward
    <3>. QED
      BY <3>1, <3>2 DEF PassesOn
  <2>. QED
    BY <1>8, <2>1, <2>2, <2>3, <2>4 DEF Device
<1>9. CASE UNCHANGED vars
  <2>1. InStep(at, u)'
    BY <1>9, StutterInStep
  <2>. QED
    BY <1>0, <2>1
<1>. QED
  BY <1>1, <1>2, <1>3, <1>4, <1>5, <1>6, <1>7, <1>8, <1>9 DEF Next, Master, Stop, Others

LEMMA AlwaysInStep == ~SlowMaster => (Spec => []InStepAlways)
<1> SUFFICES ASSUME ~SlowMaster
             PROVE  Spec => []InStepAlways
  OBVIOUS
<1>1. Init => InStepAlways
  BY InitInOrder, InitSetup, InitInStep DEF InStepAlways
<1>2. InStepAlways /\ [Next]_vars => InStepAlways'
  <2> SUFFICES ASSUME InStepAlways, [Next]_vars
               PROVE  InStepAlways'
    OBVIOUS
  <2>1. InOrder /\ SetupIs(setup)
    BY DEF InStepAlways
  <2>2. PICK at, u : InStep(at, u)
    BY DEF InStepAlways
  <2>3. \E to, v : PassesOn(u, v) /\ InStep(to, v)'
    BY <2>1, <2>2, NextInStep
  <2>4. InOrder'
    BY <2>1, NextInOrder
  <2>5. SetupIs(setup)'
    BY <2>1, SetupStays
  <2>. QED
    BY <2>3, <2>4, <2>5 DEF InStepAlways
<1>. QED
  BY <1>1, <1>2, PTL DEF Spec

LEMMA WorkersMessage ==
  ASSUME InOrder, SetupIs(setup), NEW at, NEW u, InStep(at, u), NEW r \in Others, ring[r] # <<>>
  PROVE  LET m == Head(ring[r])
         IN  /\ dev[r].pc = "meta" => m.kind = "announcement" /\ m.id = Len(log[r]) + 1
             /\ dev[r].pc = "tensors"
                  => m = Tensors(Len(log[r]), dev[r].left, Graphs(r)[dev[r].sub].first - 1)
<1> DEFINE d == dev[r]
           k == Len(log[r])
           m == Head(ring[r])
<1>1. PICK S : Typed(S) /\ Batch(u) \in S
  BY TypedWith
<1>2. ASSUME d.pc \in {"meta", "tensors"}
      PROVE  r \in Workers
  <2>1. r \notin Forwarders
    BY <1>2 DEF InStep
  <2>. QED
    BY <2>1, WorkersAndForwarders
<1>3. ASSUME d.pc = "meta"
      PROVE  m.kind = "announcement" /\ m.id = k + 1
  <2>1. r \in Workers
    BY <1>2, <1>3
  <2>2. k < HandedTo(r)
    BY <1>3, <2>1, WorkerExpects
  <2>3. k \in Nat /\ HandedTo(r) \in Nat /\ HandedTo(r) <= Announcing /\ Announcing \in Nat
    BY <1>1, QueueBounds DEF InStep, Announcing
  <2>4. m = log[0][k + 1]
    BY <1>1, <2>2, NextTaken DEF InStep
  <2>5. k + 1 \in 1 .. Announcing
    BY <2>2, <2>3
  <2>6. IsAnnouncement(m, k + 1)
    BY <2>4, <2>5 DEF InStep
  <2>. QED
    BY <2>6 DEF IsAnnouncement
<1>4. ASSUME d.pc = "tensors"
      PROVE  m = Tensors(k, d.left, Graphs(r)[d.sub].first - 1)
  <2>1. r \in Workers /\ r \in Ranks
    BY <1>2, <1>4, RankTypes
  <2>2. /\ m = Batch(u) /\ k = Announcing /\ u \in -1 .. setup.n_layer - 1 /\ u # setup.n_layer - 1
        /\ OwnerOf(setup, u + 1) = r /\ Alike(d, dev[0]) /\ NextGraph(Graphs(r), d.sub, u)
    BY <1>4, <2>1, WorkerAtBatch
  <2>3. Graphs(r)[d.sub].first = u + 1
    <3> DEFINE sub == d.sub
    <3>1. NextGraph(setup.graphs[r], sub, u)
      BY <2>2 DEF Graphs
    <3> HIDE DEF sub
    <3>2. setup.graphs[r][sub].first = u + 1
      BY <2>1, <2>2, <3>1, TurnTaken
    <3>. QED
      BY <3>2 DEF sub, Graphs
  <2>4. d.left = dev[0].left
    BY <2>2 DEF Alike
  <2>5. Graphs(r)[d.sub].first - 1 = u
    BY <2>2, <2>3
  <2> HIDE DEF d, m, k
  <2>. QED
    BY <2>2, <2>4, <2>5 DEF Batch
<1>. QED
  BY <1>3, <1>4

LEMMA MastersMessage ==
  ASSUME SetupIs(setup), NEW at, NEW u, InStep(at, u), ring[0] \o direct # <<>>
  PROVE  LET g == Graphs(0)
             upto == IF dev[0].sub > Len(g) THEN n_layer - 1 ELSE g[dev[0].sub].first - 1
         IN  /\ dev[0].pc = "tensors"
             /\ ring[0] \o direct = <<Tensors(Len(log[0]), dev[0].left, upto)>>
<1> DEFINE g == Graphs(0)
           sub == dev[0].sub
           upto == IF sub > Len(g) THEN n_layer - 1 ELSE g[sub].first - 1
           b == Batch(u)
<1>1. ring[0] = Held(0, at, b) /\ direct = Held(ToOutput, at, b)
  BY DEF InStep, Queues
<1>2. 0 \in Ranks /\ ToOutput # 0 /\ AtOutput # 0 /\ AtOutput # ToOutput /\ ToOutput \notin Ranks
      /\ Nowhere # 0 /\ Nowhere # ToOutput
  BY RankTypes DEF ToOutput, AtOutput, Nowhere
<1>3. at \in {0, ToOutput} /\ ring[0] \o direct = <<b>>
  <2> HIDE DEF b
  <2>1. \/ ring[0] = <<b>> /\ direct = <<>> /\ at = 0
        \/ ring[0] = <<>> /\ direct = <<b>> /\ at = ToOutput
        \/ ring[0] = <<>> /\ direct = <<>>
    BY <1>1, <1>2 DEF Held
  <2>2. <<b>> \o <<>> = <<b>> /\ <<>> \o <<b>> = <<b>> /\ <<>> \o <<>> = <<>>
    OBVIOUS
  <2>. QED
    BY <2>1, <2>2
<1>4. Flight(at, u) /\ IsDecoding(dev[0])
  BY <1>2, <1>3 DEF InStep
<1>5. /\ u \in -1 .. setup.n_layer - 1 /\ OnItsWay(setup, at, u) /\ NextGraph(g, sub, u)
      /\ dev[0].pc = "tensors"
  BY <1>2, <1>3, <1>4 DEF Flight, n_layer, IsDecoding
<1>6. g = setup.graphs[0]
  BY DEF Graphs
<1> HIDE DEF sub, b
<1>7. upto = u
  <2>1. CASE at = 0
    <3> DEFINE r == at
    <3>1. r \in Ranks /\ NextGraph(setup.graphs[r], sub, u) /\ u # setup.n_layer - 1
          /\ OwnerOf(setup, u + 1) = r
      <4>1. u # setup.n_layer - 1 /\ OwnerOf(setup, u + 1) = at
        BY <1>2, <1>5, <2>1, WayAt
      <4>. QED
        BY <1>2, <1>5, <1>6, <2>1, <4>1
    <3> HIDE DEF r, g
    <3>2. sub \in 1 .. Len(setup.graphs[r]) /\ setup.graphs[r][sub].first = u + 1
      BY <1>5, <3>1, TurnTaken
    <3>3. sub \in 1 .. Len(g) /\ g[sub].first = u + 1
      BY <1>6, <2>1, <3>2 DEF r
    <3>4. Len(g) \in Nat
      BY <1>2, <1>6 DEF SetupIs, GraphsAre
    <3>5. ~(sub > Len(g))
      BY <3>3, <3>4
    <3>6. g[sub].first - 1 = u
      BY <1>5, <3>3
    <3>. QED
      BY <3>5, <3>6, Zenon
  <2>2. CASE at = ToOutput
    <3>1. u = setup.n_layer - 1 /\ u \in Nat
      BY <1>2, <1>5, <2>2 DEF OnItsWay, SetupIs
    <3>2. g \in Seq([first : LayersOf(setup), last : LayersOf(setup)])
      BY <1>2, <1>6 DEF SetupIs, GraphsAre
    <3> HIDE DEF g
    <3>3. Len(g) \in Nat /\ \A j \in 1 .. Len(g) : g[j].first \in LayersOf(setup)
      BY <3>2, GraphTypes
    <3>4. \A j \in 1 .. Len(g) : g[j].first \in Nat /\ g[j].first <= u
      BY <3>1, <3>3 DEF LayersOf, SetupIs
    <3>5. sub \in 1 .. Len(g) + 1 /\ \A j \in 1 .. Len(g) : ~(j < sub) => g[j].first > u
      BY <1>5 DEF NextGraph
    <3>6. sub > Len(g)
      <4> SUFFICES ASSUME ~(sub > Len(g))
                   PROVE  FALSE
        OBVIOUS
      <4>1. sub \in 1 .. Len(g) /\ ~(sub < sub)
        BY <3>3, <3>5
      <4>. QED
        BY <3>1, <3>4, <3>5, <4>1
    <3>. QED
      BY <3>1, <3>6 DEF n_layer
  <2>. QED
    BY <1>3, <2>1, <2>2
<1>8. b = Tensors(Len(log[0]), dev[0].left, upto)
  <2> HIDE DEF upto
  <2>. QED
    BY <1>7 DEF b, Batch, Announcing
<1>. QED
  BY <1>3, <1>5, <1>8 DEF sub

\* For any number of devices, any windows, layers, batches and calls, as long as no worker gives up
\* waiting for the warm-up: a device that is in recv_meta finds the next announcement in its socket,
\* one that is in recv_tensors finds the tensors it must compute from, and the master finds
\* nothing between two calls, although nothing in a message says what it is.
THEOREM MessagesAreRight == ~SlowMaster => (Spec => []RightMessage)
<1> SUFFICES ASSUME ~SlowMaster
             PROVE  Spec => []RightMessage
  OBVIOUS
<1>1. InStepAlways => RightMessage
  <2> SUFFICES ASSUME InStepAlways
               PROVE  RightMessage
    OBVIOUS
  <2>1. InOrder /\ SetupIs(setup)
    BY DEF InStepAlways
  <2>2. PICK at, u : InStep(at, u)
    BY DEF InStepAlways
  <2>3. ASSUME NEW r \in Others, ring[r] # <<>>
        PROVE  LET m == Head(ring[r])
               IN  /\ dev[r].pc = "meta" => m.kind = "announcement" /\ m.id = Len(log[r]) + 1
                   /\ dev[r].pc = "tensors"
                        => m = Tensors(Len(log[r]), dev[r].left, Graphs(r)[dev[r].sub].first - 1)
    BY <2>1, <2>2, <2>3, WorkersMessage
  <2>4. ring[0] \o direct # <<>>
          => LET g == Graphs(0)
                 upto == IF dev[0].sub > Len(g) THEN n_layer - 1 ELSE g[dev[0].sub].first - 1
             IN  /\ dev[0].pc = "tensors"
                 /\ ring[0] \o direct = <<Tensors(Len(log[0]), dev[0].left, upto)>>
    BY <2>1, <2>2, MastersMessage
  <2>. QED
    BY <2>3, <2>4 DEF RightMessage, Others
<1>2. Spec => []InStepAlways
  BY AlwaysInStep
<1>. QED
  BY <1>1, <1>2, PTL

\* Under the same assumption, a worker that has taken everything the master has announced has the
\* cache of the master, cell for cell: the changes of the cache that come through the ring, the
\* batches it stores on its own and the clearing after the warm-up never let the two drift apart.
THEOREM CachesAreAlike == ~SlowMaster => (Spec => []CachesAgree)
<1> SUFFICES ASSUME ~SlowMaster
             PROVE  Spec => []CachesAgree
  OBVIOUS
<1>1. InStepAlways => CachesAgree
  <2> SUFFICES ASSUME InStepAlways, NEW r \in Workers, dev[0].pc = "ready", log[r] = log[0]
               PROVE  dev[r].cache = dev[0].cache
    BY DEF CachesAgree
  <2> DEFINE d == dev[r]
             m == dev[0]
             l == log[0]
             k == Len(log[r])
  <2>1. PICK at, u : InStep(at, u)
    BY DEF InStepAlways
  <2>2. ~IsDecoding(m)
    BY DEF IsDecoding
  <2>3. WorkerIs(d, Graphs(r), k, m, l, u, setup.warmup)
    BY <2>1 DEF InStep
  <2>4. k = Len(l)
    OBVIOUS
  <2> HIDE DEF d, m, l, k
  <2>5. Waiting(d, k, m, l, setup.warmup)
    BY <2>2, <2>3 DEF WorkerIs
  <2>6. PICK D : ComesTo(D, k, d.cache, m, l)
    BY <2>5 DEF Waiting
  <2>7. D[k] = d.cache /\ D[Len(l)] = m.cache
    BY <2>2, <2>6 DEF ComesTo
  <2>8. d.cache = m.cache
    BY <2>4, <2>7
  <2>. QED
    BY <2>8 DEF d, m
<1>2. Spec => []InStepAlways
  BY AlwaysInStep
<1>. QED
  BY <1>1, <1>2, PTL

\* Under the same assumption, no device ends in the assertion of llama_send_meta: tensors are
\* never taken for an announcement.
THEOREM NobodyAborts == ~SlowMaster => (Spec => []AssertionsHold)
<1> SUFFICES ASSUME ~SlowMaster
             PROVE  Spec => []AssertionsHold
  OBVIOUS
<1>1. InStepAlways => AssertionsHold
  <2> SUFFICES ASSUME InStepAlways, NEW r \in Ranks
               PROVE  dev[r].pc # "aborted"
    BY DEF AssertionsHold
  <2>1. SetupIs(setup)
    BY DEF InStepAlways
  <2>2. PICK at, u : InStep(at, u)
    BY DEF InStepAlways
  <2>3. CASE r = 0
    BY <2>2, <2>3 DEF InStep, MasterIs
  <2>4. CASE r \in Forwarders
    BY <2>2, <2>4 DEF InStep
  <2>5. CASE r \in Workers
    <3>1. WorkerIs(dev[r], Graphs(r), Len(log[r]), dev[0], log[0], u, setup.warmup) /\ DeviceOK(dev[0])
      BY <2>2, <2>5, RankTypes DEF InStep
    <3>2. dev[r].pc \in {"meta", "left", "tensors", "output"}
      BY <3>1, WorkerPc
    <3>. QED
      BY <3>2
  <2>. QED
    BY <2>1, <2>3, <2>4, <2>5, WorkersAndForwarders DEF Others
<1>2. Spec => []InStepAlways
  BY AlwaysInStep
<1>. QED
  BY <1>1, <1>2, PTL

-----------------------------------------------------------------------------
(* The layers are computed in their order                                  *)

LEMMA WorkersTensors ==
  ASSUME InOrder, NEW at, NEW u, InStep(at, u), NEW r \in Others
  PROVE  {m \in ToSet(ring[r]) : m.kind = "tensors"} = IF at = r THEN {Batch(u)} ELSE {}
<1> DEFINE q == ring[r]
           b == Batch(u)
           lo == Len(log[r])
           hi == HandedTo(r)
           t == Held(r, at, b)
<1>1. PICK S : Typed(S) /\ b \in S
  BY TypedWith
<1>2. /\ lo \in Nat /\ hi \in Nat /\ lo <= hi /\ hi <= Announcing /\ Announcing \in Nat /\ q \in Seq(S)
  BY <1>1, QueueBounds DEF InStep, Announcing
<1>3. QueueIs(q, log[0], lo, hi, t)
  BY DEF InStep, Queues
<1>4. b.kind = "tensors"
  BY DEF Batch, Tensors
<1>5. \A k \in 1 .. Announcing : log[0][k].kind = "announcement"
  BY DEF InStep, IsAnnouncement
<1>6. /\ at = r => Len(t) = 1 /\ t[1] = b
      /\ at # r => Len(t) = 0
  <2> HIDE DEF b
  <2>. QED
    BY DEF Held
<1> HIDE DEF q, b, lo, hi, t
<1>7. /\ Len(q) = hi - lo + Len(t) /\ DOMAIN q = 1 .. Len(q) /\ Len(q) \in Nat
      /\ \A i \in 1 .. hi - lo : q[i] = log[0][lo + i]
      /\ \A i \in 1 .. Len(t) : q[hi - lo + i] = t[i]
  BY <1>2, <1>3 DEF QueueIs
<1>8. \A i \in 1 .. hi - lo : q[i].kind # "tensors"
  <2> TAKE i \in 1 .. hi - lo
  <2>1. lo + i \in 1 .. Announcing
    BY <1>2
  <2>2. q[i].kind = "announcement"
    BY <1>5, <1>7, <2>1
  <2>. QED
    BY <2>2
<1>9. CASE at = r
  <2>1. Len(q) = hi - lo + 1
    BY <1>6, <1>7, <1>9
  <2>2. q[hi - lo + 1] = b
    <3>1. 1 \in 1 .. Len(t) /\ t[1] = b
      BY <1>6, <1>9
    <3>. QED
      BY <1>7, <3>1
  <2>3. hi - lo + 1 \in DOMAIN q /\ \A i \in DOMAIN q : i \in 1 .. hi - lo \/ i = hi - lo + 1
    <3>1. hi - lo \in Nat /\ DOMAIN q = 1 .. hi - lo + 1
      BY <1>2, <1>7, <2>1
    <3>. QED
      BY <3>1
  <2>. QED
    BY <1>4, <1>8, <1>9, <2>2, <2>3 DEF ToSet, q, b
<1>10. CASE at # r
  <2>1. \A i \in DOMAIN q : i \in 1 .. hi - lo
    BY <1>2, <1>6, <1>7, <1>10
  <2>. QED
    BY <1>8, <1>10, <2>1 DEF ToSet, q
<1>. QED
  BY <1>9, <1>10

LEMMA InFlightIs ==
  ASSUME InOrder, NEW at, NEW u, InStep(at, u)
  PROVE  InFlight = IF at \in Ranks \cup {ToOutput} THEN {Batch(u)} ELSE {}
<1> DEFINE T(q) == {m \in ToSet(q) : m.kind = "tensors"}
           b == Batch(u)
<1>1. b.kind = "tensors"
  BY DEF Batch, Tensors
<1>2. 0 \in Ranks /\ ToOutput \notin Ranks
  BY RankTypes DEF ToOutput
<1>3. \A r \in Others : T(ring[r]) = IF at = r THEN {b} ELSE {}
  BY WorkersTensors
<1>4. ring[0] = Held(0, at, b) /\ direct = Held(ToOutput, at, b)
  BY DEF InStep, Queues
<1> HIDE DEF b
<1>5. ToSet(<<b>>) = {b} /\ ToSet(<<>>) = {}
  BY DEF ToSet
<1>6. T(ring[0]) = (IF at = 0 THEN {b} ELSE {}) /\ T(direct) = (IF at = ToOutput THEN {b} ELSE {})
  BY <1>1, <1>4, <1>5 DEF Held
<1>7. \A r \in Ranks : T(ring[r]) = IF at = r THEN {b} ELSE {}
  BY <1>3, <1>6 DEF Others
<1>8. InFlight = (UNION {T(ring[r]) : r \in Ranks}) \cup T(direct)
  BY DEF InFlight
<1> HIDE DEF T
<1>9. UNION {T(ring[r]) : r \in Ranks} = IF at \in Ranks THEN {b} ELSE {}
  BY <1>7
<1>. QED
  BY <1>2, <1>6, <1>8, <1>9 DEF b

\* The tensors on their way tell which layers the physical batch has passed.
Together(at, u) == InOrder /\ SetupIs(setup) /\ InStep(at, u)

PassedUpTo(u) ==
  /\ IsDecoding(dev[0]) => u \in -1 .. setup.n_layer - 1
  /\ Passed = IF IsDecoding(dev[0]) THEN u ELSE -1

LEMMA PassedIs ==
  ASSUME NEW at, NEW u, Together(at, u)
  PROVE  PassedUpTo(u)
<1>0. InOrder /\ SetupIs(setup) /\ InStep(at, u)
  BY DEF Together
<1>1. IsDecoding(dev[0]) => Flight(at, u) /\ u \in -1 .. setup.n_layer - 1
  BY <1>0 DEF InStep, Flight, n_layer
<1>2. Batch(u).upto = u
  BY DEF Batch, Tensors
<1>3. InFlight = IF at \in Ranks \cup {ToOutput} THEN {Batch(u)} ELSE {}
  BY <1>0, InFlightIs
<1>4. CASE ~IsDecoding(dev[0])
  <2>1. at \notin Ranks \cup {ToOutput}
    BY <1>0, <1>4, RankTypes DEF InStep, Nowhere, ToOutput
  <2>2. InFlight = {} /\ dev[0].pc # "output"
    BY <1>3, <1>4, <2>1 DEF IsDecoding
  <2>. QED
    BY <1>4, <2>2 DEF Passed, PassedUpTo
<1>5. CASE dev[0].pc = "output"
  <2>1. IsDecoding(dev[0]) /\ at = AtOutput
    BY <1>1, <1>5 DEF IsDecoding, Flight
  <2>2. u = setup.n_layer - 1
    BY <1>1, <2>1, RankTypes DEF Flight, OnItsWay, AtOutput, ToOutput
  <2>. QED
    BY <1>1, <1>5, <2>1, <2>2 DEF Passed, PassedUpTo, n_layer
<1>6. CASE IsDecoding(dev[0]) /\ dev[0].pc # "output"
  <2>1. at \in Ranks \cup {ToOutput}
    <3>1. OnItsWay(setup, at, u) /\ at # AtOutput
      BY <1>1, <1>6 DEF Flight
    <3>. QED
      BY <3>1 DEF OnItsWay
  <2> DEFINE b == Batch(u)
  <2>2. InFlight = {b} /\ b.upto = u
    BY <1>2, <1>3, <2>1
  <2> HIDE DEF b
  <2>3. (CHOOSE m \in InFlight : TRUE) = b /\ InFlight # {}
    BY <2>2
  <2>. QED
    BY <1>1, <1>6, <2>2, <2>3 DEF Passed, PassedUpTo
<1>. QED
  BY <1>4, <1>5, <1>6 DEF IsDecoding

LEMMA PassedNext ==
  ASSUME NEW at, NEW u
  PROVE  Together(at, u)' => PassedUpTo(u)'
<1>1. Together(at, u) => PassedUpTo(u)
  BY PassedIs
<1>. QED
  BY <1>1, PTL

\* For any number of devices, windows and layers, as long as no worker gives up waiting for the
\* warm-up: every step of the devices is one of LayerOrder, or none; a physical batch passes the
\* layers in their order, each of them once, and the output comes behind the last one.
THEOREM LayersInOrder == ~SlowMaster => (Spec => Order!Init /\ [][Order!Next]_(Order!vars))
<1> SUFFICES ASSUME ~SlowMaster
             PROVE  Spec => Order!Init /\ [][Order!Next]_(Order!vars)
  OBVIOUS
<1>1. Init => Order!Init
  <2> SUFFICES ASSUME Init
               PROVE  Order!Init
    OBVIOUS
  <2>1. InOrder /\ SetupIs(setup) /\ InStep(Nowhere, -1)
    BY InitInOrder, InitSetup, InitInStep
  <2>2. ~IsDecoding(dev[0])
    BY <2>1 DEF InStep
  <2>3. Passed = -1
    BY <2>1, <2>2, PassedIs DEF Together, PassedUpTo
  <2>. QED
    BY <2>1, <2>2, <2>3 DEF Order!Init, IsDecoding, SetupIs
<1>2. InStepAlways /\ InStepAlways' /\ [Next]_vars => [Order!Next]_(Order!vars)
  <2> SUFFICES ASSUME InStepAlways, InStepAlways', [Next]_vars
               PROVE  [Order!Next]_(Order!vars)
    OBVIOUS
  <2> DEFINE busy == IsDecoding(dev[0])
  <2>1. PICK at, u : InStep(at, u)
    BY DEF InStepAlways
  <2>2. /\ busy => u \in -1 .. setup.n_layer - 1
        /\ Passed = IF busy THEN u ELSE -1
    BY <2>1, PassedIs DEF InStepAlways, Together, PassedUpTo
  <2>3. PICK to, v : PassesOn(u, v) /\ InStep(to, v)'
    BY <2>1, NextInStep DEF InStepAlways
  <2>4. /\ busy' => v \in -1 .. setup'.n_layer - 1
        /\ Passed' = IF busy' THEN v ELSE -1
    <3>1. Together(to, v)'
      BY <2>3 DEF InStepAlways, Together
    <3>2. PassedUpTo(v)'
      BY <3>1, PassedNext
    <3>. QED
      BY <3>2 DEF PassedUpTo
  <2>5. setup' = setup
    BY SetupStays
  <2>6. \/ (busy' <=> busy) /\ (v = u \/ u < v)
        \/ ~busy /\ (busy' => v = -1)
        \/ busy /\ u = setup.n_layer - 1 /\ (busy' => v = -1)
    BY <2>3 DEF PassesOn
  <2>7. /\ (dev[0].pc \in {"tensors", "output"}) = busy
        /\ (dev'[0].pc \in {"tensors", "output"}) = busy'
    BY DEF IsDecoding
  <2> HIDE DEF busy
  <2>8. CASE ~busy /\ ~busy'
    <3>1. ~(dev[0].pc \in {"tensors", "output"}) /\ ~(dev'[0].pc \in {"tensors", "output"})
      BY <2>8 DEF busy, IsDecoding
    <3>2. (dev'[0].pc \in {"tensors", "output"}) = (dev[0].pc \in {"tensors", "output"})
      BY <3>1
    <3>3. Passed' = Passed /\ setup'.n_layer = setup.n_layer
      BY <2>2, <2>4, <2>5, <2>8
    <3>. QED
      BY <3>2, <3>3 DEF Order!vars
  <2>9. CASE ~busy /\ busy'
    <3>1. v = -1
      BY <2>6, <2>9
    <3>2. Order!Embed
      BY <2>2, <2>4, <2>5, <2>7, <2>9, <3>1 DEF Order!Embed
    <3>. QED
      BY <3>2 DEF Order!Next
  <2>10. CASE busy /\ busy' /\ v = u
    BY <2>2, <2>4, <2>5, <2>7, <2>10 DEF Order!vars
  <2>11. CASE busy /\ busy' /\ u < v
    <3>1. v \in u + 1 .. setup.n_layer - 1
      BY <2>2, <2>4, <2>5, <2>11
    <3>2. Order!Layers
      BY <2>2, <2>4, <2>5, <2>7, <2>11, <3>1 DEF Order!Layers
    <3>. QED
      BY <3>2 DEF Order!Next
  <2>12. CASE busy /\ u = setup.n_layer - 1 /\ (busy' => v = -1)
    <3>1. Passed' = -1
      BY <2>4, <2>12
    <3>2. dev[0].pc \in {"tensors", "output"} /\ (dev'[0].pc \in {"tensors", "output"}) \in BOOLEAN
      BY <2>12 DEF busy, IsDecoding
    <3>3. Passed = setup.n_layer - 1 /\ setup'.n_layer = setup.n_layer
      BY <2>2, <2>5, <2>12
    <3>4. Order!Output
      BY <3>1, <3>2, <3>3 DEF Order!Output
    <3>. QED
      BY <3>4 DEF Order!Next
  <2>. QED
    BY <2>6, <2>8, <2>9, <2>10, <2>11, <2>12
<1>3. Spec => []InStepAlways
  BY AlwaysInStep
<1>. QED
  BY <1>1, <1>2, <1>3, PTL DEF Spec

-----------------------------------------------------------------------------
(* The types                                                               *)
(*                                                                         *)
(* Here the devices need not keep their step: whatever a worker takes for  *)
(* an announcement, it stays what a device can be.                         *)

\* What can be announced, and what can be on its way.  A batch has no more tokens than the master's
\* largest input, or the two of the warm-up.
Contents ==
  [op : {"rm"}, seq : Int, p0 : Int, p1 : Int] \cup [op : {"keep"}, seq : Int]
    \cup [op : {"add"}, seq : Int, p0 : Int, p1 : Int, delta : Int]
    \cup [op : {"cp"}, src : Int, dst : Int, p0 : Int, p1 : Int]
    \cup [op : {"meta"}, n : Nat \ {0}, p0 : Nat]

Fits(c) == c \in Contents /\ (c.op = "meta" => c.n <= MaxInput + 1)
Sent    == {m \in AnnouncementMsgs : Fits(m.c)}
OnRing  == Sent \cup TensorMsgs

\* All tokens are alike here, so that there is one: token 0.
DeviceSound(d) == DeviceOK(d) /\ d.pos \in Nat /\ Sound(d.cache, 1)

PcsOf(s, r) ==
  IF r = 0 THEN {"ready", "output", "failed", "stopping", "tensors", "left"}
  ELSE IF s.window[r] = 0 THEN {"forward", "left"} ELSE {"meta", "tensors", "aborted", "left"}

\* A worker that computes is at one of its sub-graphs.
DeviceFits(s, r, d) ==
  /\ DeviceSound(d) /\ d.left <= MaxInput /\ d.sub \in 1 .. s.n_layer + 1
  /\ d.pc \in PcsOf(s, r) /\ (r # 0 /\ d.pc = "tensors" => d.sub \in 1 .. Len(s.graphs[r]))

DevicesFit == dev = [r \in Ranks |-> dev[r]] /\ \A r \in Ranks : DeviceFits(setup, r, dev[r])
QueuesFit  == /\ log \in [Ranks -> Seq(Sent)] /\ ring \in [Ranks -> Seq(OnRing)]
              /\ direct \in Seq(TensorMsgs)
CountsFit  == n_past \in Nat /\ calls \in 0 .. MaxCalls /\ stop_at \in Ranks \cup {None}

TypeInv == SetupIs(setup) /\ DevicesFit /\ QueuesFit /\ CountsFit

\* A change of the cache keeps it sound.
LEMMA TookCacheSound ==
  ASSUME NEW t \in Nat, NEW cache, Sound(cache, t), NEW c \in Contents
  PROVE  Sound(TookCache(cache, c), t)
<1>1. CASE c \in [op : {"rm"}, seq : Int, p0 : Int, p1 : Int]
  <2>1. TookCache(cache, c) = SeqRm(cache, c.seq, c.p0, c.p1)
    BY <1>1 DEF TookCache
  <2>2. c.seq \in Int /\ c.p0 \in Int /\ c.p1 \in Int
    BY <1>1
  <2>3. Sound(SeqRm(cache, c.seq, c.p0, c.p1), t)
    BY <2>2, SeqRmIs
  <2>. QED
    BY <2>1, <2>3
<1>2. CASE c \in [op : {"keep"}, seq : Int]
  <2>1. TookCache(cache, c) = SeqKeep(cache, c.seq)
    BY <1>2 DEF TookCache
  <2>2. c.seq \in Int
    BY <1>2
  <2>3. Sound(SeqKeep(cache, c.seq), t)
    BY <2>2, SeqKeepIs
  <2>. QED
    BY <2>1, <2>3
<1>3. CASE c \in [op : {"add"}, seq : Int, p0 : Int, p1 : Int, delta : Int]
  <2>1. TookCache(cache, c) = SeqAdd(cache, c.seq, c.p0, c.p1, c.delta)
    BY <1>3 DEF TookCache
  <2>2. CASE c.delta = 0 \/ EmptyRange(c.p0, c.p1)
    BY <2>1, <2>2 DEF SeqAdd
  <2>3. CASE ~(c.delta = 0 \/ EmptyRange(c.p0, c.p1))
    <3>1. c.seq \in Int /\ c.p0 \in Int /\ c.p1 \in Int /\ c.delta \in Int
      BY <1>3
    <3>2. Sound(SeqAdd(cache, c.seq, c.p0, c.p1, c.delta), t)
      BY <2>3, <3>1, SeqAddIs
    <3>. QED
      BY <2>1, <3>2
  <2>. QED
    BY <2>2, <2>3
<1>4. CASE c \in [op : {"cp"}, src : Int, dst : Int, p0 : Int, p1 : Int]
  <2>1. TookCache(cache, c) = SeqCp(cache, c.src, c.dst, c.p0, c.p1)
    BY <1>4 DEF TookCache
  <2>2. CASE c.src = c.dst
    BY <2>1, <2>2 DEF SeqCp
  <2>3. CASE c.src # c.dst
    <3>1. c.src \in Int /\ c.dst \in Int /\ c.p0 \in Int /\ c.p1 \in Int
      BY <1>4
    <3>2. Sound(SeqCp(cache, c.src, c.dst, c.p0, c.p1), t)
      BY <2>3, <3>1, SeqCpIs
    <3>. QED
      BY <2>1, <3>2
  <2>. QED
    BY <2>2, <2>3
<1>5. CASE c \in [op : {"meta"}, n : Nat \ {0}, p0 : Nat]
  <2>1. c.op = "meta"
    BY <1>5
  <2>. QED
    BY <2>1, TookCacheMeta
<1>. QED
  BY <1>1, <1>2, <1>3, <1>4, <1>5 DEF Contents

LEMMA MetaContents ==
  ASSUME NEW c, Fits(c), c.op = "meta"
  PROVE  c.n \in Nat \ {0} /\ c.n <= MaxInput + 1 /\ c.p0 \in Nat
BY DEF Fits, Contents

LEMMA TookFits ==
  ASSUME NEW d, DeviceSound(d), d.left <= MaxInput + 1, NEW c, Fits(c)
  PROVE  LET e == Took(d, c)
         IN  /\ DeviceSound(e) /\ e.left <= MaxInput + 1
             /\ e.pc = d.pc /\ e.sub = d.sub /\ e.warm = d.warm /\ e.stop = d.stop
<1> DEFINE e == Took(d, c)
<1>1. DeviceOK(d) /\ d.pos \in Nat /\ Sound(d.cache, 1)
  BY DEF DeviceSound
<1>2. c.op = "meta" => c.n \in Nat \ {0} /\ c.n <= MaxInput + 1 /\ c.p0 \in Nat
  BY MetaContents
<1>3. /\ DeviceOK(e) /\ e.pc = d.pc /\ e.warm = d.warm /\ e.stop = d.stop /\ e.sub = d.sub
      /\ e.cache = TookCache(d.cache, c)
      /\ c.op = "meta" => e.left = c.n /\ e.pos = c.p0
      /\ c.op # "meta" => e.left = d.left /\ e.pos = d.pos
  BY <1>1, <1>2, TookFields
<1>4. Sound(e.cache, 1)
  <2>1. 1 \in Nat /\ c \in Contents
    BY DEF Fits
  <2>2. Sound(TookCache(d.cache, c), 1)
    BY <1>1, <2>1, TookCacheSound
  <2>. QED
    BY <1>3, <2>2
<1> HIDE DEF e
<1>5. e.pos \in Nat /\ e.left <= MaxInput + 1
  BY <1>1, <1>2, <1>3
<1>. QED
  BY <1>3, <1>4, <1>5 DEF DeviceSound, e

\* A physical batch of some tokens that is tried keeps the cache sound.
LEMMA TriedSound ==
  ASSUME NEW t \in Nat \ {0}, NEW cache, Sound(cache, t), NEW n \in Nat \ {0}, NEW p \in Nat
  PROVE  Tried(cache, n, p).ok \in BOOLEAN /\ Sound(Tried(cache, n, p).cache, t)
<1> DEFINE c == Update(cache, 0)
           b == Tokens0(n, p)
           z == UbatchSize(n)
<1>1. Sound(c, t) /\ c.has_shift = FALSE
  BY UpdateIs
<1>2. z \in Nat \ {0}
  BY RingAssumption DEF UbatchSize
<1>3. Len(b) = z /\ \A k \in 1 .. z : b[k] = [tok |-> 0, pos |-> p + k - 1, seq |-> 0]
  <2> HIDE DEF z
  <2>1. b = [k \in 1 .. z |-> [tok |-> 0, pos |-> p + k - 1, seq |-> 0]]
    BY DEF Tokens0, z
  <2>. QED
    BY <1>2, <2>1
<1>4. NewTokens(b, t)
  <2> HIDE DEF b, z
  <2>1. ASSUME NEW k \in 1 .. z
        PROVE  b[k].tok = 0 /\ b[k].pos = p + k - 1 /\ b[k].seq = 0
    BY <1>3
  <2>. QED
    BY <1>2, <1>3, <2>1 DEF NewTokens
<1>5. Tried(cache, n, p) = Store(c, b)
  BY DEF Tried
<1>6. t \in Nat
  OBVIOUS
<1> HIDE DEF b, c
<1>7. Store(c, b).ok \in BOOLEAN /\ Sound(Store(c, b).cache, t)
  BY <1>1, <1>4, <1>6, StoreIs
<1>. QED
  BY <1>5, <1>7

\* A device has at most as many sub-graphs as there are layers.
LEMMA GraphsFit ==
  ASSUME NEW s, SetupIs(s), NEW r \in Ranks
  PROVE  LET g == s.graphs[r]
         IN  /\ Len(g) \in Nat /\ Len(g) <= s.n_layer
             /\ \A j \in 1 .. Len(g) : g[j].first \in Nat /\ g[j].last \in Nat
             /\ r # 0 /\ s.window[r] > 0 => 1 \in 1 .. Len(g)
<1> DEFINE g == s.graphs[r]
           L == LayersOf(s)
           n == s.n_layer
<1>1. /\ g \in Seq([first : L, last : L]) /\ n \in Nat /\ n > 0
      /\ \A i, j \in 1 .. Len(g) : i < j => g[i].last < g[j].first
      /\ \A j \in 1 .. Len(g) : g[j].first <= g[j].last
      /\ r # 0 /\ s.window[r] > 0 => Len(g) > 0
  BY DEF SetupIs, GraphsAre
<1>2. L = 0 .. n - 1
  BY DEF LayersOf
<1> HIDE DEF g, L, n
<1>3. Len(g) \in Nat /\ \A j \in 1 .. Len(g) : g[j].first \in L /\ g[j].last \in L
  BY <1>1, GraphTypes
<1>4. \A j \in 1 .. Len(g) : g[j].first \in 0 .. n - 1 /\ g[j].last \in 0 .. n - 1
  BY <1>2, <1>3
<1> DEFINE T == {k \in Nat : k + 1 <= Len(g) => g[k + 1].last >= k}
<1>5. \A k \in Nat : k \in T
  <2>1. 0 \in T
    BY <1>1, <1>4
  <2>2. ASSUME NEW k \in Nat, k \in T
        PROVE  k + 1 \in T
    <3> SUFFICES ASSUME k + 1 + 1 <= Len(g)
                 PROVE  g[k + 1 + 1].last >= k + 1
      OBVIOUS
    <3> DEFINE i == k + 1
               j == k + 1 + 1
    <3>1. i \in 1 .. Len(g) /\ j \in 1 .. Len(g) /\ i < j /\ g[i].last >= k
      BY <1>3, <2>2
    <3>2. g[i].last < g[j].first /\ g[j].first <= g[j].last
      BY <1>1, <3>1
    <3>3. g[i].last \in Int /\ g[j].first \in Int /\ g[j].last \in Int
      BY <1>1, <1>4, <3>1
    <3> HIDE DEF i, j
    <3>4. g[j].last >= k + 1
      BY <3>1, <3>2, <3>3
    <3>. QED
      BY <3>4 DEF j
  <2> HIDE DEF T
  <2>. QED
    BY <2>1, <2>2, NatSetInduction
<1>6. Len(g) <= n
  <2> SUFFICES ASSUME Len(g) > 0
               PROVE  Len(g) <= n
    BY <1>1, <1>3
  <2> DEFINE k == Len(g) - 1
  <2>1. k \in Nat /\ k + 1 = Len(g) /\ k + 1 \in 1 .. Len(g)
    BY <1>3
  <2>2. g[k + 1].last >= k
    BY <1>5, <2>1
  <2>3. g[k + 1].last \in 0 .. n - 1
    BY <1>4, <2>1
  <2> HIDE DEF k
  <2>. QED
    BY <1>1, <2>1, <2>2, <2>3
<1>7. \A j \in 1 .. Len(g) : g[j].first \in Nat /\ g[j].last \in Nat
  BY <1>1, <1>4
<1>8. r # 0 /\ s.window[r] > 0 => 1 \in 1 .. Len(g)
  BY <1>1, <1>3
<1>. QED
  BY <1>3, <1>6, <1>7, <1>8 DEF g, n

\* A device whose llama_decode is back, or that begins the next physical batch.
LEMMA ReturnedFits ==
  ASSUME NEW d, DeviceSound(d), NEW r
  PROVE  LET e == Returned(r, d)
         IN  /\ DeviceSound(e) /\ e.left = 0 /\ e.sub = d.sub
             /\ e.pc \in IF r = 0 THEN {"ready", "failed"} ELSE {"meta", "left"}
<1> DEFINE e == Returned(r, d)
           pc == PcReturned(r, d)
           c == BackCache(d.warm, d.cache)
           no == FALSE
           z == 0
<1>1. DeviceOK(d) /\ d.pos \in Nat /\ Sound(d.cache, 1)
  BY DEF DeviceSound
<1>2. IsDevice(d) /\ d.warm \in BOOLEAN /\ d.stop \in BOOLEAN
  BY <1>1 DEF DeviceOK
<1>3. e = Device7(pc, no, d.stop, d.sub, z, d.pos, c)
  BY <1>2, ReturnedIs
<1>4. pc \in IF r = 0 THEN {"ready", "failed"} ELSE {"meta", "left"}
  BY DEF PcReturned, BackPc
<1>5. Sound(c, 1)
  <2>1. 1 \in Nat
    OBVIOUS
  <2>2. Sound(Cleared(d.cache), 1)
    BY <1>1, <2>1, ClearedIs
  <2>. QED
    BY <1>1, <2>2 DEF BackCache
<1>6. no \in BOOLEAN /\ z \in Nat
  OBVIOUS
<1> HIDE DEF e, pc, c, no, z
<1>7. /\ IsDevice(e) /\ e.pc = pc /\ e.warm = no /\ e.stop = d.stop /\ e.sub = d.sub
      /\ e.left = z /\ e.pos = d.pos /\ e.cache = c
  BY <1>3, FieldsOf
<1>8. DeviceSound(e)
  BY <1>1, <1>2, <1>5, <1>6, <1>7 DEF DeviceSound, DeviceOK
<1>. QED
  BY <1>4, <1>7, <1>8 DEF e, z

LEMMA StartedFits ==
  ASSUME NEW d, DeviceSound(d), d.left # 0, d.left <= MaxInput + 1
  PROVE  LET e == StartUbatch(d)
         IN  DeviceSound(e) /\ e.left <= MaxInput /\ e.sub = 1 /\ e.pc \in {"tensors", "failed"}
<1> DEFINE t == Tried(d.cache, d.left, d.pos)
           n == UbatchSize(d.left)
           e == Started(d)
<1>1. DeviceOK(d) /\ d.pos \in Nat /\ Sound(d.cache, 1)
  BY DEF DeviceSound
<1>2. IsDevice(d) /\ d.warm \in BOOLEAN /\ d.stop \in BOOLEAN /\ d.left \in Nat \ {0}
  BY <1>1 DEF DeviceOK
<1>3. StartUbatch(d) = e
  BY <1>2, StartedIs
<1>4. t.ok \in BOOLEAN /\ Sound(t.cache, 1)
  <2>1. 1 \in Nat \ {0}
    OBVIOUS
  <2>. QED
    BY <1>1, <1>2, <2>1, TriedSound
<1>5. n \in Nat /\ n > 0 /\ n <= d.left
  BY <1>2, RingAssumption DEF UbatchSize
<1>6. /\ IsDevice(e) /\ e.pc = IF t.ok THEN "tensors" ELSE "failed"
      /\ e.warm = d.warm /\ e.stop = d.stop /\ e.sub = 1
      /\ e.left = d.left - n /\ e.pos = d.pos + n /\ e.cache = t.cache
  BY StartedFields
<1> HIDE DEF e, t, n
<1>7. e.left \in Nat /\ e.left <= MaxInput /\ e.pos \in Nat
  BY <1>1, <1>2, <1>5, <1>6, RingAssumption
<1>8. DeviceSound(e) /\ e.sub = 1 /\ e.pc \in {"tensors", "failed"}
  BY <1>2, <1>4, <1>6, <1>7 DEF DeviceSound, DeviceOK
<1>. QED
  BY <1>3, <1>7, <1>8

LEMMA NextUbatchFits ==
  ASSUME NEW d, DeviceSound(d), d.left <= MaxInput + 1, NEW r
  PROVE  LET e == NextUbatch(r, d)
         IN  /\ DeviceSound(e) /\ e.left <= MaxInput /\ e.sub \in {1, d.sub}
             /\ e.pc \in IF r = 0 THEN {"ready", "failed", "tensors"} ELSE {"meta", "left", "tensors"}
             /\ e.pc = "tensors" => e.sub = 1
<1> DEFINE e == NextUbatch(r, d)
           s == StartUbatch(d)
           x == IF d.left = 0 THEN d ELSE s
<1>1. d.left # 0 => DeviceSound(s) /\ s.left <= MaxInput /\ s.sub = 1 /\ s.pc \in {"tensors", "failed"}
  BY StartedFits
<1>2. CASE d.left # 0 /\ s.pc # "failed"
  <2>1. e = s
    BY <1>2 DEF NextUbatch
  <2>. QED
    BY <1>1, <1>2, <2>1
<1>3. CASE d.left = 0 \/ s.pc = "failed"
  <2>1. e = Returned(r, x)
    BY <1>3 DEF NextUbatch
  <2>2. DeviceSound(x) /\ x.sub \in {1, d.sub}
    BY <1>1
  <2> HIDE DEF e, x
  <2>3. /\ DeviceSound(e) /\ e.left = 0 /\ e.sub = x.sub
        /\ e.pc \in IF r = 0 THEN {"ready", "failed"} ELSE {"meta", "left"}
    BY <2>1, <2>2, ReturnedFits
  <2>4. 0 <= MaxInput
    BY RingAssumption
  <2>. QED
    BY <2>2, <2>3, <2>4 DEF e
<1>. QED
  BY <1>2, <1>3

\* What is sent is what can be sent.
LEMMA MessagesFit ==
  /\ \A id \in Nat \ {0} : \A c : Fits(c) => Announced(id, c) \in Sent
  /\ \A id, left \in Nat, upto \in Int : Tensors(id, left, upto) \in TensorMsgs
  /\ \A m \in OnRing : m.kind = "announcement" => m \in Sent /\ Fits(m.c)
  /\ \A m \in OnRing : m.kind = "tensors" => m.id \in Nat /\ m.left \in Nat
<1>1. ASSUME NEW id \in Nat \ {0}, NEW c, Fits(c)
      PROVE  Announced(id, c) \in Sent
  <2>1. c \in Contents
    BY <1>1 DEF Fits
  <2>2. AnnouncementMsgs = [kind : {"announcement"}, id : Nat \ {0}, c : Contents]
    BY DEF AnnouncementMsgs, Contents
  <2>3. Announced(id, c) \in AnnouncementMsgs /\ Announced(id, c).c = c
    BY <2>1, <2>2 DEF Announced
  <2>. QED
    BY <1>1, <2>3 DEF Sent
<1>2. ASSUME NEW id \in Nat, NEW left \in Nat, NEW upto \in Int
      PROVE  Tensors(id, left, upto) \in TensorMsgs
  BY DEF Tensors, TensorMsgs
<1>3. \A m \in TensorMsgs : m.kind = "tensors" /\ m.id \in Nat /\ m.left \in Nat
  BY DEF TensorMsgs
<1>4. \A m \in Sent : m.kind = "announcement" /\ Fits(m.c)
  BY DEF Sent, AnnouncementMsgs
<1>5. "announcement" # "tensors"
  OBVIOUS
<1>. QED
  BY <1>1, <1>2, <1>3, <1>4, <1>5 DEF OnRing

LEMMA ThroughFits ==
  ASSUME NEW m \in OnRing, NEW g, g.last \in Int
  PROVE  Through(g, m) \in TensorMsgs
BY MessagesFit DEF Through, None

LEMMA EmbeddedFits ==
  ASSUME NEW d, DeviceSound(d), NEW id \in Nat
  PROVE  Embedded(d, id) \in Seq(OnRing)
<1> DEFINE m == Tensors(id, d.left, -1)
<1>1. m \in OnRing
  <2>1. d.left \in Nat /\ -1 \in Int
    BY DEF DeviceSound, DeviceOK
  <2>. QED
    BY <2>1, MessagesFit DEF OnRing
<1> HIDE DEF m
<1>2. <<m>> \in Seq(OnRing) /\ <<>> \in Seq(OnRing)
  BY <1>1
<1>. QED
  BY <1>2 DEF Embedded, m

\* One device changes.
LEMMA OneFits ==
  ASSUME SetupIs(setup), DevicesFit, setup' = setup, NEW r \in Ranks, NEW x, DeviceFits(setup, r, x),
         dev' = [dev EXCEPT ![r] = x]
  PROVE  DevicesFit'
<1>1. dev = [q \in Ranks |-> dev[q]]
  BY DEF DevicesFit
<1>2. /\ dev'[r] = x /\ \A q \in Ranks : q # r => dev'[q] = dev[q]
      /\ dev' = [q \in Ranks |-> dev'[q]]
  BY <1>1, OneDevice
<1>3. ASSUME NEW q \in Ranks
      PROVE  DeviceFits(setup, q, dev'[q])
  BY <1>2 DEF DevicesFit
<1>. QED
  BY <1>2, <1>3 DEF DevicesFit

LEMMA NoneFits ==
  ASSUME DevicesFit, setup' = setup, dev' = dev
  PROVE  DevicesFit'
BY DEF DevicesFit

LEMMA SameQueuesFit ==
  ASSUME QueuesFit, UNCHANGED <<log, ring, direct>>
  PROVE  QueuesFit'
BY DEF QueuesFit

LEMMA SameCountsFit ==
  ASSUME CountsFit, UNCHANGED <<n_past, calls, stop_at>>
  PROVE  CountsFit'
BY DEF CountsFit

\* Device r takes a message, and the next one gets it, or what is made of it, or nothing.
LEMMA QueuePassedFits ==
  ASSUME QueuesFit, NEW r \in Others, ring[r] # <<>>, NEW m, NEW on \in BOOLEAN, on => m \in OnRing,
         ring' = [ring EXCEPT ![r] = Tail(@), ![NextRank(r)] = IF on THEN Append(@, m) ELSE @]
  PROVE  ring' \in [Ranks -> Seq(OnRing)] /\ Head(ring[r]) \in OnRing
<1> DEFINE n == NextRank(r)
<1>1. n \in Ranks /\ n # r /\ r \in Ranks
  BY RankFacts DEF Others
<1>2. ring \in [Ranks -> Seq(OnRing)] /\ ring[r] \in Seq(OnRing) /\ ring[n] \in Seq(OnRing)
  BY <1>1 DEF QueuesFit
<1> HIDE DEF n
<1>3. Tail(ring[r]) \in Seq(OnRing) /\ Head(ring[r]) \in OnRing
  BY <1>2, TailFacts
<1> DEFINE y == IF on THEN Append(ring[n], m) ELSE ring[n]
<1>4. y \in Seq(OnRing)
  BY <1>2
<1>5. ring' = [ring EXCEPT ![r] = Tail(ring[r]), ![n] = y]
  BY <1>1, <1>2 DEF n
<1> HIDE DEF y
<1>. QED
  BY <1>1, <1>2, <1>3, <1>4, <1>5

LEMMA LoggedFits ==
  ASSUME QueuesFit, NEW r \in Ranks, NEW m \in OnRing, log' = [log EXCEPT ![r] = Logged(@, m)]
  PROVE  log' \in [Ranks -> Seq(Sent)]
<1>1. log \in [Ranks -> Seq(Sent)] /\ log[r] \in Seq(Sent)
  BY DEF QueuesFit
<1>2. Logged(log[r], m) \in Seq(Sent)
  <2>1. m.kind = "announcement" => m \in Sent
    BY MessagesFit
  <2>2. CASE m.kind = "announcement"
    <3>1. Append(log[r], m) \in Seq(Sent)
      BY <1>1, <2>1, <2>2, AppendFacts
    <3>. QED
      BY <2>2, <3>1 DEF Logged
  <2>3. CASE m.kind # "announcement"
    BY <1>1, <2>3 DEF Logged
  <2>. QED
    BY <2>2, <2>3
<1>. QED
  BY <1>1, <1>2

\* A device by its rank: what it is, and where it can be.
LEMMA WorkerKinds ==
  ASSUME TypeInv, NEW r \in Others
  PROVE  /\ r \in Ranks /\ r # 0 /\ DeviceFits(setup, r, dev[r]) /\ DeviceSound(dev[r])
         /\ dev[r].left <= MaxInput /\ dev[r].left <= MaxInput + 1 /\ dev[r].sub \in 1 .. setup.n_layer + 1
         /\ dev[r].pc \in {"meta", "tensors"} => setup.window[r] > 0 /\ 1 \in 1 .. Len(setup.graphs[r])
         /\ setup.window[r] > 0 => PcsOf(setup, r) = {"meta", "tensors", "aborted", "left"}
         /\ setup.n_layer \in Nat
<1>1. SetupIs(setup) /\ DeviceFits(setup, r, dev[r]) /\ r \in Ranks /\ r # 0
  BY DEF TypeInv, DevicesFit, Others
<1>2. setup.n_layer \in Nat /\ setup.window[r] \in Nat
  BY <1>1 DEF SetupIs
<1>3. /\ DeviceSound(dev[r]) /\ dev[r].left <= MaxInput /\ dev[r].sub \in 1 .. setup.n_layer + 1
      /\ dev[r].pc \in PcsOf(setup, r) /\ dev[r].left \in Nat
  BY <1>1 DEF DeviceFits, DeviceSound, DeviceOK
<1>4. dev[r].pc \in {"meta", "tensors"} => setup.window[r] > 0
  BY <1>1, <1>2, <1>3 DEF PcsOf
<1>5. setup.window[r] > 0 => 1 \in 1 .. Len(setup.graphs[r])
  BY <1>1, GraphsFit
<1>6. setup.window[r] > 0 => PcsOf(setup, r) = {"meta", "tensors", "aborted", "left"}
  BY <1>1, <1>2 DEF PcsOf
<1>7. dev[r].left <= MaxInput + 1
  BY <1>3, RingAssumption
<1>. QED
  BY <1>1, <1>2, <1>3, <1>4, <1>5, <1>6, <1>7

\* What a worker becomes when it begins the next physical batch, or is back.
LEMMA WorkerOnwardFits ==
  ASSUME TypeInv, NEW r \in Others, setup.window[r] > 0, NEW d, DeviceSound(d), d.left <= MaxInput + 1,
         d.sub \in 1 .. setup.n_layer + 1
  PROVE  DeviceFits(setup, r, NextUbatch(r, d)) /\ DeviceFits(setup, r, Returned(r, d))
<1>1. /\ r # 0 /\ r \in Ranks /\ SetupIs(setup) /\ setup.n_layer \in Nat /\ setup.n_layer > 0
      /\ PcsOf(setup, r) = {"meta", "tensors", "aborted", "left"}
  BY WorkerKinds DEF TypeInv, SetupIs
<1>2. 1 \in 1 .. Len(setup.graphs[r])
  BY <1>1, GraphsFit
<1>3. 1 \in 1 .. setup.n_layer + 1 /\ 0 <= MaxInput
  BY <1>1, RingAssumption
<1> DEFINE e == NextUbatch(r, d)
           b == Returned(r, d)
<1>4. /\ DeviceSound(e) /\ e.left <= MaxInput /\ e.sub \in {1, d.sub}
      /\ e.pc \in IF r = 0 THEN {"ready", "failed", "tensors"} ELSE {"meta", "left", "tensors"}
      /\ e.pc = "tensors" => e.sub = 1
  BY NextUbatchFits
<1>5. /\ DeviceSound(b) /\ b.left = 0 /\ b.sub = d.sub
      /\ b.pc \in IF r = 0 THEN {"ready", "failed"} ELSE {"meta", "left"}
  BY ReturnedFits
<1> HIDE DEF e, b
<1>6. DeviceFits(setup, r, e)
  BY <1>1, <1>2, <1>3, <1>4 DEF DeviceFits
<1>7. DeviceFits(setup, r, b)
  BY <1>1, <1>3, <1>5 DEF DeviceFits
<1>. QED
  BY <1>6, <1>7 DEF e, b

LEMMA ReceiveFits ==
  ASSUME TypeInv, NEW r \in Others, ReceiveMeta(r)
  PROVE  TypeInv'
<1> DEFINE m == Head(ring[r])
           known == m.kind = "announcement"
           last == IsLastDev(r)
           a == [dev[r] EXCEPT !.pc = "aborted"]
           d == IF known THEN NextUbatch(r, Took(dev[r], m.c))
                ELSE IF last THEN Returned(r, dev[r]) ELSE a
<1>1. /\ dev[r].pc = "meta" /\ ring[r] # <<>> /\ dev' = [dev EXCEPT ![r] = d]
      /\ log' = [log EXCEPT ![r] = Logged(@, m)]
      /\ ring' = [ring EXCEPT ![r] = Tail(@), ![NextRank(r)] = IF last \/ ~known THEN @ ELSE Append(@, m)]
      /\ UNCHANGED <<setup, direct, n_past, calls, stop_at>>
  BY DEF ReceiveMeta
<1>2. SetupIs(setup) /\ DevicesFit /\ QueuesFit /\ CountsFit
  BY DEF TypeInv
<1>3. /\ r \in Ranks /\ r # 0 /\ DeviceSound(dev[r]) /\ dev[r].left <= MaxInput
      /\ dev[r].left <= MaxInput + 1 /\ dev[r].sub \in 1 .. setup.n_layer + 1 /\ setup.window[r] > 0
      /\ PcsOf(setup, r) = {"meta", "tensors", "aborted", "left"}
  BY <1>1, WorkerKinds
<1> DEFINE on == ~last /\ known
<1>4. m \in OnRing
  <2>1. ring[r] \in Seq(OnRing)
    BY <1>2, <1>3 DEF QueuesFit
  <2>. QED
    BY <1>1, <2>1, TailFacts
<1>5. ring' \in [Ranks -> Seq(OnRing)]
  <2> HIDE DEF m, last
  <2>1. ring' = [ring EXCEPT ![r] = Tail(@), ![NextRank(r)] = IF on THEN Append(@, m) ELSE @]
    BY <1>1
  <2>2. on \in BOOLEAN
    OBVIOUS
  <2> HIDE DEF on
  <2>. QED
    BY <1>1, <1>2, <1>4, <2>1, <2>2, QueuePassedFits
<1>6. log' \in [Ranks -> Seq(Sent)]
  BY <1>1, <1>2, <1>3, <1>4, LoggedFits
<1>7. DeviceFits(setup, r, d)
  <2>1. CASE known
    <3> DEFINE t == Took(dev[r], m.c)
    <3>1. Fits(m.c)
      BY <1>4, <2>1, MessagesFit
    <3>2. DeviceSound(t) /\ t.left <= MaxInput + 1 /\ t.sub = dev[r].sub
      BY <1>3, <3>1, TookFits
    <3>3. d = NextUbatch(r, t)
      BY <2>1
    <3> HIDE DEF t, d
    <3>4. t.sub \in 1 .. setup.n_layer + 1
      BY <1>3, <3>2
    <3>. QED
      BY <1>3, <3>2, <3>3, <3>4, WorkerOnwardFits
  <2>2. CASE ~known /\ last
    <3>1. d = Returned(r, dev[r])
      BY <2>2
    <3> HIDE DEF d
    <3>. QED
      BY <1>3, <3>1, WorkerOnwardFits
  <2>3. CASE ~known /\ ~last
    <3> DEFINE x == dev[r]
    <3>1. IsDevice(x)
      BY <1>3 DEF DeviceSound, DeviceOK
    <3> HIDE DEF x
    <3>2. [x EXCEPT !.pc = "aborted"] = Device7("aborted", x.warm, x.stop, x.sub, x.left, x.pos, x.cache)
      BY <3>1, PcForm
    <3>3. d = Device7("aborted", x.warm, x.stop, x.sub, x.left, x.pos, x.cache)
      BY <2>3, <3>2 DEF x
    <3> HIDE DEF d
    <3>4. /\ IsDevice(d) /\ d.pc = "aborted" /\ d.warm = x.warm /\ d.stop = x.stop /\ d.sub = x.sub
          /\ d.left = x.left /\ d.pos = x.pos /\ d.cache = x.cache
      BY <3>3, FieldsOf
    <3>5. DeviceSound(d) /\ d.left <= MaxInput /\ d.sub \in 1 .. setup.n_layer + 1 /\ d.pc = "aborted"
      BY <1>3, <3>4 DEF DeviceSound, DeviceOK, x
    <3>. QED
      BY <1>3, <3>5 DEF DeviceFits
  <2>. QED
    BY <2>1, <2>2, <2>3
<1> HIDE DEF d
<1>8. DevicesFit'
  BY <1>1, <1>2, <1>3, <1>7, OneFits
<1>9. QueuesFit'
  BY <1>1, <1>2, <1>5, <1>6 DEF QueuesFit
<1>10. CountsFit'
  BY <1>1, <1>2, SameCountsFit
<1>. QED
  BY <1>1, <1>2, <1>8, <1>9, <1>10 DEF TypeInv

LEMMA TimeoutFits ==
  ASSUME TypeInv, NEW r \in Others, Timeout(r)
  PROVE  TypeInv'
<1> DEFINE d == Returned(r, dev[r])
<1>1. /\ dev[r].pc = "meta" /\ dev' = [dev EXCEPT ![r] = d]
      /\ UNCHANGED <<setup, log, ring, direct, n_past, calls, stop_at>>
  BY DEF Timeout
<1>2. SetupIs(setup) /\ DevicesFit /\ QueuesFit /\ CountsFit
  BY DEF TypeInv
<1>3. /\ r \in Ranks /\ DeviceSound(dev[r]) /\ dev[r].left <= MaxInput + 1
      /\ dev[r].sub \in 1 .. setup.n_layer + 1 /\ setup.window[r] > 0
  BY <1>1, WorkerKinds
<1>4. DeviceFits(setup, r, d)
  BY <1>3, WorkerOnwardFits
<1> HIDE DEF d
<1>5. DevicesFit'
  BY <1>1, <1>2, <1>3, <1>4, OneFits
<1>6. QueuesFit' /\ CountsFit'
  BY <1>1, <1>2, SameQueuesFit, SameCountsFit
<1>. QED
  BY <1>1, <1>2, <1>5, <1>6 DEF TypeInv

LEMMA ForwardFits ==
  ASSUME TypeInv, NEW r \in Others, Forward(r)
  PROVE  TypeInv'
<1> DEFINE m == Head(ring[r])
           on == TRUE
<1>1. /\ ring[r] # <<>> /\ log' = [log EXCEPT ![r] = Logged(@, m)]
      /\ ring' = [ring EXCEPT ![r] = Tail(@), ![NextRank(r)] = Append(@, m)]
      /\ UNCHANGED <<setup, dev, direct, n_past, calls, stop_at>>
  BY DEF Forward
<1>2. SetupIs(setup) /\ DevicesFit /\ QueuesFit /\ CountsFit /\ r \in Ranks
  BY DEF TypeInv, Others
<1>3. m \in OnRing
  <2>1. ring[r] \in Seq(OnRing)
    BY <1>2 DEF QueuesFit
  <2>. QED
    BY <1>1, <2>1, TailFacts
<1> HIDE DEF m
<1>4. ring' \in [Ranks -> Seq(OnRing)]
  <2>1. ring' = [ring EXCEPT ![r] = Tail(@), ![NextRank(r)] = IF on THEN Append(@, m) ELSE @]
    BY <1>1
  <2>2. on \in BOOLEAN
    OBVIOUS
  <2> HIDE DEF on
  <2>. QED
    BY <1>1, <1>2, <1>3, <2>1, <2>2, QueuePassedFits
<1>5. log' \in [Ranks -> Seq(Sent)]
  BY <1>1, <1>2, <1>3, LoggedFits
<1>6. QueuesFit'
  BY <1>1, <1>2, <1>4, <1>5 DEF QueuesFit
<1>7. DevicesFit' /\ CountsFit'
  BY <1>1, <1>2, NoneFits, SameCountsFit
<1>. QED
  BY <1>1, <1>2, <1>6, <1>7 DEF TypeInv

LEMMA ComputeWorkerFits ==
  ASSUME TypeInv, NEW r \in Others, ComputeWorker(r)
  PROVE  TypeInv'
<1> DEFINE x == dev[r]
           g == Graphs(r)[x.sub]
           m == Head(ring[r])
           out == Through(g, m)
           last == x.sub = Len(Graphs(r))
           y == SetSub(x, x.sub + 1)
           d == IF last THEN NextUbatch(r, x) ELSE y
           home == IsToMaster(r, g)
           on == ~home
<1>1. /\ x.pc = "tensors" /\ ring[r] # <<>> /\ dev' = [dev EXCEPT ![r] = d]
      /\ IF home THEN direct' = Append(direct, out) /\ ring' = [ring EXCEPT ![r] = Tail(@)]
         ELSE ring' = [ring EXCEPT ![r] = Tail(@), ![NextRank(r)] = Append(@, out)] /\ UNCHANGED direct
      /\ UNCHANGED <<setup, log, n_past, calls, stop_at>>
  BY DEF ComputeWorker, SetSub
<1>2. SetupIs(setup) /\ DevicesFit /\ QueuesFit /\ CountsFit
  BY DEF TypeInv
<1>3. /\ r \in Ranks /\ r # 0 /\ DeviceSound(x) /\ x.left <= MaxInput /\ x.left <= MaxInput + 1
      /\ x.sub \in 1 .. setup.n_layer + 1 /\ setup.window[r] > 0 /\ setup.n_layer \in Nat
      /\ PcsOf(setup, r) = {"meta", "tensors", "aborted", "left"}
  BY <1>1, WorkerKinds
<1>4. x.sub \in 1 .. Len(setup.graphs[r])
  <2>1. DeviceFits(setup, r, x)
    BY WorkerKinds
  <2>. QED
    BY <1>1, <1>3, <2>1 DEF DeviceFits
<1>5. Len(setup.graphs[r]) \in Nat /\ Len(setup.graphs[r]) <= setup.n_layer /\ g.last \in Int
  <2>1. /\ Len(setup.graphs[r]) \in Nat /\ Len(setup.graphs[r]) <= setup.n_layer
        /\ \A j \in 1 .. Len(setup.graphs[r]) : setup.graphs[r][j].last \in Nat
    BY <1>2, <1>3, GraphsFit
  <2>. QED
    BY <1>4, <2>1 DEF Graphs
<1>6. m \in OnRing /\ ring \in [Ranks -> Seq(OnRing)] /\ Tail(ring[r]) \in Seq(OnRing)
  <2>1. ring[r] \in Seq(OnRing) /\ ring \in [Ranks -> Seq(OnRing)]
    BY <1>2, <1>3 DEF QueuesFit
  <2>. QED
    BY <1>1, <2>1, TailFacts
<1> HIDE DEF m
<1>7. out \in TensorMsgs /\ out \in OnRing
  <2> DEFINE h == g
  <2>1. h.last \in Int
    BY <1>5
  <2> HIDE DEF h
  <2>2. Through(h, m) \in TensorMsgs
    BY <1>6, <2>1, ThroughFits
  <2>. QED
    BY <2>2 DEF OnRing, h
<1> HIDE DEF out
<1>8. ring' \in [Ranks -> Seq(OnRing)] /\ direct' \in Seq(TensorMsgs)
  <2>1. direct \in Seq(TensorMsgs)
    BY <1>2 DEF QueuesFit
  <2>2. CASE home
    <3>1. Append(direct, out) \in Seq(TensorMsgs)
      BY <1>7, <2>1, AppendFacts
    <3>. QED
      BY <1>1, <1>3, <1>6, <2>2, <3>1
  <2>3. CASE ~home
    <3>1. ring' = [ring EXCEPT ![r] = Tail(@), ![NextRank(r)] = IF on THEN Append(@, out) ELSE @]
      BY <1>1, <2>3
    <3>2. on \in BOOLEAN
      BY <2>3
    <3> HIDE DEF on
    <3>3. ring' \in [Ranks -> Seq(OnRing)]
      BY <1>1, <1>2, <1>7, <3>1, <3>2, QueuePassedFits
    <3>. QED
      BY <1>1, <2>1, <2>3, <3>3
  <2>. QED
    BY <2>2, <2>3
<1>9. DeviceFits(setup, r, d)
  <2>1. CASE last
    <3>1. d = NextUbatch(r, x)
      BY <2>1
    <3> HIDE DEF d, x
    <3>. QED
      BY <1>3, <3>1, WorkerOnwardFits
  <2>2. CASE ~last
    <3>1. x.sub # Len(setup.graphs[r]) /\ d = y
      BY <2>2 DEF Graphs
    <3> HIDE DEF x, d, last
    <3>2. x.sub + 1 \in 1 .. Len(setup.graphs[r]) /\ x.sub + 1 \in 1 .. setup.n_layer + 1
      BY <1>3, <1>4, <1>5, <3>1
    <3>3. /\ DeviceOK(y) /\ y.sub = x.sub + 1 /\ y.pc = x.pc /\ y.left = x.left /\ y.pos = x.pos
          /\ y.cache = x.cache
      BY <1>3, SubFields DEF DeviceSound
    <3> HIDE DEF y
    <3>. QED
      BY <1>1, <1>3, <3>1, <3>2, <3>3 DEF DeviceFits, DeviceSound
  <2>. QED
    BY <2>1, <2>2
<1> HIDE DEF d
<1>10. DevicesFit'
  BY <1>1, <1>2, <1>3, <1>9, OneFits
<1>11. QueuesFit'
  BY <1>1, <1>2, <1>8 DEF QueuesFit
<1>12. CountsFit'
  BY <1>1, <1>2, SameCountsFit
<1>. QED
  BY <1>1, <1>2, <1>10, <1>11, <1>12 DEF TypeInv

LEMMA MasterKind ==
  ASSUME TypeInv
  PROVE  /\ 0 \in Ranks /\ 1 \in Ranks /\ DeviceSound(dev[0]) /\ dev[0].left <= MaxInput
         /\ dev[0].left <= MaxInput + 1 /\ dev[0].sub \in 1 .. setup.n_layer + 1
         /\ setup.n_layer \in Nat /\ setup.n_layer > 0
         /\ PcsOf(setup, 0) = {"ready", "output", "failed", "stopping", "tensors", "left"}
         /\ \A d : DeviceFits(setup, 0, d) <=> /\ DeviceSound(d) /\ d.left <= MaxInput
                                               /\ d.sub \in 1 .. setup.n_layer + 1
                                               /\ d.pc \in PcsOf(setup, 0)
<1>1. 0 \in Ranks /\ 1 \in Ranks
  BY RankFacts DEF Others
<1>2. DeviceFits(setup, 0, dev[0]) /\ SetupIs(setup)
  BY <1>1 DEF TypeInv, DevicesFit
<1>3. DeviceSound(dev[0]) /\ dev[0].left <= MaxInput /\ dev[0].sub \in 1 .. setup.n_layer + 1
  BY <1>2 DEF DeviceFits
<1>4. dev[0].left <= MaxInput + 1
  BY <1>3, RingAssumption DEF DeviceSound, DeviceOK
<1>. QED
  BY <1>1, <1>2, <1>3, <1>4 DEF SetupIs, PcsOf, DeviceFits

\* What the master becomes when it begins a physical batch, or its call returns.
LEMMA MasterOnwardFits ==
  ASSUME TypeInv, NEW d, DeviceSound(d), d.left <= MaxInput + 1, d.sub \in 1 .. setup.n_layer + 1
  PROVE  DeviceFits(setup, 0, NextUbatch(0, d)) /\ DeviceSound(NextUbatch(0, d))
<1> DEFINE e == NextUbatch(0, d)
<1>1. /\ DeviceSound(e) /\ e.left <= MaxInput /\ e.sub \in {1, d.sub}
      /\ e.pc \in {"ready", "failed", "tensors"}
  BY NextUbatchFits
<1> HIDE DEF e
<1>2. 1 \in 1 .. setup.n_layer + 1
  BY MasterKind
<1>3. e.sub \in 1 .. setup.n_layer + 1
  BY <1>1, <1>2
<1>4. e.pc \in PcsOf(setup, 0)
  BY <1>1, MasterKind
<1>. QED
  BY <1>1, <1>3, <1>4, MasterKind DEF e

LEMMA ComputeMasterFits ==
  ASSUME TypeInv, ComputeMaster
  PROVE  TypeInv'
<1> DEFINE x == dev[0]
           g == Graphs(0)[x.sub]
           m == Head(ring[0])
           out == Through(g, m)
           last == g.last = n_layer - 1
           pc == IF last THEN "output" ELSE x.pc
           d == [x EXCEPT !.sub = x.sub + 1, !.pc = pc]
<1>1. /\ x.pc = "tensors" /\ x.sub <= Len(Graphs(0)) /\ ring[0] # <<>>
      /\ dev' = [dev EXCEPT ![0].sub = @ + 1, ![0].pc = IF last THEN "output" ELSE @]
      /\ ring' = [ring EXCEPT ![0] = Tail(@), ![1] = IF last THEN @ ELSE Append(@, out)]
      /\ UNCHANGED <<setup, log, direct, n_past, calls, stop_at>>
  BY DEF ComputeMaster
<1>2. SetupIs(setup) /\ DevicesFit /\ QueuesFit /\ CountsFit
  BY DEF TypeInv
<1>3. /\ 0 \in Ranks /\ 1 \in Ranks /\ DeviceSound(x) /\ x.left <= MaxInput
      /\ x.sub \in 1 .. setup.n_layer + 1 /\ setup.n_layer \in Nat
      /\ PcsOf(setup, 0) = {"ready", "output", "failed", "stopping", "tensors", "left"}
  BY MasterKind
<1>4. /\ Len(setup.graphs[0]) \in Nat /\ Len(setup.graphs[0]) <= setup.n_layer
      /\ \A j \in 1 .. Len(setup.graphs[0]) : setup.graphs[0][j].last \in Nat
  BY <1>2, <1>3, GraphsFit
<1>5. x.sub \in 1 .. Len(setup.graphs[0]) /\ g.last \in Int
  BY <1>1, <1>3, <1>4 DEF Graphs
<1>6. dev' = [dev EXCEPT ![0] = d]
  BY <1>1, <1>2, <1>3 DEF DevicesFit
<1>7. x.sub + 1 \in 1 .. setup.n_layer + 1
  BY <1>3, <1>4, <1>5
<1>8. pc \in PcsOf(setup, 0)
  BY <1>1, <1>3
<1>9. DeviceFits(setup, 0, d)
  <2> DEFINE sub == x.sub + 1
  <2>1. IsDevice(x)
    BY <1>3 DEF DeviceSound, DeviceOK
  <2> HIDE DEF x, pc, sub
  <2>2. [x EXCEPT !.sub = sub, !.pc = pc] = Device7(pc, x.warm, x.stop, sub, x.left, x.pos, x.cache)
    BY <2>1, SubPcForm
  <2>3. d = Device7(pc, x.warm, x.stop, sub, x.left, x.pos, x.cache)
    BY <2>2 DEF sub
  <2> HIDE DEF d
  <2>4. /\ IsDevice(d) /\ d.pc = pc /\ d.warm = x.warm /\ d.stop = x.stop /\ d.sub = sub
        /\ d.left = x.left /\ d.pos = x.pos /\ d.cache = x.cache
    BY <2>3, FieldsOf
  <2>5. DeviceSound(d) /\ d.left <= MaxInput
    BY <1>3, <2>4 DEF DeviceSound, DeviceOK
  <2>6. d.sub \in 1 .. setup.n_layer + 1
    BY <1>7, <2>4 DEF sub
  <2>. QED
    BY <1>8, <2>4, <2>5, <2>6, MasterKind
<1> HIDE DEF d
<1>10. DevicesFit'
  BY <1>1, <1>2, <1>3, <1>6, <1>9, OneFits
<1>11. ring' \in [Ranks -> Seq(OnRing)]
  <2>1. ring \in [Ranks -> Seq(OnRing)] /\ ring[0] \in Seq(OnRing) /\ ring[1] \in Seq(OnRing)
    BY <1>2, <1>3 DEF QueuesFit
  <2>2. m \in OnRing /\ Tail(ring[0]) \in Seq(OnRing)
    BY <1>1, <2>1, TailFacts
  <2> DEFINE h == g
  <2>3. h.last \in Int
    BY <1>5
  <2> HIDE DEF h, m
  <2>4. Through(h, m) \in OnRing
    BY <2>2, <2>3, ThroughFits DEF OnRing
  <2>5. out \in OnRing
    BY <2>4 DEF h
  <2> HIDE DEF out, last
  <2> DEFINE y == IF last THEN ring[1] ELSE Append(ring[1], out)
  <2>6. y \in Seq(OnRing)
    BY <2>1, <2>5
  <2>7. ring' = [ring EXCEPT ![0] = Tail(ring[0]), ![1] = y]
    BY <1>1, <1>3, <2>1
  <2> HIDE DEF y
  <2>. QED
    BY <1>3, <2>1, <2>2, <2>6, <2>7
<1>12. QueuesFit'
  BY <1>1, <1>2, <1>11 DEF QueuesFit
<1>13. CountsFit'
  BY <1>1, <1>2, SameCountsFit
<1>. QED
  BY <1>1, <1>2, <1>10, <1>12, <1>13 DEF TypeInv

LEMMA OutputFits ==
  ASSUME TypeInv, Output
  PROVE  TypeInv'
<1> DEFINE x == dev[0]
           e == NextUbatch(0, x)
           t == Embedded(e, Len(log[0]))
<1>1. /\ \/ direct' = direct /\ ring' = [ring EXCEPT ![1] = @ \o t]
         \/ direct # <<>> /\ direct' = Tail(direct) /\ ring' = [ring EXCEPT ![1] = @ \o t]
         \/ ring[0] # <<>> /\ direct' = direct /\ ring' = [ring EXCEPT ![0] = Tail(@), ![1] = @ \o t]
      /\ dev' = [dev EXCEPT ![0] = e] /\ UNCHANGED <<setup, log, n_past, calls, stop_at>>
  BY DEF Output
<1>2. SetupIs(setup) /\ DevicesFit /\ QueuesFit /\ CountsFit
  BY DEF TypeInv
<1>3. /\ 0 \in Ranks /\ 1 \in Ranks /\ DeviceSound(x) /\ x.left <= MaxInput + 1
      /\ x.sub \in 1 .. setup.n_layer + 1
  BY MasterKind
<1>4. DeviceFits(setup, 0, e) /\ DeviceSound(e)
  BY <1>3, MasterOnwardFits
<1> HIDE DEF e
<1>5. /\ ring \in [Ranks -> Seq(OnRing)] /\ ring[0] \in Seq(OnRing) /\ ring[1] \in Seq(OnRing)
      /\ direct \in Seq(TensorMsgs) /\ log[0] \in Seq(Sent)
  BY <1>2, <1>3 DEF QueuesFit
<1>6. Len(log[0]) \in Nat
  BY <1>5
<1>7. t \in Seq(OnRing)
  BY <1>4, <1>6, EmbeddedFits
<1> HIDE DEF t
<1> DEFINE y == ring[1] \o t
<1>8. y \in Seq(OnRing)
  BY <1>5, <1>7, ConcatFacts
<1>9. /\ \/ ring' = [ring EXCEPT ![1] = y]
         \/ ring[0] # <<>> /\ ring' = [ring EXCEPT ![0] = Tail(ring[0]), ![1] = y]
      /\ direct' = direct \/ (direct # <<>> /\ direct' = Tail(direct))
  BY <1>1, <1>3, <1>5
<1> HIDE DEF y
<1>10. ring' \in [Ranks -> Seq(OnRing)]
  <2>1. ring[0] # <<>> => Tail(ring[0]) \in Seq(OnRing)
    BY <1>5, TailFacts
  <2>. QED
    BY <1>3, <1>5, <1>8, <1>9, <2>1
<1>11. direct' \in Seq(TensorMsgs)
  <2>1. direct # <<>> => Tail(direct) \in Seq(TensorMsgs)
    BY <1>5, TailFacts
  <2>. QED
    BY <1>5, <1>9, <2>1
<1>12. QueuesFit'
  BY <1>1, <1>2, <1>10, <1>11 DEF QueuesFit
<1>13. DevicesFit' /\ CountsFit'
  BY <1>1, <1>2, <1>3, <1>4, OneFits, SameCountsFit
<1>. QED
  BY <1>1, <1>2, <1>12, <1>13 DEF TypeInv

LEMMA FinishFits ==
  ASSUME TypeInv, Finish
  PROVE  TypeInv'
<1> DEFINE x == dev[0]
           d == [x EXCEPT !.pc = "stopping"]
<1>1. /\ dev' = [dev EXCEPT ![0].pc = "stopping"] /\ stop_at' = 1
      /\ UNCHANGED <<setup, log, ring, direct, n_past, calls>>
  BY DEF Finish
<1>2. SetupIs(setup) /\ DevicesFit /\ QueuesFit /\ CountsFit
  BY DEF TypeInv
<1>3. /\ 0 \in Ranks /\ 1 \in Ranks /\ DeviceSound(x) /\ x.left <= MaxInput
      /\ x.sub \in 1 .. setup.n_layer + 1
      /\ PcsOf(setup, 0) = {"ready", "output", "failed", "stopping", "tensors", "left"}
  BY MasterKind
<1>4. dev' = [dev EXCEPT ![0] = d]
  BY <1>1, <1>2, <1>3 DEF DevicesFit
<1>5. DeviceFits(setup, 0, d)
  <2>1. IsDevice(x)
    BY <1>3 DEF DeviceSound, DeviceOK
  <2> HIDE DEF x
  <2>2. d = Device7("stopping", x.warm, x.stop, x.sub, x.left, x.pos, x.cache)
    BY <2>1, PcForm
  <2> HIDE DEF d
  <2>3. /\ IsDevice(d) /\ d.pc = "stopping" /\ d.warm = x.warm /\ d.stop = x.stop /\ d.sub = x.sub
        /\ d.left = x.left /\ d.pos = x.pos /\ d.cache = x.cache
    BY <2>2, FieldsOf
  <2>4. DeviceSound(d) /\ d.left <= MaxInput /\ d.sub \in 1 .. setup.n_layer + 1
    BY <1>3, <2>3 DEF DeviceSound, DeviceOK
  <2>5. d.pc \in PcsOf(setup, 0)
    BY <1>3, <2>3
  <2>. QED
    BY <2>4, <2>5, MasterKind
<1> HIDE DEF d
<1>6. DevicesFit'
  BY <1>1, <1>2, <1>3, <1>4, <1>5, OneFits
<1>7. QueuesFit'
  BY <1>1, <1>2, SameQueuesFit
<1>8. CountsFit'
  BY <1>1, <1>2, <1>3 DEF CountsFit
<1>. QED
  BY <1>1, <1>2, <1>6, <1>7, <1>8 DEF TypeInv

LEMMA StopFits ==
  ASSUME TypeInv, NEW r \in Ranks, StopArrives(r)
  PROVE  TypeInv'
<1> DEFINE x == dev[r]
           yes == TRUE
           pc == IF r = 0 THEN "left" ELSE IF x.pc = "forward" THEN "left" ELSE x.pc
           d == [x EXCEPT !.stop = yes, !.pc = pc]
<1>1. /\ stop_at' = IF r = 0 THEN None ELSE NextRank(r)
      /\ dev' = [dev EXCEPT ![r].stop = TRUE,
                            ![r].pc = IF r = 0 THEN "left" ELSE IF @ = "forward" THEN "left" ELSE @]
      /\ UNCHANGED <<setup, log, ring, direct, n_past, calls>>
  BY DEF StopArrives
<1>2. SetupIs(setup) /\ DevicesFit /\ QueuesFit /\ CountsFit /\ DeviceFits(setup, r, x)
  BY DEF TypeInv, DevicesFit
<1>3. dev' = [dev EXCEPT ![r] = d]
  BY <1>1, <1>2 DEF DevicesFit
<1>4. pc \in PcsOf(setup, r) /\ (pc = "tensors" => x.pc = "tensors")
  <2>1. x.pc \in PcsOf(setup, r)
    BY <1>2 DEF DeviceFits
  <2>. QED
    BY <2>1 DEF PcsOf
<1>5. DeviceFits(setup, r, d)
  <2>1. IsDevice(x) /\ yes \in BOOLEAN
    BY <1>2 DEF DeviceFits, DeviceSound, DeviceOK
  <2> HIDE DEF x, pc, yes
  <2>2. d = Device7(pc, x.warm, yes, x.sub, x.left, x.pos, x.cache)
    BY <2>1, StopPcForm
  <2> HIDE DEF d
  <2>3. /\ IsDevice(d) /\ d.pc = pc /\ d.warm = x.warm /\ d.stop = yes /\ d.sub = x.sub
        /\ d.left = x.left /\ d.pos = x.pos /\ d.cache = x.cache
    BY <2>2, FieldsOf
  <2>4. DeviceSound(d)
    BY <1>2, <2>1, <2>3 DEF DeviceFits, DeviceSound, DeviceOK
  <2>. QED
    BY <1>2, <1>4, <2>3, <2>4 DEF DeviceFits
<1> HIDE DEF d
<1>6. DevicesFit'
  BY <1>1, <1>2, <1>3, <1>5, OneFits
<1>7. QueuesFit'
  BY <1>1, <1>2, SameQueuesFit
<1>8. CountsFit'
  <2>1. r # 0 => NextRank(r) \in Ranks
    BY RankFacts DEF Others
  <2>. QED
    BY <1>1, <1>2, <2>1 DEF CountsFit
<1>. QED
  BY <1>1, <1>2, <1>6, <1>7, <1>8 DEF TypeInv

\* Announcements that can be sent, one behind the other.
FitCall(cs) == Len(cs) \in Nat /\ DOMAIN cs = 1 .. Len(cs) /\ \A k \in 1 .. Len(cs) : Fits(cs[k])

LEMMA TookAllFits ==
  ASSUME NEW d, DeviceSound(d), d.left <= MaxInput + 1, NEW cs, FitCall(cs)
  PROVE  LET e == TookAll(d, cs)
         IN  DeviceSound(e) /\ e.left <= MaxInput + 1 /\ e.sub = d.sub
<1> DEFINE f == TookSteps(d, cs)
           n == Len(cs)
<1>1. n \in Nat /\ \A k \in 1 .. n : Fits(cs[k])
  BY DEF FitCall
<1>2. f = [k \in 0 .. n |-> TookStep(d, cs, f, k)]
  BY <1>1, TookExists DEF IsTook
<1>3. f[n] = TookAll(d, cs)
  BY TookAllIs
<1> HIDE DEF f, n
<1>4. f[0] = d /\ \A k \in 1 .. n : f[k] = Took(f[k - 1], cs[k])
  <2>1. \A k \in 0 .. n : f[k] = TookStep(d, cs, f, k)
    BY <1>2
  <2>2. \A k \in 1 .. n : k \in 0 .. n /\ k # 0
    BY <1>1
  <2>. QED
    BY <1>1, <2>1, <2>2 DEF TookStep
<1> DEFINE Good(e) == DeviceSound(e) /\ e.left <= MaxInput + 1 /\ e.sub = d.sub
           T == {k \in Nat : k <= n => Good(f[k])}
<1>5. \A k \in Nat : k \in T
  <2>1. 0 \in T
    BY <1>4
  <2>2. ASSUME NEW k \in Nat, k \in T
        PROVE  k + 1 \in T
    <3> SUFFICES ASSUME k + 1 <= n PROVE Good(f[k + 1])
      OBVIOUS
    <3>1. Good(f[k]) /\ k + 1 \in 1 .. n /\ f[k + 1] = Took(f[k], cs[k + 1]) /\ Fits(cs[k + 1])
      BY <1>1, <1>4, <2>2
    <3>. QED
      BY <3>1, TookFits
  <2> HIDE DEF T
  <2>. QED
    BY <2>1, <2>2, NatSetInduction
<1>6. Good(f[n])
  BY <1>1, <1>5
<1>. QED
  BY <1>3, <1>6

\* A call of the master, but for its counts.
LEMMA CallFits ==
  ASSUME TypeInv, NEW cs, FitCall(cs), Call(cs)
  PROVE  SetupIs(setup') /\ DevicesFit' /\ QueuesFit' /\ stop_at' = stop_at
<1> DEFINE a == TookAll(dev[0], cs)
           e == NextUbatch(0, a)
           n == Len(cs)
           k0 == Len(log[0])
           sent == Announcements(k0, cs)
           t == Embedded(e, k0 + n)
           more == [k \in DOMAIN cs |-> Announced(Len(log[0]) + k, cs[k])]
<1>1. /\ dev' = [dev EXCEPT ![0] = e]
      /\ log' = [log EXCEPT ![0] = @ \o [k \in DOMAIN cs |-> Announced(Len(@) + k, cs[k])]]
      /\ ring' = [ring EXCEPT ![1] = @ \o (sent \o t)]
      /\ UNCHANGED <<setup, direct, stop_at>>
  BY DEF Call
<1>2. SetupIs(setup) /\ DevicesFit /\ QueuesFit /\ CountsFit
  BY DEF TypeInv
<1>3. /\ 0 \in Ranks /\ 1 \in Ranks /\ DeviceSound(dev[0]) /\ dev[0].left <= MaxInput + 1
      /\ dev[0].sub \in 1 .. setup.n_layer + 1
  BY MasterKind
<1>4. DeviceSound(a) /\ a.left <= MaxInput + 1 /\ a.sub = dev[0].sub
  BY <1>3, TookAllFits
<1> HIDE DEF a
<1>5. DeviceFits(setup, 0, e) /\ DeviceSound(e)
  BY <1>3, <1>4, MasterOnwardFits
<1> HIDE DEF e
<1>6. /\ ring \in [Ranks -> Seq(OnRing)] /\ ring[1] \in Seq(OnRing)
      /\ log \in [Ranks -> Seq(Sent)] /\ log[0] \in Seq(Sent)
  BY <1>2, <1>3 DEF QueuesFit
<1>7. n \in Nat /\ k0 \in Nat /\ DOMAIN cs = 1 .. n /\ \A k \in 1 .. n : Fits(cs[k])
  BY <1>6 DEF FitCall
<1>8. sent = more
  BY DEF Announcements
<1>9. more \in Seq(Sent)
  <2> HIDE DEF n, k0
  <2>1. more = [k \in 1 .. n |-> Announced(k0 + k, cs[k])]
    BY <1>7 DEF k0
  <2>2. ASSUME NEW k \in 1 .. n
        PROVE  Announced(k0 + k, cs[k]) \in Sent
    <3>1. k0 + k \in Nat \ {0} /\ Fits(cs[k])
      BY <1>7
    <3>. QED
      BY <3>1, MessagesFit
  <2> HIDE DEF more
  <2>. QED
    BY <1>7, <2>1, <2>2
<1>10. t \in Seq(OnRing)
  <2>1. k0 + n \in Nat
    BY <1>7
  <2>. QED
    BY <1>5, <2>1, EmbeddedFits
<1> HIDE DEF t, sent
<1>11. log' \in [Ranks -> Seq(Sent)]
  <2>1. log' = [log EXCEPT ![0] = log[0] \o more]
    BY <1>1, <1>3, <1>6
  <2> HIDE DEF more
  <2>2. log[0] \o more \in Seq(Sent)
    BY <1>6, <1>9, ConcatFacts
  <2>. QED
    BY <1>3, <1>6, <2>1, <2>2
<1>12. ring' \in [Ranks -> Seq(OnRing)]
  <2> HIDE DEF more
  <2>1. sent \in Seq(OnRing)
    <3>1. more \in Seq(Sent \cup TensorMsgs)
      BY <1>9, MoreMessages
    <3>. QED
      BY <1>8, <3>1 DEF OnRing
  <2>2. sent \o t \in Seq(OnRing)
    BY <1>10, <2>1, ConcatFacts
  <2> DEFINE q == sent \o t
             y == ring[1] \o q
  <2>3. y \in Seq(OnRing)
    <3> HIDE DEF q
    <3>1. q \in Seq(OnRing)
      BY <2>2 DEF q
    <3>. QED
      BY <1>6, <3>1, ConcatFacts
  <2>4. ring' = [ring EXCEPT ![1] = y]
    BY <1>1, <1>3, <1>6
  <2> HIDE DEF y
  <2>. QED
    BY <1>3, <1>6, <2>3, <2>4
<1>13. QueuesFit'
  BY <1>1, <1>2, <1>11, <1>12 DEF QueuesFit
<1>14. DevicesFit'
  BY <1>1, <1>2, <1>3, <1>5, OneFits
<1>. QED
  BY <1>1, <1>2, <1>13, <1>14

LEMMA FitCallIs ==
  ASSUME NEW C, \A c \in C : Fits(c), NEW cs \in Seq(C)
  PROVE  FitCall(cs)
BY DEF FitCall

LEMMA ContentsFit ==
  /\ \A s, p0, p1 \in Int : Fits(Rm(s, p0, p1))
  /\ \A s, p0, p1, delta \in Int : Fits(Add(s, p0, p1, delta))
  /\ \A s \in Int : Fits(Keep(s))
  /\ \A src, dst, p0, p1 \in Int : Fits(Cp(src, dst, p0, p1))
  /\ \A n \in Nat \ {0}, p0 \in Nat : n <= MaxInput + 1 => Fits(Meta(n, p0))
<1>1. ASSUME NEW s \in Int, NEW p0 \in Int, NEW p1 \in Int
      PROVE  Fits(Rm(s, p0, p1))
  BY DEF Rm, Fits, Contents
<1>2. ASSUME NEW s \in Int, NEW p0 \in Int, NEW p1 \in Int, NEW delta \in Int
      PROVE  Fits(Add(s, p0, p1, delta))
  BY DEF Add, Fits, Contents
<1>3. ASSUME NEW s \in Int
      PROVE  Fits(Keep(s))
  BY DEF Keep, Fits, Contents
<1>4. ASSUME NEW src \in Int, NEW dst \in Int, NEW p0 \in Int, NEW p1 \in Int
      PROVE  Fits(Cp(src, dst, p0, p1))
  BY DEF Cp, Fits, Contents
<1>5. ASSUME NEW n \in Nat \ {0}, NEW p0 \in Nat, n <= MaxInput + 1
      PROVE  Fits(Meta(n, p0))
  <2>1. Meta(n, p0) \in [op : {"meta"}, n : Nat \ {0}, p0 : Nat] /\ Meta(n, p0).n = n
    BY DEF Meta
  <2>. QED
    BY <1>5, <2>1 DEF Fits, Contents
<1>. QED
  BY <1>1, <1>2, <1>3, <1>4, <1>5

LEMMA WarmUpKeepsTypes ==
  ASSUME TypeInv, WarmUp
  PROVE  TypeInv'
<1> DEFINE cs == <<Meta(2, 0)>>
<1>1. Fits(Meta(2, 0))
  BY RingAssumption, ContentsFit
<1>2. FitCall(cs)
  <2> DEFINE C == {Meta(2, 0)}
  <2>1. cs \in Seq(C) /\ \A c \in C : Fits(c)
    BY <1>1
  <2> HIDE DEF cs, C
  <2>. QED
    BY <2>1, FitCallIs
<1>3. Call(cs) /\ n_past' = n_past /\ calls' = calls
  BY DEF WarmUp
<1> HIDE DEF cs
<1>4. SetupIs(setup') /\ DevicesFit' /\ QueuesFit' /\ stop_at' = stop_at
  BY <1>2, <1>3, CallFits
<1>5. CountsFit'
  BY <1>3, <1>4, SameCountsFit DEF TypeInv
<1>. QED
  BY <1>4, <1>5 DEF TypeInv

LEMMA EvaluateFits ==
  ASSUME TypeInv, NEW n \in 1 .. MaxInput, Evaluate(n)
  PROVE  TypeInv'
<1> DEFINE full == n_past + n >= Size
           half == (n_past - NKeep) \div 2
           past == IF full THEN n_past - half ELSE n_past
           shift == IF full THEN ContextShift(half) ELSE <<>>
           meta == Meta(n, past)
           cs == shift \o <<meta>>
<1>1. Call(cs) /\ n_past' = past + n /\ calls' = calls + 1 /\ calls < MaxCalls
  BY DEF Evaluate
<1>2. /\ n_past \in Nat /\ calls \in 0 .. MaxCalls /\ stop_at \in Ranks \cup {None}
      /\ NKeep \in Nat /\ MaxInput \in Nat /\ MaxCalls \in Nat
  BY RingAssumption DEF TypeInv, CountsFit
<1>3. half \in Int /\ half <= n_past
  BY <1>2
<1> HIDE DEF half, full
<1>4. past \in Nat
  BY <1>2, <1>3
<1>5. Fits(meta)
  <2>1. n \in Nat \ {0} /\ n <= MaxInput + 1
    BY <1>2
  <2>. QED
    BY <1>4, <2>1, ContentsFit
<1> HIDE DEF meta, past
<1>6. FitCall(cs)
  <2> DEFINE a == Rm(0, NKeep, NKeep + half)
             b == Add(0, NKeep + half, n_past, -half)
             C == {a, b, meta}
  <2>1. Fits(a) /\ Fits(b)
    <3>1. 0 \in Int /\ NKeep \in Int /\ NKeep + half \in Int /\ n_past \in Int /\ -half \in Int
      BY <1>2, <1>3
    <3>. QED
      BY <3>1, ContentsFit
  <2>2. ContextShift(half) = <<a, b>>
    BY DEF ContextShift
  <2> HIDE DEF a, b
  <2>3. shift \in Seq(C) /\ <<meta>> \in Seq(C)
    <3>1. <<a, b>> \in Seq(C) /\ <<>> \in Seq(C) /\ <<meta>> \in Seq(C)
      OBVIOUS
    <3>2. shift = <<a, b>> \/ shift = <<>>
      BY <2>2
    <3> HIDE DEF C, shift
    <3>. QED
      BY <3>1, <3>2
  <2>4. \A c \in C : Fits(c)
    BY <1>5, <2>1
  <2> HIDE DEF C, shift
  <2>5. cs \in Seq(C)
    BY <2>3, ConcatFacts
  <2>. QED
    BY <2>4, <2>5, FitCallIs
<1> HIDE DEF cs
<1>7. SetupIs(setup') /\ DevicesFit' /\ QueuesFit' /\ stop_at' = stop_at
  BY <1>1, <1>6, CallFits
<1>8. CountsFit'
  BY <1>1, <1>2, <1>4, <1>7 DEF CountsFit
<1>. QED
  BY <1>7, <1>8 DEF TypeInv

LEMMA DraftFits ==
  ASSUME TypeInv, NEW n \in 1 .. MaxInput, NEW k \in 0 .. n_past, Draft(n, k)
  PROVE  TypeInv'
<1> DEFINE meta == Meta(n, k)
           before == IF calls < 2 THEN <<>> ELSE Rejected(k) \o <<Keep(0)>>
           cs == before \o <<meta>>
<1>1. Call(cs) /\ n_past' = k + n /\ calls' = calls + 1 /\ calls < MaxCalls
  BY DEF Draft
<1>2. /\ n_past \in Nat /\ calls \in 0 .. MaxCalls /\ stop_at \in Ranks \cup {None}
      /\ MaxInput \in Nat /\ MaxCalls \in Nat
  BY RingAssumption DEF TypeInv, CountsFit
<1>3. k \in Nat /\ n \in Nat \ {0} /\ n <= MaxInput + 1
  BY <1>2
<1>4. FitCall(cs)
  <2> DEFINE a == Rm(0, k, -1)
             b == Keep(0)
             c1 == Cp(0, 0, -1, -1)
             C == {a, b, c1, meta}
  <2>1. Fits(a) /\ Fits(b) /\ Fits(c1) /\ Fits(meta)
    <3>1. 0 \in Int /\ -1 \in Int /\ k \in Int
      BY <1>3
    <3>. QED
      BY <1>3, <3>1, ContentsFit
  <2>2. Rejected(k) = <<a, b, c1, b>> /\ <<Keep(0)>> = <<b>>
    BY DEF Rejected
  <2> HIDE DEF a, b, c1, meta
  <2>3. Rejected(k) \in Seq(C) /\ <<Keep(0)>> \in Seq(C) /\ <<>> \in Seq(C) /\ <<meta>> \in Seq(C)
    BY <2>2
  <2>4. \A c \in C : Fits(c)
    BY <2>1
  <2> HIDE DEF C
  <2>5. before \in Seq(C)
    BY <2>3, ConcatFacts
  <2> HIDE DEF before
  <2>6. cs \in Seq(C)
    BY <2>3, <2>5, ConcatFacts
  <2>. QED
    BY <2>4, <2>6, FitCallIs
<1> HIDE DEF cs
<1>5. SetupIs(setup') /\ DevicesFit' /\ QueuesFit' /\ stop_at' = stop_at
  BY <1>1, <1>4, CallFits
<1>6. CountsFit'
  BY <1>1, <1>2, <1>3, <1>5 DEF CountsFit
<1>. QED
  BY <1>5, <1>6 DEF TypeInv

LEMMA InitFits ==
  ASSUME Init
  PROVE  TypeInv
<1>1. SetupIs(setup)
  BY InitSetup
<1>2. /\ dev = [r \in Ranks |-> Idle(r)] /\ log = [r \in Ranks |-> <<>>]
      /\ ring = [r \in Ranks |-> <<>>] /\ direct = <<>> /\ n_past = 0 /\ calls = 0 /\ stop_at = None
  BY DEF Init
<1>3. setup.warmup \in BOOLEAN /\ setup.n_layer \in Nat /\ setup.n_layer > 0
      /\ \A r \in Ranks : setup.window[r] \in Nat
  BY <1>1 DEF SetupIs
<1>4. Sound(EmptyCache, 1)
  <2>1. 0 \in Nat /\ 1 \in Nat /\ 0 <= 1 /\ Sound(EmptyCache, 0)
    BY EmptyIsSound
  <2>. QED
    BY <2>1, SoundMore
<1>5. ASSUME NEW r \in Ranks
      PROVE  DeviceFits(setup, r, dev[r])
  <2> DEFINE d == Idle(r)
             pc == IF r = 0 THEN "ready" ELSE IF r \in Forwarders THEN "forward" ELSE "meta"
  <2>1. dev[r] = d
    BY <1>2
  <2>2. DeviceOK(d) /\ d.pc = pc /\ d.left = 0 /\ d.cache = EmptyCache
    BY <1>3, IdleIs
  <2>3. d.pos = 0 /\ d.sub = 1
    BY DEF Idle
  <2>4. pc \in PcsOf(setup, r) /\ pc # "tensors"
    BY DEF PcsOf, Forwarders, window
  <2> HIDE DEF d, pc
  <2>5. DeviceSound(d)
    BY <1>4, <2>2, <2>3 DEF DeviceSound
  <2>6. d.sub \in 1 .. setup.n_layer + 1 /\ d.left <= MaxInput
    BY <1>3, <2>2, <2>3, RingAssumption
  <2>. QED
    BY <2>1, <2>2, <2>4, <2>5, <2>6 DEF DeviceFits
<1>6. DevicesFit
  <2>1. dev = [r \in Ranks |-> dev[r]]
    BY <1>2, Zenon
  <2>. QED
    BY <1>5, <2>1 DEF DevicesFit
<1>7. QueuesFit
  BY <1>2 DEF QueuesFit
<1>8. CountsFit
  BY <1>2, RingAssumption DEF CountsFit
<1>. QED
  BY <1>1, <1>6, <1>7, <1>8 DEF TypeInv

LEMMA NextFits == TypeInv /\ [Next]_vars => TypeInv'
<1> SUFFICES ASSUME TypeInv, [Next]_vars
             PROVE  TypeInv'
  OBVIOUS
<1>1. CASE WarmUp
  BY <1>1, WarmUpKeepsTypes
<1>2. ASSUME NEW n \in 1 .. MaxInput, Evaluate(n)
      PROVE  TypeInv'
  BY <1>2, EvaluateFits
<1>3. ASSUME NEW n \in 1 .. MaxInput, NEW k \in 0 .. n_past, Draft(n, k)
      PROVE  TypeInv'
  BY <1>3, DraftFits
<1>4. CASE Master
  BY <1>4, ComputeMasterFits, OutputFits DEF Master
<1>5. CASE Finish
  BY <1>5, FinishFits
<1>6. ASSUME NEW r \in Ranks, StopArrives(r)
      PROVE  TypeInv'
  BY <1>6, StopFits
<1>7. ASSUME NEW r \in Others, Device(r)
      PROVE  TypeInv'
  BY <1>7, ReceiveFits, TimeoutFits, ComputeWorkerFits, ForwardFits DEF Device
<1>8. CASE UNCHANGED vars
  BY <1>8 DEF vars, TypeInv, DevicesFit, QueuesFit, CountsFit
<1>. QED
  BY <1>1, <1>2, <1>3, <1>4, <1>5, <1>6, <1>7, <1>8 DEF Next, Stop, Others

\* A worker that computes is at one of its sub-graphs.
AtSubGraphs == \A r \in Others : dev[r].pc = "tensors" => dev[r].sub \in DOMAIN Graphs(r)

\* For any number of devices, windows, layers and calls, and even when a worker gives up waiting and
\* tensors are taken for an announcement: no worker computes a sub-graph that it does not have, no
\* device has more tokens to decode than the master's largest input, and no KV cache miscounts its
\* cells in use, whatever changes of it come through the ring.
THEOREM DevicesTyped == Spec => [](TypeOK /\ AtSubGraphs)
<1>1. Init => TypeInv
  BY InitFits
<1>2. TypeInv => TypeOK /\ AtSubGraphs
  <2> SUFFICES ASSUME TypeInv
               PROVE  TypeOK /\ AtSubGraphs
    OBVIOUS
  <2>1. ASSUME NEW r \in Ranks
        PROVE  /\ dev[r].pc \in {"ready", "output", "failed", "stopping", "forward", "meta", "tensors",
                                 "aborted", "left"}
               /\ dev[r].warm \in BOOLEAN /\ dev[r].stop \in BOOLEAN
               /\ dev[r].sub \in 1 .. n_layer + 1 /\ dev[r].left \in 0 .. MaxInput
               /\ dev[r].cache.used = Cardinality(Used(dev[r].cache.cells))
    <3>1. DeviceFits(setup, r, dev[r])
      BY DEF TypeInv, DevicesFit
    <3>2. dev[r].pc \in PcsOf(setup, r) /\ dev[r].left <= MaxInput /\ DeviceSound(dev[r])
          /\ dev[r].sub \in 1 .. setup.n_layer + 1
      BY <3>1 DEF DeviceFits
    <3>3. dev[r].left \in 0 .. MaxInput
      BY <3>2, RingAssumption DEF DeviceSound, DeviceOK
    <3>. QED
      BY <3>2, <3>3 DEF PcsOf, DeviceSound, DeviceOK, Sound, n_layer
  <2>2. ASSUME NEW r \in Ranks
        PROVE  log[r] \in Seq(AnnouncementMsgs) /\ ring[r] \in Seq(AnnouncementMsgs \cup TensorMsgs)
    <3>1. log[r] \in Seq(Sent) /\ ring[r] \in Seq(OnRing)
      BY DEF TypeInv, QueuesFit
    <3>2. Sent \subseteq AnnouncementMsgs /\ OnRing \subseteq AnnouncementMsgs \cup TensorMsgs
      BY DEF Sent, OnRing
    <3>3. \A S, T : S \subseteq T => \A s \in Seq(S) : s \in Seq(T)
      OBVIOUS
    <3>. QED
      BY <3>1, <3>2, <3>3
  <2>3. direct \in Seq(TensorMsgs) /\ CountsFit
    BY DEF TypeInv, QueuesFit
  <2>4. TypeOK
    BY <2>1, <2>2, <2>3 DEF TypeOK, CountsFit
  <2>5. ASSUME NEW r \in Others, dev[r].pc = "tensors"
        PROVE  dev[r].sub \in DOMAIN Graphs(r)
    <3>1. DeviceFits(setup, r, dev[r]) /\ r # 0 /\ r \in Ranks /\ SetupIs(setup)
      BY DEF TypeInv, DevicesFit, Others
    <3>2. setup.graphs[r] \in Seq([first : LayersOf(setup), last : LayersOf(setup)])
      BY <3>1 DEF SetupIs, GraphsAre
    <3>3. DOMAIN setup.graphs[r] = 1 .. Len(setup.graphs[r])
      BY <3>2
    <3>. QED
      BY <2>5, <3>1, <3>3 DEF DeviceFits, Graphs
  <2>. QED
    BY <2>4, <2>5 DEF AtSubGraphs
<1>3. TypeInv /\ [Next]_vars => TypeInv'
  BY NextFits
<1>. QED
  BY <1>1, <1>2, <1>3, PTL DEF Spec

=============================================================================
