------------------------ MODULE ListTraversalProofs ------------------------
(***************************************************************************)
(* For any list heads and any finite set of entries: what a traversal of   *)
(* the pointers of list_op.c meets, and that the primitives implement the  *)
(* operations on sequences that their names promise.                       *)
(*                                                                         *)
(* The inductive invariant names, for each head, the sequence that its     *)
(* pointers spell out (IsRing).  Each primitive turns the sequences of the *)
(* abstract list into those of its result.  That common_list_for_each      *)
(* meets the sequence, the only step that needs an induction over the      *)
(* number of rounds, is shown once, for next and for prev (WalkMeets).     *)
(***************************************************************************)
EXTENDS ListOpProofs, FiniteSetTheorems, SequenceTheorems

\* Position i of the ring of head h: its entries are at 1 to Len(s), the head
\* itself is before the first and after the last.
Place(h, s, i) == IF i \in 1..Len(s) THEN s[i] ELSE h

\* The pointers step lead from h through the entries in s back to h.
LeadsThrough(step, h, s) ==
  \A i \in 0..Len(s) : step[Place(h, s, i)] = Place(h, s, i + 1)

\* s names its entries once.
Distinct(s) == \A i, j \in 1..Len(s) : s[i] = s[j] => i = j

Reversed(s) == [i \in 1..Len(s) |-> s[Len(s) + 1 - i]]

IsRing(h, s) ==
  /\ s \in Seq(Entries)
  /\ Distinct(s)
  /\ \A i \in 1..Len(s) : owner[s[i]] = h
  /\ \A e \in Entries : owner[e] = h => \E i \in 1..Len(s) : s[i] = e
  /\ LeadsThrough(next, h, s)
  /\ \A i \in 0..Len(s) : prev[Place(h, s, i + 1)] = Place(h, s, i)

-----------------------------------------------------------------------------
\* A set with 0 and with the successor of each of its numbers has them all.
LEMMA CountUp ==
  ASSUME NEW S, 0 \in S, \A n \in Nat : n \in S => n + 1 \in S
  PROVE  Nat \subseteq S
<1> DEFINE Out == {n \in Nat : n \notin S}
           Less == OpToRel(<, Nat)
<1>1. SUFFICES ASSUME Out # {} PROVE FALSE
  OBVIOUS
<1>2. Less = {ss \in Nat \X Nat : ss[1] < ss[2]}
  BY DEF OpToRel
<1>3. \A x, y \in Nat : x < y => <<x, y>> \in Less
  BY <1>2
<1>4. IsWellFoundedOn(Less, Nat)
  BY NatLessThanWellFounded
<1> HIDE DEF Less
<1>5. PICK x \in Out : \A y \in Out : <<y, x>> \notin Less
  BY <1>1, <1>4, WFMin
<1>6. x \in Nat /\ x # 0 /\ x - 1 \in Nat /\ x - 1 < x
  BY <1>5
<1>7. x - 1 \in Out
  BY <1>6
<1>8. <<x - 1, x>> \in Less
  BY <1>3, <1>6
<1> QED
  BY <1>5, <1>7, <1>8

\* Functions on D are equal when their values are.
LEMMA SameFunction ==
  ASSUME NEW D, NEW f, NEW g,
         f = [k \in D |-> f[k]], g = [k \in D |-> g[k]], \A k \in D : f[k] = g[k]
  PROVE  f = g
OBVIOUS

\* Distinct entries are no more than there are.
LEMMA DistinctFits ==
  ASSUME NEW s \in Seq(Entries), Distinct(s)
  PROVE  Cardinality(Entries) \in Nat /\ Len(s) \in Nat /\ Len(s) <= Cardinality(Entries)
<1>1. s \in [1..Len(s) -> Entries] /\ Len(s) \in Nat
  BY LenProperties
<1>2. s \in Injection(1..Len(s), Entries)
  BY <1>1 DEF Distinct, Injection, IsInjective
<1>3. Cardinality(1..Len(s)) <= Cardinality(Entries)
  BY <1>2, MemoryFinite, FS_Injection
<1>4. Cardinality(1..Len(s)) = Len(s)
  <2>1. 1 \in Int /\ Len(s) \in Int
    BY <1>1
  <2>2. Cardinality(1..Len(s)) = IF 1 > Len(s) THEN 0 ELSE Len(s) - 1 + 1
    BY <2>1, FS_Interval
  <2> QED
    BY <1>1, <2>2
<1> QED
  BY <1>1, <1>3, <1>4, MemoryFinite, FS_CardinalityType

\* The round of common_list_for_each: what it makes of the rounds so far.
Rounds(g, step, h) ==
  [k \in 0..Cardinality(Entries) |->
     IF k = 0
       THEN [at |-> step[h], seen |-> <<>>]
       ELSE IF g[k - 1].at \in {h, Nil}
              THEN g[k - 1]
              ELSE [at   |-> step[g[k - 1].at],
                    seen |-> Append(g[k - 1].seen, g[k - 1].at)]]

\* The rounds of a walk through s: after k of them k entries have been met.
Met(h, s) ==
  [k \in 0..Cardinality(Entries) |->
     IF k <= Len(s) THEN [at |-> Place(h, s, k + 1), seen |-> SubSeq(s, 1, k)]
                    ELSE [at |-> h, seen |-> s]]

\* common_list_for_each and its mirror image meet the entries of the ring, in
\* its order, and end at the head.
LEMMA WalkMeets ==
  ASSUME NEW step, NEW h \in Heads, NEW s \in Seq(Entries), Distinct(s),
         LeadsThrough(step, h, s)
  PROVE  Walk(step, h) = [at |-> h, seen |-> s]
<1> DEFINE N == Cardinality(Entries)
           G == CHOOSE g : g = Rounds(g, step, h)
<1>1. N \in Nat /\ Len(s) \in Nat /\ Len(s) <= N
  BY DistinctFits
<1>2. \A i \in 1..Len(s) : s[i] \in Entries /\ s[i] # h /\ s[i] # Nil
  BY ListAssumption, ElementOfSeq
<1>3. step[h] = Place(h, s, 1)
  BY <1>1 DEF LeadsThrough, Place
<1>4. \A i \in 1..Len(s) : step[s[i]] = Place(h, s, i + 1)
  BY <1>1 DEF LeadsThrough, Place
<1>5. ASSUME NEW k \in 1..Len(s)
      PROVE  SubSeq(s, 1, k) = Append(SubSeq(s, 1, k - 1), s[k])
  <2>1. k \in Nat /\ k - 1 \in Nat /\ 1 \in Int /\ k - 1 \in Int /\ k \in 1..Len(s)
        /\ 1 \in 1..Len(s)
    BY <1>1
  <2>2. SubSeq(s, 1, k) = SubSeq(s, 1, k - 1) \o <<s[k]>>
    BY <2>1, SubSeqRecursiveSecond
  <2>3. SubSeq(s, 1, k - 1) \in Seq(Entries)
    BY <1>2, <2>1, SubSeqProperties
  <2>4. s[k] \in Entries
    BY <1>2
  <2> QED
    BY <2>2, <2>3, <2>4, AppendIsConcat
<1>6. SubSeq(s, 1, 0) = <<>> /\ SubSeq(s, 1, Len(s)) = s
  BY SubSeqEmpty, SubSeqFull
<1>7. ASSUME NEW g, NEW k \in 1..N, g[k - 1] = Met(h, s)[k - 1]
      PROVE  Rounds(g, step, h)[k] = Met(h, s)[k]
  <2>1. k \in 0..N /\ k - 1 \in 0..N /\ k # 0
    BY <1>1
  <2>2. CASE k <= Len(s)
    <3>1. g[k - 1] = [at |-> s[k], seen |-> SubSeq(s, 1, k - 1)]
      <4>1. Met(h, s)[k - 1] = [at |-> Place(h, s, k - 1 + 1), seen |-> SubSeq(s, 1, k - 1)]
        BY <1>1, <2>1, <2>2 DEF Met
      <4>2. k - 1 + 1 = k /\ Place(h, s, k) = s[k]
        BY <1>1, <2>1, <2>2 DEF Place
      <4> QED
        BY <1>7, <4>1, <4>2
    <3>2. s[k] \notin {h, Nil} /\ step[s[k]] = Place(h, s, k + 1)
      BY <1>2, <1>4, <2>1, <2>2
    <3>3. Rounds(g, step, h)[k] = [at |-> step[s[k]], seen |-> Append(SubSeq(s, 1, k - 1), s[k])]
      <4>1. g[k - 1].at = s[k] /\ g[k - 1].seen = SubSeq(s, 1, k - 1)
        BY <3>1
      <4> QED
        BY <2>1, <3>2, <4>1 DEF Rounds
    <3> QED
      <4>1. k \in 1..Len(s)
        BY <1>1, <2>1, <2>2
      <4>2. SubSeq(s, 1, k) = Append(SubSeq(s, 1, k - 1), s[k])
        BY <1>5, <4>1
      <4>3. Met(h, s)[k] = [at |-> Place(h, s, k + 1), seen |-> SubSeq(s, 1, k)]
        BY <2>1, <2>2 DEF Met
      <4> QED
        BY <3>2, <3>3, <4>2, <4>3
  <2>3. CASE k > Len(s)
    <3>1. g[k - 1] = [at |-> h, seen |-> s]
      BY <1>1, <1>6, <1>7, <2>1, <2>3 DEF Met, Place
    <3>2. Rounds(g, step, h)[k] = g[k - 1]
      BY <2>1, <3>1 DEF Rounds
    <3> QED
      BY <1>1, <2>1, <2>3, <3>1, <3>2 DEF Met
  <2> QED
    BY <1>1, <2>2, <2>3
<1>8. \A g : Rounds(g, step, h)[0] = Met(h, s)[0]
  BY <1>1, <1>3, <1>6 DEF Rounds, Met
<1>9. Met(h, s) = Rounds(Met(h, s), step, h)
  <2> DEFINE M == Met(h, s)
  <2>1. \A k \in 0..N : M[k] = Rounds(M, step, h)[k]
    BY <1>1, <1>7, <1>8
  <2>2. M = [k \in 0..N |-> M[k]]
    BY DEF Met
  <2>3. Rounds(M, step, h) = [k \in 0..N |-> Rounds(M, step, h)[k]]
    BY DEF Rounds
  <2> HIDE DEF M
  <2>4. M = Rounds(M, step, h)
    BY <2>1, <2>2, <2>3, SameFunction
  <2> QED
    BY <2>4 DEF M
<1>10. G = Rounds(G, step, h)
  BY <1>9, Zenon
<1>11. Walk(step, h) = G[N]
  BY DEF Walk, Rounds
<1> HIDE DEF G
<1>12. \A k \in 0..N : G[k] = Met(h, s)[k]
  <2> DEFINE Same == {k \in Nat : k \in 0..N => G[k] = Met(h, s)[k]}
  <2>1. 0 \in Same
    BY <1>8, <1>10
  <2>2. ASSUME NEW k \in Nat, k \in Same
        PROVE  k + 1 \in Same
    BY <1>1, <1>7, <1>10, <2>2
  <2>3. Nat \subseteq Same
    BY <2>1, <2>2, CountUp
  <2> QED
    BY <1>1, <2>3
<1>13. Met(h, s)[N] = [at |-> h, seen |-> s]
  BY <1>1, <1>6, SMTT(30) DEF Met, Place
<1> QED
  BY <1>1, <1>11, <1>12, <1>13

-----------------------------------------------------------------------------
\* The ring of a list, read backwards.
LEMMA ReversedRing ==
  ASSUME NEW h \in Heads, NEW s, IsRing(h, s)
  PROVE  /\ Reversed(s) \in Seq(Entries) /\ Distinct(Reversed(s))
         /\ Len(Reversed(s)) = Len(s)
         /\ LeadsThrough(prev, h, Reversed(s))
<1> DEFINE r == Reversed(s)
           n == Len(s)
<1>1. s \in Seq(Entries) /\ n \in Nat /\ \A i \in 1..n : s[i] \in Entries
  BY ElementOfSeq DEF IsRing
<1>2. r \in [1..n -> Entries] /\ \A i \in 1..n : r[i] = s[n + 1 - i]
  BY <1>1 DEF Reversed
<1>3. r \in Seq(Entries) /\ Len(r) = n
  <2>1. r \in Seq(Entries)
    BY <1>1, <1>2, SeqDef
  <2>2. Len(r) = n
    BY <1>1 DEF Reversed
  <2> QED
    BY <2>1, <2>2
<1>4. Distinct(r)
  <2>1. ASSUME NEW i \in 1..n, NEW j \in 1..n, r[i] = r[j]
        PROVE  i = j
    <3>1. n + 1 - i \in 1..n /\ n + 1 - j \in 1..n
      BY <1>1
    <3>2. s[n + 1 - i] = s[n + 1 - j]
      BY <1>2, <2>1
    <3>3. \A a, b \in 1..n : s[a] = s[b] => a = b
      BY DEF IsRing, Distinct
    <3>4. n + 1 - i = n + 1 - j
      BY <3>1, <3>2, <3>3
    <3> QED
      BY <1>1, <3>4
  <2> QED
    BY <1>3, <2>1 DEF Distinct
<1>5. \A i \in 0..n + 1 : Place(h, r, i) = Place(h, s, n + 1 - i)
  BY <1>1, <1>2, <1>3 DEF Place
<1>6. ASSUME NEW i \in 0..n
      PROVE  prev[Place(h, r, i)] = Place(h, r, i + 1)
  <2>1. n - i \in 0..n /\ n - i + 1 = n + 1 - i /\ n + 1 - (i + 1) = n - i
        /\ i \in 0..n + 1 /\ i + 1 \in 0..n + 1
    BY <1>1
  <2>2. prev[Place(h, s, n - i + 1)] = Place(h, s, n - i)
    BY <2>1 DEF IsRing
  <2> QED
    BY <1>5, <2>1, <2>2
<1> QED
  BY <1>3, <1>4, <1>6 DEF LeadsThrough

\* Traversals of a ring, in both directions.
LEMMA RingTraversals ==
  ASSUME NEW h \in Heads, NEW s, IsRing(h, s)
  PROVE  /\ Walk(next, h) = [at |-> h, seen |-> s]
         /\ Walk(prev, h) = [at |-> h, seen |-> Reversed(s)]
<1>1. s \in Seq(Entries) /\ Distinct(s) /\ LeadsThrough(next, h, s)
  BY DEF IsRing
<1> QED
  BY <1>1, ReversedRing, WalkMeets

-----------------------------------------------------------------------------
\* L names the sequence of every head; one that was spliced away has none.
Spells(L) ==
  /\ L \in [Heads -> Seq(Entries)]
  /\ \A h \in Heads : IF owner[h] = h THEN IsRing(h, L[h]) ELSE L[h] = <<>>

\* The lists that common_list_for_each meets are the ones the pointers spell.
LEMMA SpelledLists == \A L : Spells(L) => Lists = L
<1> SUFFICES ASSUME NEW L, Spells(L)
             PROVE  Lists = L
  OBVIOUS
<1>1. \A h \in Heads : owner[h] = h => ForEach(h) = L[h]
  BY RingTraversals DEF Spells, ForEach
<1>2. \A h \in Heads : Lists[h] = L[h]
  BY <1>1 DEF Lists, Spells
<1>3. Lists = [h \in Heads |-> Lists[h]] /\ L = [h \in Heads |-> L[h]]
  BY DEF Lists, Spells
<1> QED
  BY <1>2, <1>3, SameFunction

LEMMA SpelledListsNext == (\A L : Spells(L) => Lists = L)'
BY SpelledLists, PTL

-----------------------------------------------------------------------------
\* The places of a ring are cells on the ring.
LEMMA PlacesOnRing ==
  ASSUME NEW h \in Heads, owner[h] = h, NEW s, IsRing(h, s)
  PROVE  /\ Len(s) \in Nat
         /\ \A i \in 1..Len(s) : s[i] \in Entries /\ s[i] # h
         /\ \A i \in 0..Len(s) + 1 : /\ Place(h, s, i) \in Cells
                                     /\ owner[Place(h, s, i)] = h
         /\ \A i \in 0..Len(s) : /\ next[Place(h, s, i)] = Place(h, s, i + 1)
                                 /\ prev[Place(h, s, i + 1)] = Place(h, s, i)
         /\ \A i, j \in 0..Len(s) : Place(h, s, i) = Place(h, s, j) => i = j
         /\ \A i, j \in 1..Len(s) + 1 : Place(h, s, i) = Place(h, s, j) => i = j
<1>1. s \in Seq(Entries) /\ Len(s) \in Nat /\ \A i \in 1..Len(s) : s[i] \in Entries
  BY ElementOfSeq DEF IsRing
<1>2. \A i \in 1..Len(s) : s[i] # h
  BY <1>1, ListAssumption
<1>3. \A i \in 0..Len(s) + 1 : Place(h, s, i) \in Cells /\ owner[Place(h, s, i)] = h
  BY <1>1 DEF Place, IsRing, Cells
<1>4. \A i \in 0..Len(s) : /\ next[Place(h, s, i)] = Place(h, s, i + 1)
                           /\ prev[Place(h, s, i + 1)] = Place(h, s, i)
  BY DEF IsRing, LeadsThrough
<1>5. \A i, j \in 1..Len(s) : s[i] = s[j] => i = j
  BY DEF IsRing, Distinct
<1>6. \A i, j \in 0..Len(s) : Place(h, s, i) = Place(h, s, j) => i = j
  BY <1>1, <1>2, <1>5 DEF Place
<1>7. \A i, j \in 1..Len(s) + 1 : Place(h, s, i) = Place(h, s, j) => i = j
  BY <1>1, <1>2, <1>5 DEF Place
<1> QED
  BY <1>1, <1>2, <1>3, <1>4, <1>6, <1>7

\* How a ring is recognised after a step.
LEMMA RingNext ==
  ASSUME NEW h \in Heads, NEW s \in Seq(Entries),
         \A i, j \in 1..Len(s) : s[i] = s[j] => i = j,
         \A e \in Entries : owner'[e] = h <=> \E i \in 1..Len(s) : s[i] = e,
         \A i \in 0..Len(s) : /\ next'[Place(h, s, i)] = Place(h, s, i + 1)
                              /\ prev'[Place(h, s, i + 1)] = Place(h, s, i)
  PROVE  IsRing(h, s)'
<1>1. \A i \in 1..Len(s) : s[i] \in Entries
  BY ElementOfSeq
<1> QED
  BY <1>1 DEF IsRing, Distinct, LeadsThrough, Place

\* A step that touches no cell of a ring leaves it.
LEMMA RingStays ==
  ASSUME NEW h \in Heads, owner[h] = h, NEW s, IsRing(h, s),
         \A c \in Cells : owner[c] = h => next'[c] = next[c] /\ prev'[c] = prev[c],
         \A e \in Entries : owner'[e] = h <=> owner[e] = h
  PROVE  IsRing(h, s)'
<1>1. /\ s \in Seq(Entries)
      /\ \A i, j \in 1..Len(s) : s[i] = s[j] => i = j
      /\ \A e \in Entries : owner[e] = h <=> \E i \in 1..Len(s) : s[i] = e
  BY ElementOfSeq DEF IsRing, Distinct
<1>2. \A i \in 0..Len(s) : /\ next'[Place(h, s, i)] = Place(h, s, i + 1)
                           /\ prev'[Place(h, s, i + 1)] = Place(h, s, i)
  <2> SUFFICES ASSUME NEW i \in 0..Len(s)
               PROVE  /\ next'[Place(h, s, i)] = Place(h, s, i + 1)
                      /\ prev'[Place(h, s, i + 1)] = Place(h, s, i)
    OBVIOUS
  <2>1. i \in 0..Len(s) + 1 /\ i + 1 \in 0..Len(s) + 1
    BY PlacesOnRing
  <2> QED
    BY <2>1, PlacesOnRing
<1> QED
  BY <1>1, <1>2, RingNext

\* The lists of the heads after a step that changed one of them.
LEMMA SpellsNext ==
  ASSUME NEW L, Spells(L), NEW h \in Heads, owner[h] = h, owner' \in [Cells -> Heads \cup {Nil}],
         NEW s \in Seq(Entries), IsRing(h, s)', owner'[h] = h,
         \A c \in Cells : owner[c] # Nil /\ owner[c] # h =>
                            next'[c] = next[c] /\ prev'[c] = prev[c],
         \A c \in Cells : owner'[c] # owner[c] => {owner[c], owner'[c]} \subseteq {h, Nil},
         \A k \in Heads : owner'[k] = owner[k]
  PROVE  Spells([L EXCEPT ![h] = s])'
<1> DEFINE M == [L EXCEPT ![h] = s]
<1>1. M \in [Heads -> Seq(Entries)] /\ M[h] = s /\ \A k \in Heads : k # h => M[k] = L[k]
  BY DEF Spells
<1>2. ASSUME NEW k \in Heads, k # h, owner[k] = k
      PROVE  IsRing(k, L[k])'
  <2>1. IsRing(k, L[k])
    BY <1>2 DEF Spells
  <2>2. k # Nil
    BY ListAssumption
  <2>3. \A e \in Entries : owner'[e] = k <=> owner[e] = k
    BY <1>2, <2>2 DEF Cells
  <2> QED
    BY <1>2, <2>1, <2>2, <2>3, RingStays
<1>3. \A k \in Heads : IF owner'[k] = k THEN IsRing(k, M[k])' ELSE M[k] = <<>>
  BY <1>1, <1>2 DEF Spells
<1> HIDE DEF M
<1>4. Spells(M)'
  BY <1>1, <1>3 DEF Spells
<1> QED
  BY <1>4 DEF M

-----------------------------------------------------------------------------
\* __list_add behind the head puts the entry first ...
LEMMA FrontRing ==
  ASSUME NEW h \in Heads, owner[h] = h, NEW s, IsRing(h, s),
         NEW e \in Entries, owner[e] = Nil,
         \A c \in Cells : next'[c] = IF c = h THEN e ELSE IF c = e THEN next[h] ELSE next[c],
         \A c \in Cells : prev'[c] = IF c = e THEN h ELSE IF c = next[h] THEN e ELSE prev[c],
         \A c \in Cells : owner'[c] = IF c = e THEN h ELSE owner[c]
  PROVE  <<e>> \o s \in Seq(Entries) /\ IsRing(h, <<e>> \o s)'
<1> DEFINE r == <<e>> \o s
           n == Len(s)
<1> USE ListAssumption DEF Cells
<1>1. s \in Seq(Entries) /\ <<e>> \in Seq(Entries) /\ n \in Nat /\ h # e /\ h # Nil
  BY DEF IsRing
<1>2. /\ r \in Seq(Entries) /\ Len(r) = n + 1 /\ r[1] = e
      /\ \A i \in 1..n : r[i + 1] = s[i]
  BY <1>1, ConcatProperties
<1>3. \A i \in 2..n + 1 : r[i] = s[i - 1]
  <2> SUFFICES ASSUME NEW i \in 2..n + 1 PROVE r[i] = s[i - 1]
    OBVIOUS
  <2>1. i - 1 \in 1..n /\ i - 1 + 1 = i
    BY <1>1
  <2> QED
    BY <1>2, <2>1
<1> HIDE DEF r
<1>4. /\ Place(h, r, 0) = h /\ Place(h, r, 1) = e
      /\ \A i \in 2..n + 2 : Place(h, r, i) = Place(h, s, i - 1)
  BY <1>1, <1>2, <1>3 DEF Place
<1>5. /\ Place(h, s, 0) = h
      /\ \A i \in 0..n + 1 : Place(h, s, i) \in Cells /\ owner[Place(h, s, i)] = h
      /\ \A i \in 1..n : Place(h, s, i) # h
      /\ \A i \in 0..n : /\ next[Place(h, s, i)] = Place(h, s, i + 1)
                         /\ prev[Place(h, s, i + 1)] = Place(h, s, i)
      /\ \A i, j \in 1..n + 1 : Place(h, s, i) = Place(h, s, j) => i = j
  BY PlacesOnRing DEF Place
<1>6. ASSUME NEW i \in 0..n + 1
      PROVE  /\ next'[Place(h, r, i)] = Place(h, r, i + 1)
             /\ prev'[Place(h, r, i + 1)] = Place(h, r, i)
  <2>1. next[h] = Place(h, s, 1)
    BY <1>1, <1>5
  <2>2. CASE i = 0
    BY <1>1, <1>4, <2>2
  <2>3. CASE i = 1
    <3>1. Place(h, r, 2) = Place(h, s, 1) /\ Place(h, s, 1) \in Cells /\ Place(h, s, 1) # e
      BY <1>1, <1>4, <1>5
    <3> QED
      BY <1>1, <1>4, <2>1, <2>3, <3>1
  <2>4. CASE i \in 2..n + 1
    <3>1. /\ i - 1 \in 1..n /\ i \in 1..n + 1 /\ i - 1 \in 0..n /\ i - 1 + 1 = i /\ i # 1
          /\ i - 1 \in 0..n + 1 /\ i \in 0..n + 1 /\ i + 1 \in 2..n + 2 /\ i \in 2..n + 2
          /\ i + 1 - 1 = i /\ 1 \in 1..n + 1
      BY <1>1, <2>4
    <3>2. Place(h, r, i) = Place(h, s, i - 1) /\ Place(h, r, i + 1) = Place(h, s, i)
      BY <1>4, <3>1
    <3>3. /\ Place(h, s, i - 1) \in Cells /\ Place(h, s, i - 1) # h /\ Place(h, s, i - 1) # e
          /\ Place(h, s, i) \in Cells /\ Place(h, s, i) # e /\ Place(h, s, i) # next[h]
      BY <1>1, <1>5, <2>1, <3>1
    <3>4. next[Place(h, s, i - 1)] = Place(h, s, i) /\ prev[Place(h, s, i)] = Place(h, s, i - 1)
      BY <1>5, <3>1
    <3> QED
      BY <3>2, <3>3, <3>4
  <2> QED
    BY <1>1, <2>2, <2>3, <2>4
<1>7. \A i, j \in 1..Len(r) : r[i] = r[j] => i = j
  <2>1. /\ \A i \in 1..n : s[i] # e
        /\ \A i, j \in 1..n : s[i] = s[j] => i = j
    BY <1>1 DEF IsRing, Distinct
  <2>2. \A i \in 1..Len(r) : i = 1 \/ (i \in 2..n + 1 /\ i - 1 \in 1..n /\ i # 1)
    BY <1>1, <1>2
  <2>3. \A i \in 2..n + 1 : i - 1 \in 1..n /\ r[i] = s[i - 1] /\ r[i] # e
    BY <1>1, <1>3, <2>1
  <2>4. ASSUME NEW i \in 2..n + 1, NEW j \in 2..n + 1, r[i] = r[j]
        PROVE  i = j
    <3>1. i - 1 = j - 1
      BY <2>1, <2>3, <2>4
    <3> QED
      BY <1>1, <3>1
  <2> QED
    BY <1>2, <2>2, <2>3, <2>4
<1>8. \A x \in Entries : owner'[x] = h <=> \E i \in 1..Len(r) : r[i] = x
  <2>1. \A x \in Entries : owner[x] = h <=> \E i \in 1..n : s[i] = x
    BY DEF IsRing
  <2>2. \A x \in Entries : (\E i \in 1..Len(r) : r[i] = x) <=> x = e \/ \E i \in 1..n : s[i] = x
    <3>1. \A i \in 1..n : i + 1 \in 1..Len(r)
      BY <1>1, <1>2
    <3>2. \A i \in 1..Len(r) : i = 1 \/ (i \in 2..n + 1 /\ i - 1 \in 1..n)
      BY <1>1, <1>2
    <3>3. 1 \in 1..Len(r)
      BY <1>1, <1>2
    <3> SUFFICES ASSUME NEW x \in Entries
                 PROVE  (\E i \in 1..Len(r) : r[i] = x) <=> x = e \/ \E i \in 1..n : s[i] = x
      OBVIOUS
    <3>4. ASSUME NEW i \in 1..Len(r), r[i] = x
          PROVE  x = e \/ \E j \in 1..n : s[j] = x
      BY <1>2, <1>3, <3>2, <3>4
    <3>5. ASSUME NEW i \in 1..n, s[i] = x
          PROVE  \E j \in 1..Len(r) : r[j] = x
      BY <1>2, <3>1, <3>5
    <3> QED
      BY <1>2, <3>3, <3>4, <3>5
  <2> QED
    BY <2>1, <2>2
<1>9. IsRing(h, r)'
  <2>1. \A i \in 0..Len(r) : /\ next'[Place(h, r, i)] = Place(h, r, i + 1)
                             /\ prev'[Place(h, r, i + 1)] = Place(h, r, i)
    BY <1>2, <1>6
  <2> QED
    BY <1>2, <1>7, <1>8, <2>1, RingNext, SMTT(30)
<1> QED
  BY <1>2, <1>9 DEF r

\* ... and __list_add in front of the head puts it last.
LEMMA BackRing ==
  ASSUME NEW h \in Heads, owner[h] = h, NEW s, IsRing(h, s),
         NEW e \in Entries, owner[e] = Nil,
         \A c \in Cells : next'[c] = IF c = prev[h] THEN e ELSE IF c = e THEN h ELSE next[c],
         \A c \in Cells : prev'[c] = IF c = e THEN prev[h] ELSE IF c = h THEN e ELSE prev[c],
         \A c \in Cells : owner'[c] = IF c = e THEN h ELSE owner[c]
  PROVE  Append(s, e) \in Seq(Entries) /\ IsRing(h, Append(s, e))'
<1> DEFINE r == Append(s, e)
           n == Len(s)
<1> USE ListAssumption DEF Cells
<1>1. s \in Seq(Entries) /\ n \in Nat /\ h # e /\ h # Nil
  BY DEF IsRing
<1>2. /\ r \in Seq(Entries) /\ Len(r) = n + 1 /\ r[n + 1] = e
      /\ \A i \in 1..n : r[i] = s[i]
  BY <1>1, AppendProperties
<1> HIDE DEF r
<1>4. /\ Place(h, r, n + 1) = e /\ Place(h, r, n + 2) = h
      /\ \A i \in 0..n : Place(h, r, i) = Place(h, s, i)
  BY <1>1, <1>2 DEF Place
<1>5. /\ Place(h, s, n + 1) = h
      /\ \A i \in 0..n + 1 : Place(h, s, i) \in Cells /\ owner[Place(h, s, i)] = h
      /\ \A i \in 1..n : Place(h, s, i) # h
      /\ \A i \in 0..n : /\ next[Place(h, s, i)] = Place(h, s, i + 1)
                         /\ prev[Place(h, s, i + 1)] = Place(h, s, i)
      /\ \A i, j \in 0..n : Place(h, s, i) = Place(h, s, j) => i = j
  BY PlacesOnRing DEF Place
<1>6. ASSUME NEW i \in 0..n + 1
      PROVE  /\ next'[Place(h, r, i)] = Place(h, r, i + 1)
             /\ prev'[Place(h, r, i + 1)] = Place(h, r, i)
  <2>1. prev[h] = Place(h, s, n) /\ Place(h, s, n) \in Cells /\ Place(h, s, n) # e
    BY <1>1, <1>5
  <2>2. CASE i = n + 1
    <3>1. i + 1 = n + 2 /\ h \in Cells /\ e \in Cells
      BY <1>1, <2>2
    <3> QED
      BY <1>1, <1>4, <2>1, <2>2, <3>1
  <2>3. CASE i = n
    <3>1. i \in 0..n /\ e \in Cells
      BY <1>1, <2>3
    <3> QED
      BY <1>1, <1>4, <2>1, <2>3, <3>1
  <2>4. CASE i \in 0..n - 1
    <3>1. i \in 0..n /\ i + 1 \in 0..n /\ i + 1 \in 1..n /\ i # n /\ n \in 0..n
          /\ i \in 0..n + 1 /\ i + 1 \in 0..n + 1
      BY <1>1, <2>4
    <3>2. Place(h, r, i) = Place(h, s, i) /\ Place(h, r, i + 1) = Place(h, s, i + 1)
      BY <1>4, <3>1
    <3>3. /\ Place(h, s, i) \in Cells /\ Place(h, s, i) # e /\ Place(h, s, i) # prev[h]
          /\ Place(h, s, i + 1) \in Cells /\ Place(h, s, i + 1) # e /\ Place(h, s, i + 1) # h
      BY <1>1, <1>5, <2>1, <3>1
    <3>4. next[Place(h, s, i)] = Place(h, s, i + 1) /\ prev[Place(h, s, i + 1)] = Place(h, s, i)
      BY <1>5, <3>1
    <3> QED
      BY <3>2, <3>3, <3>4
  <2> QED
    BY <1>1, <2>2, <2>3, <2>4
<1>7. \A i, j \in 1..Len(r) : r[i] = r[j] => i = j
  <2>1. /\ \A i \in 1..n : s[i] # e
        /\ \A i, j \in 1..n : s[i] = s[j] => i = j
    BY <1>1 DEF IsRing, Distinct
  <2>2. \A i \in 1..Len(r) : i = n + 1 \/ i \in 1..n
    BY <1>1, <1>2
  <2> QED
    BY <1>1, <1>2, <2>1, <2>2
<1>8. \A x \in Entries : owner'[x] = h <=> \E i \in 1..Len(r) : r[i] = x
  <2>1. \A x \in Entries : owner[x] = h <=> \E i \in 1..n : s[i] = x
    BY DEF IsRing
  <2>2. \A x \in Entries : (\E i \in 1..Len(r) : r[i] = x) <=> x = e \/ \E i \in 1..n : s[i] = x
    <3>1. \A i \in 1..Len(r) : i = n + 1 \/ i \in 1..n
      BY <1>1, <1>2
    <3>2. n + 1 \in 1..Len(r) /\ \A i \in 1..n : i \in 1..Len(r)
      BY <1>1, <1>2
    <3> QED
      BY <1>2, <3>1, <3>2
  <2> QED
    BY <2>1, <2>2
<1>9. IsRing(h, r)'
  BY <1>1, <1>2, <1>6, <1>7, <1>8, RingNext
<1> QED
  BY <1>2, <1>9 DEF r

\* __list_del takes one entry out of the sequence.
LEMMA RemovedRing ==
  ASSUME NEW h \in Heads, owner[h] = h, NEW s, IsRing(h, s),
         NEW e \in Entries, NEW j \in 1..Len(s), s[j] = e,
         \A c \in Cells \ {e} : next'[c] = IF c = prev[e] THEN next[e] ELSE next[c],
         \A c \in Cells \ {e} : prev'[c] = IF c = next[e] THEN prev[e] ELSE prev[c],
         \A c \in Cells : owner'[c] = IF c = e THEN Nil ELSE owner[c]
  PROVE  Abs!RemoveAt(s, j) \in Seq(Entries) /\ IsRing(h, Abs!RemoveAt(s, j))'
<1> DEFINE r == Abs!RemoveAt(s, j)
           n == Len(s)
<1> USE ListAssumption DEF Cells
<1>1. s \in Seq(Entries) /\ n \in Nat /\ h # e /\ h # Nil /\ j \in 1..n
      /\ \A i \in 1..n : s[i] \in Entries
  BY PlacesOnRing DEF IsRing
<1>2. /\ r \in Seq(Entries) /\ Len(r) = n - 1
      /\ \A i \in 1..n - 1 : r[i] = IF i < j THEN s[i] ELSE s[i + 1]
  <2> DEFINE before == SubSeq(s, 1, j - 1)
             after == SubSeq(s, j + 1, n)
  <2>1. j - 1 \in Int /\ j + 1 \in Int /\ n \in Int /\ 1 \in Int
    BY <1>1
  <2>2. /\ before \in Seq(Entries) /\ Len(before) = j - 1
        /\ \A i \in 1..j - 1 : before[i] = s[i]
    <3>1. \A i \in 1..j - 1 : s[i] \in Entries
      BY <1>1
    <3>2. /\ before \in Seq(Entries) /\ Len(before) = IF 1 <= j - 1 THEN j - 1 - 1 + 1 ELSE 0
          /\ \A i \in 1..j - 1 - 1 + 1 : before[i] = s[1 + i - 1]
      BY <2>1, <3>1, SubSeqProperties
    <3> QED
      BY <1>1, <3>2
  <2>3. /\ after \in Seq(Entries) /\ Len(after) = n - j
        /\ \A i \in 1..n - j : after[i] = s[j + i]
    <3>1. \A i \in j + 1..n : s[i] \in Entries
      BY <1>1
    <3>2. /\ after \in Seq(Entries)
          /\ Len(after) = IF j + 1 <= n THEN n - (j + 1) + 1 ELSE 0
          /\ \A i \in 1..n - (j + 1) + 1 : after[i] = s[j + 1 + i - 1]
      BY <2>1, <3>1, SubSeqProperties
    <3> QED
      BY <1>1, <3>2
  <2>4. r = before \o after
    BY DEF Abs!RemoveAt
  <2> HIDE DEF before, after, r
  <2>5. /\ r \in Seq(Entries) /\ Len(r) = Len(before) + Len(after)
        /\ \A i \in 1..Len(before) + Len(after) :
             r[i] = IF i <= Len(before) THEN before[i] ELSE after[i - Len(before)]
    <3>1. before \in Seq(Entries) /\ after \in Seq(Entries)
      BY <2>2, <2>3
    <3>2. /\ before \o after \in Seq(Entries)
          /\ Len(before \o after) = Len(before) + Len(after)
          /\ \A i \in 1..Len(before) + Len(after) :
               (before \o after)[i] = IF i <= Len(before) THEN before[i]
                                                         ELSE after[i - Len(before)]
      BY <3>1, ConcatProperties
    <3> QED
      BY <2>4, <3>2, Zenon
  <2>6. Len(r) = n - 1
    BY <1>1, <2>2, <2>3, <2>5
  <2>7. ASSUME NEW i \in 1..n - 1
        PROVE  r[i] = IF i < j THEN s[i] ELSE s[i + 1]
    <3>1. r[i] = IF i <= j - 1 THEN before[i] ELSE after[i - (j - 1)]
      BY <1>1, <2>2, <2>3, <2>5
    <3>2. CASE i < j
      <4>1. i \in 1..j - 1 /\ i <= j - 1
        BY <1>1, <3>2
      <4> QED
        BY <2>2, <3>1, <3>2, <4>1
    <3>3. CASE i >= j
      <4>1. i - (j - 1) \in 1..n - j /\ j + (i - (j - 1)) = i + 1 /\ ~(i <= j - 1) /\ ~(i < j)
        BY <1>1, <3>3
      <4>2. after[i - (j - 1)] = s[i + 1]
        BY <2>3, <4>1
      <4> QED
        BY <3>1, <4>1, <4>2
    <3> QED
      BY <1>1, <3>2, <3>3
  <2> QED
    BY <2>5, <2>6, <2>7
<1> HIDE DEF r
<1>3. \A i \in 0..n : Place(h, r, i) = IF i < j THEN Place(h, s, i) ELSE Place(h, s, i + 1)
  BY <1>1, <1>2 DEF Place
<1>4. /\ \A i \in 0..n + 1 : Place(h, s, i) \in Cells
      /\ \A i \in 0..n : /\ next[Place(h, s, i)] = Place(h, s, i + 1)
                         /\ prev[Place(h, s, i + 1)] = Place(h, s, i)
      /\ \A i, k \in 0..n : Place(h, s, i) = Place(h, s, k) => i = k
      /\ \A i, k \in 1..n + 1 : Place(h, s, i) = Place(h, s, k) => i = k
      /\ Place(h, s, j) = e
  BY <1>1, PlacesOnRing DEF Place
<1>5. prev[e] = Place(h, s, j - 1) /\ next[e] = Place(h, s, j + 1)
  <2>1. j \in 0..n /\ j - 1 \in 0..n /\ j - 1 + 1 = j
    BY <1>1
  <2> QED
    BY <1>4, <2>1
<1>6. ASSUME NEW i \in 0..n - 1
      PROVE  /\ next'[Place(h, r, i)] = Place(h, r, i + 1)
             /\ prev'[Place(h, r, i + 1)] = Place(h, r, i)
  <2>1. CASE i < j - 1
    <3>1. /\ i \in 0..n /\ i + 1 \in 0..n /\ i + 1 \in 1..n + 1 /\ i < j /\ i + 1 < j
          /\ j \in 0..n /\ j \in 1..n + 1 /\ j - 1 \in 0..n /\ j + 1 \in 1..n + 1
          /\ i # j /\ i + 1 # j /\ i # j - 1 /\ i + 1 # j + 1
          /\ i \in 0..n + 1 /\ i + 1 \in 0..n + 1
      BY <1>1, <2>1
    <3>2. /\ Place(h, s, i) \in Cells \ {e} /\ Place(h, s, i) # prev[e]
          /\ Place(h, s, i + 1) \in Cells \ {e} /\ Place(h, s, i + 1) # next[e]
      BY <1>4, <1>5, <3>1
    <3> QED
      BY <1>3, <1>4, <3>1, <3>2
  <2>2. CASE i = j - 1
    <3>1. /\ i \in 0..n /\ i + 1 \in 0..n /\ i + 1 = j /\ i < j /\ ~(j < j) /\ j + 1 \in 1..n + 1
          /\ j \in 0..n /\ j \in 1..n + 1 /\ i # j /\ j + 1 # j
          /\ i \in 0..n + 1 /\ j + 1 \in 0..n + 1
      BY <1>1, <2>2
    <3>2. Place(h, r, i) = prev[e] /\ Place(h, r, i + 1) = next[e]
      BY <1>3, <1>5, <2>2, <3>1
    <3>3. prev[e] \in Cells \ {e} /\ next[e] \in Cells \ {e}
      BY <1>4, <1>5, <2>2, <3>1
    <3> QED
      BY <3>2, <3>3
  <2>3. CASE i >= j
    <3>1. /\ i \in 0..n /\ i + 1 \in 0..n /\ i + 2 \in 1..n + 1 /\ ~(i < j) /\ ~(i + 1 < j)
          /\ j \in 0..n /\ j \in 1..n + 1 /\ j - 1 \in 0..n /\ j + 1 \in 1..n + 1
          /\ i + 1 # j /\ i + 2 # j /\ i + 1 # j - 1 /\ i + 2 # j + 1 /\ i + 1 + 1 = i + 2
          /\ i + 1 \in 0..n + 1 /\ i + 2 \in 0..n + 1
      BY <1>1, <2>3
    <3>2. /\ Place(h, s, i + 1) \in Cells \ {e} /\ Place(h, s, i + 1) # prev[e]
          /\ Place(h, s, i + 2) \in Cells \ {e} /\ Place(h, s, i + 2) # next[e]
      BY <1>4, <1>5, <3>1
    <3>3. Place(h, r, i) = Place(h, s, i + 1) /\ Place(h, r, i + 1) = Place(h, s, i + 2)
      BY <1>3, <3>1
    <3>4. /\ next[Place(h, s, i + 1)] = Place(h, s, i + 2)
          /\ prev[Place(h, s, i + 2)] = Place(h, s, i + 1)
      BY <1>4, <3>1
    <3> QED
      BY <3>2, <3>3, <3>4
  <2> QED
    BY <1>1, <2>1, <2>2, <2>3
<1>7. /\ \A i, k \in 1..n : s[i] = s[k] => i = k
      /\ \A x \in Entries : owner[x] = h <=> \E i \in 1..n : s[i] = x
  BY <1>1 DEF IsRing, Distinct
<1>8. \A i, k \in 1..Len(r) : r[i] = r[k] => i = k
  BY <1>1, <1>2, <1>7
<1>9. \A x \in Entries : owner'[x] = h <=> \E i \in 1..Len(r) : r[i] = x
  <2> SUFFICES ASSUME NEW x \in Entries
               PROVE  owner'[x] = h <=> \E i \in 1..Len(r) : r[i] = x
    OBVIOUS
  <2>1. ASSUME NEW i \in 1..Len(r), r[i] = x
        PROVE  owner'[x] = h
    <3>1. /\ i \in 1..n - 1 /\ i \in 1..n /\ i + 1 \in 1..n /\ j \in 1..n
          /\ (i < j => i # j) /\ (~(i < j) => i + 1 # j)
      BY <1>1, <1>2
    <3>2. x # e /\ owner[x] = h
      BY <1>2, <1>7, <2>1, <3>1
    <3> QED
      BY <3>2
  <2>2. ASSUME owner'[x] = h
        PROVE  \E i \in 1..Len(r) : r[i] = x
    <3>1. x # e /\ owner[x] = h
      BY <1>1, <2>2
    <3>2. PICK k \in 1..n : s[k] = x
      BY <1>7, <3>1
    <3>3. k # j
      BY <3>1, <3>2
    <3>4. CASE k < j
      BY <1>1, <1>2, <3>2, <3>4
    <3>5. CASE k > j
      <4>1. k - 1 \in 1..n - 1 /\ ~(k - 1 < j) /\ k - 1 + 1 = k
        BY <1>1, <3>5
      <4>2. r[k - 1] = x
        BY <1>2, <3>2, <4>1
      <4> QED
        BY <1>2, <4>1, <4>2
    <3> QED
      BY <1>1, <3>3, <3>4, <3>5
  <2> QED
    BY <2>1, <2>2
<1>10. IsRing(h, r)'
  <2>1. \A i \in 0..Len(r) : /\ next'[Place(h, r, i)] = Place(h, r, i + 1)
                             /\ prev'[Place(h, r, i + 1)] = Place(h, r, i)
    BY <1>2, <1>6
  <2> QED
    BY <1>2, <1>8, <1>9, <2>1, RingNext
<1> QED
  BY <1>2, <1>10 DEF r

\* common_list_splice puts one sequence in front of the other.
LEMMA SplicedRing ==
  ASSUME NEW l \in Heads, NEW h \in Heads, l # h, owner[l] = l, owner[h] = h,
         NEW a, IsRing(l, a), NEW b, IsRing(h, b), next[l] # l,
         \A c \in Cells : next'[c] = IF c = prev[l] THEN next[h]
                                     ELSE IF c = h THEN next[l] ELSE next[c],
         \A c \in Cells : prev'[c] = IF c = next[h] THEN prev[l]
                                     ELSE IF c = next[l] THEN h ELSE prev[c],
         \A c \in Cells : owner'[c] = IF c = l THEN Nil
                                      ELSE IF owner[c] = l THEN h ELSE owner[c]
  PROVE  a \o b \in Seq(Entries) /\ IsRing(h, a \o b)'
<1> DEFINE r == a \o b
           n == Len(a)
           m == Len(b)
<1> USE ListAssumption DEF Cells
<1>1. /\ a \in Seq(Entries) /\ b \in Seq(Entries) /\ n \in Nat /\ m \in Nat
      /\ h # Nil /\ l # Nil
      /\ \A i \in 1..n : a[i] \in Entries
      /\ \A i \in 1..m : b[i] \in Entries
  BY PlacesOnRing DEF IsRing
<1>2. /\ \A i \in 0..n + 1 : Place(l, a, i) \in Cells /\ owner[Place(l, a, i)] = l
      /\ \A i \in 0..n : /\ next[Place(l, a, i)] = Place(l, a, i + 1)
                         /\ prev[Place(l, a, i + 1)] = Place(l, a, i)
      /\ \A i, j \in 0..n : Place(l, a, i) = Place(l, a, j) => i = j
      /\ \A i, j \in 1..n + 1 : Place(l, a, i) = Place(l, a, j) => i = j
      /\ Place(l, a, 0) = l /\ Place(l, a, n + 1) = l
  BY PlacesOnRing DEF Place
<1>3. /\ \A i \in 0..m + 1 : Place(h, b, i) \in Cells /\ owner[Place(h, b, i)] = h
      /\ \A i \in 0..m : /\ next[Place(h, b, i)] = Place(h, b, i + 1)
                         /\ prev[Place(h, b, i + 1)] = Place(h, b, i)
      /\ \A i, j \in 0..m : Place(h, b, i) = Place(h, b, j) => i = j
      /\ \A i, j \in 1..m + 1 : Place(h, b, i) = Place(h, b, j) => i = j
      /\ Place(h, b, 0) = h /\ Place(h, b, m + 1) = h
  BY PlacesOnRing DEF Place
<1>4. /\ n >= 1
      /\ next[l] = Place(l, a, 1) /\ prev[l] = Place(l, a, n)
      /\ next[h] = Place(h, b, 1)
  <2>1. next[l] = Place(l, a, 1) /\ prev[l] = Place(l, a, n) /\ next[h] = Place(h, b, 1)
    BY <1>1, <1>2, <1>3
  <2>2. n # 0
    BY <1>2, <2>1
  <2> QED
    BY <1>1, <2>1, <2>2
<1>5. /\ r \in Seq(Entries) /\ Len(r) = n + m
      /\ \A i \in 1..n + m : r[i] = IF i <= n THEN a[i] ELSE b[i - n]
  BY <1>1, ConcatProperties
<1> HIDE DEF r
<1>6. /\ Place(h, r, 0) = h
      /\ \A i \in 1..n : Place(h, r, i) = Place(l, a, i)
      /\ \A i \in n + 1..n + m + 1 : Place(h, r, i) = Place(h, b, i - n)
  BY <1>1, <1>5 DEF Place
<1>7. ASSUME NEW i \in 0..n + m
      PROVE  /\ next'[Place(h, r, i)] = Place(h, r, i + 1)
             /\ prev'[Place(h, r, i + 1)] = Place(h, r, i)
  <2>1. CASE i = 0
    <3>1. i + 1 = 1 /\ 1 \in 1..n /\ 1 \in 0..n + 1 /\ n \in 0..n + 1 /\ 1 \in 0..m + 1
      BY <1>1, <1>4, <2>1
    <3>2. Place(h, r, i) = h /\ Place(h, r, i + 1) = next[l]
      BY <1>4, <1>6, <2>1, <3>1
    <3>3. h # prev[l] /\ next[l] # next[h] /\ next[l] \in Cells
      BY <1>2, <1>3, <1>4, <3>1
    <3> QED
      BY <3>2, <3>3
  <2>2. CASE i \in 1..n - 1
    <3>1. /\ i \in 0..n /\ i \in 1..n /\ i + 1 \in 1..n /\ i \in 0..n + 1 /\ i + 1 \in 0..n + 1
          /\ n \in 0..n /\ 1 \in 1..n + 1 /\ i + 1 \in 1..n + 1 /\ i # n /\ i + 1 # 1
          /\ 1 \in 0..m + 1
      BY <1>1, <2>2
    <3>2. Place(h, r, i) = Place(l, a, i) /\ Place(h, r, i + 1) = Place(l, a, i + 1)
      BY <1>6, <3>1
    <3>3. /\ Place(l, a, i) \in Cells /\ Place(l, a, i) # prev[l] /\ Place(l, a, i) # h
          /\ Place(l, a, i + 1) \in Cells /\ Place(l, a, i + 1) # next[h]
          /\ Place(l, a, i + 1) # next[l]
      BY <1>2, <1>3, <1>4, <3>1
    <3>4. next[Place(l, a, i)] = Place(l, a, i + 1) /\ prev[Place(l, a, i + 1)] = Place(l, a, i)
      BY <1>2, <3>1
    <3> QED
      BY <3>2, <3>3, <3>4
  <2>3. CASE i = n
    <3>1. /\ i \in 1..n /\ i + 1 \in n + 1..n + m + 1
          /\ i + 1 - n = 1 /\ n \in 0..n + 1 /\ 1 \in 0..m + 1
      BY <1>1, <1>4, <2>3
    <3>2. Place(h, r, i) = prev[l] /\ Place(h, r, i + 1) = next[h]
      BY <1>4, <1>6, <2>3, <3>1
    <3>3. prev[l] \in Cells /\ next[h] \in Cells
      BY <1>2, <1>3, <1>4, <3>1
    <3> QED
      BY <3>2, <3>3
  <2>4. CASE i \in n + 1..n + m
    <3> DEFINE k == i - n
    <3>1. /\ k \in 1..m /\ k \in 0..m /\ k + 1 \in 1..m + 1 /\ k \in 0..m + 1 /\ k + 1 \in 0..m + 1
          /\ i \in n + 1..n + m + 1 /\ i + 1 \in n + 1..n + m + 1 /\ i + 1 - n = k + 1
          /\ 1 \in 1..m + 1 /\ k + 1 # 1 /\ k # 0 /\ 0 \in 0..m
          /\ 1 \in 0..n + 1 /\ n \in 0..n + 1
      BY <1>1, <2>4
    <3>2. Place(h, r, i) = Place(h, b, k) /\ Place(h, r, i + 1) = Place(h, b, k + 1)
      BY <1>6, <3>1
    <3> HIDE DEF k
    <3>3. /\ Place(h, b, k) \in Cells /\ Place(h, b, k) # prev[l] /\ Place(h, b, k) # h
          /\ Place(h, b, k + 1) \in Cells /\ Place(h, b, k + 1) # next[h]
          /\ Place(h, b, k + 1) # next[l]
      BY <1>2, <1>3, <1>4, <3>1
    <3>4. next[Place(h, b, k)] = Place(h, b, k + 1) /\ prev[Place(h, b, k + 1)] = Place(h, b, k)
      BY <1>3, <3>1
    <3> QED
      BY <3>2, <3>3, <3>4
  <2> QED
    BY <1>1, <2>1, <2>2, <2>3, <2>4
<1>8. /\ \A i, j \in 1..n : a[i] = a[j] => i = j
      /\ \A i, j \in 1..m : b[i] = b[j] => i = j
      /\ \A x \in Entries : owner[x] = l <=> \E i \in 1..n : a[i] = x
      /\ \A x \in Entries : owner[x] = h <=> \E i \in 1..m : b[i] = x
  BY <1>1 DEF IsRing, Distinct
<1>9. \A i \in 1..n + m : \/ i \in 1..n /\ r[i] = a[i] /\ owner[r[i]] = l
                          \/ i \notin 1..n /\ i - n \in 1..m /\ r[i] = b[i - n] /\ owner[r[i]] = h
  BY <1>1, <1>5, <1>8
<1>10. \A i, j \in 1..Len(r) : r[i] = r[j] => i = j
  <2> SUFFICES ASSUME NEW i \in 1..n + m, NEW j \in 1..n + m, r[i] = r[j]
               PROVE  i = j
    BY <1>5
  <2>1. CASE owner[r[i]] = l
    BY <1>8, <1>9, <2>1
  <2>2. CASE owner[r[i]] = h
    <3>1. i - n \in 1..m /\ j - n \in 1..m /\ b[i - n] = b[j - n]
      BY <1>9, <2>2
    <3>2. i - n = j - n
      BY <1>8, <3>1
    <3> QED
      BY <1>1, <3>2
  <2> QED
    BY <1>9, <2>1, <2>2
<1>11. \A x \in Entries : owner'[x] = h <=> \E i \in 1..Len(r) : r[i] = x
  <2> SUFFICES ASSUME NEW x \in Entries
               PROVE  owner'[x] = h <=> \E i \in 1..n + m : r[i] = x
    BY <1>5
  <2>1. owner'[x] = h <=> owner[x] \in {l, h}
    BY <1>1
  <2>2. ASSUME owner[x] = l
        PROVE  \E i \in 1..n + m : r[i] = x
    <3>1. PICK i \in 1..n : a[i] = x
      BY <1>8, <2>2
    <3> QED
      BY <1>1, <1>5, <3>1
  <2>3. ASSUME owner[x] = h
        PROVE  \E i \in 1..n + m : r[i] = x
    <3>1. PICK i \in 1..m : b[i] = x
      BY <1>8, <2>3
    <3>2. n + i \in 1..n + m /\ ~(n + i <= n) /\ n + i - n = i
      BY <1>1
    <3>3. r[n + i] = x
      BY <1>5, <3>1, <3>2
    <3> QED
      BY <3>2, <3>3
  <2>4. ASSUME NEW i \in 1..n + m, r[i] = x
        PROVE  owner[x] \in {l, h}
    BY <1>9, <2>4
  <2> QED
    BY <2>1, <2>2, <2>3, <2>4
<1>12. IsRing(h, r)'
  <2>1. \A i \in 0..Len(r) : /\ next'[Place(h, r, i)] = Place(h, r, i + 1)
                             /\ prev'[Place(h, r, i + 1)] = Place(h, r, i)
    BY <1>5, <1>7
  <2> QED
    BY <1>5, <1>10, <1>11, <2>1, RingNext, ZenonT(30)
<1> QED
  BY <1>5, <1>12 DEF r

-----------------------------------------------------------------------------
\* Whatever is on a ring is on the ring of a head that is a list.
OwnersListed == \A c \in Cells : owner[c] # Nil => owner[owner[c]] = owner[c]

\* The inductive invariant: the pointers spell out what a traversal meets.
SpelledInv == IInv /\ OwnersListed /\ \E L : Spells(L)

\* Initially all lists are empty.
LEMMA InitSpells == Init => OwnersListed /\ Spells([h \in Heads |-> <<>>])
<1> SUFFICES ASSUME Init
             PROVE  OwnersListed /\ Spells([h \in Heads |-> <<>>])
  OBVIOUS
<1> USE ListAssumption DEF Cells
<1>1. OwnersListed
  BY DEF Init, OwnersListed
<1>2. ASSUME NEW h \in Heads
      PROVE  IsRing(h, <<>>) /\ owner[h] = h
  <2>1. <<>> \in Seq(Entries) /\ Len(<<>>) = 0
    BY EmptySeq
  <2>2. \A e \in Entries : owner[e] # h
    BY DEF Init
  <2>3. next[h] = h /\ prev[h] = h /\ owner[h] = h
    BY DEF Init
  <2> QED
    BY <2>1, <2>2, <2>3 DEF IsRing, Distinct, LeadsThrough, Place
<1>3. [h \in Heads |-> <<>>] \in [Heads -> Seq(Entries)]
  BY EmptySeq
<1> QED
  BY <1>1, <1>2, <1>3 DEF Spells

LEMMA OwnersListedNext == IInv /\ OwnersListed /\ [Next]_vars => OwnersListed'
<1> SUFFICES ASSUME IInv, OwnersListed, [Next]_vars
             PROVE  OwnersListed'
  OBVIOUS
<1> USE ListAssumption DEF Cells
<1>1. owner \in [Cells -> Heads \cup {Nil}] /\ HeadsOwn
  BY DEF IInv, TypeOK
<1>2. ASSUME NEW e \in Entries, NEW h \in Heads, Add(e, h) \/ AddTail(e, h)
      PROVE  OwnersListed'
  <2>1. owner[h] = h /\ owner' = [owner EXCEPT ![e] = h]
    BY <1>2 DEF Add, AddTail
  <2> QED
    BY <1>1, <2>1 DEF OwnersListed
<1>3. ASSUME NEW e \in Entries, owner' = [owner EXCEPT ![e] = Nil]
      PROVE  OwnersListed'
  BY <1>1, <1>3 DEF OwnersListed
<1>4. ASSUME NEW l \in Heads, NEW h \in Heads, Splice(l, h)
      PROVE  OwnersListed'
  <2>1. CASE owner' = owner
    BY <2>1 DEF OwnersListed
  <2>2. CASE /\ l # h /\ owner[h] = h
             /\ owner' = [c \in Cells |-> IF c = l THEN Nil
                                          ELSE IF owner[c] = l THEN h ELSE owner[c]]
    BY <1>1, <2>2 DEF OwnersListed, HeadsOwn
  <2> QED
    BY <1>4, <2>1, <2>2 DEF Splice
<1>5. ASSUME NEW h \in Heads, InitHead(h)
      PROVE  OwnersListed'
  BY <1>1, <1>5 DEF OwnersListed, InitHead
<1>6. ASSUME owner' = owner
      PROVE  OwnersListed'
  BY <1>6 DEF OwnersListed
<1>7. ASSUME FreeFirst
      PROVE  OwnersListed'
  <2>1. freeing \in Heads /\ owner[freeing] = freeing /\ RingsIntact /\ freeing \in Linked
    BY <1>7 DEF IInv, TypeOK, FreeFirst, FreeingLinked, Linked
  <2>2. next[freeing] \in Entries
    BY <1>1, <1>7, <2>1 DEF FreeFirst, IsEmpty, RingsIntact, HeadsOwn, Linked
  <2> QED
    BY <1>3, <1>7, <2>2 DEF FreeFirst
<1> QED
  BY <1>2, <1>3, <1>4, <1>5, <1>6, <1>7
     DEF Next, vars, Del, DelInit, StartFreeList, EndFreeList

-----------------------------------------------------------------------------
\* common_list_add puts the entry first.
LEMMA AddSpells ==
  ASSUME IInv, NEW L, Spells(L), NEW e \in Entries, NEW h \in Heads, Add(e, h)
  PROVE  Spells([L EXCEPT ![h] = <<e>> \o L[h]])'
<1> USE ListAssumption DEF Cells
<1>1. /\ owner[e] = Nil /\ owner[h] = h /\ e # h /\ h \in Cells /\ e \in Cells
      /\ next \in [Cells -> Cells \cup {Nil}] /\ prev \in [Cells -> Cells \cup {Nil}]
      /\ owner \in [Cells -> Heads \cup {Nil}]
      /\ owner' = [owner EXCEPT ![e] = h]
      /\ LinkBetween(e, h, next[h])
  BY DEF Add, Free, IInv, TypeOK
<1>2. next[h] \in Cells /\ next[h] # e /\ owner[next[h]] = h
  BY <1>1 DEF IInv, RingsIntact, Linked
<1>3. \A c \in Cells : next'[c] = IF c = h THEN e ELSE IF c = e THEN next[h] ELSE next[c]
  BY <1>1, <1>2 DEF LinkBetween
<1>4. \A c \in Cells : prev'[c] = IF c = e THEN h ELSE IF c = next[h] THEN e ELSE prev[c]
  BY <1>1, <1>2 DEF LinkBetween
<1>5. /\ \A c \in Cells : owner'[c] = IF c = e THEN h ELSE owner[c]
      /\ owner' \in [Cells -> Heads \cup {Nil}]
  BY <1>1
<1>6. IsRing(h, L[h])
  BY <1>1 DEF Spells
<1>7. <<e>> \o L[h] \in Seq(Entries) /\ IsRing(h, <<e>> \o L[h])'
  BY <1>1, <1>3, <1>4, <1>5, <1>6, FrontRing
<1>8. \A c \in Cells : owner[c] # Nil /\ owner[c] # h =>
                         next'[c] = next[c] /\ prev'[c] = prev[c]
  BY <1>1, <1>2, <1>3, <1>4
<1>9. /\ \A c \in Cells : owner'[c] # owner[c] => {owner[c], owner'[c]} \subseteq {h, Nil}
      /\ \A k \in Heads : owner'[k] = owner[k]
      /\ owner'[h] = h
  BY <1>1, <1>5
<1> QED
  BY <1>1, <1>5, <1>7, <1>8, <1>9, SpellsNext

\* common_list_add_tail puts it last.
LEMMA AddTailSpells ==
  ASSUME IInv, NEW L, Spells(L), NEW e \in Entries, NEW h \in Heads, AddTail(e, h)
  PROVE  Spells([L EXCEPT ![h] = Append(L[h], e)])'
<1> USE ListAssumption DEF Cells
<1>1. /\ owner[e] = Nil /\ owner[h] = h /\ e # h /\ h \in Cells /\ e \in Cells
      /\ next \in [Cells -> Cells \cup {Nil}] /\ prev \in [Cells -> Cells \cup {Nil}]
      /\ owner \in [Cells -> Heads \cup {Nil}]
      /\ owner' = [owner EXCEPT ![e] = h]
      /\ LinkBetween(e, prev[h], h)
  BY DEF AddTail, Free, IInv, TypeOK
<1>2. prev[h] \in Cells /\ prev[h] # e /\ owner[prev[h]] = h
  BY <1>1 DEF IInv, RingsIntact, Linked
<1>3. \A c \in Cells : next'[c] = IF c = prev[h] THEN e ELSE IF c = e THEN h ELSE next[c]
  BY <1>1, <1>2 DEF LinkBetween
<1>4. \A c \in Cells : prev'[c] = IF c = e THEN prev[h] ELSE IF c = h THEN e ELSE prev[c]
  BY <1>1, <1>2 DEF LinkBetween
<1>5. /\ \A c \in Cells : owner'[c] = IF c = e THEN h ELSE owner[c]
      /\ owner' \in [Cells -> Heads \cup {Nil}]
  BY <1>1
<1>6. IsRing(h, L[h])
  BY <1>1 DEF Spells
<1>7. Append(L[h], e) \in Seq(Entries) /\ IsRing(h, Append(L[h], e))'
  BY <1>1, <1>3, <1>4, <1>5, <1>6, BackRing
<1>8. \A c \in Cells : owner[c] # Nil /\ owner[c] # h =>
                         next'[c] = next[c] /\ prev'[c] = prev[c]
  BY <1>1, <1>2, <1>3, <1>4
<1>9. /\ \A c \in Cells : owner'[c] # owner[c] => {owner[c], owner'[c]} \subseteq {h, Nil}
      /\ \A k \in Heads : owner'[k] = owner[k]
      /\ owner'[h] = h
  BY <1>1, <1>5
<1> QED
  BY <1>1, <1>5, <1>7, <1>8, <1>9, SpellsNext

\* common_list_del, common_list_del_init and each round of COMMON_FREE_LIST
\* take one entry out of one sequence, whatever becomes of its own pointers.
LEMMA UnlinkSpells ==
  ASSUME IInv, OwnersListed, NEW L, Spells(L), NEW e \in Entries, owner[e] # Nil,
         \A c \in Cells \ {e} : next'[c] = IF c = prev[e] THEN next[e] ELSE next[c],
         \A c \in Cells \ {e} : prev'[c] = IF c = next[e] THEN prev[e] ELSE prev[c],
         owner' = [owner EXCEPT ![e] = Nil]
  PROVE  \E h \in Heads : \E j \in 1..Len(L[h]) :
           L[h][j] = e /\ Spells([L EXCEPT ![h] = Abs!RemoveAt(L[h], j)])'
<1> USE ListAssumption DEF Cells
<1>1. /\ owner \in [Cells -> Heads \cup {Nil}] /\ e \in Linked
      /\ next[e] \in Linked /\ prev[e] \in Linked
      /\ owner[next[e]] = owner[e] /\ owner[prev[e]] = owner[e]
  BY DEF IInv, TypeOK, RingsIntact, Linked
<1>2. PICK h \in Heads : owner[e] = h /\ owner[h] = h /\ h # Nil /\ h # e
  BY <1>1 DEF OwnersListed
<1>3. /\ \A c \in Cells : owner'[c] = IF c = e THEN Nil ELSE owner[c]
      /\ owner' \in [Cells -> Heads \cup {Nil}]
  BY <1>1
<1>4. IsRing(h, L[h])
  BY <1>2 DEF Spells
<1>5. PICK j \in 1..Len(L[h]) : L[h][j] = e
  BY <1>2, <1>4 DEF IsRing
<1>6. Abs!RemoveAt(L[h], j) \in Seq(Entries) /\ IsRing(h, Abs!RemoveAt(L[h], j))'
  BY <1>2, <1>3, <1>4, <1>5, RemovedRing
<1>7. \A c \in Cells : owner[c] # Nil /\ owner[c] # h =>
                         next'[c] = next[c] /\ prev'[c] = prev[c]
  BY <1>1, <1>2
<1>8. /\ \A c \in Cells : owner'[c] # owner[c] => {owner[c], owner'[c]} \subseteq {h, Nil}
      /\ \A k \in Heads : owner'[k] = owner[k]
      /\ owner'[h] = h
  BY <1>1, <1>2, <1>3
<1>9. Spells([L EXCEPT ![h] = Abs!RemoveAt(L[h], j)])'
  BY <1>2, <1>3, <1>6, <1>7, <1>8, SpellsNext
<1> QED
  BY <1>2, <1>5, <1>9

\* common_list_splice of a list with entries moves them, in their order, in
\* front of the other list; the head they came from is no list any more.
LEMMA SpliceSpells ==
  ASSUME IInv, NEW L, Spells(L), NEW l \in Heads, NEW h \in Heads,
         Splice(l, h), ~IsEmpty(l)
  PROVE  Spells([L EXCEPT ![h] = L[l] \o L[h], ![l] = <<>>])'
<1> USE ListAssumption DEF Cells
<1> DEFINE M == [L EXCEPT ![h] = L[l] \o L[h], ![l] = <<>>]
<1>1. /\ l # h /\ owner[l] = l /\ owner[h] = h /\ next[l] # l
      /\ next \in [Cells -> Cells \cup {Nil}] /\ prev \in [Cells -> Cells \cup {Nil}]
      /\ owner \in [Cells -> Heads \cup {Nil}] /\ l \in Linked /\ h \in Linked
      /\ next' = [[next EXCEPT ![h] = next[l]] EXCEPT ![prev[l]] = next[h]]
      /\ prev' = [[prev EXCEPT ![next[l]] = h] EXCEPT ![next[h]] = prev[l]]
      /\ owner' = [c \in Cells |-> IF c = l THEN Nil
                                   ELSE IF owner[c] = l THEN h ELSE owner[c]]
  BY DEF Splice, IsEmpty, IInv, TypeOK, Linked
<1>2. /\ prev[l] \in Cells /\ next[l] \in Cells /\ next[h] \in Cells
      /\ owner[prev[l]] = l /\ owner[next[l]] = l /\ owner[next[h]] = h
  BY <1>1 DEF IInv, RingsIntact, Linked
<1>3. /\ \A c \in Cells : next'[c] = IF c = prev[l] THEN next[h]
                                     ELSE IF c = h THEN next[l] ELSE next[c]
      /\ \A c \in Cells : prev'[c] = IF c = next[h] THEN prev[l]
                                     ELSE IF c = next[l] THEN h ELSE prev[c]
      /\ \A c \in Cells : owner'[c] = IF c = l THEN Nil
                                      ELSE IF owner[c] = l THEN h ELSE owner[c]
  BY <1>1, <1>2
<1>4. L[l] \o L[h] \in Seq(Entries) /\ IsRing(h, L[l] \o L[h])'
  BY <1>1, <1>3, SplicedRing DEF Spells
<1>5. /\ M \in [Heads -> Seq(Entries)] /\ M[h] = L[l] \o L[h] /\ M[l] = <<>>
      /\ \A k \in Heads : k # h /\ k # l => M[k] = L[k]
  BY <1>1, <1>4, EmptySeq DEF Spells
<1> HIDE DEF M
<1>6. ASSUME NEW k \in Heads, k # h, k # l, owner[k] = k
      PROVE  IsRing(k, M[k])'
  <2>1. IsRing(k, L[k])
    BY <1>6 DEF Spells
  <2>2. \A c \in Cells : owner[c] = k => next'[c] = next[c] /\ prev'[c] = prev[c]
    BY <1>1, <1>2, <1>3, <1>6
  <2>3. \A e \in Entries : owner'[e] = k <=> owner[e] = k
    BY <1>3, <1>6
  <2> QED
    BY <1>5, <1>6, <2>1, <2>2, <2>3, RingStays
<1>7. \A k \in Heads : IF owner'[k] = k THEN IsRing(k, M[k])' ELSE M[k] = <<>>
  <2> SUFFICES ASSUME NEW k \in Heads
               PROVE  IF owner'[k] = k THEN IsRing(k, M[k])' ELSE M[k] = <<>>
    OBVIOUS
  <2>1. CASE k = l
    BY <1>3, <1>5, <2>1
  <2>2. CASE k = h
    <3>1. owner'[h] = h
      BY <1>1, <1>3
    <3>2. IsRing(h, M[h])'
      BY <1>4, <1>5
    <3> QED
      BY <2>2, <3>1, <3>2
  <2>3. CASE k # l /\ k # h
    <3>1. owner'[k] = IF owner[k] = l THEN h ELSE owner[k]
      BY <1>3, <2>3
    <3>2. owner[k] # l
      BY <2>3 DEF IInv, HeadsOwn
    <3> QED
      BY <1>5, <1>6, <2>3, <3>1, <3>2 DEF Spells
  <2> QED
    BY <2>1, <2>2, <2>3
<1>8. Spells(M)'
  BY <1>5, <1>7 DEF Spells
<1> QED
  BY <1>8 DEF M

\* COMMON_INIT_LIST_HEAD of a head without entries makes an empty list.
LEMMA InitHeadSpells ==
  ASSUME IInv, OwnersListed, NEW L, Spells(L), NEW h \in Heads, InitHead(h)
  PROVE  Spells(L)'
<1> USE ListAssumption DEF Cells
<1>1. /\ owner[h] = Nil /\ h # Nil
      /\ \A c \in Cells : next'[c] = IF c = h THEN h ELSE next[c]
      /\ \A c \in Cells : prev'[c] = IF c = h THEN h ELSE prev[c]
      /\ \A c \in Cells : owner'[c] = IF c = h THEN h ELSE owner[c]
  BY DEF InitHead, IInv, TypeOK
<1>2. L[h] = <<>> /\ L \in [Heads -> Seq(Entries)]
  BY <1>1 DEF Spells
<1>3. \A e \in Entries : owner[e] # h
  BY <1>1 DEF OwnersListed
<1>4. IsRing(h, <<>>)'
  <2>1. PICK s \in Seq(Entries) : s = <<>> /\ Len(s) = 0
    BY EmptySeq
  <2>2. \A e \in Entries : owner'[e] # h
    BY <1>1, <1>3
  <2>3. \A i \in 0..Len(s) : /\ next'[Place(h, s, i)] = Place(h, s, i + 1)
                             /\ prev'[Place(h, s, i + 1)] = Place(h, s, i)
    BY <1>1, <2>1 DEF Place
  <2>4. Len(s) = 0 /\ \A i : i \notin 1..0
    BY <2>1
  <2>5. /\ \A i, j \in 1..Len(s) : s[i] = s[j] => i = j
        /\ \A e \in Entries : owner'[e] = h <=> \E i \in 1..Len(s) : s[i] = e
    BY <2>2, <2>4
  <2>6. IsRing(h, s)'
    BY <2>3, <2>5, RingNext
  <2> QED
    BY <2>1, <2>6
<1>5. ASSUME NEW k \in Heads, k # h, owner[k] = k
      PROVE  IsRing(k, L[k])'
  <2>1. IsRing(k, L[k]) /\ k # Nil
    BY <1>5 DEF Spells
  <2>2. \A c \in Cells : owner[c] = k => next'[c] = next[c] /\ prev'[c] = prev[c]
    BY <1>1, <2>1
  <2>3. \A e \in Entries : owner'[e] = k <=> owner[e] = k
    BY <1>1
  <2> QED
    BY <1>5, <2>1, <2>2, <2>3, RingStays
<1>6. \A k \in Heads : IF owner'[k] = k THEN IsRing(k, L[k])' ELSE L[k] = <<>>
  <2> SUFFICES ASSUME NEW k \in Heads
               PROVE  IF owner'[k] = k THEN IsRing(k, L[k])' ELSE L[k] = <<>>
    OBVIOUS
  <2>1. CASE k = h
    <3>1. IsRing(h, L[h])'
      BY <1>2, <1>4
    <3> QED
      BY <1>1, <2>1, <3>1
  <2>2. CASE k # h
    BY <1>1, <1>5, <2>2 DEF Spells
  <2> QED
    BY <2>1, <2>2
<1> QED
  BY <1>2, <1>6 DEF Spells

\* Where no pointer and no owner changes, no list does.
LEMMA SpellsStays ==
  ASSUME NEW L, Spells(L), UNCHANGED <<next, prev, owner>>
  PROVE  Spells(L)'
BY DEF Spells, IsRing, LeadsThrough, Place, Distinct

-----------------------------------------------------------------------------
\* What a traversal meets before and after a step.
LEMMA SpelledStep ==
  ASSUME SpelledInv, NEW L, Spells(L), NEW M, Spells(M)', IInv', OwnersListed'
  PROVE  SpelledInv' /\ Lists = L /\ Lists' = M
BY SpelledLists, SpelledListsNext DEF SpelledInv

\* An entry that is on no ring is in no sequence.
LEMMA FreeOnNoList ==
  ASSUME NEW L, Spells(L), Lists = L, NEW e \in Entries, owner[e] = Nil
  PROVE  ~Abs!OnSomeList(e)
<1> SUFFICES ASSUME NEW h \in Heads, Abs!Contains(L[h], e)
             PROVE  FALSE
  BY DEF Abs!OnSomeList
<1>1. PICK i \in 1..Len(L[h]) : L[h][i] = e
  BY DEF Abs!Contains
<1>2. h # Nil
  BY ListAssumption
<1>3. CASE owner[h] = h
  <2>1. owner[L[h][i]] = h
    BY <1>3 DEF Spells, IsRing
  <2> QED
    BY <1>1, <1>2, <2>1
<1>4. CASE owner[h] # h
  <2>1. L[h] = <<>>
    BY <1>4 DEF Spells
  <2>2. Len(L[h]) = 0
    BY <2>1
  <2> QED
    BY <1>1, <2>2
<1> QED
  BY <1>3, <1>4

\* common_list_add implements PushFront.
LEMMA AddStep ==
  ASSUME SpelledInv, NEW e \in Entries, NEW h \in Heads, Add(e, h)
  PROVE  SpelledInv' /\ Abs!PushFront(e, h)
<1>1. Next
  BY DEF Next
<1>2. IInv /\ IInv' /\ OwnersListed'
  BY <1>1, NextPreserves, OwnersListedNext DEF SpelledInv
<1>3. PICK L : Spells(L)
  BY DEF SpelledInv
<1> DEFINE M == [L EXCEPT ![h] = <<e>> \o L[h]]
<1>4. Spells(M)'
  BY <1>2, <1>3, AddSpells
<1> HIDE DEF M
<1>5. SpelledInv' /\ Lists = L /\ Lists' = M
  BY <1>2, <1>3, <1>4, SpelledStep
<1>6. ~Abs!OnSomeList(e)
  BY <1>3, <1>5, FreeOnNoList DEF Add, Free
<1>7. Lists' = [Lists EXCEPT ![h] = <<e>> \o @]
  BY <1>5 DEF M
<1> QED
  BY <1>5, <1>6, <1>7 DEF Abs!PushFront

\* common_list_add_tail implements PushBack.
LEMMA AddTailStep ==
  ASSUME SpelledInv, NEW e \in Entries, NEW h \in Heads, AddTail(e, h)
  PROVE  SpelledInv' /\ Abs!PushBack(e, h)
<1>1. Next
  BY DEF Next
<1>2. IInv /\ IInv' /\ OwnersListed'
  BY <1>1, NextPreserves, OwnersListedNext DEF SpelledInv
<1>3. PICK L : Spells(L)
  BY DEF SpelledInv
<1> DEFINE M == [L EXCEPT ![h] = Append(L[h], e)]
<1>4. Spells(M)'
  BY <1>2, <1>3, AddTailSpells
<1> HIDE DEF M
<1>5. SpelledInv' /\ Lists = L /\ Lists' = M
  BY <1>2, <1>3, <1>4, SpelledStep
<1>6. ~Abs!OnSomeList(e)
  BY <1>3, <1>5, FreeOnNoList DEF AddTail, Free
<1>7. Lists' = [Lists EXCEPT ![h] = Append(@, e)]
  BY <1>5 DEF M
<1> QED
  BY <1>5, <1>6, <1>7 DEF Abs!PushBack

\* __list_del implements Remove1.
LEMMA RemoveStep ==
  ASSUME SpelledInv, Next, NEW e \in Entries, owner[e] # Nil,
         \A c \in Cells \ {e} : next'[c] = IF c = prev[e] THEN next[e] ELSE next[c],
         \A c \in Cells \ {e} : prev'[c] = IF c = next[e] THEN prev[e] ELSE prev[c],
         owner' = [owner EXCEPT ![e] = Nil]
  PROVE  SpelledInv' /\ \E h \in Heads : Abs!Remove1(e, h)
<1>1. IInv /\ OwnersListed /\ IInv' /\ OwnersListed'
  BY NextPreserves, OwnersListedNext DEF SpelledInv
<1>2. PICK L : Spells(L)
  BY DEF SpelledInv
<1>3. PICK h \in Heads : \E j \in 1..Len(L[h]) :
        L[h][j] = e /\ Spells([L EXCEPT ![h] = Abs!RemoveAt(L[h], j)])'
  BY <1>1, <1>2, UnlinkSpells
<1>4. PICK j \in 1..Len(L[h]) :
        L[h][j] = e /\ Spells([L EXCEPT ![h] = Abs!RemoveAt(L[h], j)])'
  BY <1>3
<1> DEFINE M == [L EXCEPT ![h] = Abs!RemoveAt(L[h], j)]
<1>5. Spells(M)'
  BY <1>4
<1> HIDE DEF M
<1>6. SpelledInv' /\ Lists = L /\ Lists' = M
  BY <1>1, <1>2, <1>5, SpelledStep
<1>7. j \in DOMAIN Lists[h] /\ Lists[h][j] = e
  <2>1. L[h] \in Seq(Entries)
    BY <1>2 DEF Spells
  <2>2. DOMAIN L[h] = 1..Len(L[h])
    BY <2>1, LenProperties
  <2> QED
    BY <1>4, <1>6, <2>2
<1>8. Lists' = [Lists EXCEPT ![h] = Abs!RemoveAt(@, j)]
  BY <1>6 DEF M
<1>9. Abs!Remove1(e, h)
  BY <1>7, <1>8 DEF Abs!Remove1
<1> QED
  BY <1>6, <1>9

\* common_list_splice implements MoveToFront, of a list without entries too.
LEMMA SpliceStep ==
  ASSUME SpelledInv, NEW l \in Heads, NEW h \in Heads, Splice(l, h)
  PROVE  SpelledInv' /\ Abs!MoveToFront(l, h)
<1>1. Next /\ l # h
  BY DEF Next, Splice
<1>2. IInv /\ IInv' /\ OwnersListed'
  BY <1>1, NextPreserves, OwnersListedNext DEF SpelledInv
<1>3. PICK L : Spells(L)
  BY DEF SpelledInv
<1> DEFINE M == [L EXCEPT ![h] = L[l] \o L[h], ![l] = <<>>]
<1>4. Spells(M)'
  <2>1. CASE ~IsEmpty(l)
    BY <1>2, <1>3, <2>1, SpliceSpells
  <2>2. CASE IsEmpty(l)
    <3>1. owner[l] = l /\ next[l] = l
      BY <2>2 DEF Splice, IsEmpty
    <3>2. IsRing(l, L[l]) /\ L \in [Heads -> Seq(Entries)]
      BY <1>3, <3>1 DEF Spells
    <3>3. /\ Len(L[l]) \in Nat /\ next[l] = Place(l, L[l], 1)
          /\ \A i \in 1..Len(L[l]) : L[l][i] # l
      <4>1. next[Place(l, L[l], 0)] = Place(l, L[l], 0 + 1)
        BY <3>1, <3>2, PlacesOnRing
      <4> QED
        BY <3>1, <3>2, <4>1, PlacesOnRing DEF Place
    <3>4. Len(L[l]) = 0
      BY <3>1, <3>3 DEF Place
    <3>5. L[l] = <<>>
      BY <3>2, <3>4, EmptySeq
    <3>6. L[l] \o L[h] = L[h]
      BY <3>2, <3>5, ConcatEmptySeq
    <3>7. \A k \in Heads : M[k] = L[k]
      BY <3>2, <3>5, <3>6
    <3>8. M = [k \in Heads |-> M[k]] /\ L = [k \in Heads |-> L[k]]
      BY <3>2
    <3> HIDE DEF M
    <3>9. M = L
      BY <3>7, <3>8, SameFunction
    <3>10. UNCHANGED <<next, prev, owner>>
      BY <2>2 DEF Splice
    <3> QED
      BY <1>3, <3>9, <3>10, SpellsStays
  <2> QED
    BY <2>1, <2>2
<1> HIDE DEF M
<1>5. SpelledInv' /\ Lists = L /\ Lists' = M
  BY <1>2, <1>3, <1>4, SpelledStep
<1>6. Lists' = [Lists EXCEPT ![h] = Lists[l] \o @, ![l] = <<>>]
  BY <1>5 DEF M
<1> QED
  BY <1>1, <1>5, <1>6 DEF Abs!MoveToFront

\* The other steps leave the lists alone.
LEMMA KeepStep ==
  ASSUME SpelledInv, [Next]_vars,
         UNCHANGED <<next, prev, owner>> \/ \E h \in Heads : InitHead(h)
  PROVE  SpelledInv' /\ UNCHANGED Lists
<1>1. IInv /\ OwnersListed /\ IInv' /\ OwnersListed'
  BY NextPreserves, OwnersListedNext DEF SpelledInv
<1>2. PICK L : Spells(L)
  BY DEF SpelledInv
<1>3. Spells(L)'
  BY <1>1, <1>2, InitHeadSpells, SpellsStays
<1> QED
  BY <1>1, <1>2, <1>3, SpelledStep

\* Every step implements a step of SeqLists or a stutter, the primitives those
\* their names promise.
LEMMA StepImplements ==
  ASSUME SpelledInv, [Next]_vars
  PROVE  /\ SpelledInv'
         /\ [Abs!SeqNext]_Lists
         /\ \A e \in Entries, h \in Heads : /\ Add(e, h) => Abs!PushFront(e, h)
                                            /\ AddTail(e, h) => Abs!PushBack(e, h)
         /\ \A l, h \in Heads : Splice(l, h) => Abs!MoveToFront(l, h)
<1> USE ListAssumption DEF Cells
<1>1. \A e \in Entries, h \in Heads : Add(e, h) => SpelledInv' /\ Abs!PushFront(e, h)
  BY AddStep
<1>2. \A e \in Entries, h \in Heads : AddTail(e, h) => SpelledInv' /\ Abs!PushBack(e, h)
  BY AddTailStep
<1>3. \A l, h \in Heads : Splice(l, h) => SpelledInv' /\ Abs!MoveToFront(l, h)
  BY SpliceStep
<1>4. SpelledInv' /\ [Abs!SeqNext]_Lists
  <2>0. TypeOK /\ RingsIntact /\ HeadsOwn /\ FreeingLinked
    BY DEF SpelledInv, IInv
  <2>1. ASSUME NEW e \in Entries, NEW h \in Heads, Add(e, h) \/ AddTail(e, h)
        PROVE  SpelledInv' /\ Abs!SeqNext
    BY <1>1, <1>2, <2>1 DEF Abs!SeqNext
  <2>2. ASSUME NEW e \in Entries, owner[e] # Nil, Next,
               JoinNeighbours(prev[e], next[e]), owner' = [owner EXCEPT ![e] = Nil]
        PROVE  SpelledInv' /\ Abs!SeqNext
    <3>1. prev[e] \in Cells /\ next[e] \in Cells
      BY <2>0, <2>2 DEF RingsIntact, Linked
    <3>2. /\ \A c \in Cells : next'[c] = IF c = prev[e] THEN next[e] ELSE next[c]
          /\ \A c \in Cells : prev'[c] = IF c = next[e] THEN prev[e] ELSE prev[c]
      BY <2>0, <2>2, <3>1 DEF JoinNeighbours, TypeOK
    <3>3. SpelledInv' /\ \E h \in Heads : Abs!Remove1(e, h)
      BY <2>2, <3>2, RemoveStep
    <3> QED
      BY <3>3 DEF Abs!SeqNext
  <2>3. ASSUME NEW e \in Entries, Del(e)
        PROVE  SpelledInv' /\ Abs!SeqNext
    <3>1. Next
      BY <2>3 DEF Next
    <3> QED
      BY <2>2, <2>3, <3>1 DEF Del
  <2>4. ASSUME NEW e \in Entries, DelInit(e)
        PROVE  SpelledInv' /\ Abs!SeqNext
    <3>1. Next /\ owner[e] # Nil /\ owner' = [owner EXCEPT ![e] = Nil]
      BY <2>4 DEF Next, DelInit
    <3>2. prev[e] \in Cells /\ next[e] \in Cells
      BY <2>0, <3>1 DEF RingsIntact, Linked
    <3>3. /\ \A c \in Cells \ {e} : next'[c] = IF c = prev[e] THEN next[e] ELSE next[c]
          /\ \A c \in Cells \ {e} : prev'[c] = IF c = next[e] THEN prev[e] ELSE prev[c]
      BY <2>0, <2>4, <3>2 DEF DelInit, TypeOK
    <3>4. SpelledInv' /\ \E h \in Heads : Abs!Remove1(e, h)
      BY <3>1, <3>3, RemoveStep
    <3> QED
      BY <3>4 DEF Abs!SeqNext
  <2>5. ASSUME NEW l \in Heads, NEW h \in Heads, Splice(l, h)
        PROVE  SpelledInv' /\ Abs!SeqNext
    BY <1>3, <2>5 DEF Abs!SeqNext
  <2>6. CASE FreeFirst
    <3>1. /\ freeing \in Heads /\ owner[freeing] = freeing /\ freeing \in Linked /\ Next
          /\ next[freeing] # freeing
      BY <2>0, <2>6 DEF FreeFirst, FreeingLinked, TypeOK, Linked, Next, IsEmpty
    <3>2. next[freeing] \in Entries /\ owner[next[freeing]] # Nil
      BY <2>0, <3>1 DEF RingsIntact, HeadsOwn, Linked
    <3> QED
      BY <2>2, <2>6, <3>1, <3>2 DEF FreeFirst
  <2>7. ASSUME NEW h \in Heads, InitHead(h) \/ StartFreeList(h)
        PROVE  SpelledInv' /\ UNCHANGED Lists
    BY <2>7, KeepStep DEF StartFreeList
  <2>8. ASSUME EndFreeList \/ UNCHANGED vars
        PROVE  SpelledInv' /\ UNCHANGED Lists
    BY <2>8, KeepStep DEF EndFreeList, vars
  <2> QED
    BY <2>1, <2>3, <2>4, <2>5, <2>6, <2>7, <2>8 DEF Next
<1> QED
  BY <1>1, <1>2, <1>3, <1>4

\* What the pointers spell, TraversalsAgree says of the two traversals.
LEMMA SpelledAgree == SpelledInv => TraversalsAgree
<1> SUFFICES ASSUME SpelledInv, NEW h \in Heads, owner[h] = h
             PROVE  LET fwd == Walk(next, h)
                        bwd == Walk(prev, h)
                        n   == Len(fwd.seen)
                    IN /\ fwd.at = h /\ bwd.at = h
                       /\ Len(bwd.seen) = n
                       /\ \A i \in 1..n : fwd.seen[i] = bwd.seen[n + 1 - i]
                       /\ {fwd.seen[i] : i \in 1..n} = {e \in Entries : owner[e] = h}
  BY DEF TraversalsAgree
<1>1. PICK s : IsRing(h, s)
  BY DEF SpelledInv, Spells
<1>2. /\ Walk(next, h) = [at |-> h, seen |-> s]
      /\ Walk(prev, h) = [at |-> h, seen |-> Reversed(s)]
  BY <1>1, RingTraversals
<1>3. Len(Reversed(s)) = Len(s) /\ Len(s) \in Nat
  BY <1>1, ReversedRing, LenProperties DEF IsRing
<1>4. \A i \in 1..Len(s) : s[i] = Reversed(s)[Len(s) + 1 - i]
  BY <1>3 DEF Reversed
<1>5. {s[i] : i \in 1..Len(s)} = {e \in Entries : owner[e] = h}
  BY <1>1, ElementOfSeq DEF IsRing
<1> QED
  BY <1>2, <1>3, <1>4, <1>5

-----------------------------------------------------------------------------
\* The pointers spell out a sequence for every list in every reachable state.
THEOREM SpelledInvHolds == Spec => []SpelledInv
<1>1. Init => SpelledInv
  BY InitEstablishes, InitSpells DEF SpelledInv
<1>2. SpelledInv /\ [Next]_vars => SpelledInv'
  BY StepImplements
<1> QED
  BY <1>1, <1>2, PTL DEF Spec

\* In every reachable state the two traversals of a list end at its head, meet
\* each of its entries once and in opposite orders (common_list_for_each).
THEOREM ListTraversalsAgree == Spec => []TraversalsAgree
BY SpelledInvHolds, SpelledAgree, PTL

\* The pointer operations of list_op.c implement the operations on sequences,
\* each primitive the one that its name promises.
THEOREM ListsImplemented == Spec => ListsAsNamed
<1>1. Init => Abs!SeqInit
  BY InitSpells, SpelledLists DEF Abs!SeqInit
<1>2. SpelledInv /\ [Next]_vars =>
        /\ [Abs!SeqNext]_Lists
        /\ [/\ \A e \in Entries, h \in Heads :
                 /\ Add(e, h) => Abs!PushFront(e, h)
                 /\ AddTail(e, h) => Abs!PushBack(e, h)
            /\ \A l, h \in Heads : Splice(l, h) => Abs!MoveToFront(l, h)]_vars
  BY StepImplements
<1> QED
  BY <1>1, <1>2, SpelledInvHolds, PTL
     DEF Spec, ListsAsNamed, ImplementsSeqLists, PrimitivesKeepOrder, Abs!SeqSpec
=============================================================================
