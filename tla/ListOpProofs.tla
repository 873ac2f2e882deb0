---------------------------- MODULE ListOpProofs ----------------------------
(***************************************************************************)
(* For any number of list heads and entries, the primitives of list_op.c   *)
(* keep every ring intact.                                                 *)
(*                                                                         *)
(* RingsIntact alone is not inductive: COMMON_FREE_LIST unlinks whatever   *)
(* follows the head it empties, and that this is an entry and not another  *)
(* head follows from each linked head being on its own ring (HeadsOwn).    *)
(***************************************************************************)
EXTENDS ListOp, TLAPS

\* A head that is linked is the head of the ring it is on.
HeadsOwn == \A h \in Heads : owner[h] \in {h, Nil}

\* The list that is being freed has not been spliced away.
FreeingLinked == freeing # Nil => owner[freeing] = freeing

IInv == TypeOK /\ RingsIntact /\ HeadsOwn /\ FreeingLinked

-----------------------------------------------------------------------------
\* __list_add between a linked cell and its successor puts the new cell on
\* the ring of the two (common_list_add and common_list_add_tail).
LEMMA LinkKeepsRings ==
  ASSUME TypeOK, RingsIntact, HeadsOwn,
         NEW e \in Free, NEW h \in Heads, owner[h] = h,
         NEW before \in Linked, owner[before] = h,
         LinkBetween(e, before, next[before]),
         owner' = [owner EXCEPT ![e] = h],
         freeing' = freeing
  PROVE  TypeOK' /\ RingsIntact' /\ HeadsOwn'
<1> USE ListAssumption DEF Cells, Linked, Free
<1> DEFINE after == next[before]
<1>1. after \in Linked /\ owner[after] = h /\ prev[after] = before
  BY DEF RingsIntact, TypeOK
<1>2. e \in Entries /\ e \in Cells /\ e # before /\ e # after
  BY <1>1 DEF TypeOK
<1>3. /\ next' \in [Cells -> Cells \cup {Nil}]
      /\ \A c \in Cells : next'[c] = IF c = before THEN e
                                     ELSE IF c = e THEN after ELSE next[c]
  BY <1>1, <1>2 DEF LinkBetween, TypeOK
<1>4. /\ prev' \in [Cells -> Cells \cup {Nil}]
      /\ \A c \in Cells : prev'[c] = IF c = e THEN before
                                     ELSE IF c = after THEN e ELSE prev[c]
  BY <1>1, <1>2 DEF LinkBetween, TypeOK
<1>5. /\ owner' \in [Cells -> Heads \cup {Nil}]
      /\ \A c \in Cells : owner'[c] = IF c = e THEN h ELSE owner[c]
  BY <1>2 DEF TypeOK
<1>6. TypeOK'
  BY <1>1, <1>2, <1>3, <1>4, <1>5 DEF TypeOK
<1>7. HeadsOwn'
  BY <1>2, <1>5 DEF HeadsOwn
<1>8. RingsIntact'
  BY <1>1, <1>2, <1>3, <1>4, <1>5 DEF RingsIntact
<1> QED
  BY <1>6, <1>7, <1>8

\* __list_del takes a linked entry off its ring and keeps the others intact
\* (common_list_del, and each round of COMMON_FREE_LIST).
LEMMA UnlinkKeepsRings ==
  ASSUME TypeOK, RingsIntact, HeadsOwn,
         NEW e \in Entries, owner[e] # Nil,
         JoinNeighbours(prev[e], next[e]),
         owner' = [owner EXCEPT ![e] = Nil],
         freeing' = freeing
  PROVE  TypeOK' /\ RingsIntact' /\ HeadsOwn'
<1> USE ListAssumption DEF Cells, Linked
<1>1. /\ e \in Linked
      /\ next[e] \in Linked /\ prev[e] \in Linked
      /\ prev[next[e]] = e /\ next[prev[e]] = e
      /\ owner[next[e]] = owner[e]
  BY DEF RingsIntact
<1>2. /\ next' \in [Cells -> Cells \cup {Nil}]
      /\ \A c \in Cells : next'[c] = IF c = prev[e] THEN next[e] ELSE next[c]
  BY <1>1 DEF JoinNeighbours, TypeOK
<1>3. /\ prev' \in [Cells -> Cells \cup {Nil}]
      /\ \A c \in Cells : prev'[c] = IF c = next[e] THEN prev[e] ELSE prev[c]
  BY <1>1 DEF JoinNeighbours, TypeOK
<1>4. /\ owner' \in [Cells -> Heads \cup {Nil}]
      /\ \A c \in Cells : owner'[c] = IF c = e THEN Nil ELSE owner[c]
  BY DEF TypeOK
<1>5. TypeOK'
  BY <1>1, <1>2, <1>3, <1>4 DEF TypeOK
<1>6. HeadsOwn'
  BY <1>4 DEF HeadsOwn
<1>7. RingsIntact'
  BY <1>1, <1>2, <1>3, <1>4 DEF RingsIntact
<1> QED
  BY <1>5, <1>6, <1>7

\* common_list_splice joins two rings into one.
LEMMA SpliceKeepsRings ==
  ASSUME TypeOK, RingsIntact, HeadsOwn,
         NEW l \in Heads, NEW h \in Heads, Splice(l, h)
  PROVE  TypeOK' /\ RingsIntact' /\ HeadsOwn'
<1> USE ListAssumption DEF Cells, Linked
<1>1. CASE IsEmpty(l)
  BY <1>1 DEF Splice, TypeOK, RingsIntact, HeadsOwn
<1>2. CASE ~IsEmpty(l)
  <2> DEFINE first == next[l]
             last == prev[l]
             at == next[h]
  <2>1. /\ l # h /\ owner[l] = l /\ owner[h] = h
        /\ freeing' = freeing
        /\ next' = [[next EXCEPT ![h] = first] EXCEPT ![last] = at]
        /\ prev' = [[prev EXCEPT ![first] = h] EXCEPT ![at] = last]
        /\ owner' = [c \in Cells |-> IF c = l THEN Nil
                                     ELSE IF owner[c] = l THEN h ELSE owner[c]]
    BY <1>2 DEF Splice
  <2>2. l \in Linked /\ h \in Linked
    BY <2>1
  <2>3. /\ first \in Linked /\ prev[first] = l /\ owner[first] = l
        /\ at \in Linked /\ prev[at] = h /\ owner[at] = h
        /\ last \in Linked /\ next[last] = l
    BY <2>1, <2>2 DEF RingsIntact
  <2>4. owner[last] = l
    BY <2>1, <2>3 DEF RingsIntact
  <2>5. first # l /\ last # l
    BY <1>2, <2>3 DEF IsEmpty
  <2>6. first # at /\ last # h
    BY <2>1, <2>3, <2>4
  <2>7. /\ next' \in [Cells -> Cells \cup {Nil}]
        /\ \A c \in Cells : next'[c] = IF c = last THEN at
                                       ELSE IF c = h THEN first ELSE next[c]
    BY <2>1, <2>3 DEF TypeOK
  <2>8. /\ prev' \in [Cells -> Cells \cup {Nil}]
        /\ \A c \in Cells : prev'[c] = IF c = at THEN last
                                       ELSE IF c = first THEN h ELSE prev[c]
    BY <2>1, <2>3 DEF TypeOK
  <2>9. /\ owner' \in [Cells -> Heads \cup {Nil}]
        /\ \A c \in Cells : owner'[c] = IF c = l THEN Nil
                                        ELSE IF owner[c] = l THEN h ELSE owner[c]
    BY <2>1 DEF TypeOK
  <2>10. TypeOK'
    BY <2>1, <2>3, <2>7, <2>8, <2>9 DEF TypeOK
  <2>11. HeadsOwn'
    BY <2>1, <2>9 DEF HeadsOwn
  <2>12. RingsIntact'
    <3> SUFFICES ASSUME NEW c \in Linked'
                 PROVE  /\ next'[c] \in Linked' /\ prev'[c] \in Linked'
                        /\ prev'[next'[c]] = c
                        /\ next'[prev'[c]] = c
                        /\ owner'[next'[c]] = owner'[c]
      BY DEF RingsIntact
    <3>1. c \in Linked /\ c # l
      BY <2>9
    <3>2. /\ next[c] \in Linked /\ prev[c] \in Linked
          /\ prev[next[c]] = c /\ next[prev[c]] = c
          /\ owner[next[c]] = owner[c]
      BY <3>1 DEF RingsIntact
    <3>3. owner[prev[c]] = owner[c]
      BY <3>2 DEF RingsIntact
    <3>4. next'[c] \in Linked' /\ prev'[c] \in Linked'
      BY <2>1, <2>3, <2>4, <2>5, <2>6, <2>7, <2>8, <2>9, <3>1, <3>2
    <3>5. prev'[next'[c]] = c /\ next'[prev'[c]] = c
      BY <2>1, <2>3, <2>4, <2>5, <2>6, <2>7, <2>8, <3>1, <3>2
    <3>6. owner'[next'[c]] = owner'[c]
      BY <2>1, <2>3, <2>4, <2>5, <2>7, <2>9, <3>1, <3>2
    <3> QED
      BY <3>4, <3>5, <3>6
  <2> QED
    BY <2>10, <2>11, <2>12
<1> QED
  BY <1>1, <1>2

-----------------------------------------------------------------------------
\* The initial rings are those of the heads alone.
LEMMA InitEstablishes == Init => IInv
  BY ListAssumption
     DEF Init, IInv, TypeOK, RingsIntact, HeadsOwn, FreeingLinked, Cells, Linked

\* Every primitive preserves the inductive invariant.
LEMMA NextPreserves == IInv /\ [Next]_vars => IInv'
<1> SUFFICES ASSUME IInv, [Next]_vars
             PROVE  IInv'
  OBVIOUS
<1> USE ListAssumption
<1>0. TypeOK /\ RingsIntact /\ HeadsOwn /\ FreeingLinked
  BY DEF IInv
<1>1. ASSUME NEW e \in Entries, NEW h \in Heads, Add(e, h)
      PROVE  IInv'
  <2>1. e \in Free /\ owner[h] = h /\ h \in Linked
    BY <1>1 DEF Add, Linked, Cells
  <2>2. TypeOK' /\ RingsIntact' /\ HeadsOwn'
    BY <1>0, <1>1, <2>1, LinkKeepsRings DEF Add
  <2> QED
    BY <1>1, <2>2 DEF IInv, FreeingLinked, Add
<1>2. ASSUME NEW e \in Entries, NEW h \in Heads, AddTail(e, h)
      PROVE  IInv'
  <2>1. e \in Free /\ owner[h] = h /\ h \in Linked
    BY <1>2 DEF AddTail, Linked, Cells
  <2>2. prev[h] \in Linked /\ next[prev[h]] = h /\ owner[prev[h]] = h
    BY <1>0, <2>1 DEF RingsIntact
  <2>3. LinkBetween(e, prev[h], next[prev[h]])
    BY <1>2, <2>2 DEF AddTail
  <2>4. TypeOK' /\ RingsIntact' /\ HeadsOwn'
    BY <1>0, <1>2, <2>1, <2>2, <2>3, LinkKeepsRings DEF AddTail
  <2> QED
    BY <1>2, <2>4 DEF IInv, FreeingLinked, AddTail
<1>3. ASSUME NEW e \in Entries, Del(e)
      PROVE  IInv'
  <2>1. TypeOK' /\ RingsIntact' /\ HeadsOwn'
    BY <1>0, <1>3, UnlinkKeepsRings DEF Del
  <2> QED
    BY <1>3, <2>1 DEF IInv, FreeingLinked, Del
<1>4. ASSUME NEW e \in Entries, DelInit(e)
      PROVE  IInv'
  <2> USE DEF Cells, Linked
  <2>1. /\ e \in Linked
        /\ next[e] \in Linked /\ prev[e] \in Linked
        /\ prev[next[e]] = e /\ next[prev[e]] = e
        /\ owner[next[e]] = owner[e]
    BY <1>0, <1>4 DEF RingsIntact, DelInit
  <2>2. /\ next' \in [Cells -> Cells \cup {Nil}]
        /\ \A c \in Cells : next'[c] = IF c = e THEN e
                                       ELSE IF c = prev[e] THEN next[e] ELSE next[c]
    BY <1>0, <1>4, <2>1 DEF DelInit, TypeOK
  <2>3. /\ prev' \in [Cells -> Cells \cup {Nil}]
        /\ \A c \in Cells : prev'[c] = IF c = e THEN e
                                       ELSE IF c = next[e] THEN prev[e] ELSE prev[c]
    BY <1>0, <1>4, <2>1 DEF DelInit, TypeOK
  <2>4. /\ owner' \in [Cells -> Heads \cup {Nil}]
        /\ \A c \in Cells : owner'[c] = IF c = e THEN Nil ELSE owner[c]
        /\ freeing' = freeing /\ freeing = Nil
    BY <1>0, <1>4 DEF DelInit, TypeOK
  <2>5. TypeOK'
    BY <1>0, <2>1, <2>2, <2>3, <2>4 DEF TypeOK
  <2>6. HeadsOwn' /\ FreeingLinked'
    BY <1>0, <2>4 DEF HeadsOwn, FreeingLinked
  <2>7. RingsIntact'
    BY <1>0, <2>1, <2>2, <2>3, <2>4 DEF RingsIntact
  <2> QED
    BY <2>5, <2>6, <2>7 DEF IInv
<1>5. ASSUME NEW l \in Heads, NEW h \in Heads, Splice(l, h)
      PROVE  IInv'
  <2>1. TypeOK' /\ RingsIntact' /\ HeadsOwn'
    BY <1>0, <1>5, SpliceKeepsRings
  <2> QED
    BY <1>5, <2>1 DEF IInv, FreeingLinked, Splice
<1>6. ASSUME NEW h \in Heads, InitHead(h)
      PROVE  IInv'
  <2> USE DEF Cells, Linked
  <2>1. /\ h \notin Linked
        /\ \A c \in Linked : next[c] # h /\ prev[c] # h
    BY <1>0, <1>6 DEF InitHead, RingsIntact
  <2>2. /\ next' \in [Cells -> Cells \cup {Nil}]
        /\ prev' \in [Cells -> Cells \cup {Nil}]
        /\ owner' \in [Cells -> Heads \cup {Nil}]
        /\ \A c \in Cells : next'[c] = IF c = h THEN h ELSE next[c]
        /\ \A c \in Cells : prev'[c] = IF c = h THEN h ELSE prev[c]
        /\ \A c \in Cells : owner'[c] = IF c = h THEN h ELSE owner[c]
        /\ freeing' = freeing /\ freeing = Nil
    BY <1>0, <1>6 DEF InitHead, TypeOK
  <2>3. TypeOK'
    BY <1>0, <2>2 DEF TypeOK
  <2>4. HeadsOwn' /\ FreeingLinked'
    BY <1>0, <2>2 DEF HeadsOwn, FreeingLinked
  <2>5. RingsIntact'
    BY <1>0, <2>1, <2>2 DEF RingsIntact
  <2> QED
    BY <2>3, <2>4, <2>5 DEF IInv
<1>7. ASSUME NEW h \in Heads, StartFreeList(h)
      PROVE  IInv'
  BY <1>0, <1>7 DEF IInv, TypeOK, RingsIntact, HeadsOwn, FreeingLinked, Linked, StartFreeList
<1>8. CASE FreeFirst
  <2> DEFINE pos == next[freeing]
  <2>1. freeing \in Heads /\ freeing \in Linked /\ owner[freeing] = freeing
    BY <1>0, <1>8 DEF FreeFirst, FreeingLinked, TypeOK, Linked, Cells
  <2>2. pos \in Linked /\ owner[pos] = freeing /\ pos # freeing
    BY <1>0, <1>8, <2>1 DEF RingsIntact, FreeFirst, IsEmpty
  <2>3. pos \in Entries /\ owner[pos] # Nil
    BY <1>0, <2>1, <2>2 DEF HeadsOwn, Linked, Cells
  <2>4. TypeOK' /\ RingsIntact' /\ HeadsOwn'
    BY <1>0, <1>8, <2>3, UnlinkKeepsRings DEF FreeFirst
  <2>5. owner'[freeing] = owner[freeing]
    BY <1>0, <1>8, <2>1, <2>2 DEF FreeFirst, TypeOK, Cells
  <2> QED
    BY <1>8, <2>1, <2>4, <2>5 DEF IInv, FreeingLinked, FreeFirst
<1>9. CASE EndFreeList
  BY <1>0, <1>9 DEF IInv, TypeOK, RingsIntact, HeadsOwn, FreeingLinked, Linked, EndFreeList
<1>10. CASE UNCHANGED vars
  BY <1>0, <1>10 DEF IInv, TypeOK, RingsIntact, HeadsOwn, FreeingLinked, Linked, vars
<1> QED
  BY <1>1, <1>2, <1>3, <1>4, <1>5, <1>6, <1>7, <1>8, <1>9, <1>10 DEF Next

-----------------------------------------------------------------------------
\* The inductive invariant holds in every reachable state.
THEOREM IInvHolds == Spec => []IInv
<1>1. Init => IInv
  BY InitEstablishes
<1>2. IInv /\ [Next]_vars => IInv'
  BY NextPreserves
<1> QED
  BY <1>1, <1>2, PTL DEF Spec

\* Type correctness of the list heap (all of list_op.c).
THEOREM ListTypeCorrect == Spec => []TypeOK
<1>1. IInv => TypeOK
  BY DEF IInv
<1> QED
  BY <1>1, IInvHolds, PTL

\* In every reachable state the next and prev pointers of all linked cells
\* agree and no ring leads into another (all of list_op.c).
THEOREM ListRingsIntact == Spec => []RingsIntact
<1>1. IInv => RingsIntact
  BY DEF IInv
<1> QED
  BY <1>1, IInvHolds, PTL
=============================================================================
