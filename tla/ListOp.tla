------------------------------- MODULE ListOp -------------------------------
(***************************************************************************)
(* The intrusive doubly linked lists of list_op.c and list_op.h: a heap of *)
(* cells with next and prev pointers, and one action per primitive, called *)
(* by a client that keeps to the contract of the primitives (it adds only  *)
(* entries that are on no list, deletes only entries that are on one, and  *)
(* re-initialises a head whose entries it spliced away).                   *)
(***************************************************************************)
EXTENDS Naturals, Sequences, FiniteSets

CONSTANTS Heads,        \* list heads
          Entries,      \* nodes that embed a COMMON_LIST_HEAD
          Nil           \* a pointer that was never assigned

ASSUME ListAssumption == /\ Heads \cap Entries = {}
                         /\ Nil \notin Heads \cup Entries
                         /\ Heads # {}

ASSUME MemoryFinite == IsFiniteSet(Entries)

VARIABLES next, prev,   \* the two pointers of every cell
          owner,        \* the head on whose ring a cell is, Nil when on none
          freeing       \* the head COMMON_FREE_LIST works on, or Nil

vars == <<next, prev, owner, freeing>>

Cells == Heads \cup Entries

Linked == {c \in Cells : owner[c] # Nil}

Free == {e \in Entries : owner[e] = Nil}

-----------------------------------------------------------------------------
(* The pointer assignments, in the order in which the code makes them.     *)

\* Mutation of LinkBetween: the back pointer of the next cell is forgotten.
LinkBetweenOneWay(new, before, after) ==
  /\ next' = [[next EXCEPT ![new] = after] EXCEPT ![before] = new]
  /\ prev' = [prev EXCEPT ![new] = before]

\* __list_add: link new between two neighbours.
LinkBetween(new, before, after) ==
  /\ next' = [[next EXCEPT ![new] = after] EXCEPT ![before] = new]
  /\ prev' = [[prev EXCEPT ![after] = new] EXCEPT ![new] = before]

\* __list_del: make two cells neighbours of each other.
JoinNeighbours(before, after) ==
  /\ prev' = [prev EXCEPT ![after] = before]
  /\ next' = [next EXCEPT ![before] = after]

\* common_list_empty
IsEmpty(h) == next[h] = h

-----------------------------------------------------------------------------
\* Mutation of Init: the prev pointer of the heads is left unassigned.
InitNoPrev == /\ next = [c \in Cells |-> IF c \in Heads THEN c ELSE Nil]
              /\ prev = [c \in Cells |-> Nil]
              /\ owner = [c \in Cells |-> IF c \in Heads THEN c ELSE Nil]
              /\ freeing = Nil

\* Every head is initialised with COMMON_LIST_HEAD_INIT; entries are raw
\* memory.
Init == /\ next = [c \in Cells |-> IF c \in Heads THEN c ELSE Nil]
        /\ prev = [c \in Cells |-> IF c \in Heads THEN c ELSE Nil]
        /\ owner = [c \in Cells |-> IF c \in Heads THEN c ELSE Nil]
        /\ freeing = Nil

\* common_list_add
Add(e, h) == /\ freeing = Nil
             /\ e \in Free
             /\ owner[h] = h
             /\ LinkBetween(e, h, next[h])
             /\ owner' = [owner EXCEPT ![e] = h]
             /\ UNCHANGED freeing

\* common_list_add_tail
AddTail(e, h) == /\ freeing = Nil
                 /\ e \in Free
                 /\ owner[h] = h
                 /\ LinkBetween(e, prev[h], h)
                 /\ owner' = [owner EXCEPT ![e] = h]
                 /\ UNCHANGED freeing

\* common_list_del, COMMON_DeleteNode and COMMON_DeleteNodeAndFree: the
\* pointers of the removed entry keep their values.
Del(e) == /\ freeing = Nil
          /\ owner[e] # Nil
          /\ JoinNeighbours(prev[e], next[e])
          /\ owner' = [owner EXCEPT ![e] = Nil]
          /\ UNCHANGED freeing

\* common_list_del_init: the removed entry becomes a ring of its own.
DelInit(e) ==
  /\ freeing = Nil
  /\ owner[e] # Nil
  /\ prev' = [[prev EXCEPT ![next[e]] = prev[e]] EXCEPT ![e] = e]
  /\ next' = [[next EXCEPT ![prev[e]] = next[e]] EXCEPT ![e] = e]
  /\ owner' = [owner EXCEPT ![e] = Nil]
  /\ UNCHANGED freeing

\* Mutation of Splice: the old first entry of h keeps its prev pointer.
SpliceOneWay(l, h) ==
  /\ freeing = Nil
  /\ l # h /\ owner[l] = l /\ owner[h] = h /\ ~IsEmpty(l)
  /\ next' = [[next EXCEPT ![h] = next[l]] EXCEPT ![prev[l]] = next[h]]
  /\ prev' = [prev EXCEPT ![next[l]] = h]
  /\ owner' = [c \in Cells |-> IF c = l THEN Nil
                               ELSE IF owner[c] = l THEN h ELSE owner[c]]
  /\ UNCHANGED freeing

\* Mutation of Splice: the entries of l go behind the last entry of h.
SpliceAtTail(l, h) ==
  /\ freeing = Nil
  /\ l # h /\ owner[l] = l /\ owner[h] = h /\ ~IsEmpty(l)
  /\ next' = [[next EXCEPT ![prev[h]] = next[l]] EXCEPT ![prev[l]] = h]
  /\ prev' = [[prev EXCEPT ![next[l]] = prev[h]] EXCEPT ![h] = prev[l]]
  /\ owner' = [c \in Cells |-> IF c = l THEN Nil
                               ELSE IF owner[c] = l THEN h ELSE owner[c]]
  /\ UNCHANGED freeing

\* common_list_splice: the entries of l go between h and its first entry;
\* head l keeps its pointers into the ring that is now h's.
Splice(l, h) ==
  /\ freeing = Nil
  /\ l # h /\ owner[l] = l /\ owner[h] = h
  /\ IF IsEmpty(l)
       THEN UNCHANGED <<next, prev, owner>>
       ELSE LET first == next[l]
                last  == prev[l]
                at    == next[h]
            IN /\ next' = [[next EXCEPT ![h] = first] EXCEPT ![last] = at]
               /\ prev' = [[prev EXCEPT ![first] = h] EXCEPT ![at] = last]
               /\ owner' = [c \in Cells |->
                              IF c = l THEN Nil
                              ELSE IF owner[c] = l THEN h ELSE owner[c]]
  /\ UNCHANGED freeing

\* COMMON_INIT_LIST_HEAD on a head that was spliced away.
InitHead(h) == /\ freeing = Nil
               /\ owner[h] = Nil
               /\ next' = [next EXCEPT ![h] = h]
               /\ prev' = [prev EXCEPT ![h] = h]
               /\ owner' = [owner EXCEPT ![h] = h]
               /\ UNCHANGED freeing

\* COMMON_FREE_LIST starts; while the list is not empty, FreeFirst deletes and
\* frees its first node.
StartFreeList(h) == /\ freeing = Nil
                    /\ owner[h] = h
                    /\ freeing' = h
                    /\ UNCHANGED <<next, prev, owner>>

\* Mutation of FreeFirst: the node is freed without being unlinked.
FreeFirstStillLinked == /\ freeing # Nil
                        /\ ~IsEmpty(freeing)
                        /\ UNCHANGED vars

FreeFirst == /\ freeing # Nil
             /\ ~IsEmpty(freeing)
             /\ LET pos == next[freeing]
                IN /\ JoinNeighbours(prev[pos], next[pos])
                   /\ owner' = [owner EXCEPT ![pos] = Nil]
             /\ UNCHANGED freeing

EndFreeList == /\ freeing # Nil
               /\ IsEmpty(freeing)
               /\ freeing' = Nil
               /\ UNCHANGED <<next, prev, owner>>

Next == \/ \E e \in Entries, h \in Heads : Add(e, h) \/ AddTail(e, h)
        \/ \E e \in Entries : Del(e) \/ DelInit(e)
        \/ \E l, h \in Heads : Splice(l, h)
        \/ \E h \in Heads : InitHead(h) \/ StartFreeList(h)
        \/ FreeFirst
        \/ EndFreeList

Spec == Init /\ [][Next]_vars

\* COMMON_FREE_LIST is a loop of the calling thread: it keeps going.
FairSpec == Spec /\ WF_vars(FreeFirst \/ EndFreeList)

-----------------------------------------------------------------------------
(* common_list_for_each, forwards along next and, for the proof of prev,   *)
(* backwards: the cells met on the way from a head until the head is met   *)
(* again, cut off after as many steps as there are entries.                *)
Walk(step, h) ==
  LET reach[k \in 0..Cardinality(Entries)] ==
        IF k = 0
          THEN [at |-> step[h], seen |-> <<>>]
          ELSE IF reach[k - 1].at \in {h, Nil}
                 THEN reach[k - 1]
                 ELSE [at   |-> step[reach[k - 1].at],
                       seen |-> Append(reach[k - 1].seen, reach[k - 1].at)]
  IN reach[Cardinality(Entries)]

ForEach(h) == Walk(next, h).seen

-----------------------------------------------------------------------------
\* Types of the variables; a list head always points somewhere.
TypeOK == /\ next \in [Cells -> Cells \cup {Nil}]
          /\ prev \in [Cells -> Cells \cup {Nil}]
          /\ owner \in [Cells -> Heads \cup {Nil}]
          /\ freeing \in Heads \cup {Nil}
          /\ \A h \in Heads : next[h] # Nil /\ prev[h] # Nil

\* The two pointers of neighbouring cells agree, and a ring never leads from
\* the cells of one head to those of another: what __list_add, __list_del and
\* common_list_splice must keep while several lists share the heap.
RingsIntact ==
  \A c \in Linked : /\ next[c] \in Linked /\ prev[c] \in Linked
                    /\ prev[next[c]] = c
                    /\ next[prev[c]] = c
                    /\ owner[next[c]] = owner[c]

\* Traversing a list in either direction ends at its head, meets each of its
\* entries once, and the two directions meet them in opposite orders.
TraversalsAgree ==
  \A h \in Heads : owner[h] = h =>
    LET fwd == Walk(next, h)
        bwd == Walk(prev, h)
        n   == Len(fwd.seen)
    IN /\ fwd.at = h /\ bwd.at = h
       /\ Len(bwd.seen) = n
       /\ \A i \in 1..n : fwd.seen[i] = bwd.seen[n + 1 - i]
       /\ {fwd.seen[i] : i \in 1..n} = {e \in Entries : owner[e] = h}

\* The pointer lists implement lists of entries: every primitive is one step
\* of SeqLists or changes no list at all.
Lists == [h \in Heads |-> IF owner[h] = h THEN ForEach(h) ELSE <<>>]

Abs == INSTANCE SeqLists WITH lists <- Lists

ImplementsSeqLists == Abs!SeqSpec

\* Each primitive has the effect its name promises: common_list_add puts the
\* entry first, common_list_add_tail last, and common_list_splice moves a whole
\* list, in its order, in front of another.
PrimitivesKeepOrder ==
  [][/\ \A e \in Entries, h \in Heads :
          /\ Add(e, h) => Abs!PushFront(e, h)
          /\ AddTail(e, h) => Abs!PushBack(e, h)
     /\ \A l, h \in Heads : Splice(l, h) => Abs!MoveToFront(l, h)]_vars

\* The primitives are the operations on sequences that their names promise, and
\* nothing else ever happens to a list.
ListsAsNamed == ImplementsSeqLists /\ PrimitivesKeepOrder

\* COMMON_FREE_LIST ends, and it ends with the list empty.
FreeListTerminates ==
  \A h \in Heads : freeing = h ~> (freeing = Nil /\ IsEmpty(h))
=============================================================================
