------------------------------ MODULE SeqLists ------------------------------
(***************************************************************************)
(* What the list primitives of list_op.c promise: every list head stands   *)
(* for a sequence of entries, and the operations are the usual ones on     *)
(* sequences.  ListOp, which works on next and prev pointers, implements   *)
(* this module.                                                            *)
(***************************************************************************)
EXTENDS Sequences, SequencesExt

CONSTANTS Heads, Entries

VARIABLE lists          \* the entries of each head, first to last

OnSomeList(e) == \E h \in Heads : Contains(lists[h], e)

SeqInit == lists = [h \in Heads |-> <<>>]

PushFront(e, h) == /\ ~OnSomeList(e)
                   /\ lists' = [lists EXCEPT ![h] = <<e>> \o @]

PushBack(e, h) == /\ ~OnSomeList(e)
                  /\ lists' = [lists EXCEPT ![h] = Append(@, e)]

Remove1(e, h) == \E i \in DOMAIN lists[h] :
                   /\ lists[h][i] = e
                   /\ lists' = [lists EXCEPT ![h] = RemoveAt(@, i)]

\* Everything on list l moves, in its order, to the front of list h.
MoveToFront(l, h) == /\ l # h
                     /\ lists' = [lists EXCEPT ![h] = lists[l] \o @, ![l] = <<>>]

SeqNext == \/ \E e \in Entries, h \in Heads :
                 PushFront(e, h) \/ PushBack(e, h) \/ Remove1(e, h)
           \/ \E l, h \in Heads : MoveToFront(l, h)

SeqSpec == SeqInit /\ [][SeqNext]_lists
=============================================================================
