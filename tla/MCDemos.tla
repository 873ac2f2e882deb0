------------------------------ MODULE MCDemos ------------------------------
(***************************************************************************)
(* Small instances of the demonstrations that stand alone.                 *)
(***************************************************************************)
EXTENDS Demos, TLC

CONSTANTS m1, m2, p1, p2

TwoMice == {m1, m2}
TwoProcesses == {p1, p2}

\* One user has pages that adjoin, the other has not.
UserPages == (p1 :> {<<1>>, <<1, 2>>}) @@ (p2 :> {<<3, 5>>, <<5>>})

\* Three interfaces, and three with a gap in their indexes
SomeIndexes == {{1, 2}, {1, 3}}

\* Just below zero, and the temperature whose low byte is zero
BelowZero == {-256, -1}
=============================================================================
