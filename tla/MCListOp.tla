------------------------------ MODULE MCListOp ------------------------------
(* Two list heads that can be spliced into each other and three entries.   *)
EXTENDS ListOp, TLC

CONSTANTS h1, h2, e1, e2, e3

MCHeads == {h1, h2}
MCEntries == {e1, e2, e3}
=============================================================================
