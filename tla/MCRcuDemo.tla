----------------------------- MODULE MCRcuDemo ------------------------------
(* Two blocks more than the two cells need: one for an update of each.     *)
EXTENDS RcuDemo, TLC

CONSTANTS o1, o2, o3, o4, o5

MCObjs == {o1, o2, o3, o4, o5}
ObjSymmetry == Permutations(MCObjs)
=============================================================================
