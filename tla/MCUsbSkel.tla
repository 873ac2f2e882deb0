----------------------------- MODULE MCUsbSkel ------------------------------
(* Two processes with a file each, a semaphore of one slot or two.         *)
EXTENDS UsbSkel, TLC

CONSTANTS p1, p2

MCProcs == {p1, p2}
ProcSymmetry == Permutations(MCProcs)
=============================================================================
