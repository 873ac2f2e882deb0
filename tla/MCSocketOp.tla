----------------------------- MODULE MCSocketOp -----------------------------
(* The socket option demonstration with as many descriptors as it opens     *)
(* sockets; standard input, output and error have 0 to 2.                   *)
EXTENDS SocketOp

MCDesc == 3..5
=============================================================================
