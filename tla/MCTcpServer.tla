---------------------------- MODULE MCTcpServer ----------------------------
(* Instances of TcpServer for TLC: the configurations give the constants    *)
(* model values.  No symmetry is used, as liveness is checked.              *)
EXTENDS TcpServer
=============================================================================
