---------------------------- MODULE MCEventLoop ----------------------------
(* Instances of EventLoop for TLC: the configurations give the constants    *)
(* model values.  No symmetry is used, as liveness is checked.              *)
EXTENDS EventLoop
=============================================================================
