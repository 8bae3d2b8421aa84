----------------------------- MODULE MCForward -----------------------------
(* Forward on one request: the requests of a gateway share only the settler *)
(* and the crash, and ForwardProofs covers any number of them.              *)
EXTENDS Forward

CONSTANT r1

=============================================================================
