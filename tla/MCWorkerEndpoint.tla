--------------------------- MODULE MCWorkerEndpoint ---------------------------
(***************************************************************************)
(* Model-checking instance of WorkerEndpoint.                              *)
(***************************************************************************)
EXTENDS WorkerEndpoint, TLC

Symmetry == Permutations(Workers) \cup Permutations(Sockets)
=============================================================================
