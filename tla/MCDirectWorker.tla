---------------------------- MODULE MCDirectWorker ----------------------------
(***************************************************************************)
(* Model-checking instance of DirectWorker.                                *)
(***************************************************************************)
EXTENDS DirectWorker, TLC

Symmetry == Permutations(Jobs) \cup Permutations(Requests) \cup Permutations(Payloads)
=============================================================================
