---------------------------- MODULE MCDirectStore ----------------------------
(***************************************************************************)
(* Model-checking instance of DirectStore: finite sets as model values.    *)
(***************************************************************************)
EXTENDS DirectStore, TLC

\* Jobs, requests and payloads are interchangeable identifiers.
Symmetry == Permutations(Jobs) \cup Permutations(Requests) \cup Permutations(Payloads)
=============================================================================
