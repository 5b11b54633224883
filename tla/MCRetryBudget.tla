--------------------------- MODULE MCRetryBudget ---------------------------
(***************************************************************************)
(* Model-checking instance of RetryBudget.                                 *)
(***************************************************************************)
EXTENDS RetryBudget
=============================================================================
