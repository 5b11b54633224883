------------------------ MODULE MCAuthorizationRounds ------------------------
(***************************************************************************)
(* Model-checking instances of AuthorizationRounds.                        *)
(***************************************************************************)
EXTENDS AuthorizationRounds

\* Jobs 1 and 2 of one batch, job 3 added by itself.
BatchAndSingle == [j \in 1..3 |-> IF j <= 2 THEN "batch" ELSE "single"]
OneBatch == [j \in 1..2 |-> "batch"]
=============================================================================
