---------------------------- MODULE MCCleanupClaim ----------------------------
(***************************************************************************)
(* Model-checking instances of CleanupClaim.                               *)
(***************************************************************************)
EXTENDS CleanupClaim

NoAliases == <<>>
TwoAliases == <<"payload", "control">>
=============================================================================
