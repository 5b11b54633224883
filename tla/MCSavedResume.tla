--------------------------- MODULE MCSavedResume ---------------------------
(* TLC instances of SavedResume: two or three bodies of one job.                           *)
EXTENDS SavedResume
=============================================================================
