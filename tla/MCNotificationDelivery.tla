----------------------- MODULE MCNotificationDelivery -----------------------
(***************************************************************************)
(* Model-checking instances of NotificationDelivery.  The windows are      *)
(* interchangeable, and what is recorded of a token that no row, window or *)
(* call carries any more is never read again before the token is reissued. *)
(***************************************************************************)
EXTENDS NotificationDelivery, TLC

WindowSymmetry == Permutations(Windows)

UsefulDelivery == <<row, [t \in Tokens \cap InUse |-> claim[t]], win, late,
                    shown \cap InUse, repeated, crossed>>
=============================================================================
