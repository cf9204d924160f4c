------------------------- MODULE MCNotificationQueue -------------------------
(***************************************************************************)
(* Small instances of NotificationQueue.                                   *)
(***************************************************************************)
EXTENDS NotificationQueue

Symmetry == Permutations(Requests)
=============================================================================
