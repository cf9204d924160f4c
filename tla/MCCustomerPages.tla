--------------------------- MODULE MCCustomerPages ---------------------------
(***************************************************************************)
(* Two months of two days; one service is offered on every day but the     *)
(* first, the other only in the second month.                              *)
(***************************************************************************)
EXTENDS CustomerPages, TLC

CONSTANTS cut, colour

MCOpen == (cut :> {1, 2, 3}) @@ (colour :> {2, 3})
=============================================================================
