--------------------------- MODULE MCSetupPages ---------------------------
(* Three services, three rows of opening hours of two kinds, two texts. *)
EXTENDS SetupPages
MCHoursKinds == <<"hours", "hours", "closure">>
=============================================================================
