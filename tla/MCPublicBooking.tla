--------------------------- MODULE MCPublicBooking ---------------------------
(***************************************************************************)
(* Small instances of PublicBooking: three slots, of which the first ends  *)
(* within the bound on the clock and the other two overlap.                *)
(***************************************************************************)
EXTENDS PublicBooking, TLC

MCSlots == {[from |-> 1, until |-> 2], [from |-> 2, until |-> 4], [from |-> 3, until |-> 5]}

Symmetry == Permutations(Bookings) \cup Permutations(Requests) \cup Permutations(Phones)
=============================================================================
