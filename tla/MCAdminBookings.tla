-------------------------- MODULE MCAdminBookings --------------------------
(* A pending booking with a change not yet seen, a confirmed one, and a third *)
(* the owner may enter; two times of day.                                     *)
EXTENDS AdminBookings
MCRow(made, status, attention, slot) ==
  [made |-> made, status |-> status, attention |-> attention, slot |-> slot]
MCFirst == <<MCRow(TRUE, "pending", TRUE, 1), MCRow(TRUE, "confirmed", FALSE, 2),
             MCRow(FALSE, "confirmed", FALSE, 1)>>
=============================================================================
