---------------------------- MODULE PublicBooking ----------------------------
(***************************************************************************)
(* Booking from the public page and from a manage link, of one business    *)
(* that offers one service: bookPublicly (lib/public-booking.ts), the two  *)
(* manage-link writes (lib/manage.ts, app/manage/actions.ts), and what the *)
(* owner does to the same tables meanwhile.                                *)
(*                                                                         *)
(* Only the last statement of a request is a transaction: it is a step of  *)
(* BookingCalendar, which BookingEngine implements.  Everything before it, *)
(* availability, the customer lookup and insert, the count of held         *)
(* bookings, is a statement of its own, and other requests run in between. *)
(* Opening hours and the catalogue are not modelled: a refusal because of  *)
(* them is one of the ways a request fails.                                *)
(***************************************************************************)
EXTENDS BookingCalendar, FiniteSets

CONSTANTS
    Phones,        \* normalised numbers: the identity of a customer
    NoPhone,       \* the holder of no booking
    NoBooking,     \* the booking of a request that names none
    Requests,      \* calls of the server actions, each issued at most once
    Cap,           \* businesses.max_future_bookings_per_customer
    Notice,        \* businesses.min_notice_min
    ConfirmNew,    \* businesses.confirm_new_customers
    MaxClock       \* bound on the clock

ASSUME PublicAssumption ==
    /\ Cap \in Nat \ {0} /\ Notice \in Nat /\ MaxClock \in Nat
    /\ ConfirmNew \in BOOLEAN
    /\ NoPhone \notin Phones /\ NoBooking \notin Bookings
    /\ Slots # {}
    /\ IsFiniteSet(Bookings)

VARIABLES
    customer,      \* torim.customers by phone: "absent" | "known" | "blocked"
    holder,        \* bookings.customer_id
    waiting,       \* bookings.status is 'pending' rather than 'confirmed'
    clock,
    request,       \* where each request is and what it has read
    \* history
    placedBy,      \* who placed or moved each live booking last
    introduced,    \* phones of customers the owner entered herself
    lost,          \* phones whose customer was inserted by a request that then failed
    excused        \* phones the cap was not applied to throughout

history == <<placedBy, introduced, lost, excused>>
vars == <<calendarVars, customer, holder, waiting, clock, request, history>>

Live(b) == state[b] = "live"
InFlight(r) == request[r].step \notin {"new", "ended"}

\* The one service has no buffers: a slot is the appointment.
StartOf(s) == s.from
EndOf(s) == s.until

Request ==
    [step : {"new", "lookup", "insert", "count", "place", "free", "ended"},
     kind : {"book", "move", "cancel"}, by : {"customer", "admin"},
     phone : Phones \cup {NoPhone}, booking : Bookings \cup {NoBooking}, slot : Slots,
     at : Nat, created : BOOLEAN, barred : BOOLEAN]

NoRequest ==
    [step |-> "new", kind |-> "book", by |-> "customer", phone |-> NoPhone,
     booking |-> NoBooking, slot |-> CHOOSE s \in Slots : TRUE,
     at |-> 0, created |-> FALSE, barred |-> FALSE]

Init ==
    /\ CalendarInit /\ slot = [b \in Bookings |-> NoRequest.slot]
    /\ customer = [p \in Phones |-> "absent"]
    /\ holder = [b \in Bookings |-> NoPhone]
    /\ waiting = [b \in Bookings |-> FALSE]
    /\ clock = 0
    /\ request = [r \in Requests |-> NoRequest]
    /\ placedBy = [b \in Bookings |-> "customer"]
    /\ introduced = {} /\ lost = {} /\ excused = {}

-----------------------------------------------------------------------------
(* Reads.                                                                  *)

\* getAvailability offers s at instant now; a booking being moved is not busy.
Offered(s, moved, now) ==
    /\ StartOf(s) >= now + Notice
    /\ \A b \in Bookings \ moved : Live(b) => ~Overlap(slot[b], s)

\* Faulty variant: a booking that waits for the owner is not counted yet.
HeldConfirmed(p, now) ==
    {b \in Bookings : Live(b) /\ ~waiting[b] /\ holder[b] = p /\ StartOf(slot[b]) > now}

\* What p holds that is still ahead.
Held(p, now) == {b \in Bookings : Live(b) /\ holder[b] = p /\ StartOf(slot[b]) > now}

-----------------------------------------------------------------------------
(* Beginning a request.                                                    *)

Begin(r, q) ==
    /\ request[r].step = "new"
    /\ request' = [request EXCEPT ![r] = q]
    /\ UNCHANGED <<calendarVars, customer, holder, waiting, clock, placedBy, introduced, lost>>

\* submitBooking: a time the page is offering at this moment.
BookOnline(r) ==
    \E p \in Phones, s \in Slots :
        /\ Offered(s, {}, clock)
        /\ Begin(r, [NoRequest EXCEPT !.step = "lookup", !.phone = p, !.slot = s,
                                      !.at = clock, !.barred = customer[p] = "blocked"])
        /\ excused' = IF \E q \in Requests : InFlight(q) /\ request[q].phone = p
                      THEN excused \cup {p} ELSE excused

\* createBookingAction: any time.
BookByOwner(r) ==
    \E p \in Phones, s \in Slots :
        /\ Begin(r, [NoRequest EXCEPT !.step = "lookup", !.by = "admin", !.phone = p,
                                      !.slot = s])
        /\ excused' = excused \cup {p}

\* rescheduleAppointment: the booking is CHANGEABLE and the new time offered when read.
MoveOnline(r) ==
    \E b \in Bookings, s \in Slots :
        /\ Live(b)
        /\ Offered(s, {b}, clock)
        /\ Begin(r, [NoRequest EXCEPT !.step = "place", !.kind = "move", !.phone = holder[b],
                                      !.booking = b, !.slot = s])
        /\ UNCHANGED excused

\* moveBookingAction looks at neither.
MoveByOwner(r) ==
    \E b \in Bookings, s \in Slots :
        /\ state[b] # "free"
        /\ Begin(r, [NoRequest EXCEPT !.step = "place", !.kind = "move", !.by = "admin",
                                      !.phone = holder[b], !.booking = b, !.slot = s])
        /\ UNCHANGED excused

\* cancelAppointment and cancelBookingAction.
Cancel(r) ==
    \E b \in Bookings, by \in {"customer", "admin"} :
        /\ state[b] # "free"
        /\ by = "customer" => Live(b)
        /\ Begin(r, [NoRequest EXCEPT !.step = "free", !.kind = "cancel", !.by = by,
                                      !.phone = holder[b], !.booking = b])
        /\ UNCHANGED excused

-----------------------------------------------------------------------------
(* The statements of a request.                                            *)

Finish(r) == [request EXCEPT ![r] = [NoRequest EXCEPT !.step = "ended"]]
GoTo(r, step) == [request EXCEPT ![r].step = step]

\* A request is over without a booking; the customer it inserted stays.
Fail(r) ==
    /\ request' = Finish(r)
    /\ lost' = IF request[r].created THEN lost \cup {request[r].phone} ELSE lost
    /\ UNCHANGED <<calendarVars, customer, holder, waiting, clock, placedBy, introduced, excused>>

\* Faulty variant: the row is found, its blocked column not looked at.
LookUpAnyone(r) ==
    /\ request[r].step = "lookup"
    /\ request' = GoTo(r, IF customer[request[r].phone] = "absent" THEN "insert"
                          ELSE IF request[r].by = "admin" THEN "place" ELSE "count")
    /\ UNCHANGED <<calendarVars, customer, holder, waiting, clock, history>>

\* Only the owner may book for a blocked customer.
LookUp(r) ==
    /\ request[r].step = "lookup"
    /\ LET found == customer[request[r].phone]
           refused == found = "blocked" /\ request[r].by = "customer"
           next == IF found = "absent" THEN "insert"
                   ELSE IF request[r].by = "admin" THEN "place" ELSE "count"
       IN  \/ refused /\ Fail(r)
           \/ /\ ~refused
              /\ request' = GoTo(r, next)
              /\ UNCHANGED <<calendarVars, customer, holder, waiting, clock, history>>

\* Faulty variant: the id is minted, the row left for later.
InsertLater(r) ==
    /\ request[r].step = "insert"
    /\ request' = [GoTo(r, "place") EXCEPT ![r].created = TRUE]
    /\ UNCHANGED <<calendarVars, customer, holder, waiting, clock, history>>

\* Faulty variant: an upsert, which cannot tell a new customer from a known one.
Upsert(r) ==
    /\ request[r].step = "insert"
    /\ customer' = [customer EXCEPT ![request[r].phone] = IF @ = "absent" THEN "known" ELSE @]
    /\ request' = GoTo(r, "place")
    /\ UNCHANGED <<calendarVars, holder, waiting, clock, history>>

\* UNIQUE (business_id, phone_e164): of two inserts the second throws.
InsertCustomer(r) ==
    /\ request[r].step = "insert"
    /\ LET p == request[r].phone
       IN  \/ customer[p] # "absent" /\ Fail(r)
           \/ /\ customer[p] = "absent"
              /\ customer' = [customer EXCEPT ![p] = "known"]
              /\ request' = [GoTo(r, "place") EXCEPT ![r].created = TRUE]
              /\ introduced' = IF request[r].by = "admin" THEN introduced \cup {p} ELSE introduced
              /\ UNCHANGED <<calendarVars, holder, waiting, clock, placedBy, lost, excused>>

\* TooManyBookingsError, against the instant the request began at.
CountHeld(r) ==
    /\ request[r].step = "count"
    /\ LET full == Cardinality(Held(request[r].phone, request[r].at)) >= Cap
       IN  \/ full /\ Fail(r)
           \/ /\ ~full
              /\ request' = GoTo(r, "place")
              /\ UNCHANGED <<calendarVars, customer, holder, waiting, clock, history>>

\* Faulty variant: availability has been checked, why check again.
MayOverlapIfOffered(r) == request[r].by \in {"admin", "customer"}

\* allowOverlap, which only the owner's actions pass, on her second tap.
MayOverlap(r) == request[r].by = "admin"

\* createBooking and rescheduleBooking: one transaction, or BookingConflictError.
Placement(r, b) ==
    /\ \/ Clear(b, request[r].slot) /\ Place(b, request[r].slot, FALSE)
       \/ /\ ~Clear(b, request[r].slot) /\ MayOverlap(r)
          /\ Place(b, request[r].slot, TRUE)
    /\ placedBy' = [placedBy EXCEPT ![b] = request[r].by]
    /\ request' = Finish(r)

CreateBooking(r) ==
    /\ request[r].step = "place" /\ request[r].kind = "book"
    /\ \E b \in Bookings :
        /\ state[b] = "free"
        /\ Placement(r, b)
        /\ holder' = [holder EXCEPT ![b] = request[r].phone]
        /\ waiting' = [waiting EXCEPT ![b] =
                          ConfirmNew /\ request[r].created /\ request[r].by = "customer"]
    /\ UNCHANGED <<customer, clock, introduced, lost, excused>>

\* Neither the status nor the cap is looked at again.
MoveBooking(r) ==
    /\ request[r].step = "place" /\ request[r].kind = "move"
    /\ LET b == request[r].booking
       IN  /\ Placement(r, b)
           /\ excused' = IF StartOf(slot[b]) <= clock THEN excused \cup {holder[b]} ELSE excused
    /\ UNCHANGED <<customer, holder, waiting, clock, introduced, lost>>

\* BookingConflictError: for the owner too, if this is her first tap.
Conflict(r) ==
    /\ request[r].step = "place"
    /\ LET moved == IF request[r].kind = "move" THEN {request[r].booking} ELSE {}
       IN  \E b \in Bookings \ moved : Live(b) /\ Overlap(slot[b], request[r].slot)
    /\ Fail(r)

CancelBooking(r) ==
    /\ request[r].step = "free"
    /\ Free(request[r].booking)
    /\ placedBy' = [placedBy EXCEPT ![request[r].booking] = "customer"]
    /\ request' = Finish(r)
    /\ UNCHANGED <<customer, holder, waiting, clock, introduced, lost, excused>>

\* The process dies, a statement throws, the day was closed or the service retired, or
\* it is too late to cancel.
RequestFails(r) == InFlight(r) /\ Fail(r)

-----------------------------------------------------------------------------
(* Single statements of the owner, and time.                               *)

Confirm(b) ==
    /\ Live(b) /\ waiting[b]
    /\ waiting' = [waiting EXCEPT ![b] = FALSE]
    /\ UNCHANGED <<calendarVars, customer, holder, clock, request, history>>

MarkNoShow(b) ==
    /\ state[b] # "free" /\ EndOf(slot[b]) <= clock
    /\ Free(b)
    /\ placedBy' = [placedBy EXCEPT ![b] = "customer"]
    /\ UNCHANGED <<customer, holder, waiting, clock, request, introduced, lost, excused>>

\* A request during which its customer was unblocked is not held against the lookup.
SetBlocked(p, blocked) ==
    /\ customer[p] = IF blocked THEN "known" ELSE "blocked"
    /\ customer' = [customer EXCEPT ![p] = IF blocked THEN "blocked" ELSE "known"]
    /\ request' = [r \in Requests |->
          IF request[r].phone = p /\ ~blocked THEN [request[r] EXCEPT !.barred = FALSE]
                                              ELSE request[r]]
    /\ UNCHANGED <<calendarVars, holder, waiting, clock, history>>

Tick ==
    /\ clock < MaxClock
    /\ clock' = clock + 1
    /\ UNCHANGED <<calendarVars, customer, holder, waiting, request, history>>

Next ==
    \/ \E r \in Requests :
        \/ BookOnline(r) \/ BookByOwner(r) \/ MoveOnline(r) \/ MoveByOwner(r) \/ Cancel(r)
        \/ LookUp(r) \/ InsertCustomer(r) \/ CountHeld(r)
        \/ CreateBooking(r) \/ MoveBooking(r) \/ CancelBooking(r)
        \/ Conflict(r) \/ RequestFails(r)
    \/ \E b \in Bookings : Confirm(b) \/ MarkNoShow(b)
    \/ \E p \in Phones, blocked \in BOOLEAN : SetBlocked(p, blocked)
    \/ Tick

Spec == Init /\ [][Next]_vars

-----------------------------------------------------------------------------
(* What the public surface is meant to guarantee.                          *)

\* Every column has its type, and every booking the customer it refers to.
TypeOK ==
    /\ CalendarTypeOK
    /\ customer \in [Phones -> {"absent", "known", "blocked"}]
    /\ holder \in [Bookings -> Phones \cup {NoPhone}]
    /\ waiting \in [Bookings -> BOOLEAN]
    /\ clock \in Nat
    /\ request \in [Requests -> Request]
    /\ placedBy \in [Bookings -> {"customer", "admin"}]
    /\ introduced \subseteq Phones /\ lost \subseteq Phones /\ excused \subseteq Phones
    /\ \A b \in Bookings : state[b] # "free" => holder[b] \in Phones /\ customer[holder[b]] # "absent"

\* Two live bookings overlap only where the owner put one of them: whatever two
\* customers read before they booked, at most one of them gets the time.
OverlapsAreTheOwners ==
    \A a, b \in Bookings :
        /\ a # b
        /\ Live(a) /\ Live(b)
        /\ Overlap(slot[a], slot[b])
        => "admin" \in {placedBy[a], placedBy[b]}

\* r books online in this step, and b is the booking.
BooksOnline(r, b) ==
    /\ request[r].step = "place" /\ request[r].kind = "book" /\ request[r].by = "customer"
    /\ state[b] = "free" /\ state'[b] # "free"
    /\ request'[r].step = "ended"

\* A customer who is blocked from before a request begins until it ends books nothing
\* online, however it interleaves with other requests of the same number.
BlockedBooksNothing ==
    [][\A r \in Requests, b \in Bookings : BooksOnline(r, b) => ~request[r].barred]_vars

\* p has booked before, was entered by the owner, or (what screening does not see) was
\* inserted by a request that did not book or has not booked yet.
SeenBefore(p) == p \in introduced \/ \E b \in Bookings : state[b] # "free" /\ holder[b] = p
InsertedByAnother(r) ==
    LET p == request[r].phone
    IN  \/ p \in lost
        \/ \E q \in Requests \ {r} : request[q].created /\ request[q].phone = p

\* With screening on, a first booking waits for the owner unless the number was left in
\* the customer table by another attempt of its own.
ScreenedUnlessInserted ==
    [][\A r \in Requests, b \in Bookings :
        (BooksOnline(r, b) /\ ConfirmNew) =>
            \/ waiting'[b]
            \/ SeenBefore(request[r].phone)
            \/ InsertedByAnother(r)]_vars

\* A customer holds at most Cap bookings that are ahead, unless two of its requests were
\* under way at once, a booking that had begun was moved ahead, or the owner booked.
CapHoldsUnlessExcused ==
    \A p \in Phones \ excused : Cardinality(Held(p, clock)) <= Cap

\* What a request has established stays true until it writes: the customer it books for
\* exists, and so does the booking it changes.
Sound(q) ==
    /\ (q.step \in {"lookup", "insert", "count"} \/ q.created) =>
          q.kind = "book" /\ q.phone \in Phones
    /\ (q.step \in {"count", "place"} /\ q.kind = "book") =>
          q.phone \in Phones /\ customer[q.phone] # "absent"
    /\ (q.step = "place" /\ q.kind = "move") \/ q.step = "free" =>
          q.booking \in Bookings /\ state[q.booking] # "free"

RequestsAreSound == \A r \in Requests : Sound(request[r])

\* The inductive invariant: the types of the booking a request writes to come from its
\* soundness, and the overlap result from both.
IInv == TypeOK /\ RequestsAreSound /\ OverlapsAreTheOwners

-----------------------------------------------------------------------------
(* What comments say of it, and the code does not keep.                    *)

\* "An unknown number's first booking waits for her to confirm it."
FirstBookingIsScreened ==
    [][\A r \in Requests, b \in Bookings :
        (BooksOnline(r, b) /\ ConfirmNew) => waiting'[b] \/ SeenBefore(request[r].phone)]_vars

\* "How much one customer may hold at once": a booking or a move of the customer's own
\* does not leave more than Cap ahead, where all of them were booked online.
CustomerStaysWithinCap ==
    [][\A r \in Requests, p \in Phones :
        (/\ request[r].step = "place" /\ request[r].by = "customer" /\ request[r].phone = p
         /\ request'[r].step = "ended" /\ <<state, slot>>' # <<state, slot>>
         /\ \A b \in Held(p, clock)' : placedBy'[b] = "customer")
            => Cardinality(Held(p, clock)') <= Cap]_vars
=============================================================================
