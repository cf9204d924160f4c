------------------------- MODULE PublicBookingProofs -------------------------
(***************************************************************************)
(* Proofs about PublicBooking, for any number of customers, requests,      *)
(* bookings and slots, and any cap: types, overlaps, and the two rules the *)
(* public pages enforce by a read that precedes the write - what a blocked *)
(* customer cannot do, and how many bookings one customer may hold.        *)
(***************************************************************************)
EXTENDS PublicBooking, TLAPS, FiniteSetTheorems

-----------------------------------------------------------------------------
(* Requests.                                                               *)

LEMMA NoRequestType ==
  /\ NoRequest \in Request
  /\ NoRequest.kind = "book" /\ ~NoRequest.created
  <1>1. (CHOOSE s \in Slots : TRUE) \in Slots
    BY PublicAssumption
  <1>2. QED
    BY <1>1 DEF NoRequest, Request

\* A finished request is bound by nothing any more.
LEMMA EndedType ==
  /\ [NoRequest EXCEPT !.step = "ended"] \in Request
  /\ Sound([NoRequest EXCEPT !.step = "ended"])
  BY NoRequestType DEF Request, Sound

\* The invariant looks at one request at a time: it survives a step that changes nothing
\* else and leaves a sound record.
LEMMA OneRequest ==
  ASSUME IInv, NEW r \in Requests, NEW q \in Request, Sound(q),
         request' = [request EXCEPT ![r] = q],
         UNCHANGED <<calendarVars, customer, holder, waiting, clock, placedBy>>,
         introduced' \subseteq Phones, lost' \subseteq Phones, excused' \subseteq Phones
  PROVE  IInv'
  <1>1. TypeOK'
    BY DEF IInv, TypeOK, CalendarTypeOK, calendarVars
  <1>2. RequestsAreSound'
    BY DEF IInv, TypeOK, RequestsAreSound, Sound, calendarVars
  <1>3. OverlapsAreTheOwners'
    BY DEF IInv, OverlapsAreTheOwners, Live, calendarVars
  <1>4. QED
    BY <1>1, <1>2, <1>3 DEF IInv

LEMMA FailKeeps ==
  ASSUME IInv, NEW r \in Requests, Fail(r)
  PROVE  IInv'
  <1>1. lost' \subseteq Phones
    BY DEF Fail, IInv, TypeOK, RequestsAreSound, Sound
  <1>2. QED
    BY <1>1, EndedType, OneRequest DEF Fail, Finish, IInv, TypeOK

LEMMA BeginKeeps ==
  ASSUME IInv, NEW r \in Requests, NEW q \in Request, Sound(q), Begin(r, q),
         excused' \subseteq Phones
  PROVE  IInv'
  BY OneRequest DEF Begin, IInv, TypeOK

\* A request goes on to its next statement.
LEMMA GoToKeeps ==
  ASSUME IInv, NEW r \in Requests, NEW step \in {"lookup", "insert", "count", "place"},
         request[r].kind = "book", request[r].phone \in Phones,
         step \in {"count", "place"} => customer[request[r].phone] # "absent",
         request' = GoTo(r, step),
         UNCHANGED <<calendarVars, customer, holder, waiting, clock, history>>
  PROVE  IInv'
  <1> DEFINE q == [request[r] EXCEPT !.step = step]
  <1>1. request[r] \in Request
    BY DEF IInv, TypeOK
  <1>2. q \in Request
    BY <1>1 DEF Request
  <1>3. Sound(q)
    BY <1>1 DEF Sound, Request
  <1>4. request' = [request EXCEPT ![r] = q]
    BY DEF GoTo
  <1>5. QED
    BY <1>2, <1>3, <1>4, OneRequest DEF history, IInv, TypeOK

-----------------------------------------------------------------------------
(* Beginning.                                                              *)

LEMMA BookOnlineKeeps ==
  ASSUME IInv, NEW r \in Requests, BookOnline(r)
  PROVE  IInv'
  <1>1. PICK p \in Phones, s \in Slots :
          /\ Begin(r, [NoRequest EXCEPT !.step = "lookup", !.phone = p, !.slot = s,
                                        !.at = clock, !.barred = customer[p] = "blocked"])
          /\ excused' = IF \E q \in Requests : InFlight(q) /\ request[q].phone = p
                        THEN excused \cup {p} ELSE excused
    BY DEF BookOnline
  <1> DEFINE q == [NoRequest EXCEPT !.step = "lookup", !.phone = p, !.slot = s,
                                    !.at = clock, !.barred = customer[p] = "blocked"]
  <1>2. q \in Request
    BY NoRequestType DEF Request, IInv, TypeOK
  <1>3. Sound(q)
    BY NoRequestType, <1>2 DEF Request, Sound
  <1>4. excused' \subseteq Phones
    BY <1>1 DEF IInv, TypeOK
  <1>5. QED
    BY <1>1, <1>2, <1>3, <1>4, BeginKeeps

LEMMA BookByOwnerKeeps ==
  ASSUME IInv, NEW r \in Requests, BookByOwner(r)
  PROVE  IInv'
  <1>1. PICK p \in Phones, s \in Slots :
          /\ Begin(r, [NoRequest EXCEPT !.step = "lookup", !.by = "admin", !.phone = p,
                                        !.slot = s])
          /\ excused' = excused \cup {p}
    BY DEF BookByOwner
  <1> DEFINE q == [NoRequest EXCEPT !.step = "lookup", !.by = "admin", !.phone = p,
                                    !.slot = s]
  <1>2. q \in Request
    BY NoRequestType DEF Request, IInv, TypeOK
  <1>3. Sound(q)
    BY NoRequestType, <1>2 DEF Request, Sound
  <1>4. excused' \subseteq Phones
    BY <1>1 DEF IInv, TypeOK
  <1>5. QED
    BY <1>1, <1>2, <1>3, <1>4, BeginKeeps

LEMMA MoveOnlineKeeps ==
  ASSUME IInv, NEW r \in Requests, MoveOnline(r)
  PROVE  IInv'
  <1>1. PICK b \in Bookings, s \in Slots :
          /\ Live(b)
          /\ Begin(r, [NoRequest EXCEPT !.step = "place", !.kind = "move",
                                        !.phone = holder[b], !.booking = b, !.slot = s])
          /\ UNCHANGED excused
    BY DEF MoveOnline
  <1> DEFINE q == [NoRequest EXCEPT !.step = "place", !.kind = "move",
                                    !.phone = holder[b], !.booking = b, !.slot = s]
  <1>2. q \in Request
    BY <1>1, NoRequestType DEF Request, IInv, TypeOK
  <1>3. Sound(q)
    BY <1>1, NoRequestType, <1>2 DEF Request, Sound, Live
  <1>4. QED
    BY <1>1, <1>2, <1>3, BeginKeeps DEF IInv, TypeOK

LEMMA MoveByOwnerKeeps ==
  ASSUME IInv, NEW r \in Requests, MoveByOwner(r)
  PROVE  IInv'
  <1>1. PICK b \in Bookings, s \in Slots :
          /\ state[b] # "free"
          /\ Begin(r, [NoRequest EXCEPT !.step = "place", !.kind = "move", !.by = "admin",
                                        !.phone = holder[b], !.booking = b, !.slot = s])
          /\ UNCHANGED excused
    BY DEF MoveByOwner
  <1> DEFINE q == [NoRequest EXCEPT !.step = "place", !.kind = "move", !.by = "admin",
                                    !.phone = holder[b], !.booking = b, !.slot = s]
  <1>2. q \in Request
    BY <1>1, NoRequestType DEF Request, IInv, TypeOK
  <1>3. Sound(q)
    BY <1>1, NoRequestType, <1>2 DEF Request, Sound
  <1>4. QED
    BY <1>1, <1>2, <1>3, BeginKeeps DEF IInv, TypeOK

LEMMA CancelKeeps ==
  ASSUME IInv, NEW r \in Requests, Cancel(r)
  PROVE  IInv'
  <1>1. PICK b \in Bookings, by \in {"customer", "admin"} :
          /\ state[b] # "free"
          /\ Begin(r, [NoRequest EXCEPT !.step = "free", !.kind = "cancel", !.by = by,
                                        !.phone = holder[b], !.booking = b])
          /\ UNCHANGED excused
    BY DEF Cancel
  <1> DEFINE q == [NoRequest EXCEPT !.step = "free", !.kind = "cancel", !.by = by,
                                    !.phone = holder[b], !.booking = b]
  <1>2. q \in Request
    BY <1>1, NoRequestType DEF Request, IInv, TypeOK
  <1>3. Sound(q)
    BY <1>1, NoRequestType, <1>2 DEF Request, Sound
  <1>4. QED
    BY <1>1, <1>2, <1>3, BeginKeeps DEF IInv, TypeOK

-----------------------------------------------------------------------------
(* The statements before the write.                                        *)

LEMMA LookUpKeeps ==
  ASSUME IInv, NEW r \in Requests, LookUp(r)
  PROVE  IInv'
  <1>1. CASE Fail(r)
    BY <1>1, FailKeeps
  <1>2. CASE ~Fail(r)
    <2> DEFINE found == customer[request[r].phone]
               next == IF found = "absent" THEN "insert"
                       ELSE IF request[r].by = "admin" THEN "place" ELSE "count"
    <2>1. /\ request[r].step = "lookup"
          /\ request' = GoTo(r, next)
          /\ UNCHANGED <<calendarVars, customer, holder, waiting, clock, history>>
      BY <1>2 DEF LookUp
    <2>2. request[r].kind = "book" /\ request[r].phone \in Phones
      BY <2>1 DEF IInv, RequestsAreSound, Sound
    <2>3. next \in {"insert", "count", "place"} /\ (next \in {"count", "place"} => found # "absent")
      OBVIOUS
    <2>4. QED
      BY <2>1, <2>2, <2>3, GoToKeeps
  <1>3. QED
    BY <1>1, <1>2

\* The insert is the one statement before the write that changes a table: the customer
\* it adds was absent, so nobody else's record depended on its absence.
LEMMA InsertCustomerKeeps ==
  ASSUME IInv, NEW r \in Requests, InsertCustomer(r)
  PROVE  IInv'
  <1>1. CASE Fail(r)
    BY <1>1, FailKeeps
  <1>2. CASE ~Fail(r)
    <2> DEFINE p == request[r].phone
               q == [request[r] EXCEPT !.step = "place", !.created = TRUE]
    <2>1. /\ request[r].step = "insert"
          /\ customer' = [customer EXCEPT ![p] = "known"]
          /\ request' = [GoTo(r, "place") EXCEPT ![r].created = TRUE]
          /\ introduced' = IF request[r].by = "admin" THEN introduced \cup {p} ELSE introduced
          /\ UNCHANGED <<calendarVars, holder, waiting, clock, placedBy, lost, excused>>
      BY <1>2 DEF InsertCustomer
    <2>2. request[r].kind = "book" /\ p \in Phones
      BY <2>1 DEF IInv, RequestsAreSound, Sound
    <2>3. request[r] \in Request /\ request \in [Requests -> Request]
      BY DEF IInv, TypeOK
    <2>4. q \in Request
      BY <2>3 DEF Request
    <2>5. request' = [request EXCEPT ![r] = q]
      <3> DEFINE went == [request EXCEPT ![r] = [request[r] EXCEPT !.step = "place"]]
      <3>1. GoTo(r, "place") = went
        BY DEF GoTo
      <3>2. request' = [went EXCEPT ![r].created = TRUE]
        BY <2>1, <3>1
      <3>3. q = [[request[r] EXCEPT !.step = "place"] EXCEPT !.created = TRUE]
        BY <2>3 DEF Request
      <3>4. request' = [went EXCEPT ![r] = [went[r] EXCEPT !.created = TRUE]]
        BY <3>2
      <3>5. went[r] = [request[r] EXCEPT !.step = "place"]
        BY <2>3
      <3> HIDE DEF q
      <3>6. request' = [went EXCEPT ![r] = q]
        BY <3>3, <3>4, <3>5
      <3>7. QED
        BY <2>3, <3>6
    <2>6. \A x \in Phones : customer[x] # "absent" => customer'[x] # "absent"
      BY <2>1 DEF IInv, TypeOK
    <2>7. TypeOK'
      <3>1. customer' \in [Phones -> {"absent", "known", "blocked"}] /\ introduced' \subseteq Phones
        BY <2>1, <2>2 DEF IInv, TypeOK
      <3>2. request' \in [Requests -> Request]
        <4> HIDE DEF q
        <4>1. QED
          BY <2>3, <2>4, <2>5
      <3>3. \A b \in Bookings : state'[b] # "free" =>
               holder'[b] \in Phones /\ customer'[holder'[b]] # "absent"
        BY <2>1, <2>6 DEF IInv, TypeOK, calendarVars
      <3>4. CalendarTypeOK'
        BY <2>1 DEF IInv, TypeOK, CalendarTypeOK, calendarVars
      <3>5. QED
        BY <2>1, <3>1, <3>2, <3>3, <3>4 DEF IInv, TypeOK
    <2>8. RequestsAreSound'
      <3> SUFFICES ASSUME NEW x \in Requests PROVE Sound(request[x])'
        BY DEF RequestsAreSound
      <3>1. CASE x = r
        <4>1. request'[r].kind = "book" /\ request'[r].phone = p /\ request'[r].step = "place"
          BY <2>2, <2>3, <2>5 DEF Request
        <4>2. customer'[p] = "known"
          BY <2>1, <2>2 DEF IInv, TypeOK
        <4>3. QED
          BY <2>2, <3>1, <4>1, <4>2 DEF Sound
      <3>2. CASE x # r
        <4>1. request'[x] = request[x] /\ Sound(request[x]) /\ state' = state
          BY <2>1, <2>3, <2>5, <3>2 DEF IInv, RequestsAreSound, calendarVars
        <4>2. QED
          BY <2>6, <4>1 DEF Sound
      <3>3. QED
        BY <3>1, <3>2
    <2>9. OverlapsAreTheOwners'
      BY <2>1 DEF IInv, OverlapsAreTheOwners, Live, calendarVars
    <2>10. QED
      BY <2>7, <2>8, <2>9 DEF IInv
  <1>3. QED
    BY <1>1, <1>2

LEMMA CountHeldKeeps ==
  ASSUME IInv, NEW r \in Requests, CountHeld(r)
  PROVE  IInv'
  <1>1. CASE Fail(r)
    BY <1>1, FailKeeps
  <1>2. CASE ~Fail(r)
    <2>1. /\ request[r].step = "count"
          /\ request' = GoTo(r, "place")
          /\ UNCHANGED <<calendarVars, customer, holder, waiting, clock, history>>
      BY <1>2 DEF CountHeld
    <2>2. /\ request[r].kind = "book" /\ request[r].phone \in Phones
          /\ customer[request[r].phone] # "absent"
      BY <2>1 DEF IInv, RequestsAreSound, Sound
    <2>3. QED
      BY <2>1, <2>2, GoToKeeps
  <1>3. QED
    BY <1>1, <1>2

-----------------------------------------------------------------------------
(* The writes.                                                             *)

\* What the calendar promises is all the argument needs: a placement that is not the
\* owner's is clear of every other live booking.
LEMMA PlacementOverlaps ==
  ASSUME IInv, NEW r \in Requests, NEW b \in Bookings, Placement(r, b)
  PROVE  OverlapsAreTheOwners'
  <1>1. /\ Clear(b, request[r].slot) \/ request[r].by = "admin"
        /\ state' = [state EXCEPT ![b] = IF @ = "free" THEN "live" ELSE @]
        /\ slot' = [slot EXCEPT ![b] = request[r].slot]
        /\ placedBy' = [placedBy EXCEPT ![b] = request[r].by]
    BY DEF Placement, Place, MayOverlap
  <1>2. /\ state \in [Bookings -> {"free", "live", "gone"}]
        /\ slot \in [Bookings -> Slots]
        /\ placedBy \in [Bookings -> {"customer", "admin"}]
    BY DEF IInv, TypeOK, CalendarTypeOK
  <1>3. ASSUME NEW x \in Bookings, x # b, state'[x] = "live",
               Overlap(slot'[x], slot'[b])
        PROVE  placedBy'[b] = "admin"
    <2>1. state[x] = "live" /\ slot'[x] = slot[x] /\ slot'[b] = request[r].slot
      BY <1>1, <1>2, <1>3
    <2>2. ~Clear(b, request[r].slot)
      BY <1>3, <2>1 DEF Clear
    <2>3. QED
      BY <1>1, <1>2, <2>2
  <1>4. SUFFICES ASSUME NEW x \in Bookings, NEW y \in Bookings, x # y,
                        state'[x] = "live", state'[y] = "live",
                        Overlap(slot'[x], slot'[y])
                 PROVE  "admin" \in {placedBy'[x], placedBy'[y]}
    BY DEF OverlapsAreTheOwners, Live, Overlap
  <1>5. CASE y = b
    BY <1>3, <1>4, <1>5
  <1>6. CASE x = b
    <2>1. Overlap(slot'[y], slot'[b])
      BY <1>4, <1>6 DEF Overlap
    <2>2. QED
      BY <1>3, <1>4, <1>6, <2>1
  <1>7. CASE x # b /\ y # b
    <2>1. /\ Live(x) /\ Live(y) /\ Overlap(slot[x], slot[y])
          /\ placedBy'[x] = placedBy[x] /\ placedBy'[y] = placedBy[y]
      BY <1>1, <1>2, <1>4, <1>7 DEF Live
    <2>2. QED
      BY <1>4, <2>1 DEF IInv, OverlapsAreTheOwners
  <1>8. QED
    BY <1>5, <1>6, <1>7

LEMMA PlacementTypes ==
  ASSUME IInv, NEW r \in Requests, NEW b \in Bookings, Placement(r, b)
  PROVE  /\ CalendarTypeOK'
         /\ placedBy' \in [Bookings -> {"customer", "admin"}]
         /\ request' = [request EXCEPT ![r] = [NoRequest EXCEPT !.step = "ended"]]
         /\ request' \in [Requests -> Request]
         /\ state'[b] # "free"
         /\ \A x \in Bookings : x # b => state'[x] = state[x]
  <1>1. PICK t \in BOOLEAN :
        /\ Place(b, request[r].slot, t)
        /\ placedBy' = [placedBy EXCEPT ![b] = request[r].by]
        /\ request' = [request EXCEPT ![r] = [NoRequest EXCEPT !.step = "ended"]]
    BY DEF Placement, Finish
  <1>2. /\ CalendarTypeOK /\ request[r] \in Request /\ request \in [Requests -> Request]
        /\ placedBy \in [Bookings -> {"customer", "admin"}]
    BY DEF IInv, TypeOK
  <1>3. request[r].slot \in Slots /\ request[r].by \in {"customer", "admin"}
    BY <1>2 DEF Request
  <1>4. CalendarTypeOK' /\ state'[b] # "free" /\ \A x \in Bookings : x # b => state'[x] = state[x]
    <2>1. /\ state' = [state EXCEPT ![b] = IF @ = "free" THEN "live" ELSE @]
          /\ slot' = [slot EXCEPT ![b] = request[r].slot]
          /\ told' = [told EXCEPT ![b] = t]
      BY <1>1 DEF Place
    <2>2. told' \in [Bookings -> BOOLEAN]
      BY <1>2, <2>1 DEF CalendarTypeOK
    <2>3. slot' \in [Bookings -> Slots]
      BY <1>2, <1>3, <2>1 DEF CalendarTypeOK
    <2>4. QED
      BY <1>2, <2>1, <2>2, <2>3 DEF CalendarTypeOK
  <1>5. QED
    BY <1>1, <1>2, <1>3, <1>4, EndedType

\* The requests that a write leaves behind are as sound as before: it gives no slot of
\* the table back to "free" and removes no customer.
LEMMA OthersStaySound ==
  ASSUME IInv, NEW r \in Requests,
         request' = [request EXCEPT ![r] = [NoRequest EXCEPT !.step = "ended"]],
         UNCHANGED customer,
         \A x \in Bookings : state[x] # "free" => state'[x] # "free"
  PROVE  RequestsAreSound'
  <1> SUFFICES ASSUME NEW x \in Requests PROVE Sound(request[x])'
    BY DEF RequestsAreSound
  <1>1. CASE x = r
    <2>1. request'[r] = [NoRequest EXCEPT !.step = "ended"]
      BY DEF IInv, TypeOK
    <2>2. request'[r].step = "ended" /\ ~request'[r].created
      BY <2>1, NoRequestType DEF Request
    <2>3. QED
      BY <1>1, <2>2 DEF Sound
  <1>2. CASE x # r
    <2>1. request'[x] = request[x] /\ Sound(request[x])
      BY <1>2 DEF IInv, TypeOK, RequestsAreSound
    <2>2. QED
      BY <2>1 DEF Sound
  <1>3. QED
    BY <1>1, <1>2

LEMMA CreateBookingKeeps ==
  ASSUME IInv, NEW r \in Requests, CreateBooking(r)
  PROVE  IInv'
  <1>1. PICK b \in Bookings :
          /\ Placement(r, b)
          /\ holder' = [holder EXCEPT ![b] = request[r].phone]
          /\ waiting' = [waiting EXCEPT ![b] =
                            ConfirmNew /\ request[r].created /\ request[r].by = "customer"]
    BY DEF CreateBooking
  <1>2. /\ request[r].phone \in Phones /\ customer[request[r].phone] # "absent"
        /\ UNCHANGED <<customer, clock, introduced, lost, excused>>
    BY DEF CreateBooking, IInv, RequestsAreSound, Sound
  <1>3. TypeOK'
    <2>1. waiting' \in [Bookings -> BOOLEAN]
      BY <1>1 DEF IInv, TypeOK
    <2>2. holder' \in [Bookings -> Phones \cup {NoPhone}]
      BY <1>1, <1>2 DEF IInv, TypeOK
    <2>3. \A x \in Bookings : state'[x] # "free" =>
             holder'[x] \in Phones /\ customer'[holder'[x]] # "absent"
      BY <1>1, <1>2, PlacementTypes DEF IInv, TypeOK
    <2>4. QED
      BY <1>1, <1>2, <2>1, <2>2, <2>3, PlacementTypes DEF IInv, TypeOK
  <1>4. RequestsAreSound'
    BY <1>1, <1>2, PlacementTypes, OthersStaySound
  <1>5. QED
    BY <1>1, <1>3, <1>4, PlacementOverlaps DEF IInv

LEMMA MoveBookingKeeps ==
  ASSUME IInv, NEW r \in Requests, MoveBooking(r)
  PROVE  IInv'
  <1> DEFINE b == request[r].booking
  <1>1. b \in Bookings /\ state[b] # "free"
    BY DEF MoveBooking, IInv, RequestsAreSound, Sound
  <1>2. /\ Placement(r, b)
        /\ excused' = IF StartOf(slot[b]) <= clock THEN excused \cup {holder[b]} ELSE excused
        /\ UNCHANGED <<customer, holder, waiting, clock, introduced, lost>>
    BY DEF MoveBooking
  <1>3. TypeOK'
    <2>1. excused' \subseteq Phones
      BY <1>1, <1>2 DEF IInv, TypeOK
    <2>2. \A x \in Bookings : state'[x] # "free" =>
             holder'[x] \in Phones /\ customer'[holder'[x]] # "absent"
      BY <1>1, <1>2, PlacementTypes DEF IInv, TypeOK
    <2>3. QED
      BY <1>1, <1>2, <2>1, <2>2, PlacementTypes DEF IInv, TypeOK
  <1>4. RequestsAreSound'
    BY <1>1, <1>2, PlacementTypes, OthersStaySound
  <1>5. QED
    BY <1>1, <1>2, <1>3, <1>4, PlacementOverlaps DEF IInv

LEMMA ConflictKeeps ==
  ASSUME IInv, NEW r \in Requests, Conflict(r)
  PROVE  IInv'
  BY FailKeeps DEF Conflict

LEMMA RequestFailsKeeps ==
  ASSUME IInv, NEW r \in Requests, RequestFails(r)
  PROVE  IInv'
  BY FailKeeps DEF RequestFails

\* A slot given back: nothing overlaps any more that did not before.
LEMMA FreeKeeps ==
  ASSUME IInv, NEW b \in Bookings, Free(b),
         placedBy' = [placedBy EXCEPT ![b] = "customer"]
  PROVE  /\ CalendarTypeOK'
         /\ placedBy' \in [Bookings -> {"customer", "admin"}]
         /\ \A x \in Bookings : state[x] # "free" <=> state'[x] # "free"
         /\ OverlapsAreTheOwners'
  <1>1. CalendarTypeOK' /\ placedBy' \in [Bookings -> {"customer", "admin"}]
    BY DEF IInv, TypeOK, CalendarTypeOK, Free
  <1>2. \A x \in Bookings : state[x] # "free" <=> state'[x] # "free"
    BY DEF IInv, TypeOK, CalendarTypeOK, Free
  <1>3. \A x \in Bookings : state'[x] = "live" => state[x] = "live" /\ placedBy'[x] = placedBy[x]
    BY DEF IInv, TypeOK, CalendarTypeOK, Free
  <1>4. OverlapsAreTheOwners'
    BY <1>3 DEF IInv, OverlapsAreTheOwners, Live, Free
  <1>5. QED
    BY <1>1, <1>2, <1>4

LEMMA CancelBookingKeeps ==
  ASSUME IInv, NEW r \in Requests, CancelBooking(r)
  PROVE  IInv'
  <1> DEFINE b == request[r].booking
  <1>1. b \in Bookings
    BY DEF CancelBooking, IInv, RequestsAreSound, Sound
  <1>2. /\ Free(b)
        /\ placedBy' = [placedBy EXCEPT ![b] = "customer"]
        /\ request' = [request EXCEPT ![r] = [NoRequest EXCEPT !.step = "ended"]]
        /\ UNCHANGED <<customer, holder, waiting, clock, introduced, lost, excused>>
    BY DEF CancelBooking, Finish
  <1>3. request' \in [Requests -> Request]
    BY <1>2, EndedType DEF IInv, TypeOK
  <1>4. TypeOK'
    BY <1>1, <1>2, <1>3, FreeKeeps DEF IInv, TypeOK
  <1>5. RequestsAreSound'
    BY <1>1, <1>2, FreeKeeps, OthersStaySound
  <1>6. QED
    BY <1>1, <1>2, <1>4, <1>5, FreeKeeps DEF IInv

-----------------------------------------------------------------------------
(* The owner's statements, and time.                                       *)

\* A step that changes no request keeps them sound if it frees nothing.
LEMMA UntouchedStaySound ==
  ASSUME IInv, UNCHANGED <<request, customer>>,
         \A x \in Bookings : state[x] # "free" => state'[x] # "free"
  PROVE  RequestsAreSound'
  BY DEF IInv, RequestsAreSound, Sound

LEMMA ConfirmKeeps ==
  ASSUME IInv, NEW b \in Bookings, Confirm(b)
  PROVE  IInv'
  <1>1. TypeOK'
    BY DEF Confirm, history, IInv, TypeOK, CalendarTypeOK, calendarVars
  <1>2. RequestsAreSound'
    BY UntouchedStaySound DEF Confirm, calendarVars
  <1>3. OverlapsAreTheOwners'
    BY DEF Confirm, history, IInv, OverlapsAreTheOwners, Live, calendarVars
  <1>4. QED
    BY <1>1, <1>2, <1>3 DEF IInv

LEMMA MarkNoShowKeeps ==
  ASSUME IInv, NEW b \in Bookings, MarkNoShow(b)
  PROVE  IInv'
  <1>1. TypeOK'
    BY FreeKeeps DEF MarkNoShow, IInv, TypeOK
  <1>2. RequestsAreSound'
    BY FreeKeeps, UntouchedStaySound DEF MarkNoShow
  <1>3. QED
    BY <1>1, <1>2, FreeKeeps DEF MarkNoShow, IInv

LEMMA SetBlockedKeeps ==
  ASSUME IInv, NEW p \in Phones, NEW blocked \in BOOLEAN, SetBlocked(p, blocked)
  PROVE  IInv'
  <1>1. /\ customer' \in [Phones -> {"absent", "known", "blocked"}]
        /\ \A x \in Phones : customer[x] # "absent" => customer'[x] # "absent"
    BY DEF SetBlocked, IInv, TypeOK
  <1>2. ASSUME NEW r \in Requests
        PROVE  /\ request'[r] \in Request
               /\ request'[r].step = request[r].step
               /\ request'[r].kind = request[r].kind
               /\ request'[r].created = request[r].created
               /\ request'[r].phone = request[r].phone
               /\ request'[r].booking = request[r].booking
    <2>1. request[r] \in Request
      BY DEF IInv, TypeOK
    <2>2. \/ request'[r] = [request[r] EXCEPT !.barred = FALSE]
          \/ request'[r] = request[r]
      BY DEF SetBlocked
    <2>3. QED
      BY <2>1, <2>2 DEF Request
  <1>3. request' \in [Requests -> Request]
    BY <1>2 DEF SetBlocked
  <1>4. TypeOK'
    BY <1>1, <1>3 DEF SetBlocked, history, IInv, TypeOK, CalendarTypeOK, calendarVars
  <1>5. RequestsAreSound'
    BY <1>1, <1>2 DEF SetBlocked, IInv, RequestsAreSound, Sound, calendarVars
  <1>6. OverlapsAreTheOwners'
    BY DEF SetBlocked, history, IInv, OverlapsAreTheOwners, Live, calendarVars
  <1>7. QED
    BY <1>4, <1>5, <1>6 DEF IInv

LEMMA IdleKeeps ==
  ASSUME IInv, UNCHANGED <<calendarVars, customer, holder, waiting, request, history>>,
         clock' \in Nat
  PROVE  IInv'
  <1>1. TypeOK'
    BY DEF history, IInv, TypeOK, CalendarTypeOK, calendarVars
  <1>2. RequestsAreSound'
    BY UntouchedStaySound DEF calendarVars
  <1>3. OverlapsAreTheOwners'
    BY DEF history, IInv, OverlapsAreTheOwners, Live, calendarVars
  <1>4. QED
    BY <1>1, <1>2, <1>3 DEF IInv

-----------------------------------------------------------------------------
(* The invariant.                                                          *)

LEMMA InitEstablishes == Init => IInv
  <1> SUFFICES ASSUME Init PROVE IInv
    OBVIOUS
  <1>1. TypeOK
    BY NoRequestType DEF Init, CalendarInit, TypeOK, CalendarTypeOK
  <1>2. RequestsAreSound
    <2>1. NoRequest.step = "new"
      BY DEF NoRequest
    <2>2. QED
      BY <2>1, NoRequestType DEF Init, RequestsAreSound, Sound
  <1>3. OverlapsAreTheOwners
    BY DEF Init, CalendarInit, OverlapsAreTheOwners, Live
  <1>4. QED
    BY <1>1, <1>2, <1>3 DEF IInv

LEMMA NextKeeps == IInv /\ [Next]_vars => IInv'
  <1> SUFFICES ASSUME IInv, [Next]_vars PROVE IInv'
    OBVIOUS
  <1>1. ASSUME NEW r \in Requests,
               \/ BookOnline(r) \/ BookByOwner(r) \/ MoveOnline(r) \/ MoveByOwner(r) \/ Cancel(r)
               \/ LookUp(r) \/ InsertCustomer(r) \/ CountHeld(r)
               \/ CreateBooking(r) \/ MoveBooking(r) \/ CancelBooking(r)
               \/ Conflict(r) \/ RequestFails(r)
        PROVE  IInv'
    BY <1>1, BookOnlineKeeps, BookByOwnerKeeps, MoveOnlineKeeps, MoveByOwnerKeeps, CancelKeeps,
       LookUpKeeps, InsertCustomerKeeps, CountHeldKeeps, CreateBookingKeeps, MoveBookingKeeps,
       CancelBookingKeeps, ConflictKeeps, RequestFailsKeeps
  <1>2. ASSUME NEW b \in Bookings, Confirm(b) \/ MarkNoShow(b)
        PROVE  IInv'
    BY <1>2, ConfirmKeeps, MarkNoShowKeeps
  <1>3. ASSUME NEW p \in Phones, NEW blocked \in BOOLEAN, SetBlocked(p, blocked)
        PROVE  IInv'
    BY <1>3, SetBlockedKeeps
  <1>4. CASE Tick
    <2>1. clock' \in Nat
      BY <1>4 DEF Tick, IInv, TypeOK
    <2>2. QED
      BY <1>4, <2>1, IdleKeeps DEF Tick
  <1>5. CASE UNCHANGED vars
    <2>1. clock' \in Nat
      BY <1>5 DEF vars, IInv, TypeOK
    <2>2. QED
      BY <1>5, <2>1, IdleKeeps DEF vars
  <1>6. QED
    BY <1>1, <1>2, <1>3, <1>4, <1>5 DEF Next

\* Every state reached satisfies the invariant that carries the proofs.
THEOREM PublicInvariant == Spec => []IInv
  BY InitEstablishes, NextKeeps, PTL DEF Spec

\* Every column of the tables and every request record of app/b/actions.ts and
\* app/manage/actions.ts keeps its type, and no booking refers to a missing customer.
THEOREM PublicTypeCorrect == Spec => []TypeOK
  <1>1. IInv => TypeOK
    BY DEF IInv
  <1>2. QED
    BY <1>1, PublicInvariant, PTL

\* However many customers race through bookPublicly and the manage links for the same
\* time, two live bookings overlap only where the owner overrode a conflict.
THEOREM OverlapsAreTheOwnersHolds == Spec => []OverlapsAreTheOwners
  <1>1. IInv => OverlapsAreTheOwners
    BY DEF IInv
  <1>2. QED
    BY <1>1, PublicInvariant, PTL

-----------------------------------------------------------------------------
(* A blocked customer gets no further than the lookup.                     *)

Stopped(q) ==
    q.barred => q.step = "lookup" /\ q.by = "customer" /\ customer[q.phone] = "blocked"

BarredStop == \A r \in Requests : Stopped(request[r])

LEMMA FreshIsStopped ==
  /\ Stopped(NoRequest)
  /\ Stopped([NoRequest EXCEPT !.step = "ended"])
  BY DEF NoRequest, Stopped

\* A step that rewrites one request's record and blocks or unblocks nobody.
LEMMA OneStopped ==
  ASSUME IInv, BarredStop, NEW r \in Requests, NEW q, Stopped(q),
         request' = [request EXCEPT ![r] = q], UNCHANGED customer
  PROVE  BarredStop'
  BY DEF IInv, TypeOK, BarredStop, Stopped

LEMMA FailStops ==
  ASSUME IInv, BarredStop, NEW r \in Requests, Fail(r)
  PROVE  BarredStop'
  BY OneStopped, FreshIsStopped DEF Fail, Finish

LEMMA BeginStops ==
  ASSUME IInv, BarredStop, NEW r \in Requests,
         BookOnline(r) \/ BookByOwner(r) \/ MoveOnline(r) \/ MoveByOwner(r) \/ Cancel(r)
  PROVE  BarredStop'
  <1>1. CASE BookOnline(r)
    <2>1. PICK p \in Phones, s \in Slots :
            Begin(r, [NoRequest EXCEPT !.step = "lookup", !.phone = p, !.slot = s,
                                       !.at = clock, !.barred = customer[p] = "blocked"])
      BY <1>1 DEF BookOnline
    <2>2. Stopped([NoRequest EXCEPT !.step = "lookup", !.phone = p, !.slot = s,
                                    !.at = clock, !.barred = customer[p] = "blocked"])
      BY DEF NoRequest, Stopped
    <2>3. QED
      BY <2>1, <2>2, OneStopped DEF Begin
  <1>2. CASE BookByOwner(r)
    <2>1. PICK p \in Phones, s \in Slots :
            Begin(r, [NoRequest EXCEPT !.step = "lookup", !.by = "admin", !.phone = p,
                                       !.slot = s])
      BY <1>2 DEF BookByOwner
    <2>2. Stopped([NoRequest EXCEPT !.step = "lookup", !.by = "admin", !.phone = p, !.slot = s])
      BY DEF NoRequest, Stopped
    <2>3. QED
      BY <2>1, <2>2, OneStopped DEF Begin
  <1>3. CASE MoveOnline(r)
    <2>1. PICK b \in Bookings, s \in Slots :
            Begin(r, [NoRequest EXCEPT !.step = "place", !.kind = "move", !.phone = holder[b],
                                       !.booking = b, !.slot = s])
      BY <1>3 DEF MoveOnline
    <2>2. Stopped([NoRequest EXCEPT !.step = "place", !.kind = "move", !.phone = holder[b],
                                    !.booking = b, !.slot = s])
      BY DEF NoRequest, Stopped
    <2>3. QED
      BY <2>1, <2>2, OneStopped DEF Begin
  <1>4. CASE MoveByOwner(r)
    <2>1. PICK b \in Bookings, s \in Slots :
            Begin(r, [NoRequest EXCEPT !.step = "place", !.kind = "move", !.by = "admin",
                                       !.phone = holder[b], !.booking = b, !.slot = s])
      BY <1>4 DEF MoveByOwner
    <2>2. Stopped([NoRequest EXCEPT !.step = "place", !.kind = "move", !.by = "admin",
                                    !.phone = holder[b], !.booking = b, !.slot = s])
      BY DEF NoRequest, Stopped
    <2>3. QED
      BY <2>1, <2>2, OneStopped DEF Begin
  <1>5. CASE Cancel(r)
    <2>1. PICK b \in Bookings, by \in {"customer", "admin"} :
            Begin(r, [NoRequest EXCEPT !.step = "free", !.kind = "cancel", !.by = by,
                                       !.phone = holder[b], !.booking = b])
      BY <1>5 DEF Cancel
    <2>2. Stopped([NoRequest EXCEPT !.step = "free", !.kind = "cancel", !.by = by,
                                    !.phone = holder[b], !.booking = b])
      BY DEF NoRequest, Stopped
    <2>3. QED
      BY <2>1, <2>2, OneStopped DEF Begin
  <1>6. QED
    BY <1>1, <1>2, <1>3, <1>4, <1>5

LEMMA LookUpStops ==
  ASSUME IInv, BarredStop, NEW r \in Requests, LookUp(r)
  PROVE  BarredStop'
  <1>1. CASE Fail(r)
    BY <1>1, FailStops
  <1>2. CASE /\ ~(customer[request[r].phone] = "blocked" /\ request[r].by = "customer")
             /\ \E step \in {"insert", "place", "count"} : request' = GoTo(r, step)
             /\ UNCHANGED customer
    <2>1. ~request[r].barred
      BY <1>2 DEF BarredStop, Stopped
    <2>2. PICK step \in {"insert", "place", "count"} : request' = GoTo(r, step)
      BY <1>2
    <2>3. Stopped([request[r] EXCEPT !.step = step])
      BY <2>1 DEF Stopped, IInv, TypeOK, Request
    <2>4. QED
      BY <1>2, <2>2, <2>3, OneStopped DEF GoTo
  <1>3. QED
    BY <1>1, <1>2 DEF LookUp

\* Past the lookup a request is bound by no bar.
LEMMA LaterStops ==
  ASSUME IInv, BarredStop, NEW r \in Requests, InsertCustomer(r) \/ CountHeld(r)
  PROVE  BarredStop'
  <1>1. CASE Fail(r)
    BY <1>1, FailStops
  <1>2. ~request[r].barred
    BY DEF BarredStop, Stopped, InsertCustomer, CountHeld
  <1>3. CASE request' = GoTo(r, "place") /\ UNCHANGED customer
    <2>1. Stopped([request[r] EXCEPT !.step = "place"])
      BY <1>2 DEF Stopped, IInv, TypeOK, Request
    <2>2. QED
      BY <1>3, <2>1, OneStopped DEF GoTo
  <1>4. CASE /\ request[r].step = "insert" /\ customer[request[r].phone] = "absent"
             /\ customer' = [customer EXCEPT ![request[r].phone] = "known"]
             /\ request' = [GoTo(r, "place") EXCEPT ![r].created = TRUE]
    <2>1. ASSUME NEW q \in Requests PROVE Stopped(request[q])'
      <3>1. CASE q = r
        BY <1>2, <1>4, <3>1 DEF Stopped, GoTo, IInv, TypeOK, Request
      <3>2. CASE q # r
        <4>1. request'[q] = request[q]
          BY <1>4, <3>2 DEF GoTo, IInv, TypeOK
        <4>2. request[q].barred => customer'[request[q].phone] = customer[request[q].phone]
          BY <1>4 DEF BarredStop, Stopped, IInv, TypeOK
        <4>3. QED
          BY <4>1, <4>2 DEF BarredStop, Stopped
      <3>3. QED
        BY <3>1, <3>2
    <2>2. QED
      BY <2>1 DEF BarredStop
  <1>5. QED
    BY <1>1, <1>3, <1>4 DEF InsertCustomer, CountHeld

LEMMA WriteStops ==
  ASSUME IInv, BarredStop, NEW r \in Requests,
         CreateBooking(r) \/ MoveBooking(r) \/ CancelBooking(r) \/ Conflict(r) \/ RequestFails(r)
  PROVE  BarredStop'
  <1>1. CASE Fail(r)
    BY <1>1, FailStops
  <1>2. CASE request' = Finish(r) /\ UNCHANGED customer
    BY <1>2, OneStopped, FreshIsStopped DEF Finish
  <1>3. QED
    BY <1>1, <1>2
    DEF CreateBooking, MoveBooking, CancelBooking, Conflict, RequestFails, Placement

LEMMA SetBlockedStops ==
  ASSUME IInv, BarredStop, NEW p \in Phones, NEW blocked \in BOOLEAN, SetBlocked(p, blocked)
  PROVE  BarredStop'
  <1> SUFFICES ASSUME NEW r \in Requests, request'[r].barred
               PROVE  Stopped(request[r])'
    BY DEF BarredStop, Stopped
  <1>1. CASE request[r].phone = p
    <2>1. blocked
      BY <1>1 DEF SetBlocked, IInv, TypeOK, Request
    <2>2. QED
      BY <1>1, <2>1 DEF SetBlocked, BarredStop, Stopped, IInv, TypeOK
  <1>2. CASE request[r].phone # p
    BY <1>2 DEF SetBlocked, BarredStop, Stopped, IInv, TypeOK
  <1>3. QED
    BY <1>1, <1>2

LEMMA StopStep == IInv /\ BarredStop /\ [Next]_vars => BarredStop'
  <1> SUFFICES ASSUME IInv, BarredStop, [Next]_vars PROVE BarredStop'
    OBVIOUS
  <1>1. CASE \E r \in Requests :
               \/ BookOnline(r) \/ BookByOwner(r) \/ MoveOnline(r) \/ MoveByOwner(r) \/ Cancel(r)
               \/ LookUp(r) \/ InsertCustomer(r) \/ CountHeld(r)
               \/ CreateBooking(r) \/ MoveBooking(r) \/ CancelBooking(r)
               \/ Conflict(r) \/ RequestFails(r)
    BY <1>1, BeginStops, LookUpStops, LaterStops, WriteStops
  <1>2. CASE \E p \in Phones, blocked \in BOOLEAN : SetBlocked(p, blocked)
    BY <1>2, SetBlockedStops
  <1>3. CASE UNCHANGED <<request, customer>>
    BY <1>3 DEF BarredStop, Stopped
  <1>4. QED
    BY <1>1, <1>2, <1>3 DEF Next, Confirm, MarkNoShow, Tick, vars

\* A customer who is blocked throughout a request of bookPublicly books nothing by it:
\* no interleaving takes a barred request past its lookup.
THEOREM BlockedBooksNothingHolds == Spec => BlockedBooksNothing
  <1>1. Init => BarredStop
    BY FreshIsStopped DEF Init, BarredStop, Stopped
  <1>2. BarredStop /\ [Next]_vars
          => [\A r \in Requests, b \in Bookings : BooksOnline(r, b) => ~request[r].barred]_vars
    BY DEF BarredStop, Stopped, BooksOnline
  <1>3. QED
    BY <1>1, <1>2, StopStep, PublicInvariant, PTL DEF Spec, BlockedBooksNothing

-----------------------------------------------------------------------------
(* How many bookings one customer holds.                                   *)

Ahead(p) == Held(p, clock)

\* r is a request of p's that may still add a booking.
Adding(r, p) == InFlight(r) /\ request[r].kind = "book" /\ request[r].phone = p

\* A number the cap was applied to throughout has one such request at a time; it is the
\* customer's own, and once it has been counted there is room for what it adds.
Counted(p) ==
    /\ Cardinality(Ahead(p)) <= Cap
    /\ \A r \in Requests : Adding(r, p) =>
          /\ request[r].by = "customer" /\ request[r].at <= clock
          /\ request[r].step = "place" => Cardinality(Ahead(p)) < Cap
    /\ \A r, q \in Requests : Adding(r, p) /\ Adding(q, p) => r = q

CapKept == \A p \in Phones \ excused : Counted(p)

LEMMA StartsAreInts ==
  ASSUME IInv
  PROVE  \A b \in Bookings : StartOf(slot[b]) \in Int
  <1>1. ASSUME NEW s \in Slots PROVE StartOf(s) \in Int
    BY SlotsAreIntervals DEF StartOf
  <1>2. \A b \in Bookings : slot[b] \in Slots
    BY DEF IInv, TypeOK, CalendarTypeOK
  <1>3. QED
    BY <1>1, <1>2

LEMMA HeldFinite ==
  ASSUME NEW p, NEW now
  PROVE  IsFiniteSet(Held(p, now)) /\ Cardinality(Held(p, now)) \in Nat
  <1>1. Held(p, now) \in SUBSET Bookings
    BY DEF Held
  <1>2. QED
    BY <1>1, PublicAssumption, FS_Subset, FS_CardinalityType

\* A step after which p holds nothing it did not hold before, and no request of p's has
\* come nearer to adding but one for which there is room.
LEMMA NoMoreHeld ==
  ASSUME NEW p, Counted(p), clock \in Nat, clock' \in Nat, clock <= clock',
         Ahead(p)' \subseteq Ahead(p),
         \A r \in Requests : Adding(r, p)' =>
            /\ Adding(r, p)
            /\ request'[r].by = request[r].by
            /\ request[r].at \in Nat /\ request'[r].at = request[r].at
            /\ request'[r].step = "place" =>
                  request[r].step = "place" \/ Cardinality(Ahead(p)) < Cap
  PROVE  Counted(p)'
  <1>1. PICK H : H = Ahead(p)
    OBVIOUS
  <1>2. PICK K : K = Ahead(p)'
    OBVIOUS
  <1>3. IsFiniteSet(H) /\ Cardinality(H) \in Nat
    BY <1>1, HeldFinite DEF Ahead
  <1>4. K \in SUBSET H
    BY <1>1, <1>2
  <1>5. Cardinality(K) <= Cardinality(H) /\ Cardinality(K) \in Nat
    BY <1>3, <1>4, FS_Subset, FS_CardinalityType
  <1>6. Cap \in Nat /\ Cap' = Cap
    BY PublicAssumption
  <1>7. Cardinality(H) <= Cap
    BY <1>1 DEF Counted
  <1>8. ASSUME NEW r \in Requests, Adding(r, p)'
        PROVE  /\ request'[r].by = "customer" /\ request'[r].at <= clock'
               /\ request'[r].step = "place" => Cardinality(K) < Cap
    <2>1. /\ request[r].by = "customer" /\ request[r].at <= clock
          /\ request[r].step = "place" => Cardinality(H) < Cap
      BY <1>1, <1>8 DEF Counted
    <2>2. QED
      BY <1>1, <1>3, <1>5, <1>6, <1>8, <2>1
  <1>9. Cardinality(K) <= Cap
    BY <1>3, <1>5, <1>6, <1>7
  <1>10. QED
    BY <1>2, <1>8, <1>9 DEF Counted

\* What a step that touches neither calendar nor clock leaves to show: it rewrites the
\* record of one request.
LEMMA OneRecord ==
  ASSUME IInv, NEW p \in Phones, Counted(p), NEW r \in Requests, NEW q,
         request' = [request EXCEPT ![r] = q],
         clock' = clock, Ahead(p)' \subseteq Ahead(p),
         (q.step \notin {"new", "ended"} /\ q.kind = "book" /\ q.phone = p) =>
            /\ Adding(r, p) /\ q.by = request[r].by /\ q.at = request[r].at
            /\ q.step = "place" => request[r].step = "place" \/ Cardinality(Ahead(p)) < Cap
  PROVE  Counted(p)'
  <1>1. clock \in Nat /\ \A x \in Requests : request[x].at \in Nat
    BY DEF IInv, TypeOK, Request
  <1>2. ASSUME NEW x \in Requests, Adding(x, p)'
        PROVE  /\ Adding(x, p)
               /\ request'[x].by = request[x].by
               /\ request[x].at \in Nat /\ request'[x].at = request[x].at
               /\ request'[x].step = "place" =>
                     request[x].step = "place" \/ Cardinality(Ahead(p)) < Cap
    <2>1. CASE x = r
      <3>1. request'[r] = q
        BY DEF IInv, TypeOK
      <3>2. QED
        BY <1>1, <1>2, <2>1, <3>1 DEF Adding, InFlight
    <2>2. CASE x # r
      <3>1. request'[x] = request[x]
        BY <2>2 DEF IInv, TypeOK
      <3>2. QED
        BY <1>1, <1>2, <3>1 DEF Adding, InFlight
    <2>3. QED
      BY <2>1, <2>2
  <1>3. clock' \in Nat /\ clock <= clock'
    BY <1>1
  <1>4. QED
    BY <1>1, <1>2, <1>3, NoMoreHeld

\* The calendar and the clock stand still, and so does what everyone holds.
LEMMA SameHeld ==
  ASSUME NEW p, UNCHANGED <<calendarVars, holder, clock>>
  PROVE  Ahead(p)' = Ahead(p)
  BY DEF Ahead, Held, Live, calendarVars

LEMMA FailCounts ==
  ASSUME IInv, NEW p \in Phones, Counted(p), NEW r \in Requests, Fail(r)
  PROVE  Counted(p)'
  <1>1. [NoRequest EXCEPT !.step = "ended"].step = "ended"
    BY DEF NoRequest
  <1>2. QED
    BY <1>1, SameHeld, OneRecord DEF Fail, Finish

LEMMA BookOnlineCounts ==
  ASSUME IInv, NEW r \in Requests, BookOnline(r), NEW p \in Phones, p \notin excused', Counted(p)
  PROVE  Counted(p)'
  <1>1. PICK o \in Phones, s \in Slots :
          /\ Begin(r, [NoRequest EXCEPT !.step = "lookup", !.phone = o, !.slot = s,
                                        !.at = clock, !.barred = customer[o] = "blocked"])
          /\ excused' = IF \E q \in Requests : InFlight(q) /\ request[q].phone = o
                        THEN excused \cup {o} ELSE excused
    BY DEF BookOnline
  <1>2. PICK q \in Request :
          q = [NoRequest EXCEPT !.step = "lookup", !.phone = o, !.slot = s,
                                !.at = clock, !.barred = customer[o] = "blocked"]
    BY NoRequestType DEF Request, IInv, TypeOK
  <1>3. /\ q.step = "lookup" /\ q.kind = "book" /\ q.by = "customer" /\ q.phone = o /\ q.at = clock
        /\ request' = [request EXCEPT ![r] = q]
        /\ UNCHANGED <<calendarVars, holder, clock>>
    BY <1>1, <1>2 DEF Begin, NoRequest
  <1>4. CASE o # p
    BY <1>3, <1>4, SameHeld, OneRecord
  <1>5. CASE o = p
    <2>1. \A x \in Requests : ~(InFlight(x) /\ request[x].phone = p)
      BY <1>1, <1>5
    <2>2. ASSUME NEW x \in Requests, Adding(x, p)' PROVE x = r
      BY <1>3, <2>1, <2>2 DEF Adding, InFlight, IInv, TypeOK
    <2>3. request'[r] = q /\ clock \in Nat
      BY <1>3 DEF IInv, TypeOK
    <2>4. Cardinality(Ahead(p))' = Cardinality(Ahead(p))
      BY <1>3, SameHeld
    <2>5. QED
      BY <1>3, <2>2, <2>3, <2>4 DEF Counted
  <1>6. QED
    BY <1>4, <1>5

LEMMA OtherBeginCounts ==
  ASSUME IInv, NEW r \in Requests,
         BookByOwner(r) \/ MoveOnline(r) \/ MoveByOwner(r) \/ Cancel(r),
         NEW p \in Phones, p \notin excused', Counted(p)
  PROVE  Counted(p)'
  <1>1. ASSUME NEW q, Begin(r, q), q.kind # "book" \/ q.phone # p
        PROVE  Counted(p)'
    BY <1>1, SameHeld, OneRecord DEF Begin
  <1>2. CASE BookByOwner(r)
    <2>1. PICK o \in Phones, s \in Slots :
            /\ Begin(r, [NoRequest EXCEPT !.step = "lookup", !.by = "admin", !.phone = o,
                                          !.slot = s])
            /\ excused' = excused \cup {o}
      BY <1>2 DEF BookByOwner
    <2>2. [NoRequest EXCEPT !.step = "lookup", !.by = "admin", !.phone = o, !.slot = s].phone = o
      BY DEF NoRequest
    <2>3. QED
      BY <1>1, <2>1, <2>2
  <1>3. CASE MoveOnline(r)
    <2>1. PICK b \in Bookings, s \in Slots :
            Begin(r, [NoRequest EXCEPT !.step = "place", !.kind = "move", !.phone = holder[b],
                                       !.booking = b, !.slot = s])
      BY <1>3 DEF MoveOnline
    <2>2. [NoRequest EXCEPT !.step = "place", !.kind = "move", !.phone = holder[b],
                            !.booking = b, !.slot = s].kind = "move"
      BY DEF NoRequest
    <2>3. QED
      BY <1>1, <2>1, <2>2
  <1>4. CASE MoveByOwner(r)
    <2>1. PICK b \in Bookings, s \in Slots :
            Begin(r, [NoRequest EXCEPT !.step = "place", !.kind = "move", !.by = "admin",
                                       !.phone = holder[b], !.booking = b, !.slot = s])
      BY <1>4 DEF MoveByOwner
    <2>2. [NoRequest EXCEPT !.step = "place", !.kind = "move", !.by = "admin",
                            !.phone = holder[b], !.booking = b, !.slot = s].kind = "move"
      BY DEF NoRequest
    <2>3. QED
      BY <1>1, <2>1, <2>2
  <1>5. CASE Cancel(r)
    <2>1. PICK b \in Bookings, by \in {"customer", "admin"} :
            Begin(r, [NoRequest EXCEPT !.step = "free", !.kind = "cancel", !.by = by,
                                       !.phone = holder[b], !.booking = b])
      BY <1>5 DEF Cancel
    <2>2. [NoRequest EXCEPT !.step = "free", !.kind = "cancel", !.by = by,
                            !.phone = holder[b], !.booking = b].kind = "cancel"
      BY DEF NoRequest
    <2>3. QED
      BY <1>1, <2>1, <2>2
  <1>6. QED
    BY <1>2, <1>3, <1>4, <1>5

\* Going on to the count or the insert adds nothing yet; only the owner skips them.
LEMMA LookUpCounts ==
  ASSUME IInv, NEW r \in Requests, LookUp(r), NEW p \in Phones, Counted(p)
  PROVE  Counted(p)'
  <1>1. CASE Fail(r)
    BY <1>1, FailCounts
  <1>2. CASE ~Fail(r)
    <2>1. PICK step \in {"insert", "place", "count"} :
            /\ request' = GoTo(r, step)
            /\ step = "place" => request[r].by = "admin"
      BY <1>2 DEF LookUp
    <2>2. UNCHANGED <<calendarVars, holder, clock>> /\ request[r].step = "lookup"
      BY <1>2 DEF LookUp
    <2>3. PICK q : q = [request[r] EXCEPT !.step = step]
      OBVIOUS
    <2>4. /\ q.step = step /\ q.kind = request[r].kind /\ q.phone = request[r].phone
          /\ q.by = request[r].by /\ q.at = request[r].at
      BY <2>3 DEF IInv, TypeOK, Request
    <2>5. request' = [request EXCEPT ![r] = q]
      BY <2>1, <2>3 DEF GoTo
    <2>6. (q.kind = "book" /\ q.phone = p) => Adding(r, p) /\ step # "place"
      <3>1. (q.kind = "book" /\ q.phone = p) => Adding(r, p)
        BY <2>2, <2>4 DEF Adding, InFlight
      <3>2. Adding(r, p) => request[r].by = "customer"
        BY DEF Counted
      <3>3. QED
        BY <2>1, <3>1, <3>2
    <2>7. QED
      BY <2>2, <2>4, <2>5, <2>6, SameHeld, OneRecord
  <1>3. QED
    BY <1>1, <1>2

\* A request that goes on to place leaves room for what it places.
LEMMA ReadyCounts ==
  ASSUME IInv, NEW r \in Requests, NEW p \in Phones, Counted(p),
         NEW q, request' = [request EXCEPT ![r] = q],
         q.step = "place", q.kind = request[r].kind, q.phone = request[r].phone,
         q.by = request[r].by, q.at = request[r].at, InFlight(r),
         UNCHANGED <<calendarVars, holder, clock>>,
         Adding(r, p) => Cardinality(Ahead(p)) < Cap
  PROVE  Counted(p)'
  <1>1. (q.kind = "book" /\ q.phone = p) => Adding(r, p)
    BY DEF Adding
  <1>2. QED
    BY <1>1, SameHeld, OneRecord

\* A number nobody has is held by nothing: its first booking has room under any cap.
LEMMA InsertCounts ==
  ASSUME IInv, NEW r \in Requests, InsertCustomer(r), NEW p \in Phones, Counted(p)
  PROVE  Counted(p)'
  <1>1. CASE Fail(r)
    BY <1>1, FailCounts
  <1>2. CASE ~Fail(r)
    <2>1. /\ request[r].step = "insert" /\ customer[request[r].phone] = "absent"
          /\ request' = [GoTo(r, "place") EXCEPT ![r].created = TRUE]
          /\ UNCHANGED <<calendarVars, holder, clock>>
      BY <1>2 DEF InsertCustomer
    <2>2. PICK q : q = [request[r] EXCEPT !.step = "place", !.created = TRUE]
      OBVIOUS
    <2>3. /\ q.step = "place" /\ q.kind = request[r].kind /\ q.phone = request[r].phone
          /\ q.by = request[r].by /\ q.at = request[r].at
      BY <2>2 DEF IInv, TypeOK, Request
    <2>4. request' = [request EXCEPT ![r] = q]
      BY <2>1, <2>2 DEF GoTo, IInv, TypeOK
    <2>5. InFlight(r)
      BY <2>1 DEF InFlight
    <2>6. ASSUME Adding(r, p) PROVE Cardinality(Ahead(p)) < Cap
      <3>1. customer[p] = "absent"
        BY <2>1, <2>6 DEF Adding
      <3>2. Ahead(p) = {}
        BY <3>1 DEF Ahead, Held, Live, IInv, TypeOK
      <3>3. QED
        BY <3>2, FS_EmptySet, PublicAssumption
    <2>7. QED
      BY <2>1, <2>3, <2>4, <2>5, <2>6, ReadyCounts
  <1>3. QED
    BY <1>1, <1>2

\* What was ahead when the request began includes what is ahead now.
LEMMA CountCounts ==
  ASSUME IInv, NEW r \in Requests, CountHeld(r), NEW p \in Phones, Counted(p)
  PROVE  Counted(p)'
  <1>1. CASE Fail(r)
    BY <1>1, FailCounts
  <1>2. CASE ~Fail(r)
    <2>1. /\ request[r].step = "count"
          /\ ~(Cardinality(Held(request[r].phone, request[r].at)) >= Cap)
          /\ request' = GoTo(r, "place")
          /\ UNCHANGED <<calendarVars, holder, clock>>
      BY <1>2 DEF CountHeld
    <2>2. PICK q : q = [request[r] EXCEPT !.step = "place"]
      OBVIOUS
    <2>3. /\ q.step = "place" /\ q.kind = request[r].kind /\ q.phone = request[r].phone
          /\ q.by = request[r].by /\ q.at = request[r].at
      BY <2>2 DEF IInv, TypeOK, Request
    <2>4. request' = [request EXCEPT ![r] = q]
      BY <2>1, <2>2 DEF GoTo
    <2>5. InFlight(r)
      BY <2>1 DEF InFlight
    <2>6. ASSUME Adding(r, p) PROVE Cardinality(Ahead(p)) < Cap
      <3>1. PICK H : H = Held(p, request[r].at)
        OBVIOUS
      <3>2. request[r].at \in Nat /\ clock \in Nat /\ request[r].at <= clock
        <4>1. request[r].at <= clock
          BY <2>6 DEF Counted
        <4>2. QED
          BY <4>1 DEF IInv, TypeOK, Request
      <3>3. \A b \in Bookings : StartOf(slot[b]) \in Int
        BY StartsAreInts
      <3>4. Ahead(p) \in SUBSET H
        BY <3>1, <3>2, <3>3 DEF Ahead, Held
      <3>5. IsFiniteSet(H) /\ Cardinality(H) \in Nat /\ Cardinality(Ahead(p)) \in Nat
        BY <3>1, HeldFinite DEF Ahead
      <3>6. Cardinality(Ahead(p)) <= Cardinality(H)
        BY <3>4, <3>5, FS_Subset
      <3>7. Cap \in Nat /\ Cardinality(H) < Cap
        <4>1. ~(Cardinality(H) >= Cap)
          BY <2>1, <2>6, <3>1 DEF Adding
        <4>2. QED
          BY <3>5, <4>1, PublicAssumption
      <3>8. QED
        BY <3>5, <3>6, <3>7
    <2>7. QED
      BY <2>1, <2>3, <2>4, <2>5, <2>6, ReadyCounts
  <1>3. QED
    BY <1>1, <1>2

\* The booking that is added is the one there was room for, and p adds no other.
LEMMA CreateCounts ==
  ASSUME IInv, NEW r \in Requests, CreateBooking(r), NEW p \in Phones, Counted(p)
  PROVE  Counted(p)'
  <1>1. PICK b \in Bookings :
          /\ Placement(r, b)
          /\ holder' = [holder EXCEPT ![b] = request[r].phone]
    BY DEF CreateBooking
  <1>2. /\ state' = [state EXCEPT ![b] = IF @ = "free" THEN "live" ELSE @]
        /\ slot' = [slot EXCEPT ![b] = request[r].slot]
        /\ request' = [request EXCEPT ![r] = [NoRequest EXCEPT !.step = "ended"]]
        /\ request[r].step = "place" /\ request[r].kind = "book" /\ clock' = clock
    BY <1>1 DEF CreateBooking, Placement, Place, Finish
  <1>3. ASSUME NEW x \in Bookings, x # b
        PROVE  state'[x] = state[x] /\ slot'[x] = slot[x] /\ holder'[x] = holder[x]
    BY <1>1, <1>2, <1>3 DEF IInv, TypeOK, CalendarTypeOK
  <1>4. [NoRequest EXCEPT !.step = "ended"].step = "ended"
    BY DEF NoRequest
  <1>5. CASE request[r].phone # p
    <2>1. holder'[b] # p
      BY <1>1, <1>5 DEF IInv, TypeOK
    <2>2. Ahead(p)' \subseteq Ahead(p)
      BY <1>2, <1>3, <2>1 DEF Ahead, Held, Live
    <2>3. QED
      BY <1>2, <1>4, <2>2, OneRecord
  <1>6. CASE request[r].phone = p
    <2>1. Adding(r, p) /\ Cardinality(Ahead(p)) < Cap
      BY <1>2, <1>6 DEF Adding, InFlight, Counted
    <2>2. ASSUME NEW x \in Requests PROVE ~Adding(x, p)'
      <3>1. CASE x = r
        BY <1>2, <1>4, <3>1 DEF Adding, InFlight, IInv, TypeOK
      <3>2. CASE x # r
        BY <1>2, <2>1, <3>2 DEF Adding, InFlight, IInv, TypeOK, Counted
      <3>3. QED
        BY <3>1, <3>2
    <2>3. PICK H : H = Ahead(p)
      OBVIOUS
    <2>4. PICK K : K = Ahead(p)'
      OBVIOUS
    <2>5. IsFiniteSet(H) /\ Cardinality(H) \in Nat /\ Cardinality(H) < Cap
      BY <2>1, <2>3, HeldFinite DEF Ahead
    <2>6. K \in SUBSET (H \cup {b})
      BY <1>2, <1>3, <2>3, <2>4 DEF Ahead, Held, Live
    <2>7. PICK M : M = H \cup {b}
      OBVIOUS
    <2>8. IsFiniteSet(M) /\ Cardinality(M) \in Nat /\ Cardinality(M) <= Cardinality(H) + 1
      <3>1. IsFiniteSet(M) /\ (Cardinality(M) = Cardinality(H) \/ Cardinality(M) = Cardinality(H) + 1)
        BY <2>5, <2>7, FS_AddElement
      <3>2. QED
        BY <2>5, <3>1
    <2>9. Cardinality(K) \in Nat /\ Cardinality(K) <= Cardinality(M)
      BY <2>6, <2>7, <2>8, FS_Subset, FS_CardinalityType
    <2>10. Cardinality(K) <= Cap
      BY <2>5, <2>8, <2>9, PublicAssumption
    <2>11. QED
      BY <2>2, <2>4, <2>10 DEF Counted
  <1>7. QED
    BY <1>5, <1>6

\* A booking moved ahead was ahead before, or its customer is excused.
LEMMA MoveCounts ==
  ASSUME IInv, NEW r \in Requests, MoveBooking(r), NEW p \in Phones, p \notin excused', Counted(p)
  PROVE  Counted(p)'
  <1>1. PICK b \in Bookings : b = request[r].booking /\ state[b] # "free"
    BY DEF MoveBooking, IInv, RequestsAreSound, Sound
  <1>2. /\ Placement(r, b)
        /\ excused' = IF StartOf(slot[b]) <= clock THEN excused \cup {holder[b]} ELSE excused
        /\ holder' = holder /\ clock' = clock
    BY <1>1 DEF MoveBooking
  <1>3. /\ state' = state
        /\ slot' = [slot EXCEPT ![b] = request[r].slot]
        /\ request' = [request EXCEPT ![r] = [NoRequest EXCEPT !.step = "ended"]]
    BY <1>1, <1>2 DEF Placement, Place, Finish, IInv, TypeOK, CalendarTypeOK
  <1>4. ASSUME holder[b] = p PROVE StartOf(slot[b]) > clock
    <2>1. StartOf(slot[b]) \in Int /\ clock \in Nat
      BY StartsAreInts DEF IInv, TypeOK
    <2>2. ~(StartOf(slot[b]) <= clock)
      BY <1>2, <1>4
    <2>3. QED
      BY <2>1, <2>2
  <1>5. \A x \in Bookings \ {b} : slot'[x] = slot[x]
    BY <1>3 DEF IInv, TypeOK, CalendarTypeOK
  <1>6. Ahead(p)' \subseteq Ahead(p)
    BY <1>2, <1>3, <1>4, <1>5 DEF Ahead, Held, Live
  <1>7. [NoRequest EXCEPT !.step = "ended"].step = "ended"
    BY DEF NoRequest
  <1>8. QED
    BY <1>2, <1>3, <1>6, <1>7, OneRecord

LEMMA FreeHeld ==
  ASSUME IInv, NEW p, NEW b \in Bookings, Free(b), UNCHANGED <<holder, clock>>
  PROVE  Ahead(p)' \subseteq Ahead(p)
  BY DEF Free, Ahead, Held, Live, IInv, TypeOK, CalendarTypeOK

LEMMA CancelCounts ==
  ASSUME IInv, NEW r \in Requests, CancelBooking(r), NEW p \in Phones, Counted(p)
  PROVE  Counted(p)'
  <1>1. request[r].booking \in Bookings
    BY DEF CancelBooking, IInv, RequestsAreSound, Sound
  <1>2. Ahead(p)' \subseteq Ahead(p)
    BY <1>1, FreeHeld DEF CancelBooking
  <1>3. [NoRequest EXCEPT !.step = "ended"].step = "ended"
    BY DEF NoRequest
  <1>4. QED
    BY <1>2, <1>3, OneRecord DEF CancelBooking, Finish

\* Steps that are no request's: the owner's own statements, and time.
LEMMA OwnerCounts ==
  ASSUME IInv, NEW p \in Phones, Counted(p),
         \/ \E b \in Bookings : Confirm(b) \/ MarkNoShow(b)
         \/ \E o \in Phones, blocked \in BOOLEAN : SetBlocked(o, blocked)
         \/ Tick
         \/ UNCHANGED vars
  PROVE  Counted(p)'
  <1>1. clock \in Nat /\ \A x \in Requests : request[x].at \in Nat
    BY DEF IInv, TypeOK, Request
  <1>2. clock' \in Nat /\ clock <= clock'
    BY <1>1 DEF Confirm, MarkNoShow, SetBlocked, Tick, vars
  <1>3. Ahead(p)' \subseteq Ahead(p)
    <2>1. CASE UNCHANGED <<calendarVars, holder, clock>>
      BY <2>1, SameHeld
    <2>2. CASE \E b \in Bookings : MarkNoShow(b)
      BY <2>2, FreeHeld DEF MarkNoShow
    <2>3. CASE Tick
      <3>1. \A b \in Bookings : StartOf(slot[b]) \in Int
        BY StartsAreInts
      <3>2. UNCHANGED <<state, slot, holder>>
        BY <2>3 DEF Tick, calendarVars
      <3>3. QED
        BY <1>1, <1>2, <3>1, <3>2 DEF Ahead, Held, Live
    <2>4. QED
      BY <2>1, <2>2, <2>3 DEF Confirm, SetBlocked, vars
  <1>4. ASSUME NEW x \in Requests
        PROVE  /\ request'[x].step = request[x].step /\ request'[x].kind = request[x].kind
               /\ request'[x].phone = request[x].phone /\ request'[x].by = request[x].by
               /\ request'[x].at = request[x].at
    <2>1. CASE request' = request
      BY <2>1
    <2>2. CASE \E o \in Phones, blocked \in BOOLEAN : SetBlocked(o, blocked)
      <3>1. request'[x] \in {request[x], [request[x] EXCEPT !.barred = FALSE]}
        BY <2>2 DEF SetBlocked
      <3>2. request[x] \in Request
        BY DEF IInv, TypeOK
      <3>3. QED
        BY <3>1, <3>2 DEF Request
    <2>3. QED
      BY <2>1, <2>2 DEF Confirm, MarkNoShow, Tick, vars
  <1>5. QED
    BY <1>1, <1>2, <1>3, <1>4, NoMoreHeld DEF Adding, InFlight

\* Whoever is excused stays so.
LEMMA ExcusedGrows ==
  ASSUME [Next]_vars
  PROVE  excused \subseteq excused'
  BY DEF Next, BookOnline, BookByOwner, MoveOnline, MoveByOwner, Cancel, LookUp, InsertCustomer,
         CountHeld, CreateBooking, MoveBooking, CancelBooking, Conflict, RequestFails, Fail,
         Confirm, MarkNoShow, SetBlocked, Tick, history, vars

LEMMA CapStep == IInv /\ CapKept /\ [Next]_vars => CapKept'
  <1> SUFFICES ASSUME IInv, CapKept, [Next]_vars, NEW p \in Phones, p \notin excused'
               PROVE  Counted(p)'
    BY DEF CapKept
  <1>1. Counted(p)
    BY ExcusedGrows DEF CapKept
  <1>2. ASSUME NEW r \in Requests,
               \/ BookOnline(r) \/ BookByOwner(r) \/ MoveOnline(r) \/ MoveByOwner(r) \/ Cancel(r)
               \/ LookUp(r) \/ InsertCustomer(r) \/ CountHeld(r)
               \/ CreateBooking(r) \/ MoveBooking(r) \/ CancelBooking(r)
               \/ Conflict(r) \/ RequestFails(r)
        PROVE  Counted(p)'
    <2>1. CASE Fail(r)
      BY <1>1, <2>1, FailCounts
    <2>2. QED
      BY <1>1, <1>2, <2>1, BookOnlineCounts, OtherBeginCounts, LookUpCounts, InsertCounts,
         CountCounts, CreateCounts, MoveCounts, CancelCounts DEF Conflict, RequestFails
  <1>3. QED
    BY <1>1, <1>2, OwnerCounts DEF Next

LEMMA InitCounts == Init => CapKept
  <1> SUFFICES ASSUME Init, NEW p \in Phones PROVE Counted(p)
    BY DEF CapKept
  <1>1. Ahead(p) = {}
    BY DEF Init, CalendarInit, Ahead, Held, Live
  <1>2. \A r \in Requests : ~Adding(r, p)
    BY DEF Init, Adding, InFlight, NoRequest
  <1>3. Cardinality(Ahead(p)) <= Cap
    BY <1>1, FS_EmptySet, PublicAssumption
  <1>4. QED
    BY <1>2, <1>3 DEF Counted

\* A customer holds no more than maxFutureBookingsPerCustomer bookings that are ahead,
\* unless it was under way twice, a past booking of its was moved ahead, or the owner
\* booked for it: createBooking's count holds although nothing locks what it counted.
THEOREM CapHoldsUnlessExcusedHolds == Spec => []CapHoldsUnlessExcused
  <1>1. CapKept => CapHoldsUnlessExcused
    BY DEF CapKept, Counted, CapHoldsUnlessExcused, Ahead
  <1>2. QED
    BY <1>1, InitCounts, CapStep, PublicInvariant, PTL DEF Spec

-----------------------------------------------------------------------------
(* Whose first booking waits for the owner.                                *)

InsertedBySome(p) == \E q \in Requests : request[q].created /\ request[q].phone = p

\* Every customer in the table is there for a reason screening could know of.
Explained(p) == customer[p] # "absent" => SeenBefore(p) \/ p \in lost \/ InsertedBySome(p)

Reasons ==
    /\ \A p \in Phones : Explained(p)
    /\ \A r \in Requests : request[r].created =>
          request[r].step = "place" /\ request[r].kind = "book" /\ request[r].phone \in Phones

\* A step that inserts nobody, takes no reason away and gives none to r's record.
LEMMA SameReasons ==
  ASSUME IInv, Reasons, NEW r \in Requests, NEW q,
         request' = [request EXCEPT ![r] = q], ~q.created,
         \A p \in Phones : (request[r].created /\ request[r].phone = p)
                              => SeenBefore(p)' \/ p \in lost',
         \A p \in Phones : (customer'[p] # "absent" => customer[p] # "absent")
                           /\ (SeenBefore(p) => SeenBefore(p)') /\ (p \in lost => p \in lost')
  PROVE  Reasons'
  <1>1. /\ request'[r] = q
        /\ \A x \in Requests : x # r => request'[x] = request[x]
    BY DEF IInv, TypeOK
  <1>2. ASSUME NEW p \in Phones PROVE Explained(p)'
    <2>1. SUFFICES ASSUME customer'[p] # "absent"
                   PROVE  SeenBefore(p)' \/ p \in lost' \/ InsertedBySome(p)'
      BY DEF Explained
    <2>2. SeenBefore(p) \/ p \in lost \/ InsertedBySome(p)
      BY <2>1 DEF Reasons, Explained
    <2>3. CASE InsertedBySome(p)
      <3>1. PICK x \in Requests : request[x].created /\ request[x].phone = p
        BY <2>3 DEF InsertedBySome
      <3>2. CASE x = r
        BY <3>1, <3>2
      <3>3. CASE x # r
        BY <1>1, <3>1, <3>3 DEF InsertedBySome
      <3>4. QED
        BY <3>2, <3>3
    <2>4. QED
      BY <2>2, <2>3
  <1>3. \A x \in Requests : request'[x].created =>
           request'[x].step = "place" /\ request'[x].kind = "book" /\ request'[x].phone \in Phones
    BY <1>1 DEF Reasons
  <1>4. QED
    BY <1>2, <1>3 DEF Reasons

\* No row disappears, and none changes hands.
LEMMA SeenStays ==
  ASSUME NEW p, SeenBefore(p), introduced \subseteq introduced',
         \A b \in Bookings : state[b] # "free" => state'[b] # "free" /\ holder'[b] = holder[b]
  PROVE  SeenBefore(p)'
  BY DEF SeenBefore

\* The calendar and the customers stand still.
LEMMA QuietSeen ==
  ASSUME UNCHANGED <<calendarVars, holder, introduced>>
  PROVE  \A p \in Phones : SeenBefore(p) => SeenBefore(p)'
  BY DEF SeenBefore, calendarVars

LEMMA EndedBare == ~[NoRequest EXCEPT !.step = "ended"].created
  BY DEF NoRequest

LEMMA FailReasons ==
  ASSUME IInv, Reasons, NEW r \in Requests, Fail(r)
  PROVE  Reasons'
  <1>1. request[r].created => request[r].phone \in lost'
    BY DEF Fail
  <1>2. \A p \in Phones : /\ customer'[p] # "absent" => customer[p] # "absent"
                          /\ SeenBefore(p) => SeenBefore(p)'
                          /\ p \in lost => p \in lost'
    BY QuietSeen DEF Fail
  <1>3. QED
    BY <1>1, <1>2, EndedBare, SameReasons DEF Fail, Finish

LEMMA BeginReasons ==
  ASSUME IInv, Reasons, NEW r \in Requests,
         BookOnline(r) \/ BookByOwner(r) \/ MoveOnline(r) \/ MoveByOwner(r) \/ Cancel(r)
  PROVE  Reasons'
  <1>1. ASSUME NEW q, Begin(r, q), ~q.created
        PROVE  Reasons'
    <2>1. ~request[r].created
      BY <1>1 DEF Begin, Reasons
    <2>2. \A p \in Phones : /\ customer'[p] # "absent" => customer[p] # "absent"
                            /\ SeenBefore(p) => SeenBefore(p)'
                            /\ p \in lost => p \in lost'
      BY <1>1, QuietSeen DEF Begin
    <2>3. QED
      BY <1>1, <2>1, <2>2, SameReasons DEF Begin
  <1>2. CASE BookOnline(r)
    <2>1. PICK p \in Phones, s \in Slots :
            Begin(r, [NoRequest EXCEPT !.step = "lookup", !.phone = p, !.slot = s,
                                       !.at = clock, !.barred = customer[p] = "blocked"])
      BY <1>2 DEF BookOnline
    <2>2. ~[NoRequest EXCEPT !.step = "lookup", !.phone = p, !.slot = s,
                             !.at = clock, !.barred = customer[p] = "blocked"].created
      BY DEF NoRequest
    <2>3. QED
      BY <1>1, <2>1, <2>2
  <1>3. CASE BookByOwner(r)
    <2>1. PICK p \in Phones, s \in Slots :
            Begin(r, [NoRequest EXCEPT !.step = "lookup", !.by = "admin", !.phone = p,
                                       !.slot = s])
      BY <1>3 DEF BookByOwner
    <2>2. ~[NoRequest EXCEPT !.step = "lookup", !.by = "admin", !.phone = p, !.slot = s].created
      BY DEF NoRequest
    <2>3. QED
      BY <1>1, <2>1, <2>2
  <1>4. CASE MoveOnline(r)
    <2>1. PICK b \in Bookings, s \in Slots :
            Begin(r, [NoRequest EXCEPT !.step = "place", !.kind = "move", !.phone = holder[b],
                                       !.booking = b, !.slot = s])
      BY <1>4 DEF MoveOnline
    <2>2. ~[NoRequest EXCEPT !.step = "place", !.kind = "move", !.phone = holder[b],
                             !.booking = b, !.slot = s].created
      BY DEF NoRequest
    <2>3. QED
      BY <1>1, <2>1, <2>2
  <1>5. CASE MoveByOwner(r)
    <2>1. PICK b \in Bookings, s \in Slots :
            Begin(r, [NoRequest EXCEPT !.step = "place", !.kind = "move", !.by = "admin",
                                       !.phone = holder[b], !.booking = b, !.slot = s])
      BY <1>5 DEF MoveByOwner
    <2>2. ~[NoRequest EXCEPT !.step = "place", !.kind = "move", !.by = "admin",
                             !.phone = holder[b], !.booking = b, !.slot = s].created
      BY DEF NoRequest
    <2>3. QED
      BY <1>1, <2>1, <2>2
  <1>6. CASE Cancel(r)
    <2>1. PICK b \in Bookings, by \in {"customer", "admin"} :
            Begin(r, [NoRequest EXCEPT !.step = "free", !.kind = "cancel", !.by = by,
                                       !.phone = holder[b], !.booking = b])
      BY <1>6 DEF Cancel
    <2>2. ~[NoRequest EXCEPT !.step = "free", !.kind = "cancel", !.by = by,
                             !.phone = holder[b], !.booking = b].created
      BY DEF NoRequest
    <2>3. QED
      BY <1>1, <2>1, <2>2
  <1>7. QED
    BY <1>2, <1>3, <1>4, <1>5, <1>6

\* A request that reads its way on was not inserted by itself.
LEMMA ReadReasons ==
  ASSUME IInv, Reasons, NEW r \in Requests, LookUp(r) \/ CountHeld(r)
  PROVE  Reasons'
  <1>1. CASE Fail(r)
    BY <1>1, FailReasons
  <1>2. CASE ~Fail(r)
    <2>1. PICK step \in {"insert", "place", "count"} : request' = GoTo(r, step)
      BY <1>2 DEF LookUp, CountHeld
    <2>2. ~request[r].created
      BY DEF Reasons, LookUp, CountHeld
    <2>3. PICK q : q = [request[r] EXCEPT !.step = step]
      OBVIOUS
    <2>4. ~q.created /\ request' = [request EXCEPT ![r] = q]
      BY <2>1, <2>2, <2>3 DEF GoTo, IInv, TypeOK, Request
    <2>5. UNCHANGED <<calendarVars, customer, holder, introduced, lost>>
      BY <1>2 DEF LookUp, CountHeld, history
    <2>6. QED
      BY <2>2, <2>4, <2>5, QuietSeen, SameReasons
  <1>3. QED
    BY <1>1, <1>2

\* A customer that is inserted is explained by the request that inserts it.
LEMMA InsertReasons ==
  ASSUME IInv, Reasons, NEW r \in Requests, InsertCustomer(r)
  PROVE  Reasons'
  <1>1. CASE Fail(r)
    BY <1>1, FailReasons
  <1>2. CASE ~Fail(r)
    <2>1. /\ request[r].step = "insert" /\ customer[request[r].phone] = "absent"
          /\ customer' = [customer EXCEPT ![request[r].phone] = "known"]
          /\ request' = [GoTo(r, "place") EXCEPT ![r].created = TRUE]
          /\ introduced \subseteq introduced'
          /\ UNCHANGED <<calendarVars, holder, lost>>
      BY <1>2 DEF InsertCustomer
    <2>2. /\ request'[r].created /\ request'[r].phone = request[r].phone
          /\ request'[r].step = "place" /\ request'[r].kind = request[r].kind
          /\ \A x \in Requests : x # r => request'[x] = request[x]
      BY <2>1 DEF GoTo, IInv, TypeOK, Request
    <2>3. request[r].kind = "book" /\ request[r].phone \in Phones
      BY <2>1 DEF IInv, RequestsAreSound, Sound
    <2>4. ASSUME NEW p \in Phones PROVE Explained(p)'
      <3>1. CASE p = request[r].phone
        BY <2>2, <3>1 DEF Explained, InsertedBySome
      <3>2. CASE p # request[r].phone
        <4>1. customer'[p] = customer[p]
          BY <2>1, <3>2 DEF IInv, TypeOK
        <4>2. SeenBefore(p) => SeenBefore(p)'
          BY <2>1, SeenStays DEF calendarVars
        <4>3. InsertedBySome(p) => InsertedBySome(p)'
          BY <2>2, <3>2 DEF InsertedBySome
        <4>4. QED
          BY <2>1, <4>1, <4>2, <4>3 DEF Reasons, Explained
      <3>3. QED
        BY <3>1, <3>2
    <2>5. \A x \in Requests : request'[x].created =>
             request'[x].step = "place" /\ request'[x].kind = "book" /\ request'[x].phone \in Phones
      BY <2>2, <2>3 DEF Reasons
    <2>6. QED
      BY <2>4, <2>5 DEF Reasons
  <1>3. QED
    BY <1>1, <1>2

\* What a request inserted is explained by its booking once it has booked.
LEMMA CreateReasons ==
  ASSUME IInv, Reasons, NEW r \in Requests, CreateBooking(r)
  PROVE  Reasons'
  <1>1. PICK b \in Bookings :
          /\ state[b] = "free"
          /\ Placement(r, b)
          /\ holder' = [holder EXCEPT ![b] = request[r].phone]
    BY DEF CreateBooking
  <1>2. /\ state'[b] = "live" /\ holder'[b] = request[r].phone
        /\ \A x \in Bookings : x # b => state'[x] = state[x] /\ holder'[x] = holder[x]
    BY <1>1 DEF Placement, Place, IInv, TypeOK, CalendarTypeOK
  <1>3. request' = [request EXCEPT ![r] = [NoRequest EXCEPT !.step = "ended"]]
    BY <1>1 DEF Placement, Finish
  <1>4. UNCHANGED <<customer, introduced, lost>>
    BY DEF CreateBooking
  <1>5. \A p \in Phones : request[r].phone = p => SeenBefore(p)'
    BY <1>2 DEF SeenBefore
  <1>6. \A p \in Phones : SeenBefore(p) => SeenBefore(p)'
    BY <1>1, <1>2, <1>4, SeenStays
  <1>7. QED
    BY <1>3, <1>4, <1>5, <1>6, EndedBare, SameReasons

LEMMA MoveReasons ==
  ASSUME IInv, Reasons, NEW r \in Requests, MoveBooking(r) \/ CancelBooking(r)
  PROVE  Reasons'
  <1>1. PICK b \in Bookings : b = request[r].booking /\ state[b] # "free"
    BY DEF MoveBooking, CancelBooking, IInv, RequestsAreSound, Sound
  <1>2. ~request[r].created
    BY DEF MoveBooking, CancelBooking, Reasons
  <1>3. request' = [request EXCEPT ![r] = [NoRequest EXCEPT !.step = "ended"]]
    BY DEF MoveBooking, CancelBooking, Placement, Finish
  <1>4. UNCHANGED <<customer, holder, introduced, lost>>
    BY DEF MoveBooking, CancelBooking
  <1>5. \A x \in Bookings : state[x] # "free" => state'[x] # "free"
    BY <1>1 DEF MoveBooking, CancelBooking, Placement, Place, Free, IInv, TypeOK, CalendarTypeOK
  <1>6. \A p \in Phones : SeenBefore(p) => SeenBefore(p)'
    BY <1>4, <1>5, SeenStays
  <1>7. QED
    BY <1>2, <1>3, <1>4, <1>6, EndedBare, SameReasons

LEMMA OwnerReasons ==
  ASSUME IInv, Reasons,
         \/ \E b \in Bookings : Confirm(b) \/ MarkNoShow(b)
         \/ \E o \in Phones, blocked \in BOOLEAN : SetBlocked(o, blocked)
         \/ Tick
         \/ UNCHANGED vars
  PROVE  Reasons'
  <1>1. UNCHANGED <<holder, introduced, lost>>
    BY DEF Confirm, MarkNoShow, SetBlocked, Tick, history, vars
  <1>2. \A x \in Bookings : state[x] # "free" => state'[x] # "free"
    BY DEF Confirm, MarkNoShow, SetBlocked, Tick, vars, calendarVars, Free,
           IInv, TypeOK, CalendarTypeOK
  <1>3. \A p \in Phones : SeenBefore(p) => SeenBefore(p)'
    BY <1>1, <1>2, SeenStays
  <1>4. ASSUME NEW p \in Phones PROVE customer'[p] # "absent" => customer[p] # "absent"
    <2>1. CASE customer' = customer
      BY <2>1
    <2>2. CASE \E o \in Phones, blocked \in BOOLEAN : SetBlocked(o, blocked)
      BY <2>2 DEF SetBlocked, IInv, TypeOK
    <2>3. QED
      BY <2>1, <2>2 DEF Confirm, MarkNoShow, Tick, vars
  <1>5. ASSUME NEW x \in Requests
        PROVE  /\ request'[x].created = request[x].created /\ request'[x].step = request[x].step
               /\ request'[x].kind = request[x].kind /\ request'[x].phone = request[x].phone
    <2>1. CASE request' = request
      BY <2>1
    <2>2. CASE \E o \in Phones, blocked \in BOOLEAN : SetBlocked(o, blocked)
      <3>1. request'[x] \in {request[x], [request[x] EXCEPT !.barred = FALSE]}
        BY <2>2 DEF SetBlocked
      <3>2. request[x] \in Request
        BY DEF IInv, TypeOK
      <3>3. QED
        BY <3>1, <3>2 DEF Request
    <2>3. QED
      BY <2>1, <2>2 DEF Confirm, MarkNoShow, Tick, vars
  <1>6. \A p \in Phones : InsertedBySome(p) => InsertedBySome(p)'
    BY <1>5 DEF InsertedBySome
  <1>7. \A p \in Phones : Explained(p)'
    BY <1>1, <1>3, <1>4, <1>6 DEF Reasons, Explained
  <1>8. \A x \in Requests : request'[x].created =>
           request'[x].step = "place" /\ request'[x].kind = "book" /\ request'[x].phone \in Phones
    BY <1>5 DEF Reasons
  <1>9. QED
    BY <1>7, <1>8 DEF Reasons

LEMMA ReasonsStep == IInv /\ Reasons /\ [Next]_vars => Reasons'
  <1> SUFFICES ASSUME IInv, Reasons, [Next]_vars PROVE Reasons'
    OBVIOUS
  <1>1. ASSUME NEW r \in Requests,
               \/ BookOnline(r) \/ BookByOwner(r) \/ MoveOnline(r) \/ MoveByOwner(r) \/ Cancel(r)
               \/ LookUp(r) \/ InsertCustomer(r) \/ CountHeld(r)
               \/ CreateBooking(r) \/ MoveBooking(r) \/ CancelBooking(r)
               \/ Conflict(r) \/ RequestFails(r)
        PROVE  Reasons'
    <2>1. CASE Fail(r)
      BY <2>1, FailReasons
    <2>2. QED
      BY <1>1, <2>1, BeginReasons, ReadReasons, InsertReasons, CreateReasons, MoveReasons
      DEF Conflict, RequestFails
  <1>2. QED
    BY <1>1, OwnerReasons DEF Next

LEMMA InitReasons == Init => Reasons
  BY DEF Init, Reasons, Explained, NoRequest

\* A booking made online is waiting if its own request inserted the customer.
LEMMA CreatedWaits ==
  ASSUME IInv, [Next]_vars, NEW r \in Requests, NEW b \in Bookings, BooksOnline(r, b),
         ConfirmNew, request[r].created
  PROVE  waiting'[b]
  <1>1. /\ request[r].step = "place" /\ request[r].kind = "book" /\ request[r].by = "customer"
        /\ request'[r].step = "ended" /\ state[b] = "free" /\ state'[b] # "free"
    BY DEF BooksOnline
  <1>2. PICK x \in Requests : CreateBooking(x)
    <2>1. ASSUME NEW x \in Requests, MoveBooking(x) \/ CancelBooking(x) PROVE FALSE
      <3>1. PICK a \in Bookings : a = request[x].booking /\ state[a] # "free"
        BY <2>1 DEF MoveBooking, CancelBooking, IInv, RequestsAreSound, Sound
      <3>2. state'[b] = state[b]
        BY <1>1, <2>1, <3>1 DEF MoveBooking, CancelBooking, Placement, Place, Free,
                                IInv, TypeOK, CalendarTypeOK
      <3>3. QED
        BY <1>1, <3>2
    <2>2. ASSUME NEW a \in Bookings, MarkNoShow(a) PROVE FALSE
      BY <1>1, <2>2 DEF MarkNoShow, Free, IInv, TypeOK, CalendarTypeOK
    <2>3. ~UNCHANGED calendarVars
      BY <1>1 DEF calendarVars
    <2>4. ASSUME NEW x \in Requests,
                 \/ BookOnline(x) \/ BookByOwner(x) \/ MoveOnline(x) \/ MoveByOwner(x)
                 \/ Cancel(x)
          PROVE  UNCHANGED calendarVars
      BY <2>4 DEF BookOnline, BookByOwner, MoveOnline, MoveByOwner, Cancel, Begin
    <2>5. ASSUME NEW x \in Requests,
                 \/ LookUp(x) \/ InsertCustomer(x) \/ CountHeld(x) \/ Conflict(x)
                 \/ RequestFails(x)
          PROVE  UNCHANGED calendarVars
      BY <2>5 DEF LookUp, InsertCustomer, CountHeld, Conflict, RequestFails, Fail
    <2>6. QED
      BY <2>1, <2>2, <2>3, <2>4, <2>5 DEF Next, Confirm, SetBlocked, Tick, vars
  <1>3. PICK a \in Bookings :
          /\ Placement(x, a)
          /\ waiting' = [waiting EXCEPT ![a] =
                            ConfirmNew /\ request[x].created /\ request[x].by = "customer"]
    BY <1>2 DEF CreateBooking
  <1>4. x = r
    BY <1>1, <1>3 DEF Placement, Finish, IInv, TypeOK
  <1>5. a = b
    BY <1>1, <1>3 DEF Placement, Place, IInv, TypeOK, CalendarTypeOK
  <1>6. waiting'[b] = (ConfirmNew /\ request[r].created /\ request[r].by = "customer")
    BY <1>3, <1>4, <1>5 DEF IInv, TypeOK
  <1>7. QED
    BY <1>1, <1>6

\* With confirmNewCustomers on, a first booking waits for the owner unless another
\* attempt of the same number left its customer in the table: the `created` that
\* findOrCreateCustomer returns is all that screening goes by.
THEOREM ScreenedUnlessInsertedHolds == Spec => ScreenedUnlessInserted
  <1>1. ASSUME IInv, Reasons, [Next]_vars, NEW r \in Requests, NEW b \in Bookings,
               BooksOnline(r, b), ConfirmNew
        PROVE  waiting'[b] \/ SeenBefore(request[r].phone) \/ InsertedByAnother(r)
    <2>1. CASE request[r].created
      BY <1>1, <2>1, CreatedWaits
    <2>2. CASE ~request[r].created
      <3>1. request[r].phone \in Phones /\ customer[request[r].phone] # "absent"
        BY <1>1 DEF BooksOnline, IInv, RequestsAreSound, Sound
      <3>2. \/ SeenBefore(request[r].phone) \/ request[r].phone \in lost
            \/ InsertedBySome(request[r].phone)
        BY <1>1, <3>1 DEF Reasons, Explained
      <3>3. InsertedBySome(request[r].phone) => InsertedByAnother(r)
        BY <2>2 DEF InsertedBySome, InsertedByAnother
      <3>4. QED
        BY <3>2, <3>3 DEF InsertedByAnother
    <2>3. QED
      BY <2>1, <2>2
  <1>2. IInv /\ Reasons /\ [Next]_vars
          => [\A r \in Requests, b \in Bookings :
                (BooksOnline(r, b) /\ ConfirmNew) =>
                    \/ waiting'[b]
                    \/ SeenBefore(request[r].phone)
                    \/ InsertedByAnother(r)]_vars
    BY <1>1
  <1>3. QED
    BY <1>2, InitReasons, ReasonsStep, PublicInvariant, PTL DEF Spec, ScreenedUnlessInserted
=============================================================================
