-------------------------- MODULE OpeningHoursProofs --------------------------
(***************************************************************************)
(* Proofs about OpeningHours, for any schedule, services, dates, clock     *)
(* changes and bounds: the rows stay well formed, no two bookings share    *)
(* time, two rows of one weekday overlap only by a race of their checks,   *)
(* the loops of slots.ts offer what the rows mean, the diary flags nothing *)
(* that is offered, and a request books inside hours that were in force.   *)
(***************************************************************************)
EXTENDS OpeningHours, TLAPS, FiniteSetTheorems, WellFoundedInduction, NaturalsInduction

-----------------------------------------------------------------------------
(* The invariant.                                                          *)

AllRows == hours \cup closures \cup overrides \cup adding

\* The rows are well formed.
Typed ==
    /\ zone \in {"plain", "spring", "fall"} /\ now \in Nat /\ writes \in Nat
    /\ \A r \in hours \cup adding : Ordered(r) /\ r.weekday \in Weekdays
    /\ \A c \in closures : c.date \in Dates /\ (Ordered(c) \/ (c.start = None /\ c.end = None))
    /\ \A o \in overrides : o.date \in Dates /\ Ordered(o)

\* An id names one row, and no row has been given the next one yet.
Ids ==
    /\ \A a \in AllRows : a.id \in Int /\ a.id < writes
    /\ \A a, b \in AllRows : a.id = b.id => a = b

\* No check has listed a row that is not inserted yet, and what a check has listed and
\* passed does not overlap the row it was for.
Checks ==
    /\ \A a \in adding : a \notin hours
    /\ \A b \in hours \cup adding : \A i \in b.saw : i \in Int /\ i < writes
    /\ \A a \in adding, b \in hours \cup adding : a.id \notin b.saw
    /\ \A a \in hours, b \in hours \cup adding :
          (a # b /\ a.weekday = b.weekday /\ Overlaps(a.start, a.end, b.start, b.end))
              => a.id \notin b.saw

\* No two bookings share time.
Apart ==
    /\ \A b \in diary : b.from \in Int /\ b.until \in Int
    /\ \A a, b \in diary : a # b => ~Overlaps(a.from, a.until, b.from, b.until)

\* A request that has begun is for an instant and a service.
Formed(q) ==
    /\ DOMAIN q = {"step", "start", "service", "hours", "closures", "during", "missed"}
    /\ q.step \in {"idle", "closures", "overrides", "place"}
    /\ q.step # "idle" => q.start \in Int /\ q.service \in Services

Requested ==
    /\ request = [r \in Requests |-> request[r]]
    /\ \A r \in Requests : Formed(request[r])

HoursInv == Typed /\ Ids /\ Checks /\ Apart /\ Requested

LEMMA InitHolds == Init => HoursInv
  <1> SUFFICES ASSUME Init PROVE HoursInv
    OBVIOUS
  <1>0. \A d \in Dates : WeekdayOf[d] \in Nat /\ WeekdayOf[d] \in Weekdays
    BY HoursAssumption DEF Weekdays
  <1>1. FirstHours[1] \in Minutes /\ FirstHours[2] \in Minutes /\ FirstHours[1] < FirstHours[2]
    BY HoursAssumption
  <1>2. ASSUME NEW r \in hours
        PROVE  \E w \in Weekdays : /\ w \in Nat
                                   /\ r = [id |-> -1 - w, weekday |-> w, start |-> FirstHours[1],
                                           end |-> FirstHours[2], saw |-> {}]
    BY <1>0, <1>2 DEF Init, Weekdays
  <1>3. Typed
    <2>1. ASSUME NEW r \in hours PROVE Ordered(r) /\ r.weekday \in Weekdays
      BY <1>1, <1>2, HoursAssumption DEF Ordered, Minutes
    <2>2. QED
      BY <2>1 DEF Init, Typed
  <1>4. Ids
    <2>1. AllRows = hours /\ writes = 0
      BY DEF Init, AllRows
    <2>2. ASSUME NEW r \in hours PROVE r.id \in Int /\ r.id < 0
      BY <1>2
    <2>3. ASSUME NEW a \in hours, NEW b \in hours, a.id = b.id PROVE a = b
      BY <1>2, <2>3
    <2>4. QED
      BY <2>1, <2>2, <2>3 DEF Ids
  <1>5. Checks
    <2>1. ASSUME NEW r \in hours PROVE r.saw = {}
      BY <1>2
    <2>2. QED
      BY <2>1 DEF Init, Checks
  <1>6. Apart
    BY DEF Init, Apart
  <1>7. Requested
    BY DEF Init, Requested, Formed, NoRequest
  <1>8. QED
    BY <1>3, <1>4, <1>5, <1>6, <1>7 DEF HoursInv

-----------------------------------------------------------------------------
(* Requests, and the bookings they make.                                   *)

\* Being shown another schedule changes nothing a request has read.
LEMMA WitnessedKeeps ==
  ASSUME Requested, Witnessed
  PROVE  Requested'
  <1> SUFFICES ASSUME NEW r \in Requests
               PROVE  Formed(request'[r])
    BY DEF Requested, Witnessed, Formed
  <1>1. PICK q : q = request[r]
    OBVIOUS
  <1>2. Formed(q)
    BY <1>1 DEF Requested
  <1>3. request'[r] = q \/ \E S, n : request'[r] = [q EXCEPT !.during = S, !.missed = n]
    BY <1>1 DEF Witnessed
  <1>4. CASE request'[r] = q
    BY <1>2, <1>4
  <1>5. ASSUME NEW S, NEW n, request'[r] = [q EXCEPT !.during = S, !.missed = n]
        PROVE  Formed(request'[r])
    BY <1>2, <1>5 DEF Formed
  <1>6. QED
    BY <1>3, <1>4, <1>5

LEMMA StepKeeps ==
  ASSUME Requested, NEW r \in Requests, NEW next, Formed(next), Step(r, next)
  PROVE  Requested'
  BY DEF Requested, Step, Formed

LEMMA NoRequestFormed == Formed(NoRequest)
  BY DEF Formed, NoRequest

LEMMA InstantIsInt ==
  ASSUME NEW d \in Dates, NEW m \in Int
  PROVE  LocalToInstant(d, m) \in Int
  <1>1. d \in Nat /\ DayEnd \in Nat
    BY HoursAssumption DEF Dates
  <1>2. LengthOf(0) \in Int
    BY <1>1 DEF LengthOf
  <1>3. Midnight(d) \in Int
    BY <1>1, <1>2 DEF Midnight
  <1>4. QED
    BY <1>1, <1>3 DEF LocalToInstant

LEMMA EntryKeepsApart ==
  ASSUME Apart, NEW start \in Int, NEW s \in Services, NEW online, NEW r,
         ~Clashes(start, s), diary' = diary \cup {Entry(start, s, online, r)}
  PROVE  Apart'
  <1>1. PICK e : e = Entry(start, s, online, r)
    OBVIOUS
  <1>2. s.durationMin \in Nat /\ s.bufferBeforeMin \in Nat /\ s.bufferAfterMin \in Nat
    BY HoursAssumption
  <1>3. /\ e.from = Blocked(start, s).from /\ e.until = Blocked(start, s).until
        /\ e.from \in Int /\ e.until \in Int
    BY <1>1, <1>2 DEF Entry, Blocked
  <1>4. ASSUME NEW b \in diary
        PROVE  ~Overlaps(e.from, e.until, b.from, b.until)
    BY <1>3, <1>4 DEF Clashes
  <1>5. ASSUME NEW b \in diary
        PROVE  ~Overlaps(b.from, b.until, e.from, e.until)
    BY <1>3, <1>4, <1>5 DEF Apart, Overlaps
  <1>6. diary' = diary \cup {e}
    BY <1>1
  <1>7. QED
    BY <1>3, <1>4, <1>5, <1>6 DEF Apart, Overlaps

LEMMA AppointmentsKeep ==
  ASSUME HoursInv, Appointments
  PROVE  HoursInv'
  <1>1. UNCHANGED <<zone, now, hours, closures, overrides, adding, writes>>
    BY DEF Appointments, OwnerBooks, ReadHours, ReadClosures, ReadOverrides, Place, Unmoved
  <1>2. Typed' /\ Ids' /\ Checks'
    <2>1. Typed'
      BY <1>1 DEF HoursInv, Typed, Ordered, Weekdays
    <2>2. Ids'
      BY <1>1 DEF HoursInv, Ids, AllRows
    <2>3. Checks'
      BY <1>1 DEF HoursInv, Checks, Overlaps
    <2>4. QED
      BY <2>1, <2>2, <2>3
  <1>3. CASE \E d \in Dates, m \in 0 .. DayEnd - 1, s \in Services : OwnerBooks(d, m, s)
    <2>1. PICK d \in Dates, m \in 0 .. DayEnd - 1, s \in Services : OwnerBooks(d, m, s)
      BY <1>3
    <2>2. LocalToInstant(d, m) \in Int
      BY InstantIsInt, HoursAssumption
    <2>3. Apart'
      BY <2>1, <2>2, EntryKeepsApart DEF OwnerBooks, HoursInv
    <2>4. Requested'
      BY <2>1 DEF OwnerBooks, HoursInv, Requested, Formed
    <2>5. QED
      BY <1>2, <2>3, <2>4 DEF HoursInv
  <1>4. ASSUME NEW r \in Requests, NEW start \in Starts, NEW s \in Services, ReadHours(r, start, s)
        PROVE  HoursInv'
    <2>1. PICK d \in Dates, m \in 0 .. DayEnd - 1 : start = LocalToInstant(d, m)
      BY DEF Starts
    <2>2. start \in Int
      BY <2>1, InstantIsInt, HoursAssumption
    <2>3. Formed([NoRequest EXCEPT !.step = "closures", !.start = start, !.service = s,
                                   !.hours = hours, !.during = {Schedule}])
      BY <2>2 DEF Formed, NoRequest
    <2>4. Requested'
      BY <1>4, <2>3, StepKeeps DEF ReadHours, HoursInv
    <2>5. Apart'
      BY <1>4 DEF ReadHours, Unmoved, HoursInv, Apart, Overlaps
    <2>6. QED
      BY <1>2, <2>4, <2>5 DEF HoursInv
  <1>5. ASSUME NEW r \in Requests, ReadClosures(r) \/ ReadOverrides(r)
        PROVE  HoursInv'
    <2>1. PICK q : q = request[r]
      OBVIOUS
    <2>2. Formed(q) /\ q.step # "idle"
      BY <1>5, <2>1 DEF HoursInv, Requested, ReadClosures, ReadOverrides
    <2>3. ASSUME NEW C PROVE Formed([q EXCEPT !.step = "overrides", !.closures = C])
      BY <2>2 DEF Formed
    <2>4. Formed([q EXCEPT !.step = "place"])
      BY <2>2 DEF Formed
    <2>5. \E next : Formed(next) /\ Step(r, next)
      BY <1>5, <2>1, <2>3, <2>4, NoRequestFormed DEF ReadClosures, ReadOverrides
    <2>6. Requested'
      BY <2>5, StepKeeps DEF HoursInv
    <2>7. Apart'
      BY <1>5 DEF ReadClosures, ReadOverrides, Unmoved, HoursInv, Apart, Overlaps
    <2>8. QED
      BY <1>2, <2>6, <2>7 DEF HoursInv
  <1>6. ASSUME NEW r \in Requests, Place(r)
        PROVE  HoursInv'
    <2>1. request[r].start \in Int /\ request[r].service \in Services
      BY <1>6 DEF Place, HoursInv, Requested, Formed
    <2>2. Requested'
      BY <1>6, NoRequestFormed, StepKeeps DEF Place, HoursInv
    <2>3. Apart'
      <3>1. CASE Clashes(request[r].start, request[r].service)
        BY <1>6, <3>1 DEF Place, HoursInv, Apart, Overlaps
      <3>2. CASE ~Clashes(request[r].start, request[r].service)
        BY <1>6, <2>1, <3>2, EntryKeepsApart DEF Place, HoursInv
      <3>3. QED
        BY <3>1, <3>2
    <2>4. QED
      BY <1>2, <2>2, <2>3 DEF HoursInv
  <1>7. QED
    BY <1>3, <1>4, <1>5, <1>6 DEF Appointments

-----------------------------------------------------------------------------
(* The owner's changes.                                                    *)

\* What is taken out leaves the rest as it was.
LEMMA FewerRows ==
  ASSUME Typed, Ids, Checks, UNCHANGED zone, now' \in Nat,
         writes' \in Nat, writes <= writes',
         hours' \subseteq hours, closures' \subseteq closures, overrides' \subseteq overrides,
         adding' \subseteq adding
  PROVE  Typed' /\ Ids' /\ Checks'
  <1>1. Typed'
    BY DEF Typed, Ordered, Weekdays
  <1>2. AllRows' \subseteq AllRows /\ writes \in Nat
    BY DEF AllRows, Typed
  <1>3. Ids'
    BY <1>2 DEF Ids
  <1>4. Checks'
    BY <1>2 DEF Checks, Overlaps
  <1>5. QED
    BY <1>1, <1>3, <1>4

\* A row that is written takes an id of its own.
LEMMA OneMoreId ==
  ASSUME Typed, Ids, NEW row, row.id = writes, writes' = writes + 1,
         AllRows' \subseteq AllRows \cup {row}
  PROVE  Ids'
  BY DEF Typed, Ids

\* A range that passes parseTimeRange makes an ordered row.
LEMMA RangeIsOrdered ==
  ASSUME NEW range \in Ranges, ParseTimeRange(range),
         NEW row, row.start = range[1], row.end = range[2]
  PROVE  Ordered(row)
  <1>1. range[1] \in 0 .. DayEnd /\ range[2] \in 0 .. DayEnd /\ DayEnd \in Nat
    BY HoursAssumption DEF Minutes
  <1>2. QED
    BY <1>1 DEF ParseTimeRange, Ordered

LEMMA CheckKeeps ==
  ASSUME HoursInv, NEW w \in Weekdays, NEW range \in Ranges, CheckHours(w, range)
  PROVE  Typed' /\ Ids' /\ Checks'
  <1>1. PICK row : row = HoursRow(w, range)
    OBVIOUS
  <1>2. /\ row.id = writes /\ row.weekday = w /\ row.start = range[1] /\ row.end = range[2]
        /\ row.saw = {r.id : r \in hours}
    BY <1>1 DEF HoursRow
  <1>3. /\ adding' = adding \cup {row}
        /\ ParseTimeRange(range) /\ ~OverlapsExisting(range, Listed(w))
        /\ writes' = writes + 1 /\ writes \in Nat
        /\ UNCHANGED <<zone, now, hours, closures, overrides>>
    BY <1>1 DEF CheckHours, Write, HoursInv, Typed
  <1>4. Ordered(row)
    BY <1>2, <1>3, RangeIsOrdered
  <1>5. Typed'
    BY <1>2, <1>3, <1>4 DEF HoursInv, Typed, Ordered, Weekdays
  <1>6. Ids'
    BY <1>2, <1>3, OneMoreId DEF AllRows, HoursInv
  <1>7. /\ \A r \in hours \cup adding : r.id \in Int /\ r.id < writes
        /\ \A a \in adding, r \in hours : a.id # r.id
    BY DEF HoursInv, Ids, AllRows, Checks
  <1>8. Checks'
    <2>1. /\ \A a \in adding : a \notin hours
          /\ \A b \in hours \cup adding : \A i \in b.saw : i \in Int /\ i < writes
          /\ \A a \in adding, b \in hours \cup adding : a.id \notin b.saw
          /\ \A a \in hours, b \in hours \cup adding :
                (a # b /\ a.weekday = b.weekday /\ Overlaps(a.start, a.end, b.start, b.end))
                    => a.id \notin b.saw
      BY DEF HoursInv, Checks
    <2>2. row \notin hours
      BY <1>2, <1>3, <1>7
    <2>3. \A i \in row.saw : i \in Int /\ i < writes
      BY <1>2, <1>7
    <2>4. \A b \in hours \cup adding : row.id \notin b.saw
      BY <1>2, <1>3, <2>1
    <2>5. row.id \notin row.saw
      BY <1>2, <1>3, <2>3
    <2>6. \A a \in adding : a.id \notin row.saw
      BY <1>2, <1>7
    <2>7. ASSUME NEW a \in hours, a.weekday = w
          PROVE  ~Overlaps(a.start, a.end, row.start, row.end)
      <3>1. a.start \in Int /\ a.end \in Int /\ row.start \in Int /\ row.end \in Int
        <4>1. Ordered(a) /\ DayEnd \in Nat
          BY HoursAssumption DEF HoursInv, Typed
        <4>2. QED
          BY <1>4, <4>1 DEF Ordered
      <3>2. ~(range[1] < a.end /\ range[2] > a.start)
        BY <1>3, <2>7 DEF OverlapsExisting, Listed
      <3>3. QED
        BY <1>2, <3>1, <3>2 DEF Overlaps
    <2>8. /\ adding' = adding \cup {row} /\ hours' = hours
          /\ writes' = writes + 1 /\ writes \in Nat
      BY <1>3
    <2>9. \A b \in hours' \cup adding' : \A i \in b.saw : i \in Int /\ i < writes'
      BY <2>1, <2>3, <2>8
    <2>10. \A a \in adding', b \in hours' \cup adding' : a.id \notin b.saw
      BY <2>1, <2>4, <2>5, <2>6, <2>8
    <2>11. \A a \in hours', b \in hours' \cup adding' :
             (a # b /\ a.weekday = b.weekday /\ Overlaps(a.start, a.end, b.start, b.end))
                 => a.id \notin b.saw
      BY <1>2, <2>1, <2>7, <2>8
    <2>12. \A a \in adding' : a \notin hours'
      BY <2>1, <2>2, <2>8
    <2>13. QED
      BY <2>9, <2>10, <2>11, <2>12 DEF Checks, Overlaps
  <1>9. QED
    BY <1>5, <1>6, <1>8

\* A row checked some time ago is inserted as it was checked.
LEMMA InsertKeeps ==
  ASSUME HoursInv, NEW row \in adding, InsertHours(row)
  PROVE  Typed' /\ Ids' /\ Checks'
  <1>1. /\ adding' = adding \ {row} /\ hours' = hours \cup {row}
        /\ UNCHANGED <<zone, now, closures, overrides, writes>>
    BY DEF InsertHours
  <1>2. Typed'
    BY <1>1 DEF HoursInv, Typed, Ordered, Weekdays
  <1>3. AllRows' = AllRows
    BY <1>1 DEF AllRows
  <1>4. Ids'
    BY <1>1, <1>3 DEF HoursInv, Ids
  <1>5. \A a \in adding, b \in adding : a.id = b.id => a = b
    BY DEF HoursInv, Ids, AllRows
  <1>6. Checks'
    <2>1. hours' \cup adding' = hours \cup adding
      BY <1>1
    <2>2. \A a \in adding' : a \notin hours' /\ a \in adding
      BY <1>1 DEF HoursInv, Checks
    <2>3. \A a \in hours', b \in hours \cup adding :
            (a # b /\ a.weekday = b.weekday /\ Overlaps(a.start, a.end, b.start, b.end))
                => a.id \notin b.saw
      BY <1>1 DEF HoursInv, Checks
    <2>4. QED
      BY <1>1, <2>1, <2>2, <2>3 DEF HoursInv, Checks, Overlaps
  <1>7. QED
    BY <1>2, <1>4, <1>6

LEMMA AddKeeps ==
  ASSUME HoursInv, NEW d \in SpecialDates,
         \/ \E range \in Ranges \cup {<<None, None>>} : AddClosure(d, range)
         \/ \E range \in Ranges : AddDateOverride(d, range)
  PROVE  Typed' /\ Ids' /\ Checks'
  <1>0. d \in Dates /\ writes \in Nat
    BY HoursAssumption DEF HoursInv, Typed
  <1>1. ASSUME NEW range \in Ranges \cup {<<None, None>>}, AddClosure(d, range)
        PROVE  Typed' /\ Ids' /\ Checks'
    <2>1. PICK row : row = ClosureRow(d, range)
      OBVIOUS
    <2>2. row.id = writes /\ row.date = d /\ row.start = range[1] /\ row.end = range[2]
      BY <2>1 DEF ClosureRow
    <2>3. /\ closures' = closures \cup {row} /\ writes' = writes + 1
          /\ range[1] # None => ParseTimeRange(range)
          /\ UNCHANGED <<zone, now, hours, overrides, adding>>
      BY <1>1, <2>1 DEF AddClosure, Write
    <2>4. Ordered(row) \/ (row.start = None /\ row.end = None)
      <3>1. CASE range = <<None, None>>
        BY <2>2, <3>1
      <3>2. CASE range \in Ranges
        <4>1. range[1] # None
          BY <3>2, HoursAssumption
        <4>2. QED
          BY <2>2, <2>3, <3>2, <4>1, RangeIsOrdered
      <3>3. QED
        BY <3>1, <3>2
    <2>5. Typed'
      BY <1>0, <2>2, <2>3, <2>4 DEF HoursInv, Typed, Ordered, Weekdays
    <2>6. Ids'
      BY <2>2, <2>3, OneMoreId DEF AllRows, HoursInv
    <2>7. Checks'
      BY <1>0, <2>3 DEF HoursInv, Checks, Overlaps
    <2>8. QED
      BY <2>5, <2>6, <2>7
  <1>2. ASSUME NEW range \in Ranges, AddDateOverride(d, range)
        PROVE  Typed' /\ Ids' /\ Checks'
    <2>1. PICK row : row = OverrideRow(d, range)
      OBVIOUS
    <2>2. row.id = writes /\ row.date = d /\ row.start = range[1] /\ row.end = range[2]
      BY <2>1 DEF OverrideRow
    <2>3. /\ overrides' = overrides \cup {row} /\ writes' = writes + 1
          /\ ParseTimeRange(range)
          /\ UNCHANGED <<zone, now, hours, closures, adding>>
      BY <1>2, <2>1 DEF AddDateOverride, Write
    <2>4. Ordered(row)
      BY <2>2, <2>3, RangeIsOrdered
    <2>5. Typed'
      BY <1>0, <2>2, <2>3, <2>4 DEF HoursInv, Typed, Ordered, Weekdays
    <2>6. Ids'
      BY <2>2, <2>3, OneMoreId DEF AllRows, HoursInv
    <2>7. Checks'
      BY <1>0, <2>3 DEF HoursInv, Checks, Overlaps
    <2>8. QED
      BY <2>5, <2>6, <2>7
  <1>3. QED
    BY <1>1, <1>2

LEMMA OwnerKeeps ==
  ASSUME HoursInv, OwnerChanges
  PROVE  HoursInv'
  <1>1. Apart'
    <2>1. diary' = diary
      BY DEF OwnerChanges, CheckHours, InsertHours, DeleteWorkingHours, AddClosure, DeleteClosure,
             AddDateOverride, DeleteDateOverride
    <2>2. QED
      BY <2>1 DEF HoursInv, Apart, Overlaps
  <1>2. Requested'
    <2>1. Witnessed \/ request' = request
      BY DEF OwnerChanges, CheckHours, InsertHours, DeleteWorkingHours, AddClosure, DeleteClosure,
             AddDateOverride, DeleteDateOverride
    <2>2. CASE request' = request
      BY <2>2 DEF HoursInv, Requested, Formed
    <2>3. QED
      BY <2>1, <2>2, WitnessedKeeps DEF HoursInv
  <1>3. Typed' /\ Ids' /\ Checks'
    <2>1. CASE \/ \E row \in hours : DeleteWorkingHours(row)
               \/ \E row \in closures : DeleteClosure(row)
               \/ \E row \in overrides : DeleteDateOverride(row)
      <3>1. /\ hours' \subseteq hours /\ closures' \subseteq closures
            /\ overrides' \subseteq overrides /\ adding' \subseteq adding
            /\ writes' = writes + 1 /\ zone' = zone /\ now' = now
        BY <2>1 DEF DeleteWorkingHours, DeleteClosure, DeleteDateOverride, Write
      <3>2. writes \in Nat /\ now \in Nat
        BY DEF HoursInv, Typed
      <3>3. writes' \in Nat /\ writes <= writes' /\ now' \in Nat
        BY <3>1, <3>2
      <3>4. QED
        BY <3>1, <3>3, FewerRows DEF HoursInv
    <2>2. QED
      BY <2>1, CheckKeeps, InsertKeeps, AddKeeps DEF OwnerChanges
  <1>4. QED
    BY <1>1, <1>2, <1>3 DEF HoursInv

LEMMA HoursStep == HoursInv /\ [Next]_vars => HoursInv'
  <1> SUFFICES ASSUME HoursInv, [Next]_vars PROVE HoursInv'
    OBVIOUS
  <1>1. CASE Tick \/ UNCHANGED vars
    <2>1. /\ UNCHANGED <<zone, hours, closures, overrides, adding, diary, request, writes>>
          /\ now' \in Nat
      BY <1>1, HoursAssumption DEF Tick, vars, HoursInv, Typed
    <2>2. writes' \in Nat /\ writes <= writes'
      BY <2>1 DEF HoursInv, Typed
    <2>3. Typed' /\ Ids' /\ Checks'
      BY <2>1, <2>2, FewerRows DEF HoursInv
    <2>4. Apart' /\ Requested'
      BY <2>1 DEF HoursInv, Apart, Overlaps, Requested, Formed
    <2>5. QED
      BY <2>3, <2>4 DEF HoursInv
  <1>2. QED
    BY <1>1, OwnerKeeps, AppointmentsKeep DEF Next

-----------------------------------------------------------------------------
(* The theorems.                                                           *)

\* The inductive invariant of the schedule, its requests and its bookings.
THEOREM ScheduleInvariant == Spec => []HoursInv
  BY InitHolds, HoursStep, PTL DEF Spec

\* Rows of working hours, closures and one-off hours stay well formed under ids of their
\* own, and createBooking lets no two bookings share time, whatever the hours become.
THEOREM ScheduleTypeCorrect == Spec => []TypeOK
  <1>1. HoursInv => TypeOK
    BY DEF HoursInv, Typed, Ids, AllRows, Apart, Requested, Formed, TypeOK
  <1>2. QED
    BY <1>1, ScheduleInvariant, PTL

\* The check of addWorkingHoursAction and its INSERT are two steps: rows of one weekday
\* overlap only if neither check had listed the other row.
THEOREM RowsOverlapOnlyByRaceHolds == Spec => []RowsOverlapOnlyByRace
  <1>1. ASSUME HoursInv, NEW a \in hours, NEW b \in hours, a # b, a.weekday = b.weekday,
               Overlaps(a.start, a.end, b.start, b.end)
        PROVE  a.id \notin b.saw /\ b.id \notin a.saw
    <2>1. a.id \notin b.saw
      BY <1>1 DEF HoursInv, Checks
    <2>2. Ordered(a) /\ Ordered(b) /\ DayEnd \in Nat
      BY <1>1, HoursAssumption DEF HoursInv, Typed
    <2>3. Overlaps(b.start, b.end, a.start, a.end)
      BY <1>1, <2>2 DEF Overlaps, Ordered
    <2>4. b.id \notin a.saw
      BY <1>1, <2>3 DEF HoursInv, Checks
    <2>5. QED
      BY <2>1, <2>4
  <1>2. HoursInv => RowsOverlapOnlyByRace
    BY <1>1 DEF RowsOverlapOnlyByRace
  <1>3. QED
    BY <1>2, ScheduleInvariant, PTL
-----------------------------------------------------------------------------
(* Minutes in a row.                                                       *)

LEMMA SmallestNumber ==
  ASSUME NEW T, T \subseteq Nat, T # {}
  PROVE  \E k \in T : \A j \in T : k <= j
  <1>1. \E k \in T : \A j \in T : ~(<<j, k>> \in OpToRel(<, Nat))
    BY NatLessThanWellFounded, WFMin, Zenon
  <1>2. PICK k \in T : \A j \in T : ~(<<j, k>> \in OpToRel(<, Nat))
    BY <1>1
  <1>3. ASSUME NEW j \in T PROVE k <= j
    <2>1. j \in Nat /\ k \in Nat /\ ~(<<j, k>> \in OpToRel(<, Nat))
      BY <1>2
    <2>2. j < k => <<j, k>> \in OpToRel(<, Nat)
      BY <2>1 DEF OpToRel
    <2>3. ~(j < k)
      BY <2>1, <2>2, Zenon
    <2>4. j \in Nat /\ k \in Nat
      OBVIOUS
    <2>5. QED
      BY <2>3, <2>4
  <1>4. QED
    BY <1>3

\* The minutes from a to e - 1 are of the set, and those next to them are not.
Run(M, a, e) ==
  /\ a \in Int /\ e \in Int /\ a < e
  /\ \A m \in a .. e - 1 : m \in M
  /\ a - 1 \notin M /\ e \notin M

\* Every minute of a set is of one of its runs.
LEMMA RunAround ==
  ASSUME NEW n \in Nat, NEW M, M \subseteq 0 .. n - 1, NEW m \in M
  PROVE  \E a, e \in 0 .. n : a <= m /\ m < e /\ Run(M, a, e)
  <1> DEFINE After == {k \in 0 .. n : k > m /\ k \notin M}
             Down == {k \in 0 .. n : \A i \in m - k .. m : i \in M}
             Gap == {k \in 0 .. n : m - k - 1 \notin M}
  <1>0. m \in 0 .. n - 1
    OBVIOUS
  <1>1. n \in After
    BY <1>0
  <1>2. PICK e \in After : \A k \in After : e <= k
    <2>1. After \subseteq Nat /\ After # {}
      BY <1>1
    <2> HIDE DEF After
    <2>2. QED
      BY <2>1, SmallestNumber
  <1>3. m \in Gap
    BY <1>0
  <1>4. PICK g \in Gap : \A k \in Gap : g <= k
    <2>1. Gap \subseteq Nat /\ Gap # {}
      BY <1>3
    <2> HIDE DEF Gap
    <2>2. QED
      BY <2>1, SmallestNumber
  <1>5. g <= m /\ g \in Nat
    BY <1>0, <1>3, <1>4
  <1>6. ASSUME NEW i \in m - g .. e - 1 PROVE i \in M
    <2>1. CASE i > m
      <3>1. i \in 0 .. n /\ i < e
        BY <1>0, <1>2, <1>5, <2>1
      <3>2. i \notin After
        BY <1>2, <3>1
      <3>3. QED
        BY <2>1, <3>1, <3>2
    <2>2. CASE i < m
      <3>1. m - i - 1 \in 0 .. n /\ m - i - 1 < g
        BY <1>0, <1>2, <1>5, <2>2
      <3>2. m - i - 1 \notin Gap
        BY <1>4, <3>1
      <3>3. m - (m - i - 1) - 1 = i
        BY <1>0, <1>2, <1>5
      <3>4. QED
        BY <3>1, <3>2, <3>3
    <2>3. CASE i = m
      BY <2>3
    <2>4. QED
      BY <1>0, <1>2, <1>5, <2>1, <2>2, <2>3
  <1>7. m - g \in 0 .. n /\ e \in 0 .. n /\ m - g <= m /\ m < e
    BY <1>0, <1>2, <1>5
  <1>8. Run(M, m - g, e)
    <2>1. e \notin M
      BY <1>2
    <2>2. m - g - 1 \notin M
      BY <1>4
    <2>3. QED
      BY <1>6, <1>7, <2>1, <2>2 DEF Run
  <1>9. QED
    BY <1>7, <1>8

\* Two runs that share a minute are the same.
LEMMA RunsApart ==
  ASSUME NEW M, NEW a, NEW e, Run(M, a, e), NEW b, NEW f, Run(M, b, f),
         a < f, b < e
  PROVE  a = b /\ e = f
  <1>1. a \in Int /\ b \in Int /\ e \in Int /\ f \in Int /\ a < e /\ b < f
    BY DEF Run
  <1>2. ~(a < b)
    <2>1. a < b => b - 1 \in a .. e - 1
      BY <1>1
    <2>2. QED
      BY <2>1 DEF Run
  <1>3. ~(b < a)
    <2>1. b < a => a - 1 \in b .. f - 1
      BY <1>1
    <2>2. QED
      BY <2>1 DEF Run
  <1>4. ~(e < f)
    <2>1. e < f => e \in b .. f - 1
      BY <1>1
    <2>2. QED
      BY <2>1 DEF Run
  <1>5. ~(f < e)
    <2>1. f < e => f \in a .. e - 1
      BY <1>1
    <2>2. QED
      BY <2>1 DEF Run
  <1>6. QED
    BY <1>1, <1>2, <1>3, <1>4, <1>5

-----------------------------------------------------------------------------
(* Days and their minutes.                                                 *)
LEMMA Products ==
  ASSUME NEW D \in Nat, NEW j \in Nat, NEW k \in Nat, j <= k
  PROVE  j * D \in Nat /\ j * D <= k * D /\ (j + 1) * D = j * D + D
  <1>1. PICK i \in Nat : k = j + i
    <2>1. k - j \in Nat /\ k = j + (k - j)
      OBVIOUS
    <2>2. QED
      BY <2>1
  <1>2. i * D \in Nat /\ j * D \in Nat
    OBVIOUS
  <1>3. (j + i) * D = j * D + i * D
    OBVIOUS
  <1>4. QED
    BY <1>1, <1>2, <1>3

LEMMA DaysFollow ==
  ASSUME Typed, NEW d \in Nat, NEW f \in Nat
  PROVE  /\ Midnight(d) \in Nat /\ Midnight(d + 1) \in Nat /\ LengthOf(d) \in Nat \ {0}
         /\ Midnight(d + 1) = Midnight(d) + LengthOf(d)
         /\ d < f => Midnight(d + 1) <= Midnight(f)
  <1>1. DayEnd \in Nat /\ DayEnd >= 3 /\ LengthOf(0) \in Nat \ {0}
    BY HoursAssumption DEF Typed, LengthOf
  <1>2. ASSUME NEW k \in Nat PROVE Midnight(k + 1) = LengthOf(0) + k * DayEnd
    BY <1>1, <1>2 DEF Midnight
  <1>3. Midnight(0) = 0
    BY DEF Midnight
  <1>4. LengthOf(d) = (IF d = 0 THEN LengthOf(0) ELSE DayEnd)
    BY DEF LengthOf
  <1>5. d * DayEnd \in Nat /\ Midnight(d + 1) = LengthOf(0) + d * DayEnd
    BY <1>1, <1>2, Products
  <1>6. CASE d = 0
    <2>1. Midnight(d + 1) = Midnight(d) + LengthOf(d)
      BY <1>1, <1>3, <1>4, <1>5, <1>6
    <2>2. QED
      <3>1. ASSUME 0 < f PROVE LengthOf(0) <= Midnight(f)
        <4>1. f - 1 \in Nat /\ (f - 1) + 1 = f
          BY <3>1
        <4>2. Midnight(f) = LengthOf(0) + (f - 1) * DayEnd
          BY <1>2, <4>1
        <4>3. (f - 1) * DayEnd \in Nat
          BY <1>1, <4>1, Products
        <4>4. QED
          BY <1>1, <4>2, <4>3
      <3>2. QED
        BY <1>1, <1>3, <1>4, <1>6, <2>1, <3>1
  <1>7. CASE d # 0
    <2>1. d - 1 \in Nat /\ (d - 1) + 1 = d
      BY <1>7
    <2>2. Midnight(d) = LengthOf(0) + (d - 1) * DayEnd
      BY <1>2, <2>1
    <2>3. (d - 1) * DayEnd \in Nat /\ d * DayEnd = (d - 1) * DayEnd + DayEnd
      BY <1>1, <2>1, Products
    <2>4. Midnight(d) \in Nat /\ Midnight(d + 1) = Midnight(d) + LengthOf(d)
      BY <1>1, <1>4, <1>5, <1>7, <2>2, <2>3
    <2>5. ASSUME d < f PROVE Midnight(d + 1) <= Midnight(f)
      <3>1. f - 1 \in Nat /\ (f - 1) + 1 = f /\ d <= f - 1
        BY <2>5
      <3>2. Midnight(f) = LengthOf(0) + (f - 1) * DayEnd
        BY <1>2, <3>1
      <3>3. d * DayEnd <= (f - 1) * DayEnd /\ (f - 1) * DayEnd \in Nat
        BY <1>1, <3>1, Products
      <3>4. QED
        BY <1>1, <1>5, <3>2, <3>3
    <2>6. QED
      BY <1>1, <1>4, <1>5, <1>7, <2>4, <2>5
  <1>8. QED
    BY <1>6, <1>7

\* An instant of a day is of no other day.
LEMMA DayOf ==
  ASSUME Typed, NEW d \in 0 .. LastDate + 1, NEW i \in Int, Midnight(d) <= i, i < Midnight(d + 1)
  PROVE  InstantToDateKey(i) = d
  <1>0. LastDate \in Nat
    BY HoursAssumption
  <1> DEFINE Holds(k) == i >= Midnight(k) /\ i < Midnight(k + 1)
  <1>1. Holds(d) /\ d \in 0 .. LastDate + 2
    BY <1>0
  <1>2. ASSUME NEW k \in 0 .. LastDate + 2, Holds(k) PROVE k = d
    <2>1. k \in Nat /\ d \in Nat
      BY <1>0
    <2>2. Midnight(k) \in Nat /\ Midnight(k + 1) \in Nat /\ (k < d => Midnight(k + 1) <= Midnight(d))
      BY <2>1, DaysFollow
    <2>3. Midnight(d) \in Nat /\ Midnight(d + 1) \in Nat /\ (d < k => Midnight(d + 1) <= Midnight(k))
      BY <2>1, DaysFollow
    <2>4. QED
      BY <1>1, <1>2, <2>1, <2>2, <2>3
  <1>3. InstantToDateKey(i) = CHOOSE k \in 0 .. LastDate + 2 : Holds(k)
    BY DEF InstantToDateKey
  <1> HIDE DEF Holds
  <1>4. QED
    BY <1>1, <1>2, <1>3

\* A minute that exists on a date is shown by the clock at the instant it is taken for.
LEMMA ThereAndBack ==
  ASSUME Typed, NEW d \in Dates, NEW m \in Int, Exists(d, m)
  PROVE  /\ LocalToInstant(d, m) \in Int
         /\ InstantToDateKey(LocalToInstant(d, m)) = d
         /\ InstantToMinutes(LocalToInstant(d, m)) = m
         /\ d # 0 \/ zone = "plain" => LocalToInstant(d, m) = Midnight(d) + m
  <1> DEFINE i == LocalToInstant(d, m)
  <1>1. /\ d \in Nat /\ d \in 0 .. LastDate + 1 /\ DayEnd \in Nat /\ ChangeAt \in 1 .. DayEnd - 2
        /\ zone \in {"plain", "spring", "fall"} /\ m \in 0 .. DayEnd - 1
    BY HoursAssumption DEF Dates, Typed, Exists
  <1>2. /\ Midnight(d) \in Nat /\ Midnight(d + 1) = Midnight(d) + LengthOf(d)
        /\ LengthOf(d) \in Nat
    BY <1>1, DaysFollow
  <1>3. i \in Int /\ Midnight(d) <= i /\ i < Midnight(d) + LengthOf(d)
    BY <1>1, <1>2 DEF LocalToInstant, LengthOf, Exists
  <1>4. InstantToDateKey(i) = d
    <2> HIDE DEF i
    <2>1. QED
      BY <1>1, <1>2, <1>3, DayOf
  <1>5. InstantToMinutes(i) = m
    BY <1>1, <1>2, <1>4 DEF InstantToMinutes, LocalToInstant, Exists
  <1>6. d # 0 \/ zone = "plain" => i = Midnight(d) + m
    BY DEF LocalToInstant
  <1>7. QED
    BY <1>3, <1>4, <1>5, <1>6

\* Later minutes of a date are later instants.
LEMMA LaterMinute ==
  ASSUME Typed, NEW d \in Dates, NEW m \in Int, NEW n \in Int, Exists(d, m), Exists(d, n), m < n
  PROVE  LocalToInstant(d, m) < LocalToInstant(d, n)
  <1>1. /\ d \in Nat /\ DayEnd \in Nat /\ ChangeAt \in 1 .. DayEnd - 2
        /\ zone \in {"plain", "spring", "fall"} /\ Midnight(d) \in Nat
    BY HoursAssumption, DaysFollow DEF Dates, Typed
  <1>2. QED
    BY <1>1 DEF LocalToInstant, Exists
-----------------------------------------------------------------------------
(* The windows of a date are the runs of the minutes its rows leave open.  *)

Windows == [row : Int, start : Minutes, end : Minutes]

\* What a closed stretch leaves of a set of minutes.
Without(M, c) == {m \in M : ~(c.start <= m /\ m < c.end)}

\* What a closure leaves of a run is a run of the minutes that remain.
LEMMA CutIsRuns ==
  ASSUME NEW M, M \subseteq 0 .. DayEnd - 1, NEW c, Ordered(c),
         NEW w \in Windows, Run(M, w.start, w.end), NEW p \in Cut(w, c)
  PROVE  p \in Windows /\ p.row = w.row /\ Run(Without(M, c), p.start, p.end)
  <1>1. /\ DayEnd \in Nat /\ c.start \in 0 .. DayEnd - 1 /\ c.end \in 1 .. DayEnd /\ c.start < c.end
        /\ w.row \in Int /\ w.start \in 0 .. DayEnd /\ w.end \in 0 .. DayEnd /\ w.start < w.end
        /\ w = [row |-> w.row, start |-> w.start, end |-> w.end]
    BY HoursAssumption DEF Ordered, Windows, Minutes, Run
  <1>2. /\ \A m \in w.start .. w.end - 1 : m \in M
        /\ w.start - 1 \notin M /\ w.end \notin M
    BY DEF Run
  <1>3. PICK a, e : a = p.start /\ e = p.end
    OBVIOUS
  <1>4. CASE c.end <= w.start \/ c.start >= w.end
    <2>1. p = w
      BY <1>4 DEF Cut
    <2>2. \A m \in w.start .. w.end - 1 : m \in Without(M, c)
      BY <1>1, <1>2, <1>4 DEF Without
    <2>3. QED
      BY <1>1, <1>2, <2>1, <2>2 DEF Run, Without
  <1>5. CASE ~(c.end <= w.start \/ c.start >= w.end)
    <2>1. /\ p.start < p.end
          /\ p = Window(w.row, w.start, c.start) \/ p = Window(w.row, c.end, w.end)
      BY <1>5 DEF Cut
    <2>2. CASE p = Window(w.row, w.start, c.start)
      <3>1. p \in Windows /\ p.row = w.row /\ p.start = w.start /\ p.end = c.start /\ w.start < c.start
        BY <1>1, <2>1, <2>2 DEF Window, Windows, Minutes
      <3>2. \A m \in w.start .. c.start - 1 : m \in Without(M, c)
        BY <1>1, <1>2, <1>5 DEF Without
      <3>3. QED
        BY <1>1, <1>2, <3>1, <3>2 DEF Run, Without
    <2>3. CASE p = Window(w.row, c.end, w.end)
      <3>1. p \in Windows /\ p.row = w.row /\ p.start = c.end /\ p.end = w.end /\ c.end < w.end
        BY <1>1, <2>1, <2>3 DEF Window, Windows, Minutes
      <3>2. \A m \in c.end .. w.end - 1 : m \in Without(M, c)
        BY <1>1, <1>2, <1>5 DEF Without
      <3>3. c.end - 1 \notin Without(M, c)
        BY <1>1 DEF Without
      <3>4. QED
        BY <1>1, <1>2, <3>1, <3>2, <3>3 DEF Run, Without
    <2>4. QED
      BY <2>1, <2>2, <2>3
  <1>6. QED
    BY <1>4, <1>5

\* A run of the minutes that remain is left over from a run of those there were.
LEMMA RunsAreCut ==
  ASSUME NEW M, M \subseteq 0 .. DayEnd - 1, NEW c, Ordered(c),
         NEW p \in Windows, Run(Without(M, c), p.start, p.end)
  PROVE  \E w \in Windows : w.row = p.row /\ Run(M, w.start, w.end) /\ p \in Cut(w, c)
  <1>1. PICK a, e, row : a = p.start /\ e = p.end /\ row = p.row
    OBVIOUS
  <1>2. /\ DayEnd \in Nat /\ c.start \in 0 .. DayEnd - 1 /\ c.end \in 1 .. DayEnd /\ c.start < c.end
        /\ row \in Int /\ a \in 0 .. DayEnd /\ e \in 0 .. DayEnd /\ a < e
        /\ p = Window(row, a, e)
    BY <1>1, HoursAssumption DEF Ordered, Windows, Minutes, Run, Window
  <1>3. /\ \A m \in a .. e - 1 : m \in M /\ ~(c.start <= m /\ m < c.end)
        /\ \A m \in {a - 1, e} : m \in M => c.start <= m /\ m < c.end
    BY <1>1 DEF Run, Without
  <1>4. a \in M /\ ~(c.start <= a /\ a < c.end)
    BY <1>2, <1>3
  <1>5. PICK u \in 0 .. DayEnd, v \in 0 .. DayEnd : u <= a /\ a < v /\ Run(M, u, v)
    BY <1>2, <1>4, RunAround
  <1>6. /\ \A m \in u .. v - 1 : m \in M
        /\ u - 1 \notin M /\ v \notin M
    BY <1>5 DEF Run
  <1>7. e <= v
    BY <1>2, <1>3, <1>5, <1>6
  <1>8. a > u => c.start <= a - 1 /\ a - 1 < c.end
    BY <1>2, <1>3, <1>5, <1>6
  <1>9. e < v => c.start <= e /\ e < c.end
    BY <1>2, <1>3, <1>5, <1>6
  <1>10. ~(a <= c.start /\ c.start < e) /\ ~(a < c.end /\ c.end - 1 >= a /\ c.end <= e)
    BY <1>2, <1>3
  <1>11. PICK w : w = Window(row, u, v)
    OBVIOUS
  <1>12. w \in Windows /\ w.row = row /\ w.start = u /\ w.end = v
    BY <1>2, <1>5, <1>11 DEF Window, Windows, Minutes
  <1>13. CASE c.end <= u \/ c.start >= v
    <2>1. a = u /\ e = v
      BY <1>2, <1>5, <1>7, <1>8, <1>9, <1>13
    <2>2. QED
      BY <1>1, <1>2, <1>5, <1>11, <1>12, <1>13, <2>1 DEF Cut
  <1>14. CASE ~(c.end <= u \/ c.start >= v)
    <2>1. (a = u /\ e = c.start) \/ (a = c.end /\ e = v)
      BY <1>2, <1>4, <1>5, <1>7, <1>8, <1>9, <1>10, <1>14
    <2>2. p \in Cut(w, c)
      BY <1>2, <1>12, <1>14, <2>1 DEF Cut, Window
    <2>3. QED
      BY <1>1, <1>5, <1>12, <2>2
  <1>15. QED
    BY <1>13, <1>14

\* What the first n closures leave of a row.
Remain(r, shut, n) ==
  {m \in r.start .. r.end - 1 : \A j \in 1 .. n : ~(shut[j].start <= m /\ m < shut[j].end)}

WindowsOf(R, shut, n) ==
  {w \in Windows : \E r \in R : w.row = r.id /\ Run(Remain(r, shut, n), w.start, w.end)}

\* Before any closure, the one run of a row is the row.
LEMMA RowsAreRuns ==
  ASSUME NEW R, \A r \in R : Ordered(r) /\ r.id \in Int, NEW shut
  PROVE  {Window(r.id, r.start, r.end) : r \in R} = WindowsOf(R, shut, 0)
  <1>0. DayEnd \in Nat
    BY HoursAssumption
  <1>1. ASSUME NEW r \in R, NEW a \in Int, NEW e \in Int
        PROVE  Run(Remain(r, shut, 0), a, e) <=> a = r.start /\ e = r.end
    <2>1. r.start \in 0 .. DayEnd - 1 /\ r.end \in 1 .. DayEnd /\ r.start < r.end
      BY DEF Ordered
    <2>2. Remain(r, shut, 0) = r.start .. r.end - 1
      BY DEF Remain
    <2>3. Run(r.start .. r.end - 1, r.start, r.end)
      BY <1>0, <2>1 DEF Run
    <2>4. ASSUME Run(r.start .. r.end - 1, a, e) PROVE a = r.start /\ e = r.end
      <3>1. a < e /\ a \in r.start .. r.end - 1
        BY <2>4 DEF Run
      <3>2. a < r.end /\ r.start < e
        BY <1>0, <2>1, <3>1
      <3>3. QED
        BY <2>3, <2>4, <3>2, RunsApart
    <2>5. QED
      BY <2>2, <2>3, <2>4
  <1>2. ASSUME NEW r \in R
        PROVE  Window(r.id, r.start, r.end) \in WindowsOf(R, shut, 0)
    <2>1. r.start \in Minutes /\ r.end \in Minutes /\ r.id \in Int /\ r.start \in Int /\ r.end \in Int
      BY <1>0 DEF Ordered, Minutes
    <2>2. PICK w : w = Window(r.id, r.start, r.end)
      OBVIOUS
    <2>3. w \in Windows /\ w.row = r.id /\ w.start = r.start /\ w.end = r.end
      BY <2>1, <2>2 DEF Window, Windows
    <2>4. Run(Remain(r, shut, 0), w.start, w.end)
      BY <1>1, <2>1, <2>3
    <2>5. QED
      BY <2>2, <2>3, <2>4 DEF WindowsOf
  <1>3. ASSUME NEW w \in WindowsOf(R, shut, 0)
        PROVE  \E r \in R : w = Window(r.id, r.start, r.end)
    <2>1. PICK r \in R : w.row = r.id /\ Run(Remain(r, shut, 0), w.start, w.end)
      BY DEF WindowsOf
    <2>2. w = [row |-> w.row, start |-> w.start, end |-> w.end] /\ w.start \in Int /\ w.end \in Int
      BY <1>0 DEF WindowsOf, Windows, Minutes
    <2>3. w.start = r.start /\ w.end = r.end
      BY <1>1, <2>1, <2>2
    <2>4. QED
      BY <2>1, <2>2, <2>3 DEF Window
  <1>4. QED
    BY <1>2, <1>3

\* Taking one closure more out of the runs leaves the runs with one closure more.
LEMMA CutAgain ==
  ASSUME NEW R, \A r \in R : Ordered(r), NEW shut, NEW n \in Nat \ {0}, Ordered(shut[n])
  PROVE  UNION {Cut(w, shut[n]) : w \in WindowsOf(R, shut, n - 1)} = WindowsOf(R, shut, n)
  <1>0. DayEnd \in Nat
    BY HoursAssumption
  <1>1. ASSUME NEW r \in R
        PROVE  /\ Remain(r, shut, n - 1) \subseteq 0 .. DayEnd - 1
               /\ Remain(r, shut, n) = Without(Remain(r, shut, n - 1), shut[n])
    <2>1. r.start \in 0 .. DayEnd - 1 /\ r.end \in 1 .. DayEnd
      BY DEF Ordered
    <2>2. 1 .. n = (1 .. n - 1) \cup {n}
      OBVIOUS
    <2>3. Remain(r, shut, n - 1) \subseteq 0 .. DayEnd - 1
      BY <1>0, <2>1 DEF Remain
    <2>4. QED
      BY <2>2, <2>3 DEF Remain, Without
  <1>2. ASSUME NEW w \in WindowsOf(R, shut, n - 1), NEW p \in Cut(w, shut[n])
        PROVE  p \in WindowsOf(R, shut, n)
    <2>1. PICK r \in R : w.row = r.id /\ Run(Remain(r, shut, n - 1), w.start, w.end)
      BY DEF WindowsOf
    <2>2. w \in Windows
      BY DEF WindowsOf
    <2>3. p \in Windows /\ p.row = w.row /\ Run(Remain(r, shut, n), p.start, p.end)
      BY <1>1, <2>1, <2>2, CutIsRuns
    <2>4. QED
      BY <2>1, <2>3 DEF WindowsOf
  <1>3. ASSUME NEW p \in WindowsOf(R, shut, n)
        PROVE  \E w \in WindowsOf(R, shut, n - 1) : p \in Cut(w, shut[n])
    <2>1. PICK r \in R : p.row = r.id /\ Run(Remain(r, shut, n), p.start, p.end)
      BY DEF WindowsOf
    <2>2. p \in Windows
      BY DEF WindowsOf
    <2>3. PICK w \in Windows : /\ w.row = p.row /\ Run(Remain(r, shut, n - 1), w.start, w.end)
                               /\ p \in Cut(w, shut[n])
      BY <1>1, <2>1, <2>2, RunsAreCut
    <2>4. QED
      BY <2>1, <2>3 DEF WindowsOf
  <1>4. QED
    BY <1>2, <1>3

\* A set is listed once and whole.
LEMMA ListOfSet ==
  ASSUME NEW S, IsFiniteSet(S)
  PROVE  /\ Cardinality(S) \in Nat /\ SetToSeq(S) \in [1 .. Cardinality(S) -> S]
         /\ Len(SetToSeq(S)) = Cardinality(S)
         /\ \A c \in S : \E i \in 1 .. Cardinality(S) : SetToSeq(S)[i] = c
  <1> DEFINE n == Cardinality(S)
             Lists == {f \in [1 .. n -> S] : IsInjective(f)}
  <1>1. n \in Nat /\ ExistsBijection(1 .. n, S)
    BY FS_CardinalityType
  <1>2. PICK g \in Lists : TRUE
    BY <1>1 DEF ExistsBijection, Bijection, Injection
  <1>3. SetToSeq(S) = CHOOSE f \in [1 .. n -> S] : IsInjective(f)
    BY DEF SetToSeq
  <1>4. SetToSeq(S) \in Injection(1 .. n, S)
    BY <1>2, <1>3 DEF Injection
  <1>5. IsFiniteSet(1 .. n) /\ Cardinality(1 .. n) = n
    BY <1>1, FS_Interval
  <1>6. SetToSeq(S) \in Surjection(1 .. n, S)
    BY <1>1, <1>4, <1>5, FS_Injection
  <1>7. SetToSeq(S) \in [1 .. n -> S] /\ \A c \in S : \E i \in 1 .. n : SetToSeq(S)[i] = c
    BY <1>6 DEF Surjection
  <1>8. Len(SetToSeq(S)) = n
    BY <1>1, <1>7
  <1>9. QED
    BY <1>1, <1>7, <1>8

\* The loop over the closures, started with the rows.
Loop(R, shut, size, left) ==
  left = [n \in 0 .. size |->
            IF n = 0 THEN {Window(r.id, r.start, r.end) : r \in R}
            ELSE UNION {Cut(w, shut[n]) : w \in left[n - 1]}]

\* It leaves the runs of the rows.
LEMMA LoopLeavesRuns ==
  ASSUME NEW R, \A r \in R : Ordered(r) /\ r.id \in Int, NEW shut, NEW size \in Nat,
         \A n \in 1 .. size : Ordered(shut[n]),
         NEW left, Loop(R, shut, size, left)
  PROVE  left[size] = WindowsOf(R, shut, size)
  <1> DEFINE Bad == {n \in 0 .. size : left[n] # WindowsOf(R, shut, n)}
  <1>1. ASSUME Bad # {} PROVE FALSE
    <2>1. PICK n \in Bad : \A k \in Bad : n <= k
      <3>1. Bad \subseteq Nat
        OBVIOUS
      <3> HIDE DEF Bad
      <3>2. QED
        BY <1>1, <3>1, SmallestNumber
    <2>2. n \in 0 .. size /\ left[n] # WindowsOf(R, shut, n)
      OBVIOUS
    <2>3. CASE n = 0
      <3>1. left[0] = {Window(r.id, r.start, r.end) : r \in R}
        BY DEF Loop
      <3>2. QED
        BY <2>2, <2>3, <3>1, RowsAreRuns
    <2>4. CASE n # 0
      <3>1. n - 1 \in 0 .. size /\ n \in Nat \ {0} /\ n \in 1 .. size /\ ~(n <= n - 1)
        BY <2>2, <2>4
      <3>2. n - 1 \notin Bad
        <4> HIDE DEF Bad
        <4>1. QED
          BY <2>1, <3>1
      <3>3. left[n - 1] = WindowsOf(R, shut, n - 1)
        BY <3>1, <3>2
      <3>4. left[n] = UNION {Cut(w, shut[n]) : w \in left[n - 1]}
        BY <2>2, <2>4 DEF Loop
      <3>5. QED
        BY <2>2, <3>1, <3>3, <3>4, CutAgain
    <2>5. QED
      BY <2>3, <2>4
  <1>2. size \in 0 .. size
    OBVIOUS
  <1>3. QED
    BY <1>1, <1>2

\* There is what the loop defines.
LEMMA LoopEnds ==
  ASSUME NEW R, \A r \in R : Ordered(r) /\ r.id \in Int, NEW shut, NEW size \in Nat,
         \A n \in 1 .. size : Ordered(shut[n])
  PROVE  \E left : Loop(R, shut, size, left)
  <1> DEFINE left == [n \in 0 .. size |-> WindowsOf(R, shut, n)]
  <1>1. ASSUME NEW n \in 0 .. size
        PROVE  left[n] = IF n = 0 THEN {Window(r.id, r.start, r.end) : r \in R}
                         ELSE UNION {Cut(w, shut[n]) : w \in left[n - 1]}
    <2>1. CASE n = 0
      BY <2>1, RowsAreRuns
    <2>2. CASE n # 0
      <3>1. n - 1 \in 0 .. size /\ n \in Nat \ {0} /\ n \in 1 .. size
        BY <2>2
      <3>2. left[n - 1] = WindowsOf(R, shut, n - 1)
        BY <3>1
      <3>3. QED
        BY <2>2, <3>1, <3>2, CutAgain
    <2>3. QED
      BY <2>1, <2>2
  <1>2. left = [n \in 0 .. size |-> left[n]]
    OBVIOUS
  <1> HIDE DEF left
  <1>3. [n \in 0 .. size |-> left[n]]
          = [n \in 0 .. size |->
               IF n = 0 THEN {Window(r.id, r.start, r.end) : r \in R}
               ELSE UNION {Cut(w, shut[n]) : w \in left[n - 1]}]
    BY <1>1, Zenon
  <1>4. QED
    BY <1>2, <1>3, Zenon DEF Loop

\* A schedule as its rows are typed.
WellFormed(sch) ==
  /\ IsFiniteSet(sch.hours) /\ IsFiniteSet(sch.closures) /\ IsFiniteSet(sch.overrides)
  /\ \A r \in sch.hours \cup sch.overrides : Ordered(r) /\ r.id \in Int
  /\ \A a, b \in sch.hours \cup sch.overrides : a.id = b.id => a = b
  /\ \A c \in sch.closures : Ordered(c) \/ (c.start = None /\ c.end = None)

\* The minutes of a row that are open.
OpenMinutes(sch, d, r) == {m \in Minutes : OpenIn(sch, d, r, m)}

\* The windows of a date are, of each row, the longest stretches it is open.
LEMMA WindowsAreRuns ==
  ASSUME NEW sch, WellFormed(sch), NEW d \in Dates
  PROVE  OpenWindows(sch, d) = {w \in Windows : \E r \in RowsFor(sch, d) :
                                   w.row = r.id /\ Run(OpenMinutes(sch, d, r), w.start, w.end)}
  <1> DEFINE shutSet == {c \in sch.closures : c.date = d}
             shut == SetToSeq(shutSet)
             size == Len(shut)
             R == RowsFor(sch, d)
             left == CHOOSE f : Loop(R, shut, size, f)
  <1>1. OpenWindows(sch, d) = IF \E i \in DOMAIN shut : shut[i].start = None THEN {}
                              ELSE {w \in left[size] : w.end > w.start}
    BY DEF OpenWindows, Loop
  <1>2. IsFiniteSet(shutSet)
    BY FS_Subset DEF WellFormed
  <1>3. /\ size \in Nat /\ shut \in [1 .. size -> shutSet] /\ DOMAIN shut = 1 .. size
        /\ \A c \in shutSet : \E i \in 1 .. size : shut[i] = c
    <2> HIDE DEF shutSet
    <2>1. QED
      BY <1>2, ListOfSet
  <1>4. \A r \in R : Ordered(r) /\ r.id \in Int
    BY DEF WellFormed, RowsFor
  <1>5. DayEnd \in Nat /\ None \notin Minutes
    BY HoursAssumption
  <1>6. CASE \E i \in DOMAIN shut : shut[i].start = None
    <2>1. \E c \in sch.closures : c.date = d /\ c.start = None
      BY <1>3, <1>6
    <2>2. \A r : OpenMinutes(sch, d, r) = {}
      BY <2>1 DEF OpenMinutes, OpenIn, Shut
    <2>3. \A r, a, e : ~Run(OpenMinutes(sch, d, r), a, e)
      <3>1. SUFFICES ASSUME NEW a, NEW e, Run({}, a, e) PROVE FALSE
        BY <2>2
      <3>2. a \in a .. e - 1
        BY <3>1 DEF Run
      <3>3. QED
        BY <3>1, <3>2 DEF Run
    <2>4. QED
      BY <1>1, <1>6, <2>3
  <1>7. CASE ~\E i \in DOMAIN shut : shut[i].start = None
    <2>1. \A n \in 1 .. size : Ordered(shut[n])
      BY <1>3, <1>7 DEF WellFormed
    <2>2. \A c \in shutSet : c.start # None
      BY <1>3, <1>7
    <2>3. Loop(R, shut, size, left)
      <3>1. \E f : Loop(R, shut, size, f)
        <4>1. size \in Nat
          BY <1>3
        <4> HIDE DEF shut, R, size
        <4>2. QED
          BY <1>4, <2>1, <4>1, LoopEnds
      <3> HIDE DEF shut, R, size
      <3>2. QED
        BY <3>1
    <2>4. left[size] = WindowsOf(R, shut, size)
      <3> HIDE DEF shut, R, size, left
      <3>1. QED
        BY <1>3, <1>4, <2>1, <2>3, LoopLeavesRuns
    <2>5. ASSUME NEW r \in R
          PROVE  Remain(r, shut, size) = OpenMinutes(sch, d, r)
      <3>1. r.start \in 0 .. DayEnd - 1 /\ r.end \in 1 .. DayEnd
        BY <1>4 DEF Ordered
      <3>2. ASSUME NEW m \in r.start .. r.end - 1
            PROVE  (\E j \in 1 .. size : shut[j].start <= m /\ m < shut[j].end) <=> Shut(sch, d, m)
        BY <1>3, <2>2 DEF Shut
      <3> HIDE DEF shut, R, size
      <3>3. QED
        BY <1>5, <3>1, <3>2 DEF Remain, OpenMinutes, OpenIn, Minutes
    <2>6. \A w \in WindowsOf(R, shut, size) : w.end > w.start
      BY DEF WindowsOf, Run
    <2>7. QED
      <3>1. OpenWindows(sch, d) = WindowsOf(R, shut, size)
        BY <1>1, <1>7, <2>4, <2>6
      <3>2. QED
        BY <2>5, <3>1 DEF WindowsOf
  <1>8. QED
    BY <1>6, <1>7
-----------------------------------------------------------------------------
(* What the generator finds, and the order it lists it in.                 *)

\* No two windows of a row begin together.
Distinct(ws) == \A v, w \in ws : (v.row = w.row /\ v.start = w.start) => v = w

\* The order in which the loops reach the candidates is a strict total order.
LEMMA OrderIsTotal ==
  ASSUME NEW ws, ws \subseteq Windows, Distinct(ws),
         NEW S, S \subseteq [window : ws, min : Int]
  PROVE  /\ \A a \in S : ~Before(a, a)
         /\ \A a, b \in S : a # b => Before(a, b) \/ Before(b, a)
         /\ \A a, b, c \in S : Before(a, b) /\ Before(b, c) => Before(a, c)
  <1>1. ASSUME NEW a \in S
        PROVE  /\ a.window \in ws /\ a.min \in Int /\ a.window.start \in Int /\ a.window.row \in Int
               /\ a = [window |-> a.window, min |-> a.min]
    BY HoursAssumption DEF Windows, Minutes
  <1>2. \A a \in S : ~Before(a, a)
    BY <1>1 DEF Before
  <1>3. ASSUME NEW a \in S, NEW b \in S, a # b
        PROVE  Before(a, b) \/ Before(b, a)
    <2>1. CASE a.window.start = b.window.start /\ a.window.row = b.window.row
      <3>1. a.window = b.window
        BY <1>1, <2>1 DEF Distinct
      <3>2. a.min # b.min
        BY <1>1, <1>3, <3>1
      <3>3. QED
        BY <1>1, <3>1, <3>2 DEF Before
    <2>2. CASE ~(a.window.start = b.window.start /\ a.window.row = b.window.row)
      BY <1>1, <2>2 DEF Before
    <2>3. QED
      BY <2>1, <2>2
  <1>4. ASSUME NEW a \in S, NEW b \in S, NEW c \in S, Before(a, b), Before(b, c)
        PROVE  Before(a, c)
    <2>1. /\ a.min \in Int /\ b.min \in Int /\ c.min \in Int
          /\ a.window.start \in Int /\ b.window.start \in Int /\ c.window.start \in Int
          /\ a.window.row \in Int /\ b.window.row \in Int /\ c.window.row \in Int
      BY <1>1
    <2>2. QED
      BY <1>4, <2>1 DEF Before
  <1>5. QED
    BY <1>2, <1>3, <1>4

\* Ranked by how many come before it, every member of a finite set has a place of its own.
LEMMA ListedInOrder ==
  ASSUME NEW S, IsFiniteSet(S),
         \A a \in S : ~Before(a, a),
         \A a, b \in S : a # b => Before(a, b) \/ Before(b, a),
         \A a, b, c \in S : Before(a, b) /\ Before(b, c) => Before(a, c)
  PROVE  /\ Cardinality(S) \in Nat /\ InOrder(S) \in [1 .. Cardinality(S) -> S]
         /\ \A c \in S : \E i \in 1 .. Cardinality(S) : InOrder(S)[i] = c
         /\ \A i, j \in 1 .. Cardinality(S) : i < j => Before(InOrder(S)[i], InOrder(S)[j])
  <1> DEFINE n == Cardinality(S)
             Lower(c) == {x \in S : Before(x, c)}
             Rank(c) == Cardinality(Lower(c))
             rank == [c \in S |-> Rank(c)]
  <1>1. n \in Nat
    BY FS_CardinalityType
  <1>2. ASSUME NEW c \in S
        PROVE  IsFiniteSet(Lower(c)) /\ Rank(c) \in Nat /\ Rank(c) \in 0 .. n - 1
    <2>1. Lower(c) \in SUBSET S /\ Lower(c) # S
      OBVIOUS
    <2> HIDE DEF Lower
    <2>2. IsFiniteSet(Lower(c)) /\ Rank(c) <= n /\ Rank(c) # n
      BY <2>1, FS_Subset
    <2>3. Rank(c) \in Nat
      BY <2>2, FS_CardinalityType
    <2> HIDE DEF Rank, n
    <2>4. QED
      BY <1>1, <2>2, <2>3
  <1>3. ASSUME NEW a \in S, NEW c \in S, Before(a, c) PROVE Rank(a) < Rank(c)
    <2>1. Lower(a) \in SUBSET Lower(c) /\ Lower(a) # Lower(c)
      <3>1. a \in Lower(c) /\ a \notin Lower(a)
        BY <1>3
      <3>2. \A x \in Lower(a) : x \in Lower(c)
        BY <1>3
      <3>3. QED
        BY <3>1, <3>2
    <2> HIDE DEF Lower
    <2>2. IsFiniteSet(Lower(c)) /\ Rank(a) \in Nat /\ Rank(c) \in Nat
      BY <1>2
    <2>3. Rank(a) <= Rank(c) /\ Rank(a) # Rank(c)
      BY <2>1, <2>2, FS_Subset
    <2>4. QED
      BY <2>2, <2>3
  <1>4. ASSUME NEW a \in S, NEW c \in S, Rank(a) = Rank(c) PROVE a = c
    <2> HIDE DEF Rank
    <2>1. Rank(a) \in Nat /\ Rank(c) \in Nat
      BY <1>2
    <2>2. ~(Rank(a) < Rank(c)) /\ ~(Rank(c) < Rank(a))
      BY <1>4, <2>1
    <2>3. QED
      BY <1>3, <2>2
  <1>5. \A k \in 0 .. n - 1 : \E c \in S : Rank(c) = k
    <2>1. rank \in [S -> 0 .. n - 1] /\ \A a, c \in S : rank[a] = rank[c] => a = c
      BY <1>2, <1>4
    <2>2. rank \in Injection(S, 0 .. n - 1)
      <3> HIDE DEF rank
      <3>1. QED
        BY <2>1 DEF Injection, IsInjective
    <2>3. IsFiniteSet(0 .. n - 1) /\ Cardinality(0 .. n - 1) = n
      BY <1>1, FS_Interval
    <2>4. rank \in Surjection(S, 0 .. n - 1)
      <3> HIDE DEF rank
      <3>1. QED
        BY <2>2, <2>3, FS_Injection
    <2>5. \A k \in 0 .. n - 1 : \E c \in S : rank[c] = k
      BY <2>4 DEF Surjection
    <2>6. QED
      BY <2>5
  <1>6. InOrder(S) = [i \in 1 .. n |-> CHOOSE c \in S : Rank(c) = i - 1]
    BY DEF InOrder
  <1> HIDE DEF Rank, n
  <1>7. ASSUME NEW i \in 1 .. n
        PROVE  InOrder(S)[i] \in S /\ Rank(InOrder(S)[i]) = i - 1
    <2>1. i - 1 \in 0 .. n - 1
      BY <1>1
    <2>2. PICK c \in S : Rank(c) = i - 1
      BY <1>5, <2>1
    <2>3. InOrder(S)[i] = CHOOSE x \in S : Rank(x) = i - 1
      BY <1>6
    <2>4. QED
      BY <2>2, <2>3
  <1>8. ASSUME NEW c \in S PROVE \E i \in 1 .. n : InOrder(S)[i] = c
    <2>1. Rank(c) + 1 \in 1 .. n /\ (Rank(c) + 1) - 1 = Rank(c)
      <3>1. Rank(c) \in 0 .. n - 1
        BY <1>2
      <3>2. QED
        BY <1>1, <3>1
    <2>2. QED
      BY <1>4, <1>7, <2>1
  <1>9. ASSUME NEW i \in 1 .. n, NEW j \in 1 .. n, i < j
        PROVE  Before(InOrder(S)[i], InOrder(S)[j])
    <2>1. PICK a \in S, b \in S : /\ a = InOrder(S)[i] /\ b = InOrder(S)[j]
                                  /\ Rank(a) = i - 1 /\ Rank(b) = j - 1
      BY <1>7
    <2>2. Rank(a) < Rank(b) /\ ~(Rank(b) < Rank(a)) /\ a # b
      BY <1>1, <1>9, <2>1
    <2>3. QED
      BY <1>3, <2>1, <2>2
  <1>10. InOrder(S) \in [1 .. n -> S]
    BY <1>6, <1>7
  <1>11. QED
    BY <1>1, <1>8, <1>9, <1>10 DEF n

\* The rows of a date are those that count for it.
LEMMA RowsCount ==
  ASSUME NEW sch, WellFormed(sch), NEW d, NEW r
  PROVE  r \in RowsFor(sch, d) <=> r \in sch.hours \cup sch.overrides /\ Counts(sch, d, r)
  BY DEF RowsFor, Counts

\* A row that counts is well formed, and open only between its start and its end.
LEMMA RowFacts ==
  ASSUME NEW sch, WellFormed(sch), NEW d, NEW r \in RowsFor(sch, d)
  PROVE  /\ DayEnd \in Nat /\ Ordered(r) /\ r.id \in Int
         /\ r.start \in 0 .. DayEnd - 1 /\ r.end \in 1 .. DayEnd /\ r.start < r.end
         /\ OpenMinutes(sch, d, r) \subseteq 0 .. DayEnd - 1
         /\ OpenMinutes(sch, d, r) \subseteq r.start .. r.end - 1
         /\ \A m \in Int : OpenIn(sch, d, r, m) <=> m \in OpenMinutes(sch, d, r)
  <1>1. DayEnd \in Nat /\ Ordered(r) /\ r.id \in Int
    BY RowsCount, HoursAssumption DEF WellFormed
  <1>2. r.start \in 0 .. DayEnd - 1 /\ r.end \in 1 .. DayEnd /\ r.start < r.end
    BY <1>1 DEF Ordered
  <1>3. QED
    BY <1>1, <1>2 DEF OpenMinutes, OpenIn, Minutes

\* Every window is a stretch of one day and is told by its row and its start.
LEMMA WindowsOfRows ==
  ASSUME NEW sch, WellFormed(sch), NEW d \in Dates
  PROVE  /\ OpenWindows(sch, d) \subseteq Windows /\ Distinct(OpenWindows(sch, d))
         /\ \A w \in OpenWindows(sch, d) :
              /\ w.start \in Int /\ w.end \in Int /\ w.start < w.end
              /\ 0 <= w.start /\ w.end <= DayEnd
              /\ \E r \in RowsFor(sch, d) :
                   w.row = r.id /\ Run(OpenMinutes(sch, d, r), w.start, w.end)
  <1>0. DayEnd \in Nat
    BY HoursAssumption
  <1>1. ASSUME NEW w \in OpenWindows(sch, d)
        PROVE  /\ w \in Windows
               /\ \E r \in RowsFor(sch, d) :
                    w.row = r.id /\ Run(OpenMinutes(sch, d, r), w.start, w.end)
    BY WindowsAreRuns
  <1>2. ASSUME NEW w \in OpenWindows(sch, d)
        PROVE  /\ w.start \in Int /\ w.end \in Int /\ w.start < w.end
               /\ 0 <= w.start /\ w.end <= DayEnd
    <2>1. w.start \in 0 .. DayEnd /\ w.end \in 0 .. DayEnd
      BY <1>1 DEF Windows, Minutes
    <2>2. w.start < w.end
      BY <1>1 DEF Run
    <2>3. QED
      BY <1>0, <2>1, <2>2
  <1>3. ASSUME NEW v \in OpenWindows(sch, d), NEW w \in OpenWindows(sch, d),
               v.row = w.row, v.start = w.start
        PROVE  v = w
    <2>1. PICK r \in RowsFor(sch, d) : v.row = r.id /\ Run(OpenMinutes(sch, d, r), v.start, v.end)
      BY <1>1
    <2>2. PICK q \in RowsFor(sch, d) : w.row = q.id /\ Run(OpenMinutes(sch, d, q), w.start, w.end)
      BY <1>1
    <2>3. q = r
      BY <1>3, <2>1, <2>2, RowsCount DEF WellFormed
    <2>4. v.start < w.end /\ w.start < v.end
      BY <1>2, <1>3
    <2>5. v.end = w.end
      BY <2>1, <2>2, <2>3, <2>4, RunsApart
    <2>6. v \in Windows /\ w \in Windows
      BY <1>1
    <2>7. QED
      BY <1>3, <2>5, <2>6 DEF Windows
  <1>4. QED
    BY <1>1, <1>2, <1>3 DEF Distinct

\* A minute is found when it exists and the definition says that the appointment fits.
LEMMA FoundIsFit ==
  ASSUME NEW sch, WellFormed(sch), NEW d \in Dates, NEW s \in Services, NEW m
  PROVE  (\E c \in Candidates(OpenWindows(sch, d), d, s) : c.min = m)
           <=> m \in 0 .. DayEnd - 1 /\ Exists(d, m) /\ Fits(sch, d, m, s)
  <1>0. DayEnd \in Nat /\ s.durationMin \in Nat \ {0}
    BY HoursAssumption
  <1>1. ASSUME NEW c \in Candidates(OpenWindows(sch, d), d, s), c.min = m
        PROVE  m \in 0 .. DayEnd - 1 /\ Exists(d, m) /\ Fits(sch, d, m, s)
    <2>1. /\ c.window \in OpenWindows(sch, d) /\ m \in 0 .. DayEnd - 1 /\ Exists(d, m)
          /\ m \in c.window.start .. c.window.end - s.durationMin
          /\ (m - c.window.start) % Granularity = 0
      BY <1>1 DEF Candidates
    <2>2. PICK a, e : a = c.window.start /\ e = c.window.end
      OBVIOUS
    <2>3. PICK r \in RowsFor(sch, d) : Run(OpenMinutes(sch, d, r), a, e)
      BY <2>1, <2>2, WindowsOfRows
    <2>4. a \in Int /\ e \in Int /\ 0 <= a /\ m \in a .. e - s.durationMin
      BY <2>1, <2>2, WindowsOfRows
    <2>5. \A k \in a .. e - 1 : OpenIn(sch, d, r, k)
      BY <2>3, <2>4, RowFacts DEF Run
    <2>6. ~OpenIn(sch, d, r, a - 1)
      BY <2>3, <2>4, RowFacts DEF Run
    <2>7. \A k \in m .. m + s.durationMin - 1 : OpenIn(sch, d, r, k)
      BY <1>0, <2>4, <2>5
    <2>8. a \in 0 .. m /\ \A k \in a .. m : OpenIn(sch, d, r, k)
      BY <1>0, <2>1, <2>4, <2>5
    <2>9. r \in sch.hours \cup sch.overrides /\ Counts(sch, d, r)
      BY RowsCount
    <2>10. Fits(sch, d, m, s)
      BY <2>1, <2>2, <2>6, <2>7, <2>8, <2>9 DEF Fits
    <2>11. QED
      BY <2>1, <2>10
  <1>2. ASSUME m \in 0 .. DayEnd - 1, Exists(d, m), Fits(sch, d, m, s)
        PROVE  \E c \in Candidates(OpenWindows(sch, d), d, s) : c.min = m
    <2>1. PICK r \in sch.hours \cup sch.overrides :
            /\ Counts(sch, d, r)
            /\ \A k \in m .. m + s.durationMin - 1 : OpenIn(sch, d, r, k)
            /\ \E first \in 0 .. m : /\ \A k \in first .. m : OpenIn(sch, d, r, k)
                                     /\ ~OpenIn(sch, d, r, first - 1)
                                     /\ (m - first) % Granularity = 0
      BY <1>2 DEF Fits
    <2>2. PICK first \in 0 .. m : /\ \A k \in first .. m : OpenIn(sch, d, r, k)
                                  /\ ~OpenIn(sch, d, r, first - 1)
                                  /\ (m - first) % Granularity = 0
      BY <2>1
    <2>3. r \in RowsFor(sch, d)
      BY <2>1, RowsCount
    <2>4. PICK M : M = OpenMinutes(sch, d, r)
      OBVIOUS
    <2>5. M \subseteq 0 .. DayEnd - 1 /\ \A k \in Int : OpenIn(sch, d, r, k) <=> k \in M
      BY <2>3, <2>4, RowFacts
    <2>6. m \in M
      BY <1>0, <1>2, <2>1, <2>5
    <2>7. PICK a \in 0 .. DayEnd, e \in 0 .. DayEnd : a <= m /\ m < e /\ Run(M, a, e)
      BY <1>0, <2>5, <2>6, RunAround
    <2>8. /\ \A k \in a .. e - 1 : k \in M
          /\ a - 1 \notin M /\ e \notin M
      BY <2>7 DEF Run
    <2>9. a = first
      <3>1. ~(a < first)
        <4>1. a < first => first - 1 \in a .. e - 1
          BY <1>2, <2>7
        <4>2. QED
          BY <1>2, <2>2, <2>5, <2>8, <4>1
      <3>2. ~(first < a)
        <4>1. first < a => a - 1 \in first .. m
          BY <1>2, <2>7
        <4>2. QED
          BY <1>2, <2>2, <2>5, <2>8, <4>1
      <3>3. QED
        BY <1>2, <2>7, <3>1, <3>2
    <2>10. m + s.durationMin <= e
      <3>1. e < m + s.durationMin => e \in m .. m + s.durationMin - 1
        BY <1>0, <1>2, <2>7
      <3>2. QED
        BY <1>0, <1>2, <2>1, <2>5, <2>7, <2>8, <3>1
    <2>11. PICK w : w = [row |-> r.id, start |-> a, end |-> e]
      OBVIOUS
    <2>12. w.row = r.id /\ w.start = a /\ w.end = e /\ w \in Windows
      BY <2>3, <2>7, <2>11, RowFacts DEF Windows, Minutes
    <2>13. w \in OpenWindows(sch, d)
      BY <2>3, <2>4, <2>7, <2>12, WindowsAreRuns
    <2>14. PICK c : c = [window |-> w, min |-> m]
      OBVIOUS
    <2>15. c.window = w /\ c.min = m
      BY <2>14
    <2>16. c \in [window : OpenWindows(sch, d), min : 0 .. DayEnd - 1]
      BY <1>2, <2>13, <2>14
    <2>17. m \in a .. e - s.durationMin /\ (m - a) % Granularity = 0
      BY <1>0, <1>2, <2>2, <2>7, <2>9, <2>10
    <2>18. c \in Candidates(OpenWindows(sch, d), d, s)
      BY <1>2, <2>12, <2>15, <2>16, <2>17 DEF Candidates
    <2>19. QED
      BY <2>15, <2>18
  <1>3. QED
    BY <1>1, <1>2

\* A day has finitely many candidates.
LEMMA FoundIsFinite ==
  ASSUME NEW sch, WellFormed(sch), NEW d \in Dates, NEW s \in Services
  PROVE  /\ IsFiniteSet(Candidates(OpenWindows(sch, d), d, s))
         /\ Candidates(OpenWindows(sch, d), d, s) \subseteq [window : OpenWindows(sch, d), min : Int]
  <1> DEFINE C == Candidates(OpenWindows(sch, d), d, s)
             R == RowsFor(sch, d)
             ids == {r.id : r \in R}
             named == [r \in R |-> r.id]
             target == ids \X (Minutes \X Minutes)
             placed == [c \in C |-> <<c.window.row, <<c.window.start, c.min>>>>]
  <1>0. DayEnd \in Nat
    BY HoursAssumption
  <1>1. IsFiniteSet(R)
    <2>1. IsFiniteSet(sch.hours) /\ IsFiniteSet(sch.overrides)
      BY DEF WellFormed
    <2>2. R \in SUBSET sch.hours \/ R \in SUBSET sch.overrides
      BY DEF RowsFor
    <2> HIDE DEF R
    <2>3. QED
      BY <2>1, <2>2, FS_Subset
  <1>2. IsFiniteSet(ids)
    <2>1. named \in Surjection(R, ids)
      BY DEF Surjection
    <2> HIDE DEF named, ids, R
    <2>2. QED
      BY <1>1, <2>1, FS_Surjection
  <1>3. IsFiniteSet(target)
    <2>1. IsFiniteSet(Minutes)
      BY <1>0, FS_Interval DEF Minutes
    <2>2. IsFiniteSet(Minutes \X Minutes)
      BY <2>1, FS_Product
    <2> HIDE DEF ids
    <2>3. QED
      BY <1>2, <2>2, FS_Product
  <1>4. ASSUME NEW c \in C
        PROVE  /\ c = [window |-> c.window, min |-> c.min]
               /\ c.window \in OpenWindows(sch, d) /\ c.min \in Minutes /\ c.min \in Int
               /\ c.window.row \in ids /\ c.window.start \in Minutes
    <2>1. /\ c = [window |-> c.window, min |-> c.min]
          /\ c.window \in OpenWindows(sch, d) /\ c.min \in 0 .. DayEnd - 1
      BY DEF Candidates
    <2>2. c.window.row \in ids /\ c.window.start \in Minutes
      BY <2>1, WindowsOfRows DEF Windows
    <2>3. QED
      BY <1>0, <2>1, <2>2 DEF Minutes
  <1>5. placed \in [C -> target]
    BY <1>4
  <1>6. ASSUME NEW b \in C, NEW c \in C, placed[b] = placed[c] PROVE b = c
    <2>1. b.window.row = c.window.row /\ b.window.start = c.window.start /\ b.min = c.min
      BY <1>6
    <2>2. b.window = c.window
      BY <1>4, <2>1, WindowsOfRows DEF Distinct
    <2>3. QED
      BY <1>4, <2>1, <2>2
  <1>7. placed \in Injection(C, target)
    <2> HIDE DEF placed, C, target
    <2>1. QED
      BY <1>5, <1>6 DEF Injection, IsInjective
  <1>8. IsFiniteSet(C)
    <2> HIDE DEF placed, C, target
    <2>1. QED
      BY <1>3, <1>7, FS_Injection
  <1>9. QED
    BY <1>4, <1>8

\* What the day lists: each time found that is neither too soon nor taken, in the order
\* of the windows and, within one, of the minutes.
Listing(sch, d, s, day, n, list) ==
  LET found == Candidates(OpenWindows(sch, d), d, s)
      free(c) == LocalToInstant(d, c.min) >= EarliestStart /\ ~Clashes(LocalToInstant(d, c.min), s)
  IN  /\ list \in [1 .. n -> {c \in found : free(c)}]
      /\ \A c \in found : free(c) => \E i \in 1 .. n : list[i] = c
      /\ \A i, j \in 1 .. n : i < j => Before(list[i], list[j])
      /\ day.slots = [i \in 1 .. n |-> LocalToInstant(d, list[i].min)]
      /\ day.state = "closed" <=> OpenWindows(sch, d) = {}
      /\ day.state = "open" <=> n # 0

\* A day that can be booked is a listing of its free candidates.
LEMMA DayLists ==
  ASSUME NEW sch, WellFormed(sch), NEW d \in Dates, NEW s \in Services, ~(d > LastBookableDay),
         NEW day, day = Generate(sch, d, s)
  PROVE  \E n \in Nat : \E list : Listing(sch, d, s, day, n, list)
  <1> DEFINE C == Candidates(OpenWindows(sch, d), d, s)
             start(c) == LocalToInstant(d, c.min)
             Free == {c \in C : start(c) >= EarliestStart /\ ~Clashes(start(c), s)}
             n == Cardinality(Free)
             list == InOrder(Free)
             slots == [i \in DOMAIN list |-> start(list[i])]
             withheld == \E c \in C : start(c) < EarliestStart
  <1>1. IsFiniteSet(Free) /\ Free \subseteq [window : OpenWindows(sch, d), min : Int]
    <2>1. IsFiniteSet(C) /\ C \subseteq [window : OpenWindows(sch, d), min : Int]
      BY FoundIsFinite
    <2>2. Free \in SUBSET C
      OBVIOUS
    <2> HIDE DEF C, Free
    <2>3. QED
      BY <2>1, <2>2, FS_Subset
  <1>2. /\ n \in Nat /\ list \in [1 .. n -> Free]
        /\ \A c \in Free : \E i \in 1 .. n : list[i] = c
        /\ \A i, j \in 1 .. n : i < j => Before(list[i], list[j])
    <2>1. /\ \A a \in Free : ~Before(a, a)
          /\ \A a, b \in Free : a # b => Before(a, b) \/ Before(b, a)
          /\ \A a, b, c \in Free : Before(a, b) /\ Before(b, c) => Before(a, c)
      <3> HIDE DEF Free
      <3>1. OpenWindows(sch, d) \subseteq Windows /\ Distinct(OpenWindows(sch, d))
        BY WindowsOfRows
      <3>2. QED
        BY <1>1, <3>1, OrderIsTotal
    <2> HIDE DEF Free
    <2>2. QED
      BY <1>1, <2>1, ListedInOrder
  <1>3. day = IF OpenWindows(sch, d) = {} THEN [state |-> "closed", slots |-> <<>>]
              ELSE [slots |-> slots,
                    state |-> IF slots # <<>> THEN "open" ELSE IF withheld THEN "too_soon" ELSE "full"]
    BY DEF Generate
  <1>4. DOMAIN list = 1 .. n /\ slots = [i \in 1 .. n |-> start(list[i])]
    BY <1>2
  <1>5. slots = <<>> <=> n = 0
    <2> HIDE DEF n, list
    <2>1. n = 0 => 1 .. n = {}
      OBVIOUS
    <2>2. n # 0 => 1 \in 1 .. n
      BY <1>2
    <2>3. DOMAIN slots = 1 .. n /\ DOMAIN (<<>>) = {}
      BY <1>4
    <2>4. slots = [i \in DOMAIN slots |-> slots[i]]
      OBVIOUS
    <2>5. ASSUME DOMAIN slots = {} PROVE slots = <<>>
      BY <1>4, <2>3, <2>5
    <2> HIDE DEF slots
    <2>6. QED
      BY <1>2, <2>1, <2>2, <2>3, <2>5
  <1>6. OpenWindows(sch, d) = {} => n = 0
    <2>1. OpenWindows(sch, d) = {} => Free = {}
      BY DEF Candidates
    <2> HIDE DEF Free
    <2>2. QED
      BY <1>1, <2>1, FS_EmptySet
  <1>7. day.slots = slots
    <2> HIDE DEF slots
    <2>1. QED
      BY <1>3, <1>5, <1>6
  <1>8. /\ day.state = "closed" <=> OpenWindows(sch, d) = {}
        /\ day.state = "open" <=> n # 0
    <2> HIDE DEF slots, withheld, n
    <2>1. QED
      BY <1>3, <1>5, <1>6
  <1>9. day.slots = [i \in 1 .. n |-> LocalToInstant(d, list[i].min)]
    BY <1>4, <1>7
  <1>10. Listing(sch, d, s, day, n, list)
    <2> HIDE DEF n, list
    <2>1. QED
      BY <1>2, <1>8, <1>9 DEF Listing
  <1> HIDE DEF n, list
  <1>11. QED
    BY <1>2, <1>10

\* The slots of a day are the free ones of the times its rows mean.
LEMMA SlotsAreBookable ==
  ASSUME NEW sch, WellFormed(sch), NEW d \in Dates, NEW s \in Services, ~(d > LastBookableDay)
  PROVE  Range(Generate(sch, d, s).slots)
           = {i \in Bookable(sch, d, s) : i >= EarliestStart /\ ~Clashes(i, s)}
  <1> DEFINE C == Candidates(OpenWindows(sch, d), d, s)
             start(c) == LocalToInstant(d, c.min)
  <1>1. PICK day : day = Generate(sch, d, s)
    OBVIOUS
  <1>2. PICK n \in Nat : \E list : Listing(sch, d, s, day, n, list)
    BY <1>1, DayLists
  <1>3. PICK list :
           /\ day.slots = [i \in 1 .. n |-> start(list[i])]
           /\ list \in [1 .. n -> {c \in C : start(c) >= EarliestStart /\ ~Clashes(start(c), s)}]
           /\ \A c \in C : (start(c) >= EarliestStart /\ ~Clashes(start(c), s))
                             => \E i \in 1 .. n : list[i] = c
    BY <1>2 DEF Listing
  <1>4. Range(day.slots) = {start(list[i]) : i \in 1 .. n}
    BY <1>3 DEF Range
  <1>5. \A m : (\E c \in C : c.min = m) <=> m \in 0 .. DayEnd - 1 /\ Exists(d, m) /\ Fits(sch, d, m, s)
    BY FoundIsFit
  <1> HIDE DEF C
  <1>6. ASSUME NEW i \in 1 .. n
        PROVE  /\ start(list[i]) \in Bookable(sch, d, s)
               /\ start(list[i]) >= EarliestStart /\ ~Clashes(start(list[i]), s)
    <2>1. list[i] \in C /\ start(list[i]) >= EarliestStart /\ ~Clashes(start(list[i]), s)
      BY <1>3
    <2>2. PICK m : m = list[i].min
      OBVIOUS
    <2>3. m \in 0 .. DayEnd - 1 /\ Exists(d, m) /\ Fits(sch, d, m, s)
      BY <1>5, <2>1, <2>2
    <2>4. LocalToInstant(d, m) \in Bookable(sch, d, s)
      BY <2>3 DEF Bookable
    <2>5. QED
      BY <2>1, <2>2, <2>4
  <1>7. ASSUME NEW t \in Bookable(sch, d, s), t >= EarliestStart, ~Clashes(t, s)
        PROVE  \E i \in 1 .. n : t = start(list[i])
    <2>1. PICK m \in 0 .. DayEnd - 1 : Exists(d, m) /\ Fits(sch, d, m, s) /\ t = LocalToInstant(d, m)
      BY DEF Bookable
    <2>2. PICK c \in C : c.min = m
      BY <1>5, <2>1
    <2>3. start(c) = t
      BY <2>1, <2>2
    <2>4. QED
      BY <1>3, <1>7, <2>3
  <1>8. QED
    BY <1>1, <1>4, <1>6, <1>7

\* No window is left exactly when no minute of the day is open.
LEMMA ClosedIsShut ==
  ASSUME NEW sch, WellFormed(sch), NEW d \in Dates
  PROVE  OpenWindows(sch, d) = {} <=>
           ~\E m \in 0 .. DayEnd - 1 : \E row \in sch.hours \cup sch.overrides :
               Counts(sch, d, row) /\ OpenIn(sch, d, row, m)
  <1>0. DayEnd \in Nat
    BY HoursAssumption
  <1>1. ASSUME NEW w \in OpenWindows(sch, d)
        PROVE  \E m \in 0 .. DayEnd - 1 : \E row \in sch.hours \cup sch.overrides :
                 Counts(sch, d, row) /\ OpenIn(sch, d, row, m)
    <2>1. PICK r \in RowsFor(sch, d) : Run(OpenMinutes(sch, d, r), w.start, w.end)
      BY WindowsOfRows
    <2>2. PICK m : m = w.start
      OBVIOUS
    <2>3. m \in OpenMinutes(sch, d, r)
      BY <2>1, <2>2 DEF Run
    <2>4. m \in 0 .. DayEnd - 1 /\ OpenIn(sch, d, r, m)
      BY <1>0, <2>3, RowFacts
    <2>5. QED
      BY <2>4, RowsCount
  <1>2. ASSUME NEW m \in 0 .. DayEnd - 1, NEW row \in sch.hours \cup sch.overrides,
               Counts(sch, d, row), OpenIn(sch, d, row, m)
        PROVE  OpenWindows(sch, d) # {}
    <2>1. row \in RowsFor(sch, d)
      BY <1>2, RowsCount
    <2>2. PICK M : M = OpenMinutes(sch, d, row)
      OBVIOUS
    <2>3. M \subseteq 0 .. DayEnd - 1 /\ m \in M
      BY <1>0, <1>2, <2>1, <2>2, RowFacts
    <2>4. PICK a \in 0 .. DayEnd, e \in 0 .. DayEnd : Run(M, a, e)
      BY <1>0, <2>3, RunAround
    <2>5. PICK w : w = [row |-> row.id, start |-> a, end |-> e]
      OBVIOUS
    <2>6. w.row = row.id /\ w.start = a /\ w.end = e /\ w \in Windows
      BY <2>1, <2>4, <2>5, RowFacts DEF Windows, Minutes
    <2>7. w \in OpenWindows(sch, d)
      BY <2>1, <2>2, <2>4, <2>6, WindowsAreRuns
    <2>8. QED
      BY <2>7
  <1>3. QED
    BY <1>1, <1>2

\* While no two rows of the date overlap, what is listed first is earlier.
LEMMA ListedEarlier ==
  ASSUME NEW sch, WellFormed(sch), NEW d \in Dates, NEW s \in Services,
         NEW a \in Candidates(OpenWindows(sch, d), d, s),
         NEW b \in Candidates(OpenWindows(sch, d), d, s), Before(a, b),
         \A p, q \in RowsFor(sch, d) : p # q => ~Overlaps(p.start, p.end, q.start, q.end)
  PROVE  a.min < b.min
  <1>0. DayEnd \in Nat /\ s.durationMin \in Nat \ {0}
    BY HoursAssumption
  <1>1. PICK v, w : v = a.window /\ w = b.window
    OBVIOUS
  <1>2. /\ v \in OpenWindows(sch, d) /\ w \in OpenWindows(sch, d)
        /\ a.min \in v.start .. v.end - s.durationMin
        /\ b.min \in w.start .. w.end - s.durationMin
    BY <1>1 DEF Candidates
  <1>3. /\ v.start \in Int /\ v.end \in Int /\ v.start < v.end
        /\ w.start \in Int /\ w.end \in Int /\ w.start < w.end
    BY <1>2, WindowsOfRows
  <1>4. PICK p \in RowsFor(sch, d) : v.row = p.id /\ Run(OpenMinutes(sch, d, p), v.start, v.end)
    BY <1>2, WindowsOfRows
  <1>5. PICK q \in RowsFor(sch, d) : w.row = q.id /\ Run(OpenMinutes(sch, d, q), w.start, w.end)
    BY <1>2, WindowsOfRows
  <1>6. p.id \in Int /\ q.id \in Int
    BY RowFacts
  <1>7. CASE v = w
    <2>1. a.min < b.min
      BY <1>1, <1>3, <1>6, <1>4, <1>7 DEF Before
    <2>2. QED
      BY <2>1
  <1>8. CASE v # w
    <2>1. v.start <= w.start
      BY <1>1, <1>3, <1>8 DEF Before
    <2>2. v.end <= w.start
      <3>1. CASE p = q
        <4>1. v.row = w.row /\ ~(v.row < w.row)
          BY <1>4, <1>5, <1>6, <3>1
        <4>2. v.start < w.start
          BY <1>1, <1>8, <4>1 DEF Before
        <4>3. ~(w.start < v.end)
          <5>1. ASSUME w.start < v.end PROVE FALSE
            <6>1. v.start < w.end
              BY <1>3, <4>2
            <6>2. v.start = w.start
              BY <1>4, <1>5, <3>1, <5>1, <6>1, RunsApart
            <6>3. QED
              BY <1>3, <4>2, <6>2
          <5>2. QED
            BY <5>1
        <4>4. QED
          BY <1>3, <4>3
      <3>2. CASE p # q
        <4>1. /\ v.start \in p.start .. p.end - 1 /\ v.end - 1 \in p.start .. p.end - 1
              /\ w.start \in q.start .. q.end - 1 /\ w.end - 1 \in q.start .. q.end - 1
          <5>1. v.start \in v.start .. v.end - 1 /\ v.end - 1 \in v.start .. v.end - 1
            BY <1>3
          <5>2. w.start \in w.start .. w.end - 1 /\ w.end - 1 \in w.start .. w.end - 1
            BY <1>3
          <5>3. /\ v.start \in OpenMinutes(sch, d, p) /\ v.end - 1 \in OpenMinutes(sch, d, p)
                /\ w.start \in OpenMinutes(sch, d, q) /\ w.end - 1 \in OpenMinutes(sch, d, q)
            BY <1>4, <1>5, <5>1, <5>2 DEF Run
          <5>4. QED
            BY <5>3, RowFacts
        <4>2. p.start \in Int /\ p.end \in Int /\ q.start \in Int /\ q.end \in Int
          BY RowFacts
        <4>3. ~(p.start < q.end /\ p.end > q.start)
          BY <3>2 DEF Overlaps
        <4>4. QED
          BY <1>3, <2>1, <4>1, <4>2, <4>3
      <3>3. QED
        BY <3>1, <3>2
    <2>3. QED
      BY <1>0, <1>2, <1>3, <2>2
  <1>9. QED
    BY <1>7, <1>8
-----------------------------------------------------------------------------
(* What a time offered means.                                              *)

\* At some moment of the request the business was open, as the property says it.
InHours(start, end, during) ==
  \E sch \in during :
    /\ OpenAt(sch, start)
    /\ (zone = "plain" \/ InstantToDateKey(start) # 0) => \A i \in start .. end - 1 : OpenAt(sch, i)

\* A time offered is a minute from which the appointment fits.
LEMMA OfferedFits ==
  ASSUME NEW sch, WellFormed(sch), NEW d \in Dates, NEW s \in Services,
         NEW t \in Range(Generate(sch, d, s).slots)
  PROVE  \E m \in 0 .. DayEnd - 1 : Exists(d, m) /\ Fits(sch, d, m, s) /\ t = LocalToInstant(d, m)
  <1>1. CASE d > LastBookableDay
    <2>1. Generate(sch, d, s).slots = <<>>
      BY <1>1 DEF Generate
    <2>2. QED
      BY <2>1 DEF Range
  <1>2. CASE ~(d > LastBookableDay)
    <2>1. t \in Bookable(sch, d, s)
      BY <1>2, SlotsAreBookable
    <2>2. QED
      BY <2>1 DEF Bookable
  <1>3. QED
    BY <1>1, <1>2

\* On a day without a clock change, the minutes of an appointment are those of its row.
LEMMA OfferedInHours ==
  ASSUME Typed, NEW sch, WellFormed(sch), NEW d \in Dates, NEW s \in Services,
         NEW t \in Range(Generate(sch, d, s).slots), NEW during, sch \in during
  PROVE  InHours(t, t + s.durationMin, during)
  <1>0. /\ DayEnd \in Nat /\ s.durationMin \in Nat \ {0} /\ d \in Nat
        /\ zone \in {"plain", "spring", "fall"} /\ Midnight(d) \in Nat
    BY HoursAssumption, DaysFollow DEF Dates, Typed
  <1>1. PICK m \in 0 .. DayEnd - 1 : Exists(d, m) /\ Fits(sch, d, m, s) /\ t = LocalToInstant(d, m)
    BY OfferedFits
  <1>2. /\ m \in Int /\ t \in Int /\ InstantToDateKey(t) = d /\ InstantToMinutes(t) = m
        /\ d # 0 \/ zone = "plain" => t = Midnight(d) + m
    BY <1>0, <1>1, ThereAndBack
  <1>3. PICK r \in sch.hours \cup sch.overrides :
          Counts(sch, d, r) /\ \A k \in m .. m + s.durationMin - 1 : OpenIn(sch, d, r, k)
    BY <1>1 DEF Fits
  <1>4. OpenAt(sch, t)
    <2>1. m \in m .. m + s.durationMin - 1
      BY <1>0, <1>2
    <2>2. QED
      BY <1>2, <1>3, <2>1 DEF OpenAt
  <1>5. ASSUME zone = "plain" \/ d # 0, NEW i \in t .. (t + s.durationMin) - 1
        PROVE  OpenAt(sch, i)
    <2>1. PICK k : k = i - Midnight(d)
      OBVIOUS
    <2>2. k \in m .. m + s.durationMin - 1 /\ i = Midnight(d) + k /\ k \in Int
      BY <1>0, <1>2, <1>5, <2>1
    <2>3. OpenIn(sch, d, r, k)
      BY <1>3, <2>2
    <2>4. r.end \in 1 .. DayEnd /\ r.start \in 0 .. DayEnd - 1
      BY <1>3, RowsCount, RowFacts
    <2>5. Exists(d, k)
      BY <1>0, <1>5, <2>2, <2>3, <2>4 DEF Exists, OpenIn
    <2>6. InstantToDateKey(i) = d /\ InstantToMinutes(i) = k
      BY <1>5, <2>2, <2>5, ThereAndBack
    <2>7. QED
      BY <1>3, <2>3, <2>6 DEF OpenAt
  <1>6. (zone = "plain" \/ InstantToDateKey(t) # 0)
          => \A i \in t .. (t + s.durationMin) - 1 : OpenAt(sch, i)
    <2>1. InstantToDateKey(t) = d
      BY <1>2
    <2>2. QED
      BY <1>5, <2>1, Zenon
  <1>7. QED
    BY <1>4, <1>6, Zenon DEF InHours

\* The joined windows cover each stretch the business is open without a break.
LEMMA MergedCovers ==
  ASSUME NEW sch, WellFormed(sch), NEW d \in Dates, NEW r \in RowsFor(sch, d),
         NEW m \in Nat, NEW size \in Nat \ {0},
         \A k \in m .. m + size - 1 : OpenIn(sch, d, r, k)
  PROVE  /\ m + size <= DayEnd
         /\ \E w \in Merged(OpenWindows(sch, d)) :
              /\ w.start \in Int /\ w.end \in Int /\ w.start <= m /\ m + size <= w.end
  <1> DEFINE ws == OpenWindows(sch, d)
             minutes == UNION {w.start .. w.end - 1 : w \in ws}
             edges == {k \in minutes : k - 1 \notin minutes}
             Ends(a, e) == e > a /\ e \notin minutes /\ a .. e - 1 \subseteq minutes
             End(a) == CHOOSE e \in Minutes : Ends(a, e)
  <1>0. DayEnd \in Nat
    BY HoursAssumption
  <1>1. minutes \subseteq 0 .. DayEnd - 1
    BY <1>0, WindowsOfRows
  <1>2. ASSUME NEW k \in m .. m + size - 1 PROVE k \in minutes
    <2>1. PICK M : M = OpenMinutes(sch, d, r)
      OBVIOUS
    <2>2. M \subseteq 0 .. DayEnd - 1 /\ k \in M
      BY <1>2, <2>1, RowFacts
    <2>3. PICK a \in 0 .. DayEnd, e \in 0 .. DayEnd : a <= k /\ k < e /\ Run(M, a, e)
      BY <1>0, <2>2, RunAround
    <2>4. PICK w : w = [row |-> r.id, start |-> a, end |-> e]
      OBVIOUS
    <2>5. w.row = r.id /\ w.start = a /\ w.end = e /\ w \in Windows
      BY <2>3, <2>4, RowFacts DEF Windows, Minutes
    <2>6. w \in ws
      BY <2>1, <2>3, <2>5, WindowsAreRuns
    <2>7. k \in w.start .. w.end - 1
      BY <1>2, <2>3, <2>5
    <2>8. QED
      BY <2>6, <2>7
  <1>3. Merged(OpenWindows(sch, d)) = {[start |-> a, end |-> End(a)] : a \in edges}
    BY DEF Merged
  <1> HIDE DEF minutes
  <1>4. m \in minutes /\ m + size - 1 \in minutes
    BY <1>2
  <1>5. PICK a \in 0 .. DayEnd, e \in 0 .. DayEnd : a <= m /\ m < e /\ Run(minutes, a, e)
    BY <1>0, <1>1, <1>4, RunAround
  <1>6. m + size <= e
    <2>1. e < m + size => e \in m .. m + size - 1
      BY <1>0, <1>5
    <2>2. QED
      BY <1>0, <1>2, <1>5, <2>1 DEF Run
  <1>7. a \in edges /\ Ends(a, e) /\ e \in Minutes
    <2>1. a \in a .. e - 1
      BY <1>5
    <2>2. QED
      BY <1>5, <2>1 DEF Run, Minutes
  <1>8. End(a) = e
    <2>1. Ends(a, End(a)) /\ End(a) \in Minutes
      <3> HIDE DEF Ends
      <3>1. QED
        BY <1>7
    <2>2. PICK f : f = End(a)
      OBVIOUS
    <2>3. f \in Int /\ f > a /\ a < e /\ a \in Int
      BY <1>0, <1>5, <2>1, <2>2 DEF Minutes
    <2>4. Run(minutes, a, f)
      BY <1>7, <2>1, <2>2, <2>3 DEF Run
    <2>5. f = e
      BY <1>5, <2>3, <2>4, RunsApart
    <2>6. QED
      BY <2>2, <2>5
  <1>9. PICK w : w = [start |-> a, end |-> End(a)]
    OBVIOUS
  <1>10. w \in Merged(OpenWindows(sch, d))
    BY <1>3, <1>7, <1>9
  <1>11. w.start = a /\ w.end = e
    BY <1>8, <1>9
  <1>12. QED
    BY <1>0, <1>5, <1>6, <1>10, <1>11

\* What a day offers lies in one of the joined windows.
LEMMA OfferedNotOutside ==
  ASSUME Typed, NEW sch, WellFormed(sch), NEW d \in Dates, NEW s \in Services,
         NEW t \in Range(Generate(sch, d, s).slots), d # 0 \/ zone = "plain"
  PROVE  ~IsOutside(sch, t, t + s.durationMin)
  <1>0. /\ DayEnd \in Nat /\ s.durationMin \in Nat \ {0} /\ d \in Nat /\ LastDate \in Nat
        /\ d \in 0 .. LastDate + 1 /\ d + 1 \in 0 .. LastDate + 1 /\ d + 1 \in Nat
    BY HoursAssumption DEF Dates
  <1>1. PICK m \in 0 .. DayEnd - 1 : Exists(d, m) /\ Fits(sch, d, m, s) /\ t = LocalToInstant(d, m)
    BY OfferedFits
  <1>2. m \in Nat /\ InstantToDateKey(t) = d /\ InstantToMinutes(t) = m /\ t = Midnight(d) + m
    BY <1>0, <1>1, ThereAndBack
  <1>3. PICK size \in Nat \ {0} : size = s.durationMin
    BY <1>0
  <1>4. PICK r \in RowsFor(sch, d) : \A k \in m .. m + size - 1 : OpenIn(sch, d, r, k)
    BY <1>1, <1>3, RowsCount DEF Fits
  <1>5. m + size <= DayEnd
    BY <1>2, <1>4, MergedCovers
  <1>6. PICK w \in Merged(OpenWindows(sch, d)) :
          w.start \in Int /\ w.end \in Int /\ w.start <= m /\ m + size <= w.end
    BY <1>2, <1>4, MergedCovers
  <1>7. PICK end : end = t + s.durationMin
    OBVIOUS
  <1>8. /\ Midnight(d) \in Nat /\ Midnight(d + 1) = Midnight(d) + DayEnd
        /\ Midnight((d + 1) + 1) \in Nat /\ Midnight(d + 1) < Midnight((d + 1) + 1)
    <2>1. Midnight(d) \in Nat /\ Midnight(d + 1) = Midnight(d) + LengthOf(d) /\ Midnight(d + 1) \in Nat
      BY <1>0, DaysFollow
    <2>2. LengthOf(d) = DayEnd
      BY DEF LengthOf
    <2>3. /\ Midnight((d + 1) + 1) = Midnight(d + 1) + LengthOf(d + 1)
          /\ Midnight((d + 1) + 1) \in Nat /\ LengthOf(d + 1) \in Nat \ {0}
      BY <1>0, DaysFollow
    <2>4. QED
      BY <2>1, <2>2, <2>3
  <1>9. end = Midnight(d) + m + size /\ end \in Int
    BY <1>2, <1>3, <1>7, <1>8
  <1>10. (IF InstantToDateKey(end) # d THEN DayEnd ELSE InstantToMinutes(end)) = m + size
    <2>1. CASE m + size = DayEnd
      <3>1. InstantToDateKey(end) = d + 1
        BY <1>0, <1>8, <1>9, <2>1, DayOf
      <3>2. QED
        BY <1>0, <2>1, <3>1
    <2>2. CASE m + size < DayEnd
      <3>1. InstantToDateKey(end) = d
        BY <1>0, <1>2, <1>8, <1>9, <2>2, DayOf
      <3>2. InstantToMinutes(end) = end - Midnight(d)
        BY <3>1 DEF InstantToMinutes
      <3>3. QED
        BY <1>2, <1>8, <1>9, <3>1, <3>2
    <2>3. QED
      BY <1>0, <1>2, <1>5, <2>1, <2>2
  <1>11. QED
    BY <1>2, <1>6, <1>7, <1>10 DEF IsOutside
-----------------------------------------------------------------------------
(* The schedule as a request reads it.                                     *)

Finite == IsFiniteSet(hours) /\ IsFiniteSet(closures) /\ IsFiniteSet(overrides)

LEMMA ScheduleIsWellFormed ==
  ASSUME HoursInv, Finite
  PROVE  WellFormed(Schedule)
  BY DEF HoursInv, Typed, Ids, AllRows, Finite, WellFormed, Schedule

LEMMA FiniteInit == Init => Finite
  <1> SUFFICES ASSUME Init PROVE Finite
    OBVIOUS
  <1> DEFINE row(w) == [id |-> -1 - w, weekday |-> w, start |-> FirstHours[1], end |-> FirstHours[2],
                        saw |-> {}]
             first == [d \in Dates |-> row(WeekdayOf[d])]
  <1>1. IsFiniteSet(Dates)
    BY FS_Interval, HoursAssumption DEF Dates
  <1>2. first \in Surjection(Dates, hours)
    <2>1. hours = {row(w) : w \in {WeekdayOf[d] : d \in Dates}}
      BY DEF Init
    <2>2. \A d \in Dates : first[d] \in hours
      BY <2>1
    <2>3. ASSUME NEW r \in hours PROVE \E d \in Dates : first[d] = r
      BY <2>1
    <2> HIDE DEF row
    <2>4. QED
      BY <2>2, <2>3 DEF Surjection
  <1>3. IsFiniteSet(hours)
    <2> HIDE DEF first
    <2>1. QED
      BY <1>1, <1>2, FS_Surjection
  <1>4. QED
    BY <1>3, FS_EmptySet DEF Init, Finite

\* A row more or less leaves a finite table finite.
LEMMA OneRow ==
  ASSUME NEW S, IsFiniteSet(S), NEW T, T = S \/ \E r : T = S \cup {r} \/ T = S \ {r}
  PROVE  IsFiniteSet(T)
  BY FS_AddElement, FS_RemoveElement

LEMMA FiniteStep == Finite /\ [Next]_vars => Finite'
  <1> SUFFICES ASSUME Finite, [Next]_vars PROVE Finite'
    OBVIOUS
  <1>1. /\ hours' = hours \/ \E r : hours' = hours \cup {r} \/ hours' = hours \ {r}
        /\ closures' = closures \/ \E r : closures' = closures \cup {r} \/ closures' = closures \ {r}
        /\ overrides' = overrides \/ \E r : overrides' = overrides \cup {r} \/ overrides' = overrides \ {r}
    <2>1. CASE OwnerChanges
      BY <2>1 DEF OwnerChanges, CheckHours, InsertHours, DeleteWorkingHours, AddClosure, DeleteClosure,
         AddDateOverride, DeleteDateOverride
    <2>2. CASE Appointments
      BY <2>2 DEF Appointments, OwnerBooks, ReadHours, ReadClosures, ReadOverrides, Place, Unmoved
    <2>3. CASE Tick \/ UNCHANGED vars
      BY <2>3 DEF Tick, vars
    <2>4. QED
      BY <2>1, <2>2, <2>3 DEF Next
  <1>2. IsFiniteSet(hours)' /\ IsFiniteSet(closures)' /\ IsFiniteSet(overrides)'
    BY <1>1, OneRow DEF Finite
  <1>3. QED
    BY <1>2 DEF Finite

\* The clock changes when it changes.
LEMMA SameZone ==
  ASSUME zone' = zone, NEW start, NEW end, NEW during
  PROVE  InHours(start, end, during)' <=> InHours(start, end, during)
  <1>1. ASSUME NEW d PROVE Midnight(d)' = Midnight(d)
    BY DEF Midnight, LengthOf
  <1>2. ASSUME NEW i PROVE InstantToDateKey(i)' = InstantToDateKey(i)
    BY <1>1 DEF InstantToDateKey
  <1>3. ASSUME NEW i PROVE InstantToMinutes(i)' = InstantToMinutes(i)
    BY <1>1, <1>2 DEF InstantToMinutes
  <1>4. ASSUME NEW sch, NEW i PROVE OpenAt(sch, i)' <=> OpenAt(sch, i)
    BY <1>2, <1>3 DEF OpenAt, Dates, Counts, OpenIn, Shut
  <1>5. QED
    BY <1>2, <1>4 DEF InHours

\* An instant that a date and a minute of it stand for.
IsStart(t) == \E d \in Dates, m \in 0 .. DayEnd - 1 : Exists(d, m) /\ t = LocalToInstant(d, m)

Reading(q) == q.step \in {"closures", "overrides"}

\* The schedule the request would make of what it has read if it read the rest now.
Composite(q) ==
  [hours |-> q.hours, closures |-> IF q.step = "closures" THEN closures ELSE q.closures,
   overrides |-> overrides]

\* Until two changes come in between, what a request puts together from its statements is
\* a schedule that was in force while it read.
Together(q) ==
  /\ q.step # "idle" => IsStart(q.start)
  /\ Reading(q) =>
       /\ Schedule \in q.during /\ q.missed \in Nat
       /\ \A sch \in q.during : WellFormed(sch)
       /\ q.missed = 0 => q.hours = hours /\ (q.step = "overrides" => q.closures = closures)
       /\ q.missed <= 1 => Composite(q) \in q.during
  /\ q.step = "place" /\ q.missed <= 1 =>
       InHours(q.start, q.start + q.service.durationMin, q.during)

Kept(b) == b.online /\ b.missed <= 1 => InHours(b.start, b.end, b.during)

ReadsInv ==
  /\ \A q \in {request[r] : r \in Requests} : Together(q)
  /\ \A b \in diary : Kept(b)

LEMMA SameStart ==
  ASSUME zone' = zone, NEW t
  PROVE  IsStart(t)' <=> IsStart(t)
  BY DEF IsStart, Dates, Exists, LocalToInstant, Midnight, LengthOf

LEMMA SameKept ==
  ASSUME zone' = zone, NEW b, Kept(b)
  PROVE  Kept(b)'
  <1>1. InHours(b.start, b.end, b.during)' <=> InHours(b.start, b.end, b.during)
    BY SameZone
  <1>2. QED
    BY <1>1 DEF Kept

LEMMA SameTogether ==
  ASSUME UNCHANGED <<zone, hours, closures, overrides>>, NEW q, Together(q)
  PROVE  Together(q)'
  <1>1. /\ IsStart(q.start)' <=> IsStart(q.start)
        /\ InHours(q.start, q.start + q.service.durationMin, q.during)'
             <=> InHours(q.start, q.start + q.service.durationMin, q.during)
    BY SameStart, SameZone
  <1>2. Schedule' = Schedule /\ Composite(q)' = Composite(q)
    BY DEF Schedule, Composite
  <1>3. QED
    BY <1>1, <1>2 DEF Together, Reading, WellFormed

\* One statement of the owner's, seen by a request that is reading.
LEMMA WitnessTogether ==
  ASSUME zone' = zone, WellFormed(Schedule)',
         \/ UNCHANGED <<closures, overrides>>
         \/ UNCHANGED <<hours, overrides>>
         \/ UNCHANGED <<hours, closures>>,
         NEW q, Formed(q), Together(q),
         NEW next, next = IF q.step \in {"closures", "overrides"}
                          THEN [q EXCEPT !.during = @ \cup {Schedule'}, !.missed = @ + 1] ELSE q
  PROVE  Together(next)'
  <1>1. /\ \A t : IsStart(t)' <=> IsStart(t)
        /\ \A t, e, S : InHours(t, e, S)' <=> InHours(t, e, S)
    BY SameStart, SameZone
  <1>2. CASE ~Reading(q)
    BY <1>1, <1>2 DEF Together, Reading
  <1>3. CASE Reading(q)
    <2>1. /\ next.step = q.step /\ next.start = q.start /\ next.hours = q.hours
          /\ next.closures = q.closures /\ next.during = q.during \cup {Schedule'}
          /\ next.missed = q.missed + 1
      BY <1>3 DEF Formed, Reading
    <2>2. /\ Schedule \in q.during /\ q.missed \in Nat
          /\ \A sch \in q.during : WellFormed(sch)
          /\ q.missed = 0 => q.hours = hours /\ (q.step = "overrides" => q.closures = closures)
          /\ IsStart(q.start)
          /\ q.step \in {"closures", "overrides"}
      BY <1>3 DEF Together, Reading
    <2>3. \A sch : WellFormed(sch)' <=> WellFormed(sch)
      BY DEF WellFormed
    <2>4. \A sch \in next.during : WellFormed(sch)'
      <3>1. WellFormed(Schedule')
        BY DEF WellFormed
      <3>2. QED
        BY <2>1, <2>2, <2>3, <3>1
    <2>5. ASSUME q.missed = 0 PROVE Composite(next)' \in next.during
      <3>1. Composite(next)' = [hours |-> hours,
                                closures |-> IF q.step = "closures" THEN closures' ELSE closures,
                                overrides |-> overrides']
        BY <2>1, <2>2, <2>5 DEF Composite
      <3>2. Composite(next)' = Schedule \/ Composite(next)' = Schedule'
        BY <2>2, <3>1 DEF Schedule
      <3>3. QED
        BY <2>1, <2>2, <3>2
    <2>6. (next.missed <= 1 => q.missed = 0) /\ next.missed \in Nat /\ next.missed # 0
      BY <2>1, <2>2
    <2>7. Schedule' \in next.during
      BY <2>1
    <2>8. next.step # "place" /\ IsStart(next.start)'
      BY <1>1, <2>1, <2>2
    <2>9. QED
      BY <2>4, <2>5, <2>6, <2>7, <2>8 DEF Together
  <1>4. QED
    BY <1>2, <1>3

\* A change of the owner's leaves what every request has read together.
LEMMA OwnerReads ==
  ASSUME HoursInv, ReadsInv, WellFormed(Schedule)', OwnerChanges
  PROVE  ReadsInv'
  <1>1. zone' = zone /\ diary' = diary
    BY DEF OwnerChanges, CheckHours, InsertHours, DeleteWorkingHours, AddClosure, DeleteClosure,
           AddDateOverride, DeleteDateOverride
  <1>2. \A b \in diary' : Kept(b)'
    BY <1>1, SameKept DEF ReadsInv
  <1>3. \A r \in Requests : Formed(request[r])
    BY DEF HoursInv, Requested
  <1>4. ASSUME NEW r \in Requests, NEW q, q = request'[r] PROVE Together(q)'
    <2>0. PICK p : p = request[r]
      OBVIOUS
    <2>1. CASE \E w \in Weekdays, range \in Ranges : CheckHours(w, range)
      <3>1. UNCHANGED <<zone, hours, closures, overrides, request>>
        BY <2>1 DEF CheckHours
      <3>2. Together(q)
        BY <1>4, <3>1 DEF ReadsInv
      <3>3. QED
        BY <3>1, <3>2, SameTogether
    <2>2. CASE ~\E w \in Weekdays, range \in Ranges : CheckHours(w, range)
      <3>1. /\ Witnessed
            /\ \/ UNCHANGED <<closures, overrides>>
               \/ UNCHANGED <<hours, overrides>>
               \/ UNCHANGED <<hours, closures>>
        BY <2>2 DEF OwnerChanges, InsertHours, DeleteWorkingHours, AddClosure, DeleteClosure,
                    AddDateOverride, DeleteDateOverride
      <3>2. q = IF p.step \in {"closures", "overrides"}
                THEN [p EXCEPT !.during = @ \cup {Schedule'}, !.missed = @ + 1] ELSE p
        BY <1>4, <2>0, <3>1 DEF Witnessed
      <3>3. Formed(p) /\ Together(p)
        BY <1>3, <2>0 DEF ReadsInv
      <3>4. QED
        BY <1>1, <3>1, <3>2, <3>3, WitnessTogether
    <2>3. QED
      BY <2>1, <2>2
  <1>5. QED
    BY <1>2, <1>4 DEF ReadsInv

\* A request that ends, or has not begun, has nothing to keep.
LEMMA IdleTogether ==
  ASSUME NEW q, q.step = "idle"
  PROVE  Together(q)
  BY DEF Together, Reading

LEMMA StepTogether ==
  ASSUME Requested, ReadsInv, UNCHANGED <<zone, hours, closures, overrides, diary>>,
         NEW r \in Requests, NEW next, Step(r, next), Together(next)
  PROVE  ReadsInv'
  <1>1. ASSUME NEW x \in Requests, NEW q, q = request'[x] PROVE Together(q)'
    <2>1. q = IF x = r THEN next ELSE request[x]
      BY <1>1 DEF Step, Requested
    <2>2. Together(q)
      BY <2>1 DEF ReadsInv
    <2>3. QED
      BY <2>2, SameTogether
  <1>2. \A b \in diary' : Kept(b)'
    BY SameKept DEF ReadsInv
  <1>3. QED
    BY <1>1, <1>2 DEF ReadsInv

LEMMA AppointmentsRead ==
  ASSUME HoursInv, Finite, ReadsInv, Appointments
  PROVE  ReadsInv'
  <1>1. UNCHANGED <<zone, hours, closures, overrides>>
    BY DEF Appointments, OwnerBooks, ReadHours, ReadClosures, ReadOverrides, Place, Unmoved
  <1>2. Requested /\ Typed /\ WellFormed(Schedule)
    BY ScheduleIsWellFormed DEF HoursInv
  <1>3. \A b \in diary : Kept(b)'
    BY <1>1, SameKept DEF ReadsInv
  <1>4. ASSUME NEW r \in Requests, NEW q, q = request[r] PROVE Together(q)'
    <2>1. Together(q)
      BY <1>4 DEF ReadsInv
    <2>2. QED
      BY <1>1, <2>1, SameTogether
  <1>5. ASSUME NEW d \in Dates, NEW m \in 0 .. DayEnd - 1, NEW s \in Services, OwnerBooks(d, m, s)
        PROVE  ReadsInv'
    <2>1. PICK e : e = Entry(LocalToInstant(d, m), s, FALSE, NoRequest)
      OBVIOUS
    <2>2. diary' = diary \cup {e} /\ request' = request
      BY <1>5, <2>1 DEF OwnerBooks
    <2>3. Kept(e)'
      BY <2>1 DEF Kept, Entry
    <2>4. QED
      BY <1>3, <1>4, <2>2, <2>3 DEF ReadsInv
  <1>6. ASSUME NEW r \in Requests, NEW start \in Starts, NEW s \in Services, ReadHours(r, start, s)
        PROVE  ReadsInv'
    <2>1. PICK next : next = [NoRequest EXCEPT !.step = "closures", !.start = start, !.service = s,
                                               !.hours = hours, !.during = {Schedule}]
      OBVIOUS
    <2>2. /\ next.step = "closures" /\ next.start = start /\ next.hours = hours
          /\ next.during = {Schedule} /\ next.missed = 0
      BY <2>1 DEF NoRequest
    <2>3. IsStart(start)
      BY DEF Starts, IsStart
    <2>4. Composite(next) = Schedule
      BY <2>2 DEF Composite, Schedule
    <2>5. Together(next)
      BY <1>2, <2>2, <2>3, <2>4 DEF Together
    <2>6. QED
      BY <1>1, <1>2, <1>6, <2>1, <2>5, StepTogether DEF ReadHours, Unmoved
  <1>7. ASSUME NEW r \in Requests, ReadClosures(r)
        PROVE  ReadsInv'
    <2>1. PICK q : q = request[r]
      OBVIOUS
    <2>2. PICK next : next = [q EXCEPT !.step = "overrides", !.closures = closures]
      OBVIOUS
    <2>3. Formed(q) /\ Together(q) /\ q.step = "closures"
      BY <1>2, <1>7, <2>1 DEF Requested, ReadsInv, ReadClosures
    <2>4. /\ next.step = "overrides" /\ next.start = q.start /\ next.hours = q.hours
          /\ next.closures = closures /\ next.during = q.during /\ next.missed = q.missed
      BY <2>2, <2>3 DEF Formed
    <2>5. Composite(next) = Composite(q)
      BY <2>3, <2>4 DEF Composite
    <2>6. Together(next)
      BY <2>3, <2>4, <2>5 DEF Together, Reading
    <2>7. QED
      BY <1>1, <1>2, <1>7, <2>1, <2>2, <2>6, StepTogether DEF ReadClosures, Unmoved
  <1>8. ASSUME NEW r \in Requests, ReadOverrides(r)
        PROVE  ReadsInv'
    <2>1. PICK q : q = request[r]
      OBVIOUS
    <2>2. Formed(q) /\ Together(q) /\ q.step = "overrides"
      BY <1>2, <1>8, <2>1 DEF Requested, ReadsInv, ReadOverrides
    <2>3. Together(NoRequest)
      BY IdleTogether DEF NoRequest
    <2>4. ASSUME Offered(r) PROVE Together([q EXCEPT !.step = "place"])
      <3>1. PICK next : next = [q EXCEPT !.step = "place"]
        OBVIOUS
      <3>2. /\ next.step = "place" /\ next.start = q.start /\ next.service = q.service
            /\ next.during = q.during /\ next.missed = q.missed
        BY <2>2, <3>1 DEF Formed
      <3>3. PICK d \in Dates, m \in 0 .. DayEnd - 1 : Exists(d, m) /\ q.start = LocalToInstant(d, m)
        BY <2>2 DEF Together, IsStart
      <3>4. InstantToDateKey(q.start) = d
        <4>1. m \in Int
          BY HoursAssumption
        <4>2. QED
          BY <1>2, <3>3, <4>1, ThereAndBack
      <3>5. ASSUME q.missed <= 1
            PROVE  InHours(q.start, q.start + q.service.durationMin, q.during)
        <4>1. PICK sch : sch = Composite(q)
          OBVIOUS
        <4>2. sch \in q.during /\ WellFormed(sch)
          BY <2>2, <3>5, <4>1 DEF Together, Reading
        <4>3. q.start \in Range(Generate(sch, d, q.service).slots)
          BY <2>1, <2>2, <2>4, <3>4, <4>1 DEF Offered, Composite
        <4>4. q.service \in Services
          BY <2>2 DEF Formed
        <4>5. QED
          BY <1>2, <4>2, <4>3, <4>4, OfferedInHours
      <3>6. IsStart(next.start)
        BY <2>2, <3>2 DEF Together
      <3>7. Together(next)
        BY <3>2, <3>5, <3>6 DEF Together, Reading
      <3>8. QED
        BY <3>1, <3>7
    <2>5. \E next : Step(r, next) /\ Together(next)
      BY <1>8, <2>1, <2>3, <2>4 DEF ReadOverrides
    <2>6. UNCHANGED diary
      BY <1>8 DEF ReadOverrides, Unmoved
    <2>7. QED
      BY <1>1, <1>2, <2>5, <2>6, StepTogether
  <1>9. ASSUME NEW r \in Requests, Place(r)
        PROVE  ReadsInv'
    <2>1. PICK q : q = request[r]
      OBVIOUS
    <2>2. Together(q) /\ q.step = "place"
      BY <1>9, <2>1 DEF ReadsInv, Place
    <2>3. PICK e : e = Entry(q.start, q.service, TRUE, q)
      OBVIOUS
    <2>4. Kept(e)
      <3>1. /\ e.start = q.start /\ e.end = q.start + q.service.durationMin
            /\ e.during = q.during /\ e.missed = q.missed
        BY <2>3 DEF Entry
      <3>2. QED
        BY <2>2, <3>1 DEF Kept, Together
    <2>5. \A b \in diary' : b = e \/ b \in diary
      BY <1>9, <2>1, <2>3 DEF Place
    <2>6. \A b \in diary' : Kept(b)'
      BY <1>1, <1>3, <2>4, <2>5, SameKept
    <2>7. ASSUME NEW x \in Requests, NEW p, p = request'[x] PROVE Together(p)'
      <3>1. p = IF x = r THEN NoRequest ELSE request[x]
        BY <1>2, <1>9, <2>7 DEF Place, Step, Requested
      <3>2. Together(p)
        BY <3>1, IdleTogether DEF ReadsInv, NoRequest
      <3>3. QED
        BY <1>1, <3>2, SameTogether
    <2>8. QED
      BY <2>6, <2>7 DEF ReadsInv
  <1>10. QED
    BY <1>5, <1>6, <1>7, <1>8, <1>9 DEF Appointments

LEMMA ReadsInit == Init => ReadsInv
  BY IdleTogether DEF Init, ReadsInv, NoRequest

LEMMA ReadsStep ==
  HoursInv /\ HoursInv' /\ Finite /\ Finite' /\ ReadsInv /\ [Next]_vars => ReadsInv'
  <1> SUFFICES ASSUME HoursInv, HoursInv', Finite, Finite', ReadsInv, [Next]_vars
               PROVE  ReadsInv'
    OBVIOUS
  <1>1. CASE OwnerChanges
    <2>1. (HoursInv /\ Finite)' => WellFormed(Schedule)'
      BY DEF HoursInv, Typed, Ids, AllRows, Finite, WellFormed, Schedule
    <2>2. QED
      BY <1>1, <2>1, OwnerReads
  <1>2. CASE Appointments
    BY <1>2, AppointmentsRead
  <1>3. CASE Tick \/ UNCHANGED vars
    <2>1. UNCHANGED <<zone, hours, closures, overrides, diary, request>>
      BY <1>3 DEF Tick, vars
    <2>2. \A b \in diary' : Kept(b)'
      BY <2>1, SameKept DEF ReadsInv
    <2>3. ASSUME NEW r \in Requests, NEW q, q = request'[r] PROVE Together(q)'
      <3>1. Together(q)
        BY <2>1, <2>3 DEF ReadsInv
      <3>2. QED
        BY <2>1, <3>1, SameTogether
    <2>4. QED
      BY <2>2, <2>3 DEF ReadsInv
  <1>4. QED
    BY <1>1, <1>2, <1>3 DEF Next

-----------------------------------------------------------------------------
(* The theorems about what is offered.                                     *)

\* The schedule stays finite, and until two of the owner's statements come in between,
\* what getAvailability puts together from three SELECTs is a schedule that was in force
\* while it read.
THEOREM ReadsInvariant == Spec => [](HoursInv /\ Finite /\ ReadsInv)
  <1>1. Init => HoursInv /\ Finite /\ ReadsInv
    BY InitHolds, FiniteInit, ReadsInit
  <1>2. HoursInv /\ Finite /\ ReadsInv /\ [Next]_vars => (HoursInv /\ Finite /\ ReadsInv)'
    BY HoursStep, FiniteStep, ReadsStep
  <1>3. QED
    BY <1>1, <1>2, PTL DEF Spec

\* generateAvailability's loops over rows cut by closures list exactly the times the
\* rows mean minute by minute, in order, and call a day closed exactly when no minute
\* of it is open, for any rows, grid, services, notice and clock change.
THEOREM OfferedAsDefinedHolds == Spec => []OfferedAsDefined
  <1>1. ASSUME HoursInv, Finite, NEW d \in Dates, NEW s \in Services, NEW day,
               day = Generate(Schedule, d, s),
               NEW open, open = \E m \in 0 .. DayEnd - 1 : \E row \in hours \cup overrides :
                                   Counts(Schedule, d, row) /\ OpenIn(Schedule, d, row, m),
               NEW free, free = {i \in Bookable(Schedule, d, s) : i >= now + Notice /\ ~Clashes(i, s)}
        PROVE  IF d > LastBookableDay THEN day.state = "beyond_horizon" /\ day.slots = <<>>
               ELSE /\ Range(day.slots) = free
                    /\ day.state = "closed" <=> ~open
                    /\ day.state = "open" <=> free # {}
                    /\ \A i, j \in DOMAIN day.slots :
                         i < j /\ ~(\E a, b \in RowsFor(Schedule, d) :
                                       a # b /\ Overlaps(a.start, a.end, b.start, b.end))
                           => day.slots[i] < day.slots[j]
    <2>1. WellFormed(Schedule) /\ Typed
      BY <1>1, ScheduleIsWellFormed DEF HoursInv
    <2>2. CASE d > LastBookableDay
      BY <1>1, <2>2 DEF Generate
    <2>3. CASE ~(d > LastBookableDay)
      <3>1. PICK n \in Nat : \E list : Listing(Schedule, d, s, day, n, list)
        BY <1>1, <2>1, <2>3, DayLists
      <3>2. PICK list : Listing(Schedule, d, s, day, n, list)
        BY <3>1
      <3>3. Range(day.slots) = free
        BY <1>1, <2>1, <2>3, SlotsAreBookable DEF EarliestStart
      <3>4. day.state = "closed" <=> ~open
        <4>1. day.state = "closed" <=> OpenWindows(Schedule, d) = {}
          BY <3>2 DEF Listing
        <4>2. OpenWindows(Schedule, d) = {} <=> ~open
          BY <1>1, <2>1, ClosedIsShut DEF Schedule
        <4>3. QED
          BY <4>1, <4>2
      <3>5. DOMAIN day.slots = 1 .. n
        BY <3>2 DEF Listing
      <3>6. day.state = "open" <=> free # {}
        <4>1. n # 0 <=> Range(day.slots) # {}
          <5>1. n # 0 => 1 \in 1 .. n
            BY <3>1
          <5>2. n = 0 => 1 .. n = {}
            OBVIOUS
          <5>3. QED
            BY <3>5, <5>1, <5>2 DEF Range
        <4>2. QED
          BY <3>2, <3>3, <4>1 DEF Listing
      <3>7. ASSUME NEW i \in 1 .. n, NEW j \in 1 .. n, i < j,
                   ~(\E a, b \in RowsFor(Schedule, d) :
                       a # b /\ Overlaps(a.start, a.end, b.start, b.end))
            PROVE  day.slots[i] < day.slots[j]
        <4>1. PICK a, b : a = list[i] /\ b = list[j]
          OBVIOUS
        <4>2. /\ a \in Candidates(OpenWindows(Schedule, d), d, s)
              /\ b \in Candidates(OpenWindows(Schedule, d), d, s)
              /\ Before(a, b)
              /\ day.slots[i] = LocalToInstant(d, a.min) /\ day.slots[j] = LocalToInstant(d, b.min)
          BY <3>2, <3>7, <4>1 DEF Listing
        <4>3. a.min < b.min
          BY <2>1, <3>7, <4>2, ListedEarlier
        <4>4. Exists(d, a.min) /\ Exists(d, b.min) /\ a.min \in Int /\ b.min \in Int
          BY <4>2 DEF Candidates
        <4>5. QED
          BY <2>1, <4>2, <4>3, <4>4, LaterMinute
      <3>8. QED
        BY <2>3, <3>3, <3>4, <3>5, <3>6, <3>7
    <2>4. QED
      BY <2>2, <2>3
  <1>2. HoursInv /\ Finite => OfferedAsDefined
    <2>1. SUFFICES ASSUME HoursInv, Finite PROVE OfferedAsDefined
      OBVIOUS
    <2>2. SUFFICES ASSUME NEW d \in Dates, NEW s \in Services
                   PROVE  LET day == Generate(Schedule, d, s)
                              open == \E m \in 0 .. DayEnd - 1 : \E row \in hours \cup overrides :
                                          Counts(Schedule, d, row) /\ OpenIn(Schedule, d, row, m)
                              free == {i \in Bookable(Schedule, d, s) : i >= now + Notice /\ ~Clashes(i, s)}
                          IN  IF d > LastBookableDay THEN day.state = "beyond_horizon" /\ day.slots = <<>>
                              ELSE /\ Range(day.slots) = free
                                   /\ day.state = "closed" <=> ~open
                                   /\ day.state = "open" <=> free # {}
                                   /\ \A i, j \in DOMAIN day.slots :
                                        i < j /\ ~(\E a, b \in RowsFor(Schedule, d) :
                                                      a # b /\ Overlaps(a.start, a.end, b.start, b.end))
                                          => day.slots[i] < day.slots[j]
      BY Zenon DEF OfferedAsDefined
    <2>3. QED
      BY <1>1, <2>1, Zenon
  <1>3. QED
    BY <1>2, ReadsInvariant, PTL

\* An appointment made online was inside hours that were in force at some moment between
\* the first and the last SELECT of its request, unless two changes came in between, for
\* any number of requests and changes (availability.ts, public-booking.ts).
THEOREM BookedInsideHoursHolds == Spec => []BookedInsideHours
  <1>1. ReadsInv => BookedInsideHours
    BY DEF ReadsInv, Kept, InHours, BookedInsideHours
  <1>2. QED
    BY <1>1, ReadsInvariant, PTL

\* view.ts labels no time outside opening hours that slots.ts offers, whatever the rows
\* and however its windows are joined, on days without a clock change.
THEOREM OfferedIsNotFlaggedHolds == Spec => []OfferedIsNotFlagged
  <1>1. HoursInv /\ Finite => OfferedIsNotFlagged
    BY ScheduleIsWellFormed, OfferedNotOutside DEF HoursInv, OfferedIsNotFlagged
  <1>2. QED
    BY <1>1, ReadsInvariant, PTL
=============================================================================
