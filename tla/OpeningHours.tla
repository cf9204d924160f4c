----------------------------- MODULE OpeningHours -----------------------------
(***************************************************************************)
(* When a business is open: the owner's weekly hours, closures and one-off *)
(* hours (admin/_actions/hours.ts over admin/data.ts), the slots           *)
(* generated from them (lib/slots.ts over lib/time.ts), the statements in  *)
(* which an online booking reads them (lib/availability.ts), and the label *)
(* the owner's diary puts on an appointment outside them (admin/view.ts).  *)
(*                                                                         *)
(* Minutes are coarse: a day has DayEnd of them.  Date 0 may be the day    *)
(* the clocks change at minute ChangeAt.                                   *)
(***************************************************************************)
EXTENDS Integers, Sequences, FiniteSets, SequencesExt

CONSTANTS
    LastDate,     \* dates are numbered from 0
    WeekdayOf,    \* the weekday of a date
    DayEnd,       \* 24:00
    ChangeAt,     \* the minute that is erased, or happens twice
    SpecialDates, \* bound: the dates the owner gives closures and one-off hours
    FirstHours,   \* the hours a business begins with
    Ranges,       \* what the owner may type: <<start, end>>
    Services,     \* durationMin, bufferBeforeMin, bufferAfterMin
    Granularity, Notice, MaxAdvance,
    Moments,      \* the instants the clock may read
    Requests,
    None,
    MaxWrites,    \* bound on the owner's changes to the schedule
    MaxOwned      \* bound on appointments the owner enters herself

Minutes == 0 .. DayEnd
Dates == 0 .. LastDate

ASSUME HoursAssumption ==
    /\ DayEnd \in Nat \ {0} /\ ChangeAt \in 1 .. DayEnd - 2
    /\ Ranges \subseteq Minutes \X Minutes /\ FirstHours \in Ranges
    /\ FirstHours[1] < FirstHours[2]
    /\ LastDate \in Nat /\ WeekdayOf \in [Dates -> Nat] /\ None \notin Minutes
    /\ \A s \in Services : /\ s.durationMin \in Nat \ {0}
                           /\ s.bufferBeforeMin \in Nat /\ s.bufferAfterMin \in Nat
    /\ Granularity \in Nat \ {0} /\ Notice \in Nat /\ MaxAdvance \in Nat
    /\ SpecialDates \subseteq Dates /\ Moments \subseteq Nat /\ {MaxWrites, MaxOwned} \subseteq Nat

VARIABLES
    zone,         \* what the clocks do on date 0: "plain", "spring" or "fall"
    now,
    hours,        \* [id, weekday, start, end, saw], saw being the rows its check had listed
    closures,     \* [id, date, start, end], start and end None for a whole day
    overrides,    \* [id, date, start, end]
    adding,       \* hours rows that are checked and not inserted yet
    diary,        \* the live bookings
    request,      \* what each online request has read
    writes, owned

vars == <<zone, now, hours, closures, overrides, adding, diary, request, writes, owned>>

Schedule == [hours |-> hours, closures |-> closures, overrides |-> overrides]

-----------------------------------------------------------------------------
(* time.ts: a date and a wall-clock minute, and the instant.               *)

LengthOf(d) == IF d # 0 \/ zone = "plain" THEN DayEnd
               ELSE IF zone = "spring" THEN DayEnd - 1 ELSE DayEnd + 1
Midnight(d) == IF d = 0 THEN 0 ELSE LengthOf(0) + (d - 1) * DayEnd

Exists(d, m) == m \in 0 .. DayEnd - 1 /\ ~(d = 0 /\ zone = "spring" /\ m = ChangeAt)

\* An ambiguous time is the first of the two.
LocalToInstant(d, m) ==
    Midnight(d) + (IF d # 0 \/ m <= ChangeAt \/ zone = "plain" THEN m
                   ELSE IF zone = "spring" THEN m - 1 ELSE m + 1)

InstantToDateKey(i) == CHOOSE d \in 0 .. LastDate + 2 : i >= Midnight(d) /\ i < Midnight(d + 1)

InstantToMinutes(i) ==
    LET d == InstantToDateKey(i)
        m == i - Midnight(d)
    IN  IF d # 0 \/ m < ChangeAt \/ zone = "plain" THEN m
        ELSE IF zone = "spring" THEN m + 1
        ELSE IF m = ChangeAt THEN m ELSE m - 1

-----------------------------------------------------------------------------
(* slots.ts.                                                               *)

\* A stretch of a row's day.  Two rows may have the same hours.
Window(row, a, b) == [row |-> row, start |-> a, end |-> b]

\* Faulty variant: one-off hours are added to the template.
RowsMerged(s, d) ==
    {r \in s.overrides : r.date = d} \cup {r \in s.hours : r.weekday = WeekdayOf[d]}

\* One-off hours replace the weekly template of their date.
RowsFor(s, d) ==
    LET own == {r \in s.overrides : r.date = d}
    IN  IF own # {} THEN own ELSE {r \in s.hours : r.weekday = WeekdayOf[d]}

\* A closed stretch taken out of a window leaves what is before it and what is after.
Cut(w, c) ==
    IF c.end <= w.start \/ c.start >= w.end THEN {w}
    ELSE {p \in {Window(w.row, w.start, c.start), Window(w.row, c.end, w.end)} : p.start < p.end}

\* The closures are taken out of the rows one after the other.
OpenWindows(s, d) ==
    LET template == {Window(r.id, r.start, r.end) : r \in RowsFor(s, d)}
        shut == SetToSeq({c \in s.closures : c.date = d})
        left[n \in 0 .. Len(shut)] ==
            IF n = 0 THEN template ELSE UNION {Cut(w, shut[n]) : w \in left[n - 1]}
    IN  IF \E i \in DOMAIN shut : shut[i].start = None THEN {}
        ELSE {w \in left[Len(shut)] : w.end > w.start}

Overlaps(aFrom, aUntil, bFrom, bUntil) == aFrom < bUntil /\ aUntil > bFrom
Blocked(start, s) == [from |-> start - s.bufferBeforeMin,
                      until |-> start + s.durationMin + s.bufferAfterMin]
Clashes(start, s) ==
    \E b \in diary : LET a == Blocked(start, s) IN Overlaps(a.from, a.until, b.from, b.until)

\* Where the loops stop: a minute on the grid of a window from which the appointment fits;
\* one that the clocks skip is passed over.
Candidates(ws, d, s) ==
    {c \in [window : ws, min : 0 .. DayEnd - 1] :
        /\ c.min \in c.window.start .. c.window.end - s.durationMin
        /\ (c.min - c.window.start) % Granularity = 0
        /\ Exists(d, c.min)}

\* The windows are sorted by their start, and each is walked through from there.
Before(a, b) ==
    \/ a.window.start < b.window.start
    \/ a.window.start = b.window.start /\ a.window.row < b.window.row
    \/ a.window = b.window /\ a.min < b.min
InOrder(S) ==
    [i \in 1 .. Cardinality(S) |-> CHOOSE c \in S : Cardinality({x \in S : Before(x, c)}) = i - 1]

EarliestStart == now + Notice
LastBookableDay == InstantToDateKey(now) + MaxAdvance

\* The day as generateAvailability returns it.
Generate(sch, d, s) ==
    LET windows == OpenWindows(sch, d)
        start(c) == LocalToInstant(d, c.min)
        found == Candidates(windows, d, s)
        free == InOrder({c \in found : start(c) >= EarliestStart /\ ~Clashes(start(c), s)})
        slots == [i \in DOMAIN free |-> start(free[i])]
        withheld == \E c \in found : start(c) < EarliestStart
    IN  IF d > LastBookableDay THEN [state |-> "beyond_horizon", slots |-> <<>>]
        ELSE IF windows = {} THEN [state |-> "closed", slots |-> <<>>]
        ELSE [slots |-> slots,
              state |-> IF slots # <<>> THEN "open" ELSE IF withheld THEN "too_soon" ELSE "full"]

-----------------------------------------------------------------------------
(* The diary's label: view.ts over opening-hours.ts.                       *)

\* Adjacent and overlapping windows are joined.
Merged(ws) ==
    LET minutes == UNION {w.start .. w.end - 1 : w \in ws}
        edges == {m \in minutes : m - 1 \notin minutes}
    IN  {[start |-> a, end |-> CHOOSE e \in Minutes : /\ e > a /\ e \notin minutes
                                         /\ a .. e - 1 \subseteq minutes] : a \in edges}

\* Faulty variant: an appointment that ends at midnight ends at minute 0.
OutsideAtMidnight(sch, start, end) ==
    LET d == InstantToDateKey(start)
    IN  ~\E w \in Merged(OpenWindows(sch, d)) :
            InstantToMinutes(start) >= w.start /\ w.start <= InstantToMinutes(end)
            /\ InstantToMinutes(end) <= w.end /\ InstantToMinutes(end) > 0

IsOutside(sch, start, end) ==
    LET d == InstantToDateKey(start)
        endMin == IF InstantToDateKey(end) # d THEN DayEnd ELSE InstantToMinutes(end)
    IN  ~\E w \in Merged(OpenWindows(sch, d)) :
            InstantToMinutes(start) >= w.start /\ endMin <= w.end

-----------------------------------------------------------------------------
(* The owner's changes.                                                    *)

\* Faulty variant: the two times are judged each on its own.
TimesApart(range) == range[1] < DayEnd /\ range[2] > 0

\* parseTimeRange: the end is after the start, and only the end may be 24:00.
ParseTimeRange(range) == range[1] < DayEnd /\ range[2] > range[1]

\* Faulty variant: only a range inside a row overlaps it.
ContainedIn(range, rows) == \E r \in rows : range[1] >= r.start /\ range[2] <= r.end

\* Two rows of one weekday may touch.
OverlapsExisting(range, rows) == \E r \in rows : range[1] < r.end /\ range[2] > r.start

Listed(weekday) == {r \in hours : r.weekday = weekday}
HoursRow(weekday, range) == [id |-> writes, weekday |-> weekday, start |-> range[1], end |-> range[2],
                             saw |-> {r.id : r \in hours}]
ClosureRow(d, range) == [id |-> writes, date |-> d, start |-> range[1], end |-> range[2]]
OverrideRow(d, range) == [id |-> writes, date |-> d, start |-> range[1], end |-> range[2]]

Write == writes < MaxWrites /\ writes' = writes + 1

\* What a request may by now have seen the schedule be.
Witnessed == request' = [r \in Requests |->
    IF request[r].step \in {"closures", "overrides"}
    THEN [request[r] EXCEPT !.during = @ \cup {Schedule'}, !.missed = @ + 1] ELSE request[r]]

\* addWorkingHoursAction up to its INSERT: the rows are listed and compared.
CheckHours(weekday, range) ==
    /\ Write
    /\ ParseTimeRange(range)
    /\ ~OverlapsExisting(range, Listed(weekday))
    /\ adding' = adding \cup {HoursRow(weekday, range)}
    /\ UNCHANGED <<zone, now, hours, closures, overrides, diary, request, owned>>

InsertHours(row) ==
    /\ adding' = adding \ {row}
    /\ hours' = hours \cup {row}
    /\ UNCHANGED <<zone, now, closures, overrides, diary, writes, owned>>
    /\ Witnessed

DeleteWorkingHours(row) ==
    /\ Write
    /\ hours' = hours \ {row}
    /\ UNCHANGED <<zone, now, closures, overrides, adding, diary, owned>>
    /\ Witnessed

AddClosure(d, range) ==
    /\ Write
    /\ range[1] # None => ParseTimeRange(range)
    /\ closures' = closures \cup {ClosureRow(d, range)}
    /\ UNCHANGED <<zone, now, hours, overrides, adding, diary, owned>>
    /\ Witnessed

DeleteClosure(row) ==
    /\ Write
    /\ closures' = closures \ {row}
    /\ UNCHANGED <<zone, now, hours, overrides, adding, diary, owned>>
    /\ Witnessed

\* No check against the other one-off hours of the date.
AddDateOverride(d, range) ==
    /\ Write
    /\ ParseTimeRange(range)
    /\ overrides' = overrides \cup {OverrideRow(d, range)}
    /\ UNCHANGED <<zone, now, hours, closures, adding, diary, owned>>
    /\ Witnessed

DeleteDateOverride(row) ==
    /\ Write
    /\ overrides' = overrides \ {row}
    /\ UNCHANGED <<zone, now, hours, closures, adding, diary, owned>>
    /\ Witnessed

-----------------------------------------------------------------------------
(* Appointments.                                                           *)

Entry(start, s, online, r) ==
    [from |-> Blocked(start, s).from, until |-> Blocked(start, s).until, start |-> start,
     end |-> start + s.durationMin, service |-> s, online |-> online,
     during |-> r.during, missed |-> r.missed]

NoRequest == [step |-> "idle", start |-> None, service |-> None, hours |-> {}, closures |-> {},
              during |-> {}, missed |-> 0]

\* The owner enters an appointment at any time of the day that exists.
OwnerBooks(d, m, s) ==
    /\ owned < MaxOwned
    /\ owned' = owned + 1
    /\ Exists(d, m)
    /\ LET start == LocalToInstant(d, m)
       IN  ~Clashes(start, s) /\ diary' = diary \cup {Entry(start, s, FALSE, NoRequest)}
    /\ UNCHANGED <<zone, now, hours, closures, overrides, adding, request, writes>>

Step(r, next) == request' = [request EXCEPT ![r] = next]
Unmoved == UNCHANGED <<zone, now, hours, closures, overrides, adding, diary, writes, owned>>

\* A request for some instant; its first statement reads the weekly hours.
ReadHours(r, start, s) ==
    /\ request[r].step = "idle"
    /\ Step(r, [NoRequest EXCEPT !.step = "closures", !.start = start, !.service = s, !.hours = hours,
                                 !.during = {Schedule}])
    /\ Unmoved

ReadClosures(r) ==
    /\ request[r].step = "closures"
    /\ Step(r, [request[r] EXCEPT !.step = "overrides", !.closures = closures])
    /\ Unmoved

\* Faulty variant: the time is looked for in what the page had loaded.
OfferedOnPage(r) == \E d \in Dates : Exists(d, InstantToMinutes(request[r].start))

\* The last statements read the one-off hours and what is busy.
Offered(r) ==
    LET q == request[r]
        sch == [hours |-> q.hours, closures |-> q.closures, overrides |-> overrides]
        day == Generate(sch, InstantToDateKey(q.start), q.service)
    IN  q.start \in Range(day.slots)

ReadOverrides(r) ==
    /\ request[r].step = "overrides"
    /\ Step(r, IF Offered(r) THEN [request[r] EXCEPT !.step = "place"] ELSE NoRequest)
    /\ Unmoved

\* createBooking: conflicts are looked for again, the hours are not.
Place(r) ==
    /\ request[r].step = "place"
    /\ Step(r, NoRequest)
    /\ diary' = IF Clashes(request[r].start, request[r].service) THEN diary
                ELSE diary \cup {Entry(request[r].start, request[r].service, TRUE, request[r])}
    /\ UNCHANGED <<zone, now, hours, closures, overrides, adding, writes, owned>>

Tick ==
    /\ \E t \in Moments : t > now /\ now' = t
    /\ UNCHANGED <<zone, hours, closures, overrides, adding, diary, request, writes, owned>>

-----------------------------------------------------------------------------
\* A business that keeps the hours it was created with, every day the same.
Init ==
    /\ zone \in {"plain", "spring", "fall"}
    /\ now = 0
    /\ hours = {[id |-> -1 - w, weekday |-> w, start |-> FirstHours[1], end |-> FirstHours[2], saw |-> {}] :
                    w \in {WeekdayOf[d] : d \in Dates}}
    /\ closures = {} /\ overrides = {} /\ adding = {} /\ diary = {}
    /\ request = [r \in Requests |-> NoRequest]
    /\ writes = 0 /\ owned = 0

Weekdays == {WeekdayOf[d] : d \in Dates}
Starts == UNION {{LocalToInstant(d, m) : m \in {m \in 0 .. DayEnd - 1 : Exists(d, m)}} : d \in Dates}

OwnerChanges ==
    \/ \E w \in Weekdays, range \in Ranges : CheckHours(w, range)
    \/ \E row \in adding : InsertHours(row)
    \/ \E row \in hours : DeleteWorkingHours(row)
    \/ \E d \in SpecialDates, range \in Ranges \cup {<<None, None>>} : AddClosure(d, range)
    \/ \E row \in closures : DeleteClosure(row)
    \/ \E d \in SpecialDates, range \in Ranges : AddDateOverride(d, range)
    \/ \E row \in overrides : DeleteDateOverride(row)

Appointments ==
    \/ \E d \in Dates, m \in 0 .. DayEnd - 1, s \in Services : OwnerBooks(d, m, s)
    \/ \E r \in Requests, start \in Starts, s \in Services : ReadHours(r, start, s)
    \/ \E r \in Requests : ReadClosures(r) \/ ReadOverrides(r) \/ Place(r)

Next == OwnerChanges \/ Appointments \/ Tick

Spec == Init /\ [][Next]_vars

-----------------------------------------------------------------------------
(* What open means, minute by minute.                                      *)

Ordered(r) == r.start \in 0 .. DayEnd - 1 /\ r.end \in 1 .. DayEnd /\ r.end > r.start
Shut(sch, d, m) == \E c \in sch.closures : c.date = d /\ (c.start = None \/ (c.start <= m /\ m < c.end))
OpenIn(sch, d, row, m) == row.start <= m /\ m < row.end /\ ~Shut(sch, d, m)

\* The rows that count on a date: its own, or those of its weekday.
Counts(sch, d, row) ==
    \/ row \in sch.overrides /\ row.date = d
    \/ row \in sch.hours /\ row.weekday = WeekdayOf[d] /\ ~\E o \in sch.overrides : o.date = d

\* m is on the grid of its stretch, and the appointment fits into what is left of it.
Fits(sch, d, m, s) ==
    \E row \in sch.hours \cup sch.overrides :
        /\ Counts(sch, d, row)
        /\ \A k \in m .. m + s.durationMin - 1 : OpenIn(sch, d, row, k)
        /\ \E first \in 0 .. m : /\ \A k \in first .. m : OpenIn(sch, d, row, k)
                                 /\ ~OpenIn(sch, d, row, first - 1)
                                 /\ (m - first) % Granularity = 0

Bookable(sch, d, s) ==
    {LocalToInstant(d, m) : m \in {m \in 0 .. DayEnd - 1 : Exists(d, m) /\ Fits(sch, d, m, s)}}

\* The minute an instant shows on the wall is one the business is open in.
OpenAt(sch, i) ==
    LET d == InstantToDateKey(i)
    IN  d \in Dates /\ \E row \in sch.hours \cup sch.overrides :
            Counts(sch, d, row) /\ OpenIn(sch, d, row, InstantToMinutes(i))

-----------------------------------------------------------------------------
(* Properties.                                                             *)

TypeOK ==
    /\ zone \in {"plain", "spring", "fall"} /\ now \in Nat
    /\ \A r \in hours \cup adding : Ordered(r) /\ r.weekday \in Weekdays
    /\ \A c \in closures : c.date \in Dates /\ (Ordered(c) \/ (c.start = None /\ c.end = None))
    /\ \A o \in overrides : o.date \in Dates /\ Ordered(o)
    /\ \A a, b \in hours \cup closures \cup overrides \cup adding : a.id = b.id => a = b
    /\ \A a, b \in diary : a # b => ~Overlaps(a.from, a.until, b.from, b.until)
    /\ \A r \in Requests : request[r].step \in {"idle", "closures", "overrides", "place"}

\* Whatever rows have been typed, the times of a day are those the rows mean, minute by
\* minute, taken out of closures, clock changes, notice and other bookings; they are in
\* order; and the day says "closed" exactly when no minute of it is open.
OfferedAsDefined ==
    \A d \in Dates, s \in Services :
        LET day == Generate(Schedule, d, s)
            open == \E m \in 0 .. DayEnd - 1 :
                        \E row \in hours \cup overrides : Counts(Schedule, d, row) /\ OpenIn(Schedule, d, row, m)
            free == {i \in Bookable(Schedule, d, s) : i >= now + Notice /\ ~Clashes(i, s)}
        IN  IF d > LastBookableDay THEN day.state = "beyond_horizon" /\ day.slots = <<>>
            ELSE /\ Range(day.slots) = free
                 /\ day.state = "closed" <=> ~open
                 /\ day.state = "open" <=> free # {}
                 /\ \A i, j \in DOMAIN day.slots : i < j /\ ~(\E a, b \in RowsFor(Schedule, d) :
                        a # b /\ Overlaps(a.start, a.end, b.start, b.end)) => day.slots[i] < day.slots[j]

\* Two rows of a weekday overlap only when both were checked before either was there.
RowsOverlapOnlyByRace ==
    \A a, b \in hours : a # b /\ a.weekday = b.weekday /\ Overlaps(a.start, a.end, b.start, b.end) =>
        a.id \notin b.saw /\ b.id \notin a.saw

\* An appointment made online began and, on a day without a clock change, ran inside the
\* hours as they were at some moment between the request's first and last look at them,
\* although it reads them in several statements: unless two changes came in between.
BookedInsideHours ==
    \A b \in diary : b.online /\ b.missed <= 1 =>
        \E sch \in b.during :
            /\ OpenAt(sch, b.start)
            /\ (zone = "plain" \/ InstantToDateKey(b.start) # 0) =>
                   \A i \in b.start .. b.end - 1 : OpenAt(sch, i)

\* The diary never labels as outside opening hours a time that is offered online, unless
\* the clocks change that day.
OfferedIsNotFlagged ==
    \A d \in Dates, s \in Services :
        d # 0 \/ zone = "plain" =>
            \A i \in Range(Generate(Schedule, d, s).slots) : ~IsOutside(Schedule, i, i + s.durationMin)
=============================================================================
