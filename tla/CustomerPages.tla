---------------------------- MODULE CustomerPages ----------------------------
(***************************************************************************)
(* What a customer's browser does: the booking page (b/BookingFlow.tsx) or *)
(* the manage page of one appointment (manage/ManageBooking.tsx), the      *)
(* calendar both of them mount (b/TimePicker.tsx over                      *)
(* b/useAvailability.ts), and the server actions they call, one at a time, *)
(* through useAsyncAction.                                                 *)
(*                                                                         *)
(* Days are numbers and have one time each; a month is a block of days.    *)
(* A tap is an action, a passive effect of React is an action, and a call  *)
(* is two: the server executes it, and the page gets, or does not get, the *)
(* answer.                                                                 *)
(***************************************************************************)
EXTENDS Integers, Sequences, SequencesExt

CONSTANTS
    Services,     \* the active services
    Open,         \* the days a service is offered on, per service
    LastDay,      \* the horizon; day 0 is today
    DaysPerMonth,
    Managed,      \* the service and the day of the appointment a manage page is about
    ManagedDay,
    None,
    MaxTaps,      \* bound on what the customer does
    MaxRivals,    \* bound on what others do to the diary meanwhile
    MaxFaults,    \* bound on refused calls and lost answers
    MaxClock      \* bound on the days that become too soon

Days == 0 .. LastDay
MonthOf(d) == d \div DaysPerMonth
Months == 0 .. MonthOf(LastDay)

ASSUME PagesAssumption ==
    /\ LastDay \in Nat /\ DaysPerMonth \in Nat \ {0}
    /\ Open \in [Services -> SUBSET Days]
    /\ Managed \in Services /\ ManagedDay \in Days
    /\ None \notin Days \cup Services
    /\ {MaxTaps, MaxRivals, MaxFaults, MaxClock} \subseteq Nat

VARIABLES
    page,         \* "book" or "manage"
    \* the server
    taken,        \* days other people's bookings hold
    mine,         \* what this page has booked
    appointment,  \* the managed booking
    clock,        \* the last day that is too soon to book or to cancel
    \* the page
    slot,         \* slotIso, pendingSlot
    epoch,
    flow,         \* the rest of BookingFlow's state
    manage,       \* the rest of ManageBooking's
    picker,       \* TimePicker and its useAvailability, while it is mounted
    calls,        \* server actions not answered yet, the oldest first
    \* history
    seen,         \* bookings a confirmation was shown for
    lost,         \* bookings and changes whose answer never arrived
    touched,      \* the owner has changed the managed booking
    taps, rivals, faults

server == <<taken, mine, appointment, clock>>
ui == <<slot, epoch, flow, manage, picker>>
history == <<seen, lost, touched, taps, rivals, faults>>
vars == <<page, server, ui, calls, history>>

Active(status) == status = "confirmed"
Busy == taken \cup {b.day : b \in mine}

\* What getAvailability offers; an appointment does not stand in the way of its own move.
Offered(s) == {d \in Open[s] \ Busy : d > clock}

-----------------------------------------------------------------------------
(* The calendar.                                                           *)

Absent == [known |-> FALSE, open |-> {}, service |-> None, epoch |-> 0]
NoCache == [m \in Months |-> Absent]
NoPicker == [mounted |-> FALSE, month |-> 0, cache |-> NoCache, failed |-> {},
             pending |-> FALSE, kind |-> "hunt", day |-> None]

\* The day the picker opens on: today's month, or the appointment's day.
InitialDay == IF page = "manage" THEN manage.day ELSE None
InitialSelection(p) ==
    [p EXCEPT !.kind = IF InitialDay = None THEN "hunt" ELSE "explicit", !.day = InitialDay]

Mounted ==
    InitialSelection([NoPicker EXCEPT !.mounted = TRUE,
                                      !.month = IF InitialDay = None THEN 0 ELSE MonthOf(InitialDay)])

\* Faulty variant: the reset key names the service and not the epoch.
ResetForService(p) == p

\* A changed reset key under a mounted picker: the month stays, a call in flight too.
Reset(p) == [InitialSelection(p) EXCEPT !.cache = NoCache, !.failed = {}]

\* Unmounted: setting state on it does nothing from now on.
Unheard == [i \in DOMAIN calls |-> [calls[i] EXCEPT !.heard = FALSE]]

Shown == picker.cache[picker.month]
Failed == picker.month \in picker.failed
FirstOpen == IF picker.kind = "explicit" THEN {}
             ELSE {d \in Shown.open : picker.kind = "hunt" /\ picker.day # None => d > picker.day}
SelectedDay == IF picker.kind = "explicit" THEN picker.day
               ELSE IF FirstOpen = {} THEN None ELSE Min(FirstOpen)
CanGoNext == picker.month < MonthOf(LastDay)
Searching == picker.kind = "hunt" /\ ~Failed /\ (~Shown.known \/ (FirstOpen = {} /\ CanGoNext))
Spinning == picker.mounted /\ ~Failed /\ (~Shown.known \/ Searching)

Call(kind, s, d, m) ==
    [kind |-> kind, service |-> s, day |-> d, month |-> m, heard |-> TRUE, answer |-> "none",
     cache |-> Absent, status |-> "none"]

\* The effect of useAvailability: one month at a time, and a failed one not again.
FetchMonth ==
    /\ picker.mounted /\ ~Shown.known /\ ~Failed /\ ~picker.pending
    /\ picker' = [picker EXCEPT !.pending = TRUE]
    /\ calls' = Append(calls, Call("load", IF page = "book" THEN flow.service ELSE Managed,
                                   None, picker.month))
    /\ UNCHANGED <<page, server, slot, epoch, flow, manage, history>>

\* The effect of TimePicker: the hunt goes on to the next month.
Hunt ==
    /\ picker.mounted /\ picker.kind = "hunt" /\ ~Failed
    /\ Shown.known /\ FirstOpen = {} /\ CanGoNext
    /\ picker' = [picker EXCEPT !.month = @ + 1]
    /\ UNCHANGED <<page, server, slot, epoch, flow, manage, calls, history>>

-----------------------------------------------------------------------------
(* What the customer taps.                                                 *)

Tap == taps < MaxTaps /\ taps' = taps + 1 /\ UNCHANGED <<page, server, seen, lost, touched, rivals, faults>>
PickerTap == Tap /\ picker.mounted /\ UNCHANGED <<slot, epoch, flow, manage, calls>>

SelectDay(d) ==
    /\ PickerTap
    /\ MonthOf(d) = picker.month /\ Shown.known /\ ~Failed
    /\ picker' = [picker EXCEPT !.kind = "explicit", !.day = d]

\* Faulty variant: the arrows forget the bounds of the calendar.
ChangeMonthFreely(step) ==
    /\ PickerTap
    /\ picker' = [picker EXCEPT !.month = @ + step, !.kind = "browse", !.day = None]

ChangeMonth(step) ==
    /\ PickerTap
    /\ picker.month + step \in Months
    /\ picker' = [picker EXCEPT !.month = @ + step, !.kind = "browse", !.day = None]

\* "Next day with openings", from a day, or a month, that has none.
HuntFrom(after) ==
    /\ PickerTap
    /\ ~Spinning /\ ~Failed
    /\ IF SelectedDay = None THEN picker.kind = "browse" /\ after = DaysPerMonth * (picker.month + 1) - 1
       ELSE after = SelectedDay /\ MonthOf(after) = picker.month /\ after \notin Shown.open
    /\ picker' = [picker EXCEPT !.kind = "hunt", !.day = after]

\* Offered when the hunt is exhausted, or the selected day is not in the month on screen.
JumpToHorizon ==
    /\ PickerTap
    /\ ~Spinning /\ ~Failed
    /\ IF SelectedDay = None THEN picker.kind = "hunt" ELSE MonthOf(SelectedDay) # picker.month
    /\ picker' = [picker EXCEPT !.month = MonthOf(LastDay), !.kind = "explicit", !.day = LastDay]

Retry ==
    /\ PickerTap
    /\ Failed
    /\ picker' = [picker EXCEPT !.failed = @ \ {picker.month}]

\* A time on screen: of the selected day, in the month shown.
MayPick(d) == picker.mounted /\ ~Failed /\ ~Spinning /\ d = SelectedDay /\ d \in Shown.open

\* The screens of the booking page; the picker is its "time".
ServiceStep == page = "book" /\ flow.step = "service"
DetailsStep == page = "book" /\ flow.step = "details"
ConfirmationView == page = "book" /\ flow.step = "done"

ChooseService(s) ==
    /\ Tap
    /\ ServiceStep
    /\ flow' = [flow EXCEPT !.step = "time", !.service = s]
    /\ slot' = None
    /\ picker' = Mounted
    /\ UNCHANGED <<epoch, manage, calls>>

\* Back, or the Change of the chosen service; a submission in flight does not stop her.
BackToService ==
    /\ Tap
    /\ page = "book" /\ flow.step \in {"time", "details"}
    /\ flow' = [flow EXCEPT !.step = "service"]
    /\ picker' = NoPicker
    /\ calls' = Unheard
    /\ UNCHANGED <<slot, epoch, manage>>

BackToTime ==
    /\ Tap
    /\ DetailsStep
    /\ flow' = [flow EXCEPT !.step = "time"]
    /\ picker' = Mounted
    /\ UNCHANGED <<slot, epoch, manage, calls>>

ChooseSlot(d) ==
    /\ Tap
    /\ page = "book" /\ MayPick(d)
    /\ slot' = d
    /\ flow' = [flow EXCEPT !.step = "details"]
    /\ picker' = NoPicker
    /\ calls' = Unheard
    /\ UNCHANGED <<epoch, manage>>

Submit ==
    /\ Tap
    /\ DetailsStep /\ ~flow.submitting
    /\ flow' = [flow EXCEPT !.submitting = TRUE]
    /\ calls' = Append(calls, Call("book", flow.service, slot, None))
    /\ UNCHANGED <<slot, epoch, manage, picker>>

StartOver ==
    /\ Tap
    /\ ConfirmationView
    /\ flow' = [step |-> "service", service |-> None, submitting |-> FALSE, confirmation |-> None]
    /\ slot' = None
    /\ epoch' = epoch + 1
    /\ UNCHANGED <<manage, picker, calls>>

ChangePendingSlot(d) ==
    /\ Tap
    /\ page = "manage" /\ MayPick(d)
    /\ slot' = d
    /\ UNCHANGED <<epoch, flow, manage, picker, calls>>

\* The manage page with no overlay on it, for an appointment that is still to come.
MayChange == page = "manage" /\ ~manage.sheet /\ ~manage.dialog /\ Active(manage.status)

OpenSheet ==
    /\ Tap
    /\ MayChange
    /\ manage' = [manage EXCEPT !.sheet = TRUE]
    /\ picker' = Mounted
    /\ UNCHANGED <<slot, epoch, flow, calls>>

\* A sheet closes at any time, whatever is in flight; what it held is unmounted.
CloseSheet ==
    /\ Tap
    /\ manage.sheet
    /\ manage' = [manage EXCEPT !.sheet = FALSE]
    /\ slot' = None
    /\ picker' = NoPicker
    /\ calls' = Unheard
    /\ UNCHANGED <<epoch, flow>>

ConfirmMove ==
    /\ Tap
    /\ manage.sheet /\ slot # None /\ ~manage.moving
    /\ manage' = [manage EXCEPT !.moving = TRUE]
    /\ calls' = Append(calls, Call("move", Managed, slot, None))
    /\ UNCHANGED <<slot, epoch, flow, picker>>

\* Offered by the instant the page was rendered at, day 0, not by the server's clock.
OpenDialog ==
    /\ Tap
    /\ MayChange /\ manage.day > 0
    /\ manage' = [manage EXCEPT !.dialog = TRUE]
    /\ UNCHANGED <<slot, epoch, flow, picker, calls>>

CloseDialog ==
    /\ Tap
    /\ manage.dialog
    /\ manage' = [manage EXCEPT !.dialog = FALSE]
    /\ UNCHANGED <<slot, epoch, flow, picker, calls>>

ConfirmCancel ==
    /\ Tap
    /\ manage.dialog /\ ~manage.cancelling
    /\ manage' = [manage EXCEPT !.cancelling = TRUE]
    /\ calls' = Append(calls, Call("cancel", Managed, None, None))
    /\ UNCHANGED <<slot, epoch, flow, picker>>

-----------------------------------------------------------------------------
(* What the server does with a call.  The client hands it one at a time.   *)

Ready(i) == i = 1

Executed(i, answer) == calls' = [calls EXCEPT ![i].answer = answer, ![i].status = appointment'.status,
                                              ![i].cache = Absent]

Load(i) ==
    /\ calls[i].kind = "load"
    /\ calls' = [calls EXCEPT
           ![i].answer = "ok",
           ![i].cache = [known |-> TRUE, service |-> calls[i].service, epoch |-> epoch,
                         open |-> {d \in Offered(calls[i].service) : MonthOf(d) = calls[i].month}]]
    /\ UNCHANGED <<server, faults>>

Book(i) ==
    /\ calls[i].kind = "book"
    /\ IF calls[i].day \in Offered(calls[i].service)
       THEN /\ mine' = mine \cup {[service |-> calls[i].service, day |-> calls[i].day]}
            /\ UNCHANGED appointment
            /\ Executed(i, "ok")
       ELSE /\ UNCHANGED <<mine, appointment>>
            /\ Executed(i, "taken")
    /\ UNCHANGED <<taken, clock, faults>>

Move(i) ==
    /\ calls[i].kind = "move"
    /\ IF ~Active(appointment.status)
       THEN UNCHANGED appointment /\ Executed(i, "refused")
       ELSE IF calls[i].day \in Offered(Managed)
       THEN appointment' = [appointment EXCEPT !.day = calls[i].day] /\ Executed(i, "ok")
       ELSE UNCHANGED appointment /\ Executed(i, "taken")
    /\ UNCHANGED <<taken, mine, clock, faults>>

Cancel(i) ==
    /\ calls[i].kind = "cancel"
    /\ IF ~Active(appointment.status)
       THEN UNCHANGED appointment /\ Executed(i, "refused")
       ELSE IF appointment.day <= clock
       THEN UNCHANGED appointment /\ Executed(i, "too_late")
       ELSE appointment' = [appointment EXCEPT !.status = "cancelled"] /\ Executed(i, "ok")
    /\ UNCHANGED <<taken, mine, clock, faults>>

\* A rate limit, a field that is refused, an error, or a request that never arrives.
Refuse(i) ==
    /\ faults < MaxFaults
    /\ faults' = faults + 1
    /\ UNCHANGED server
    /\ Executed(i, "refused")

Execute ==
    \E i \in DOMAIN calls :
        /\ Ready(i) /\ calls[i].answer = "none"
        /\ Load(i) \/ Book(i) \/ Move(i) \/ Cancel(i) \/ Refuse(i)
        /\ UNCHANGED <<page, ui, seen, lost, touched, taps, rivals>>

-----------------------------------------------------------------------------
(* What the page does with an answer.                                      *)

\* Faulty variant: no finally, so a load that fails leaves `pending` set.
LoadFailsPending(c) ==
    /\ picker' = IF c.heard THEN [picker EXCEPT !.failed = @ \cup {c.month}] ELSE picker
    /\ UNCHANGED <<slot, epoch, flow, manage, seen>>

LoadFails(c) ==
    /\ picker' = IF c.heard THEN [picker EXCEPT !.failed = @ \cup {c.month}, !.pending = FALSE]
                 ELSE picker
    /\ UNCHANGED <<slot, epoch, flow, manage, seen>>

Loaded(c) ==
    /\ picker' = IF c.heard THEN [picker EXCEPT !.cache[c.month] = c.cache, !.pending = FALSE]
                 ELSE picker
    /\ UNCHANGED <<slot, epoch, flow, manage, seen>>

\* Faulty variant: confirms what the page holds by now.
BookedAsShown(c) ==
    /\ flow' = [flow EXCEPT !.submitting = FALSE, !.step = "done",
                            !.confirmation = [service |-> flow.service, day |-> slot]]
    /\ seen' = seen \cup {flow'.confirmation}
    /\ picker' = NoPicker
    /\ UNCHANGED <<slot, epoch, manage>>

Booked(c) ==
    /\ flow' = [flow EXCEPT !.submitting = FALSE, !.step = "done",
                            !.confirmation = [service |-> c.service, day |-> c.day]]
    /\ seen' = seen \cup {flow'.confirmation}
    /\ picker' = NoPicker
    /\ UNCHANGED <<slot, epoch, manage>>

\* The calendar starts afresh; where she is on it already, in place.
Refreshed(mounted) == IF mounted THEN Reset(picker) ELSE Mounted

SlotTaken(c) ==
    /\ flow' = [flow EXCEPT !.submitting = FALSE, !.step = "time"]
    /\ slot' = None
    /\ epoch' = epoch + 1
    /\ picker' = Refreshed(picker.mounted)
    /\ UNCHANGED <<manage, seen>>

Moved(c) ==
    /\ manage' = [manage EXCEPT !.moving = FALSE, !.day = c.day, !.status = c.status,
                                !.sheet = FALSE]
    /\ slot' = None
    /\ picker' = NoPicker
    /\ UNCHANGED <<epoch, flow, seen>>

MoveTaken(c) ==
    /\ manage' = [manage EXCEPT !.moving = FALSE]
    /\ slot' = None
    /\ epoch' = epoch + 1
    /\ picker' = IF picker.mounted THEN Reset(picker) ELSE picker
    /\ UNCHANGED <<flow, seen>>

\* Faulty variant: an answer that finds its dialog closed is dropped.
CancelledInDialog(c) ==
    /\ manage' = [manage EXCEPT !.cancelling = FALSE, !.dialog = FALSE,
                                !.status = IF manage.dialog THEN c.status ELSE @]
    /\ UNCHANGED <<slot, epoch, flow, picker, seen>>

Cancelled(c) ==
    /\ manage' = [manage EXCEPT !.cancelling = FALSE, !.dialog = FALSE, !.status = c.status]
    /\ UNCHANGED <<slot, epoch, flow, picker, seen>>

TooLate(c) ==
    /\ manage' = [manage EXCEPT !.cancelling = FALSE, !.dialog = FALSE]
    /\ UNCHANGED <<slot, epoch, flow, picker, seen>>

\* Anything else is thrown: the message appears, and the button can be used again.
Thrown(c) ==
    /\ flow' = IF c.kind = "book" THEN [flow EXCEPT !.submitting = FALSE] ELSE flow
    /\ manage' = [manage EXCEPT !.moving = @ /\ c.kind # "move", !.cancelling = @ /\ c.kind # "cancel"]
    /\ UNCHANGED <<slot, epoch, picker, seen>>

Handle(c) ==
    \/ c.kind = "load" /\ c.answer = "ok" /\ Loaded(c)
    \/ c.kind = "load" /\ c.answer = "refused" /\ LoadFails(c)
    \/ c.kind = "book" /\ c.answer = "ok" /\ Booked(c)
    \/ c.kind = "book" /\ c.answer = "taken" /\ SlotTaken(c)
    \/ c.kind = "move" /\ c.answer = "ok" /\ Moved(c)
    \/ c.kind = "move" /\ c.answer = "taken" /\ MoveTaken(c)
    \/ c.kind = "cancel" /\ c.answer = "ok" /\ Cancelled(c)
    \/ c.kind = "cancel" /\ c.answer = "too_late" /\ TooLate(c)
    \/ c.kind # "load" /\ c.answer = "refused" /\ Thrown(c)

\* The picker unmounts with an answer that leaves the step it is on.
Without(i) == LET rest == RemoveAt(calls, i)
              IN  IF picker.mounted /\ ~picker'.mounted
                  THEN [j \in DOMAIN rest |-> [rest[j] EXCEPT !.heard = FALSE]] ELSE rest

Answer ==
    \E i \in DOMAIN calls :
        /\ calls[i].answer # "none"
        /\ Handle(calls[i])
        /\ calls' = Without(i)
        /\ UNCHANGED <<page, server, lost, touched, taps, rivals, faults>>

\* The server has done it and the answer never arrives: the promise rejects.
LoseAnswer ==
    \E i \in DOMAIN calls :
        /\ calls[i].answer \in {"ok", "taken", "too_late"}
        /\ faults < MaxFaults
        /\ faults' = faults + 1
        /\ lost' = IF calls[i].kind = "load" THEN lost ELSE lost \cup {calls[i].day}
        /\ IF calls[i].kind = "load" THEN LoadFails(calls[i]) ELSE Thrown(calls[i])
        /\ calls' = Without(i)
        /\ UNCHANGED <<page, server, touched, taps, rivals>>

-----------------------------------------------------------------------------
(* Everyone else, and time.                                                *)

\* Another customer, or the owner, books a day.
OthersBook(d) ==
    /\ rivals < MaxRivals
    /\ rivals' = rivals + 1
    /\ d \notin Busy /\ (page = "manage" /\ Active(appointment.status) => d # appointment.day)
    /\ taken' = taken \cup {d}
    /\ UNCHANGED <<page, mine, appointment, clock, ui, calls, seen, lost, touched, taps, faults>>

\* The owner cancels the managed appointment.
OwnerCancels ==
    /\ rivals < MaxRivals
    /\ rivals' = rivals + 1
    /\ page = "manage" /\ Active(appointment.status)
    /\ appointment' = [appointment EXCEPT !.status = "cancelled"]
    /\ touched' = TRUE
    /\ UNCHANGED <<page, taken, mine, clock, ui, calls, seen, lost, taps, faults>>

Tick ==
    /\ clock < MaxClock
    /\ clock' = clock + 1
    /\ UNCHANGED <<page, taken, mine, appointment, ui, calls, history>>

-----------------------------------------------------------------------------
Init ==
    /\ page \in {"book", "manage"}
    /\ taken = {} /\ mine = {}
    /\ appointment = [status |-> IF page = "manage" THEN "confirmed" ELSE "none", day |-> ManagedDay]
    /\ clock = 0
    /\ slot = None /\ epoch = 0
    /\ flow = [step |-> "service", service |-> None, submitting |-> FALSE, confirmation |-> None]
    /\ manage = [status |-> appointment.status, day |-> ManagedDay, sheet |-> FALSE,
                 dialog |-> FALSE, moving |-> FALSE, cancelling |-> FALSE]
    /\ picker = NoPicker /\ calls = <<>>
    /\ seen = {} /\ lost = {} /\ touched = FALSE
    /\ taps = 0 /\ rivals = 0 /\ faults = 0

TapsCalendar ==
    \/ \E d \in Days : SelectDay(d) \/ HuntFrom(d) \/ ChooseSlot(d) \/ ChangePendingSlot(d)
    \/ \E step \in {-1, 1} : ChangeMonth(step)
    \/ JumpToHorizon
    \/ Retry

TapsBook ==
    \/ \E s \in Services : ChooseService(s)
    \/ BackToService
    \/ BackToTime
    \/ Submit
    \/ StartOver

TapsManage ==
    \/ OpenSheet
    \/ CloseSheet
    \/ ConfirmMove
    \/ OpenDialog
    \/ CloseDialog
    \/ ConfirmCancel

Effects == FetchMonth \/ Hunt
Network == Execute \/ Answer

Next ==
    \/ TapsCalendar
    \/ TapsBook
    \/ TapsManage
    \/ Effects
    \/ Network
    \/ LoseAnswer
    \/ \E d \in Days : OthersBook(d)
    \/ OwnerCancels
    \/ Tick

Spec == Init /\ [][Next]_vars

\* React runs the effects of a committed render, and a request of the browser ends.
FairSpec == Spec /\ WF_vars(Effects) /\ WF_vars(Network)

-----------------------------------------------------------------------------
(* Properties.                                                             *)

Selections == {"explicit", "browse", "hunt"}
Answers == {"none", "ok", "taken", "too_late", "refused"}
CacheOf(e) == e.open \subseteq Days /\ e.service \in Services \cup {None} /\ e.epoch \in 0 .. epoch

TypeOK ==
    /\ page \in {"book", "manage"}
    /\ taken \subseteq Days /\ mine \subseteq [service : Services, day : Days]
    /\ appointment \in [status : {"none", "confirmed", "cancelled"}, day : Days]
    /\ clock \in 0 .. MaxClock
    /\ slot \in Days \cup {None} /\ epoch \in Nat
    /\ flow.step \in {"service", "time", "details", "done"}
    /\ flow.step \in {"time", "details"} => flow.service \in Services
    /\ flow.step = "details" => slot \in Days
    /\ flow.step = "time" \/ manage.sheet <=> picker.mounted
    /\ picker.month \in Months /\ picker.failed \subseteq Months
    /\ picker.kind \in Selections /\ picker.day \in Days \cup {None}
    /\ \A m \in Months : CacheOf(picker.cache[m])
    /\ \A i \in DOMAIN calls : calls[i].answer \in Answers /\ CacheOf(calls[i].cache)
    /\ {d \in Days : d \in {b.day : b \in mine}} \cap taken = {}

\* Every month in the calendar was read for the service on screen, and after the latest
\* time the page learnt that what it had was stale, although loads are in flight when
\* the service changes, when a submission fails and when the calendar is unmounted.
CacheIsFresh ==
    picker.mounted =>
        \A m \in Months : picker.cache[m].known =>
            /\ picker.cache[m].epoch = epoch
            /\ picker.cache[m].service = IF page = "book" THEN flow.service ELSE Managed

\* Every booking the page has made is confirmed on screen, with what was booked, or its
\* answer is still to come or was lost, however the customer moves about meanwhile.
BookingsAreShown ==
    /\ \A b \in mine : \/ b \in seen
                       \/ b.day \in lost
                       \/ \E i \in DOMAIN calls : /\ calls[i].kind = "book" /\ calls[i].answer = "ok"
                                                 /\ calls[i].day = b.day
    /\ seen \subseteq mine
    /\ flow.step = "done" => flow.confirmation \in mine

\* With nothing in flight, the manage page shows the appointment as it is, unless an
\* answer was lost or the owner has changed it.
ManageShowsServer ==
    page = "manage" /\ lost = {} /\ ~touched /\ ~manage.moving /\ ~manage.cancelling =>
        manage.status = appointment.status /\ manage.day = appointment.day

\* The day a customer has chosen is in the month she is looking at.
SelectedDayIsOnScreen ==
    picker.mounted /\ picker.kind = "explicit" => MonthOf(picker.day) = picker.month

\* The calendar never spins for ever: a month that is loading, or a hunt, ends in days
\* to tap or in a message with a button.
SpinnerEnds == Spinning ~> ~Spinning
=============================================================================
