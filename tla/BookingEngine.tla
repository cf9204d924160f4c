---------------------------- MODULE BookingEngine ----------------------------
(***************************************************************************)
(* The booking engine of one business: createBooking, rescheduleBooking,   *)
(* cancelBooking and markNoShow of lib/booking.ts, and the owner's single- *)
(* statement writes to the same table (confirmBooking, markBookingSeen,    *)
(* markAllSeen), as transactions over the bookings table.                  *)
(*                                                                         *)
(* A call is issued once and runs one READ COMMITTED transaction.  Each    *)
(* statement whose answer depends on what others have committed is an      *)
(* action: the advisory lock, the conflict query, the read that a          *)
(* cancellation or a no-show is judged by, and the write.  A write and its *)
(* COMMIT are one action, because a row's new version is computed from the *)
(* latest committed one under a row lock held until the COMMIT.  What a    *)
(* reschedule reads before it locks (duration and buffers) never changes   *)
(* once the row exists, so that read is part of the step that begins it.   *)
(***************************************************************************)
EXTENDS Integers

CONSTANTS
    Bookings,      \* the ids gen_random_uuid() can mint
    Calls,         \* calls to the engine, each issued at most once
    NoCall,        \* the holder of a day nobody has locked
    NoBooking,     \* the booking of a call that names none
    Starts,        \* instants a booking can be placed at
    Shapes,        \* a service's duration and buffers: [dur, before, after]
    Days,          \* local calendar days
    DayOf(_),      \* instantToDateKey in the business's zone
    CancelWindow,  \* businesses.cancellation_window_min
    MaxClock,      \* bound on the clock
    Kinds          \* the kinds of calls issued, a subset of AllKinds

AllKinds == {"create", "reschedule", "cancel", "noShow", "confirm", "seen", "allSeen"}
Actors == {"customer", "admin"}

ASSUME EngineAssumption ==
    /\ NoCall \notin Calls
    /\ NoBooking \notin Bookings
    /\ Starts \subseteq Nat \ {0} /\ Starts # {}
    /\ Shapes \subseteq [dur : Nat \ {0}, before : Nat, after : Nat] /\ Shapes # {}
    /\ \A s \in Starts : DayOf(s) \in Days
    /\ CancelWindow \in Nat
    /\ MaxClock \in Nat
    /\ Kinds \subseteq AllKinds

VARIABLES
    \* the bookings table, by column; an id without a row has status "none"
    status,
    starts,
    shape,        \* duration, buffer_before_min and buffer_after_min
    revision,
    changedAt,    \* last_customer_change_at, 0 when NULL
    seenAt,       \* owner_seen_at, 0 when NULL
    \* history: the `overlapped` flag the booking's last placement returned
    overlapped,
    \* the running transactions
    clock,
    lockedBy,     \* the advisory lock of each day: the call that holds it
    phase,        \* where each call is
    arg,          \* what each call was asked, and what it has read
    found         \* whether a call's conflict query returned a row

table == <<status, starts, shape, revision, changedAt, seenAt, overlapped>>
vars == <<table, clock, lockedBy, phase, arg, found>>

-----------------------------------------------------------------------------
(* Rows.                                                                   *)

Live(b) == status[b] \in {"pending", "confirmed"}
Gone(b) == status[b] \in {"cancelled", "no_show"}
Ends(b) == starts[b] + shape[b].dur

\* The interval a placement keeps others out of: the appointment and its buffers.
Blocked(s, sh) == [from |-> s - sh.before, until |-> s + sh.dur + sh.after]
BlockedBy(b) == Blocked(starts[b], shape[b])

Overlap(x, y) == x.from < y.until /\ x.until > y.from

\* Faulty variant: a booking still waiting for the owner does not hold its slot.
ConflictsIgnoringPending(b, s, sh, excluded) ==
    /\ b # excluded
    /\ status[b] = "confirmed"
    /\ Overlap(BlockedBy(b), Blocked(s, sh))

Conflicts(b, s, sh, excluded) ==
    /\ b # excluded
    /\ Live(b)
    /\ Overlap(BlockedBy(b), Blocked(s, sh))

FindConflict(s, sh, excluded) == \E b \in Bookings : Conflicts(b, s, sh, excluded)

\* The single definition of "the customer has changed this since the owner looked".
NeedsAttention(b) == changedAt[b] # 0 /\ (seenAt[b] = 0 \/ seenAt[b] < changedAt[b])

-----------------------------------------------------------------------------
(* Calls.                                                                  *)

Placement(c) == arg[c].kind \in {"create", "reschedule"}
Running(c) == phase[c] \in {"lock", "check", "judge", "write"}
Ended(c) == phase[c] \in {"done", "failed"}
Excluded(c) == arg[c].booking

Arg == [kind : AllKinds, by : Actors, booking : Bookings \cup {NoBooking},
        start : Starts, shape : Shapes, status : {"pending", "confirmed"},
        allow : BOOLEAN, at : Nat, saw : Nat]

BlankArg == [kind |-> "allSeen", by |-> "admin", booking |-> NoBooking,
             start |-> CHOOSE s \in Starts : TRUE, shape |-> CHOOSE sh \in Shapes : TRUE,
             status |-> "confirmed", allow |-> FALSE, at |-> 0, saw |-> 0]

Init ==
    /\ status = [b \in Bookings |-> "none"]
    /\ starts = [b \in Bookings |-> BlankArg.start]
    /\ shape = [b \in Bookings |-> BlankArg.shape]
    /\ revision = [b \in Bookings |-> 0]
    /\ changedAt = [b \in Bookings |-> 0]
    /\ seenAt = [b \in Bookings |-> 0]
    /\ overlapped = [b \in Bookings |-> FALSE]
    /\ clock = 1
    /\ lockedBy = [d \in Days |-> NoCall]
    /\ phase = [c \in Calls |-> "new"]
    /\ arg = [c \in Calls |-> BlankArg]
    /\ found = [c \in Calls |-> FALSE]

\* BEGIN: now() is fixed here for the whole transaction.
Begin(c, a, firstPhase) ==
    /\ phase[c] = "new"
    /\ a.kind \in Kinds
    /\ phase' = [phase EXCEPT ![c] = firstPhase]
    /\ arg' = [arg EXCEPT ![c] = [a EXCEPT !.at = clock]]
    /\ UNCHANGED <<table, clock, lockedBy, found>>

\* Faulty variant: a session-level lock, which an error path forgets to release.
EndForgettingLock(c, outcome) ==
    /\ phase' = [phase EXCEPT ![c] = outcome]
    /\ lockedBy' = [d \in Days |-> IF lockedBy[d] = c /\ outcome = "done" THEN NoCall
                                                                       ELSE lockedBy[d]]
    /\ arg' = [arg EXCEPT ![c] = BlankArg]
    /\ found' = [found EXCEPT ![c] = FALSE]
    /\ UNCHANGED clock

\* COMMIT or ROLLBACK: either releases what the transaction has locked, and nothing
\* of the call is remembered.
End(c, outcome) ==
    /\ phase' = [phase EXCEPT ![c] = outcome]
    /\ lockedBy' = [d \in Days |-> IF lockedBy[d] = c THEN NoCall ELSE lockedBy[d]]
    /\ arg' = [arg EXCEPT ![c] = BlankArg]
    /\ found' = [found EXCEPT ![c] = FALSE]
    /\ UNCHANGED clock

\* The statement the call was waiting for has run; the transaction goes on.
Proceed(c, next) ==
    /\ phase' = [phase EXCEPT ![c] = next]
    /\ UNCHANGED <<table, clock, arg>>

\* An error is thrown inside the transaction: it rolls back and changes no row.
Abort(c) ==
    /\ End(c, "failed")
    /\ UNCHANGED table

-----------------------------------------------------------------------------
(* Beginning a call.  The override is the owner's alone: no customer path  *)
(* passes allowOverlap, and only a customer's booking starts out pending.  *)

BeginCreate(c) ==
    \E by \in Actors, s \in Starts, sh \in Shapes, st \in {"pending", "confirmed"},
       allow \in BOOLEAN :
        /\ allow => by = "admin"
        /\ st = "pending" => by = "customer"
        /\ Begin(c, [BlankArg EXCEPT !.kind = "create", !.by = by, !.start = s,
                                     !.shape = sh, !.status = st, !.allow = allow], "lock")

BeginReschedule(c) ==
    \E b \in Bookings, by \in Actors, s \in Starts, allow \in BOOLEAN :
        /\ status[b] # "none"
        /\ allow => by = "admin"
        /\ Begin(c, [BlankArg EXCEPT !.kind = "reschedule", !.by = by, !.booking = b,
                                     !.start = s, !.shape = shape[b], !.allow = allow], "lock")

\* Only a customer is held to the cancellation window.
BeginCancel(c) ==
    \E b \in Bookings, by \in Actors :
        /\ status[b] # "none"
        /\ Begin(c, [BlankArg EXCEPT !.kind = "cancel", !.by = by, !.booking = b],
                 IF by = "customer" THEN "judge" ELSE "write")

BeginNoShow(c) ==
    \E b \in Bookings :
        /\ status[b] # "none"
        /\ Begin(c, [BlankArg EXCEPT !.kind = "noShow", !.booking = b], "judge")

\* saw is the change the owner's screen shows when she taps.
BeginOwnerMark(c) ==
    \E b \in Bookings, kind \in {"confirm", "seen"} :
        /\ status[b] # "none"
        /\ Begin(c, [BlankArg EXCEPT !.kind = kind, !.booking = b, !.saw = changedAt[b]],
                 "write")

BeginAllSeen(c) == Begin(c, [BlankArg EXCEPT !.kind = "allSeen"], "write")

-----------------------------------------------------------------------------
(* The statements of a placement.                                          *)

\* Faulty variant: a move locks the day the booking leaves, not the one it enters.
LockOldDay(c) ==
    /\ phase[c] = "lock"
    /\ LET day == DayOf(IF arg[c].booking = NoBooking THEN arg[c].start
                        ELSE starts[arg[c].booking])
       IN  /\ lockedBy[day] = NoCall
           /\ lockedBy' = [lockedBy EXCEPT ![day] = c]
    /\ Proceed(c, "check")
    /\ UNCHANGED found

LockDay(c) ==
    /\ phase[c] = "lock"
    /\ lockedBy[DayOf(arg[c].start)] = NoCall
    /\ lockedBy' = [lockedBy EXCEPT ![DayOf(arg[c].start)] = c]
    /\ Proceed(c, "check")
    /\ UNCHANGED found

\* The conflict query, and the refusal of a clash nobody asked to override.
CheckConflict(c) ==
    /\ phase[c] = "check"
    /\ LET conflict == FindConflict(arg[c].start, arg[c].shape, Excluded(c))
       IN  \/ /\ conflict /\ ~arg[c].allow
              /\ Abort(c)
           \/ /\ ~conflict \/ arg[c].allow
              /\ found' = [found EXCEPT ![c] = conflict]
              /\ Proceed(c, "write")
              /\ UNCHANGED lockedBy

InsertBooking(c) ==
    /\ phase[c] = "write" /\ arg[c].kind = "create"
    /\ \E b \in Bookings :
        /\ status[b] = "none"
        /\ status' = [status EXCEPT ![b] = arg[c].status]
        /\ starts' = [starts EXCEPT ![b] = arg[c].start]
        /\ shape' = [shape EXCEPT ![b] = arg[c].shape]
        /\ changedAt' = [changedAt EXCEPT ![b] =
                            IF arg[c].by = "customer" THEN arg[c].at ELSE 0]
        /\ overlapped' = [overlapped EXCEPT ![b] = found[c]]
    /\ End(c, "done")
    /\ UNCHANGED <<revision, seenAt>>

\* What a write by the customer does to the unseen-changes badge.  The faulty variant
\* trusts the timestamps alone and leaves owner_seen_at as it is.
StampOnly(c, b) ==
    IF arg[c].by = "customer"
    THEN /\ changedAt' = [changedAt EXCEPT ![b] = arg[c].at]
         /\ UNCHANGED seenAt
    ELSE UNCHANGED <<changedAt, seenAt>>

StampChange(c, b) ==
    IF arg[c].by = "customer"
    THEN /\ changedAt' = [changedAt EXCEPT ![b] = arg[c].at]
         /\ seenAt' = [seenAt EXCEPT ![b] = 0]
    ELSE UNCHANGED <<changedAt, seenAt>>

\* Faulty variant: the revision a calendar client sees is the new start time.
MoveBookingSequencedByStart(c) ==
    /\ phase[c] = "write" /\ arg[c].kind = "reschedule"
    /\ LET b == arg[c].booking
       IN  /\ starts' = [starts EXCEPT ![b] = arg[c].start]
           /\ revision' = [revision EXCEPT ![b] = arg[c].start]
           /\ overlapped' = [overlapped EXCEPT ![b] = found[c]]
           /\ StampChange(c, b)
    /\ End(c, "done")
    /\ UNCHANGED <<status, shape>>

MoveBooking(c) ==
    /\ phase[c] = "write" /\ arg[c].kind = "reschedule"
    /\ LET b == arg[c].booking
       IN  /\ starts' = [starts EXCEPT ![b] = arg[c].start]
           /\ revision' = [revision EXCEPT ![b] = @ + 1]
           /\ overlapped' = [overlapped EXCEPT ![b] = found[c]]
           /\ StampChange(c, b)
    /\ End(c, "done")
    /\ UNCHANGED <<status, shape>>

-----------------------------------------------------------------------------
(* The statements of the other calls.                                      *)

\* Reads the row and throws CancellationTooLateError inside the window.
JudgeNotice(c) ==
    /\ phase[c] = "judge" /\ arg[c].kind = "cancel"
    /\ LET b == arg[c].booking
       IN  \/ /\ starts[b] - arg[c].at < CancelWindow
              /\ Abort(c)
           \/ /\ starts[b] - arg[c].at >= CancelWindow
              /\ phase' = [phase EXCEPT ![c] = "write"]
              /\ arg' = [arg EXCEPT ![c].saw = revision[b]]
              /\ UNCHANGED <<table, clock, lockedBy, found>>

CancelBooking(c) ==
    /\ phase[c] = "write" /\ arg[c].kind = "cancel"
    /\ LET b == arg[c].booking
       IN  /\ status' = [status EXCEPT ![b] = "cancelled"]
           /\ revision' = [revision EXCEPT ![b] = @ + 1]
           /\ StampChange(c, b)
    /\ End(c, "done")
    /\ UNCHANGED <<starts, shape, overlapped>>

\* Faulty variant: an appointment that has begun can already be missed.
JudgeStarted(c) ==
    /\ phase[c] = "judge" /\ arg[c].kind = "noShow"
    /\ starts[arg[c].booking] <= arg[c].at
    /\ phase' = [phase EXCEPT ![c] = "write"]
    /\ arg' = [arg EXCEPT ![c].saw = revision[arg[c].booking]]
    /\ UNCHANGED <<table, clock, lockedBy, found>>

\* Reads the row and throws BookingNotFinishedError before its end.
JudgeFinished(c) ==
    /\ phase[c] = "judge" /\ arg[c].kind = "noShow"
    /\ LET b == arg[c].booking
       IN  \/ /\ Ends(b) > arg[c].at
              /\ Abort(c)
           \/ /\ Ends(b) <= arg[c].at
              /\ phase' = [phase EXCEPT ![c] = "write"]
              /\ arg' = [arg EXCEPT ![c].saw = revision[b]]
              /\ UNCHANGED <<table, clock, lockedBy, found>>

\* Faulty variant: a status the table's CHECK does not list.
MarkMissed(c) ==
    /\ phase[c] = "write" /\ arg[c].kind = "noShow"
    /\ status' = [status EXCEPT ![arg[c].booking] = "missed"]
    /\ revision' = [revision EXCEPT ![arg[c].booking] = @ + 1]
    /\ End(c, "done")
    /\ UNCHANGED <<starts, shape, changedAt, seenAt, overlapped>>

MarkNoShow(c) ==
    /\ phase[c] = "write" /\ arg[c].kind = "noShow"
    /\ status' = [status EXCEPT ![arg[c].booking] = "no_show"]
    /\ revision' = [revision EXCEPT ![arg[c].booking] = @ + 1]
    /\ End(c, "done")
    /\ UNCHANGED <<starts, shape, changedAt, seenAt, overlapped>>

\* Faulty variant: the UPDATE without its AND status = 'pending'.
ConfirmWhatever(c) ==
    /\ phase[c] = "write" /\ arg[c].kind = "confirm"
    /\ status' = [status EXCEPT ![arg[c].booking] = "confirmed"]
    /\ End(c, "done")
    /\ UNCHANGED <<starts, shape, revision, changedAt, seenAt, overlapped>>

ConfirmBooking(c) ==
    /\ phase[c] = "write" /\ arg[c].kind = "confirm"
    /\ status' = [status EXCEPT ![arg[c].booking] = IF @ = "pending" THEN "confirmed" ELSE @]
    /\ End(c, "done")
    /\ UNCHANGED <<starts, shape, revision, changedAt, seenAt, overlapped>>

MarkBookingSeen(c) ==
    /\ phase[c] = "write" /\ arg[c].kind = "seen"
    /\ seenAt' = [seenAt EXCEPT ![arg[c].booking] = arg[c].at]
    /\ End(c, "done")
    /\ UNCHANGED <<status, starts, shape, revision, changedAt, overlapped>>

MarkAllSeen(c) ==
    /\ phase[c] = "write" /\ arg[c].kind = "allSeen"
    /\ seenAt' = [b \in Bookings |-> IF NeedsAttention(b) THEN arg[c].at ELSE seenAt[b]]
    /\ End(c, "done")
    /\ UNCHANGED <<status, starts, shape, revision, changedAt, overlapped>>

-----------------------------------------------------------------------------
(* The environment.                                                        *)

\* The connection is lost, a statement times out, the process dies: Postgres rolls
\* the open transaction back.
Rollback(c) == Running(c) /\ Abort(c)

Tick ==
    /\ clock < MaxClock
    /\ clock' = clock + 1
    /\ UNCHANGED <<table, lockedBy, phase, arg, found>>

Start(c) ==
    \/ BeginCreate(c)
    \/ BeginReschedule(c)
    \/ BeginCancel(c)
    \/ BeginNoShow(c)
    \/ BeginOwnerMark(c)
    \/ BeginAllSeen(c)

Statement(c) ==
    \/ LockDay(c)
    \/ CheckConflict(c)
    \/ InsertBooking(c)
    \/ MoveBooking(c)
    \/ JudgeNotice(c)
    \/ CancelBooking(c)
    \/ JudgeFinished(c)
    \/ MarkNoShow(c)
    \/ ConfirmBooking(c)
    \/ MarkBookingSeen(c)
    \/ MarkAllSeen(c)

Next ==
    \/ \E c \in Calls : Start(c) \/ Statement(c) \/ Rollback(c)
    \/ Tick

Spec == Init /\ [][Next]_vars

\* A running transaction's next statement is executed: nothing in the engine waits
\* for a user, or for the clock, between BEGIN and COMMIT.
FairSpec == Spec /\ \A c \in Calls : WF_vars(Statement(c))

-----------------------------------------------------------------------------
(* What the engine is meant to guarantee.                                  *)

\* Every column and every call record has its type.
TypeOK ==
    /\ status \in [Bookings -> {"none", "pending", "confirmed", "cancelled", "no_show"}]
    /\ starts \in [Bookings -> Starts]
    /\ shape \in [Bookings -> Shapes]
    /\ revision \in [Bookings -> Nat]
    /\ changedAt \in [Bookings -> Nat]
    /\ seenAt \in [Bookings -> Nat]
    /\ overlapped \in [Bookings -> BOOLEAN]
    /\ clock \in Nat
    /\ lockedBy \in [Days -> Calls \cup {NoCall}]
    /\ phase \in [Calls -> {"new", "lock", "check", "judge", "write", "done", "failed"}]
    /\ arg \in [Calls -> Arg]
    /\ found \in [Calls -> BOOLEAN]

\* Placements whose blocked intervals overlap start on the same local day, so that
\* they ask for the same advisory lock.  True of a business that closes long enough
\* around midnight; nothing in the code enforces it.
OverlapsShareADay ==
    \A s1, s2 \in Starts, sh1, sh2 \in Shapes :
        Overlap(Blocked(s1, sh1), Blocked(s2, sh2)) => DayOf(s1) = DayOf(s2)

\* Two customers racing for the last slot serialise (lib/booking.ts): whenever two
\* live bookings block overlapping intervals, whoever placed one of them was told so.
NoSilentOverlap ==
    \A a, b \in Bookings :
        (a # b /\ Live(a) /\ Live(b) /\ Overlap(BlockedBy(a), BlockedBy(b)))
            => (overlapped[a] \/ overlapped[b])

\* The engine implements the calendar of BookingCalendar, in which placing and
\* freeing are indivisible.
Calendar == INSTANCE BookingCalendar WITH
    Slots <- {Blocked(s, sh) : s \in Starts, sh \in Shapes},
    state <- [b \in Bookings |-> IF Live(b) THEN "live" ELSE IF Gone(b) THEN "gone" ELSE "free"],
    slot <- [b \in Bookings |-> BlockedBy(b)],
    told <- overlapped

ImplementsCalendar == Calendar!CalendarSpec

\* A slot given back is never taken back by a confirmation, a move or a stale tap:
\* no write makes a cancelled or missed booking live again.
GoneStaysGone == [][\A b \in Bookings : Gone(b) => Gone(b)']_vars

\* A calendar client sees a higher revision whenever the appointment it holds has
\* moved or has been called off, in whatever order concurrent writes land
\* (migration 006, iCal SEQUENCE).
RevisionAdvances ==
    [][\A b \in Bookings :
        (status[b] # "none" /\ (starts'[b] # starts[b] \/ (Live(b) /\ Gone(b)')))
            => revision'[b] > revision[b]]_vars

\* c's write to booking b commits in this step.
Commits(c, b) ==
    /\ phase[c] = "write" /\ phase'[c] = "done"
    /\ \/ arg[c].booking = b
       \/ arg[c].kind = "create" /\ status[b] = "none" /\ status'[b] # "none"

\* A customer's change is on the owner's list the moment it commits, also when the
\* owner acknowledged the booking between the transaction's now() and its commit.
CustomerChangeIsFlagged ==
    [][\A c \in Calls, b \in Bookings :
        (Commits(c, b) /\ arg[c].by = "customer") => NeedsAttention(b)']_vars

\* A customer's cancellation that commits respected the window, and a no-show that
\* commits was over, unless the booking was changed after the call had judged it.
VerdictHoldsUnlessChanged ==
    [][\A c \in Calls, b \in Bookings :
        (Commits(c, b) /\ revision[b] = arg[c].saw) =>
            /\ arg[c].kind = "noShow" => Ends(b) <= clock
            /\ (arg[c].kind = "cancel" /\ arg[c].by = "customer")
                  => starts[b] - arg[c].at >= CancelWindow]_vars

\* Every transaction that begins ends: no call waits for a lock forever.
EveryCallEnds == \A c \in Calls : Running(c) ~> Ended(c)

-----------------------------------------------------------------------------
(* Why there is no silent overlap: the invariant that carries the proof.   *)

\* A call past its lock statement holds the lock of the day it places on.
LocksHeld ==
    \A c \in Calls :
        /\ phase[c] \in {"lock", "check"} => Placement(c)
        /\ (phase[c] \in {"check", "write"} /\ Placement(c))
              => lockedBy[DayOf(arg[c].start)] = c

\* A call that names a booking names one that exists; a move keeps its shape.
TargetsExist ==
    \A c \in Calls : Running(c) =>
        /\ arg[c].kind = "create" => arg[c].booking = NoBooking
        /\ arg[c].kind \notin {"create", "allSeen"} =>
              arg[c].booking \in Bookings /\ status[arg[c].booking] # "none"
        /\ arg[c].kind = "reschedule" => arg[c].shape = shape[arg[c].booking]

\* What a conflict query has answered stays true until the call writes.
AnswersStand ==
    \A c \in Calls : (phase[c] = "write" /\ Placement(c) /\ ~found[c]) =>
        ~FindConflict(arg[c].start, arg[c].shape, Excluded(c))

\* The inductive invariant: each part is needed by the one after it.
IInv == TypeOK /\ LocksHeld /\ TargetsExist /\ AnswersStand /\ NoSilentOverlap

-----------------------------------------------------------------------------
(* What comments in the code say, and the engine does not keep.            *)

\* "Comparing owner_seen_at against last_customer_change_at means a later change
\* reopens it by itself": an owner's tap does not clear a change that reached the
\* booking after what her screen showed when she tapped (two now() that fall into the
\* same tick of the model are left aside).
LaterChangeStaysOpen ==
    [][\A c \in Calls, b \in Bookings :
        (/\ Commits(c, b) /\ arg[c].kind = "seen"
         /\ changedAt[b] \notin {arg[c].saw, arg[c].at})
            => NeedsAttention(b)']_vars
=============================================================================
