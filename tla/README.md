# TLA+ specifications of torim

Torim is a multi-tenant appointment book: a public page on which customers book
without an account, manage links with which they move or cancel, and an admin
area for the owner. It is a Next.js application over Postgres. Every server
action is a sequence of short transactions, many run at once, and the browser
keeps state of its own between them. These modules specify the parts where that
concurrency decides whether the business is double-booked, the owner is told,
the customer is reminded of the right appointment, and a screen shows what the
server holds.

Paths below are relative to the repository root.

## 1. The system

| Component | State | Operations | Talks to |
|---|---|---|---|
| Booking engine, `src/lib/booking.ts` | `torim.bookings`; the advisory lock of each (business, local day) | `createBooking`, `rescheduleBooking`, `cancelBooking`, `markNoShow` | hooks, after each commit but a no-show's |
| Owner's view, `src/lib/admin-bookings.ts`, `src/app/admin/data.ts` | `owner_seen_at`, `last_customer_change_at`, `status` | `confirmBooking`, `markBookingSeen`, `markAllSeen`, listings | same table |
| Admin actions, `src/app/admin/_actions/*` | hours, closures, services, settings, customers | the owner's forms and taps | engine, data |
| Public booking, `src/lib/public-booking.ts`, `src/app/b/actions.ts` | `torim.customers` | `submitBooking` -> `bookPublicly` | availability, customers, engine, rate limits |
| Manage link, `src/lib/manage.ts`, `src/app/manage/actions.ts` | none (a token names the booking) | `cancelAppointment`, `rescheduleAppointment` | availability, engine |
| Availability, `src/lib/availability.ts`, `slots.ts`, `time.ts` | none | `getAvailability`, `generateAvailability` | reads hours and bookings |
| Notifications, `src/lib/notify/*`, `src/app/api/ops/*` | `torim.notifications` | three hooks, `scheduleForBooking`, `enqueue`, `dropPendingForBooking`, `listDue`, three marks, `drainDue` | engine (called by it), a transport |
| Rate limiter, `src/lib/rate-limit.ts` | a Map of timestamps per key | `check`, `reset`, `clientAddress` | public actions |
| Customer pages, `src/app/b/*`, `src/app/manage/*` | the step, the slot, the calendar and its month cache, calls in flight | taps, effects, answers | public booking, manage link, availability |
| Admin screens, `src/app/admin/_components/*`, `optimistic-store.ts` | holds, sheets, dialogs, banners, pending flags, calls in flight | taps, renders, answers | admin actions |
| Tenancy, `src/lib/db.ts`, `src/lib/tenant.ts` | a pool of ten clients, the tenant setting | `withTransaction`, `query` | everything |
| Auth and onboarding, `src/lib/auth.ts`, `oauth.ts`, `users.ts`, `src/app/onboarding/actions.ts` | session, users, businesses | sign-in, create business | |
| Scripts, `scripts/*` | `schema_migrations` | migrate, seed, reset, grant | |
| Presentation: dictionaries, formatting, iCal, phone numbers | none | pure functions | |

What is hard in it:

* Only `booking.ts` uses a multi-statement transaction with a lock. Nearly
  everything else is statements, each its own transaction, and the checks the
  public page makes (offered? known? blocked? how many held?) are made before,
  and outside, the one transaction that books.
* The lock is keyed on the local *day*; what a booking blocks is an *interval*.
* The engine runs at READ COMMITTED: a verdict read by one statement can be out
  of date when the next one writes. The schedule is read in three statements.
* Timestamps of the unseen-changes badge are `now()`, the start of a
  transaction, and transactions commit in another order than they start.
* Hooks run after the commit with nothing to order them, swallow their errors
  and die with their process; drains send first and write down later.
* On a client, a call may be refused or its answer lost, sheets and dialogs close
  while it is in flight, one dialog serves every row, and pages rendered before
  and after a write arrive in any order relative to the optimistic layer.

`PROJECT.json` lists the hazards line by line with the properties that cover
each.

## 2. Modules and how they correspond to the code

**`BookingCalendar`** is the abstract specification: each booking is free, live or
gone, holds an interval, and is placed or freed in one indivisible step; whoever
places it on another live booking is told. There are no transactions in it.

**`BookingEngine`** is `booking.ts` and the owner's single-statement writes. One
`Calls` member is one call and one transaction:

| Step | Code |
|---|---|
| `Begin*` | `withTransaction`'s BEGIN, which fixes `now()`; for a move also the read of the row's duration and buffers, which never change |
| `LockDay` | `businessTimezone`, `lockDay` (`pg_advisory_xact_lock`) |
| `CheckConflict` | `findConflict` and the `BookingConflictError` unless `allowOverlap` |
| `InsertBooking`, `MoveBooking` | INSERT, UPDATE, and COMMIT |
| `JudgeNotice`, `CancelBooking` | the customer's window check, then the UPDATE and COMMIT |
| `JudgeFinished`, `MarkNoShow` | the "not finished" check, then the UPDATE and COMMIT |
| `ConfirmBooking`, `MarkBookingSeen`, `MarkAllSeen` | one UPDATE each |
| `Rollback` | an error, a timeout or a crash anywhere |

A write and its COMMIT are one step because the UPDATE recomputes the row from
its latest committed version under a row lock that lasts until the COMMIT. Rows
of a booking are the functions `status`, `starts`, `shape`, `revision`,
`changedAt`, `seenAt`; `overlapped` remembers the flag the last placement
returned. Price, note and token are left out, and so are the hooks, which
cannot change a booking and run after the COMMIT.

**`NotificationQueue`** has the hooks and the queue. A request writes a booking and
its hook runs statement by statement: `Drop` (`dropPendingForBooking`),
`Schedule` (the read of `scheduleForBooking`), one `Enqueue` per row. `ListDue`,
`Send`, `Report` are a drain, or an external worker that polls and reports: both
leave the row `queued` until the mark. `HookFails` and `DrainFails` are a swallowed
error, a thrown one, or the death of the process. `rows` is the table, by its
UNIQUE key; `id` tells a row from the one that replaced it.

**`PublicBooking`** EXTENDS `BookingCalendar`, which stands for the engine (that the
engine implements it is checked and proved), and adds the customers and the
requests: `BookOnline` (fields parsed, time offered), `LookUp`, `InsertCustomer`,
`CountHeld`, `CreateBooking`; `MoveOnline`, `MoveBooking`; `Cancel`,
`CancelBooking`; the owner's create and move with her override; confirming,
no-shows, blocking. `MoveOnline` reads status and availability in one step, where
the code reads them one after the other; the step that writes trusts neither, so
nothing below depends on it.

**`RateLimiter`** is one limiter with its Map: the pruning of the key a check is
about, the sweep of stale keys once a window (`Sweep`), the eviction at the
ceiling (`RoomMade`) and `reset`, behind `clientAddress`, which takes the bucket
from the header entries the proxies appended. The timestamps of a key are a
suffix of its history, `kept[k]` long. A check is synchronous JavaScript and hence
one action.

**`OpeningHours`** is the schedule. `time.ts` is a date and a wall-clock minute against
an instant, with a date on which the clocks may go forward or back;
`OpenWindows` and `Generate` are `openWindowsForDate` and `generateAvailability`;
`IsOutside` is the label of the owner's diary. The six actions of
`_actions/hours.ts` write the rows, adding weekly hours in its two statements
(`CheckHours`, `InsertHours`). An online request reads the schedule in three
(`ReadHours`, `ReadClosures`, `ReadOverrides`) and books in a fourth (`Place`).

**`CustomerPages`** is a browser on the booking page or a manage page: the calendar
(`TimePicker` over `useAvailability`), the steps of `BookingFlow`, the sheet and the
dialog of `ManageBooking`. A tap is an action, a passive effect of React
(`FetchMonth`, `Hunt`) is an action, and a call is two: the server executes it
(`Load`, `Book`, `Move`, `Cancel`, `Refuse`) and the page gets (`Answer`) or does not
get (`LoseAnswer`) the answer. Days stand for times.

**`SetupPages`** is one tab of the owner on the catalogue, the hours, the settings or a
customer's profile. The framework sends a tab's calls and refreshes one at a
time, in order: `queue` is that order. A call of the head is `Read`, `Commit` or
`Refuse`, then `Render` of the page that rides back with it, then `Arrive` or `Lose`.
A rival session makes the same calls, statement by statement, with no screen.

**`AdminBookings`** is one tab on the day or on the list of changes, over the optimistic
store: `Apply`, `Resolve` and `Prune` of `optimistic-store.ts` with holds that expire,
the detail sheet, the sheet for a new booking with its clash banner, and the same
queue of calls. The engine's transactions are single steps here.

One business is modelled throughout: row-level security and the tenant setting
keep businesses apart and no transaction touches two.

How they fit together. `BookingEngine` implements `BookingCalendar` (`ImplementsCalendar`);
`PublicBooking` is built on `BookingCalendar`; `OpeningHours`, `CustomerPages` and
`AdminBookings` use the engine only through what that refinement gives them, one
indivisible placement that succeeds or reports a clash. `NotificationQueue` needs
of a booking only its state and its start.

`MC*` modules give the constants their values for TLC; `*Proofs` hold the proofs.
Definitions introduced by "Faulty variant" are plausible bugs. They are not part
of the specification: substituted for the definition they follow, they make the
property listed with them in `PROJECT.json` fail.

## 3. Runs, bounds and fairness

| Run | Question | Bounds |
|---|---|---|
| `engine_owner` | Do racing placements ever overlap silently? What may a write never do to a row another call has changed meanwhile? Is each placement indivisible to a reader? | 2 bookings, 3 calls of all seven kinds, 3 starts on 2 days of which two clash, clock to 3 |
| `engine_liveness` | Does every transaction end? | 3 bookings, 3 calls, 2 days |
| `engine_midnight` (fails) | Does the day lock serialise bookings across midnight? | 2 bookings, 2 calls |
| `notify_queue` | What does the queue hold once hooks have run? Are its records true? Is everything due handled? | 1 booking, 2 writes, 1 drain of 2 rows, 1 fault |
| `notify_cancelled` (fails) | No message once cancelled? | 1 booking, 2 writes, 1 drain, no fault |
| `public_requests` | What survives checks made outside the transaction? | 2 bookings, 3 slots, 2 phones, 3 requests, cap 1, clock to 2 |
| `rate_limits` | Who is refused, for how long, and who is forgotten? | 3 addresses, room for 2, 2 attempts in 2 units, 6 checks, clock to 6 |
| `opening_hours` | Are the times offered those the rows mean? Is what is booked inside hours that were in force? | 2 dates of 4 minutes, 4 ranges one of which is refused, 2 changes, 1 request, 1 appointment of the owner's, 3 kinds of clock change |
| `customer_pages` | Does the page show what the server holds? Does it stop spinning? | 2 services, 4 days in 2 months, 7 taps, 1 rival booking, 1 fault, 1 day that becomes too soon |
| `customer_calendar` (fails) | Is the selected day on screen? | the same |
| `setup_pages` | Does the order survive? Do buttons, banners and dialogs answer for their own calls? | 3 services, 3 rows of hours, 2 calls, 1 rival call or booking |
| `admin_bookings` | Does what she did stay on screen? Is an overlap always chosen? | 3 bookings, 2 times, 2 calls, 1 change of somebody else's, one tick in which every hold expires |

Why the bounds are enough to be worth something. A race over a slot needs two
placements; the third call lets a move vacate or re-enter the slot, or a
cancellation fall in between. Two days are what it takes for two locks to
differ. The clock passes the end of an appointment, without which a no-show
never succeeds. Two writes to one booking make two hooks overlap in every way
two can. Interactions between bookings in the queue do not exist (every
statement names one booking) except through `Limit`, which the three kinds of
row of a single booking already exceed. A cap of one is reached by one booking,
so the second request already meets it. Three keys in a Map with room for two
make an eviction necessary, and six checks fill a window, wait it out and fill
it again. A day of four minutes holds two adjacent windows, a closure that cuts
one and an appointment with a buffer; minute 1 is erased or happens twice. Two
changes to the schedule are what it takes for a request to read a schedule that
never was. In seven taps a customer chooses, goes back, chooses again, submits
and moves on while a call is in flight. Two calls of one tab are what it takes
for an answer to arrive in the state another call has made; one rival
transaction between their statements is what it takes for a list to be stale.
The catalogue starts with two services whose numbers may tie or leave a gap,
as seeded rows may. In `admin_bookings` `TTL` is 0, so a hold either lives or has
expired and both happen at every point; the question asked through the confirm
dialog is the cancellation only (`Questions`), a no-show's dialog being the same
component with another label.

Safety runs use symmetry over identities that the model does not compare by
order; runs with a liveness property do not. Deadlock is not checked: calls,
taps and faults are bounded, so a behaviour ends when they are spent.

Some properties are stated with exceptions that name the hole in the code:
`ScreenedUnlessInserted`, `CapHoldsUnlessExcused`, `VerdictHoldsUnlessChanged`,
`RowsOverlapOnlyByRace`. `QueueMatchesCalendar` sets aside bookings whose hooks
overlapped or failed (`disturbed`); `NoReminderOnceCancelled` shows what an overlap
does. `BookedInsideHours` allows the schedule to change once during a request, not
twice. `OwnWritesAreShown` sets aside what another session wrote since. Section 5
lists the statements of the repository without those exceptions.

Fairness.

* `BookingEngine!FairSpec`: weak fairness of each running call's next statement.
  Nothing between BEGIN and COMMIT waits for a user or a timer, and a call waits
  only for a day's lock, whose holder is never itself waiting for a lock;
  starting a call, rolling back and the clock are not fair.
* `NotificationQueue!FairSpec`: a hook that began goes on, and a drain is asked for
  again and again: `docs/NOTIFICATIONS.md` leaves that timer to the deployment, and
  without it nothing is ever sent. Faults are bounded, not fair: a drain that dies
  every time handles nothing.
* `CustomerPages!FairSpec`: React runs the effects of a committed render, and a
  request of the browser ends, in an answer or in an error. Taps are not fair.

## 4. What is shown

* `NoSilentOverlap`, `ImplementsCalendar`: however placements interleave, two live
  bookings overlap only if the later one was reported as overlapping, and readers
  see indivisible steps. This needs `OverlapsShareADay`, an assumption about the
  business and not enforced anywhere, checked by an ASSUME of `MCBookingEngine`.
* `GoneStaysGone`, `RevisionAdvances`, `CustomerChangeIsFlagged`: a stale confirm or
  move revives nothing; calendar clients always see a higher SEQUENCE; a
  customer's change is on the owner's list when it commits, even if she
  acknowledged the booking after the change began.
* `VerdictHoldsUnlessChanged`: a cancellation or no-show that commits was allowed,
  unless the booking changed between the verdict and the write. That exception is
  real: the code does not lock the row it judges.
* `EveryCallEnds`: the locks cannot stall the engine.
* `QueueMatchesCalendar`, `SentMeansReceived`, `HandledStaysHandled`, `DueIsHandled`:
  undisturbed hooks leave the queue in step with the calendar; a row marked sent
  was itself delivered, although rows are deleted and inserted anew while drains
  hold their ids; nothing handled is handed out again; everything due is handled.
* `OverlapsAreTheOwners`, `BlockedBooksNothing`, `ScreenedUnlessInserted`,
  `CapHoldsUnlessExcused`: what the public page keeps in spite of its checks being
  outside the transaction.
* `LimitHolds`, `RetryIsExact`, `DropOnlyWhenFull`, `CountedByPeer`: no key is allowed
  more than its limit in any window while it has not been made to yield; a
  refusal names the very moment it ends; a key that could still be refused is
  dropped only when the Map is full of such keys; what a client writes in front
  of the proxies' entries does not choose its bucket.
* `OfferedAsDefined`, `OfferedIsNotFlagged`, `BookedInsideHours`,
  `RowsOverlapOnlyByRace`: the generator's loop over cut and merged windows offers
  exactly the starts a minute-by-minute definition does, on days with a clock
  change too; the diary does not label outside hours what the page offers.
* `CacheIsFresh`, `BookingsAreShown`, `ManageShowsServer`, `SpinnerEnds`: a load in
  flight when the service changes does not fill the new calendar; a booking is
  confirmed with what was booked, or its answer is owed or lost; the manage page
  agrees with the server; the calendar does not spin for ever.
* `OwnWritesAreShown`, `ButtonsTellTheTruth`, `ArrangedOrder`, `ClosesForItsOwnCall`: the
  screens without an optimistic layer show what they saved; a call in flight shows
  as pending on its button and is the only one out of it, unless what it was sent
  from was closed over it, and "saved" stands over what is stored; transactions that
  do not overlap leave the catalogue ordered; a dialog is closed by its own call,
  among the calls whose dialog is still open.
* `NoRevert`, `OverlapIsChosen`: what the owner did and sees does not flash back; no
  call of hers overlaps a booking without a clash she was shown.

## 5. What the code does not keep

Three runs fail. Each states what the repository says of the program, and TLC
finds the schedule (details in `PROJECT.json`, `findings`):

1. `engine_midnight`: two customers book on either side of midnight, take
   different day locks, and overlap without either being told.
2. `notify_cancelled`: a creation's hook inserts the reminder after the
   cancellation's hook has deleted what was pending; the reminder is sent.
3. `customer_calendar`: a move refused because the time is taken puts the selection
   back on the appointment's day while the calendar stays on another month.

Four more statements stand in the modules next to the property that holds in
their place, and are violated by the same models (put the name in the named cfg
as a PROPERTY to see the schedule; `NoDuplicateMessage` needs a second member of
`Drains` and no fault):

* `BookingEngine!LaterChangeStaysOpen` (`EngineOwner.cfg`): a tap acknowledges a
  change that was not on the screen.
* `NotificationQueue!NoDuplicateMessage` (`NotifyQueue.cfg`): UNIQUE protects the row,
  not the delivery; two drains send it twice.
* `PublicBooking!FirstBookingIsScreened` (`PublicRequests.cfg`): an unknown number's
  second attempt is not a first one any more, and is confirmed although no
  booking of it was ever seen.
* `PublicBooking!CustomerStaysWithinCap` (`PublicRequests.cfg`): two requests both
  count below the cap and both book.

Read in the code while modelling, and left out of the properties above on purpose:

* A customer who changes a booking again while the owner's acknowledgement is
  still held sees it shown as acknowledged: the row's attention equals what the
  hold replaced (`optimistic-store.ts:21` and `:168`, `changes/page.tsx:20`).
  `NoRevert` speaks of fields nobody else has changed since.
* A hold says it keeps what the server reported when it was taken
  (`optimistic-store.ts:45`), and the screens give it the booking on display, which
  other holds may already have changed (`BookingDetailSheet.tsx:64`,
  `ChangesList.tsx:91`). A change acknowledged while an earlier hold displayed it as
  already acknowledged takes that for the base, and deletes the newer hold when
  the page shows it (`optimistic-store.ts:115`). It takes a third call, a lost refresh
  and a change of screen, so no run of two calls meets it: the proof of `NoRevert`
  did. The property sets it aside by name (`TappedElsewhere`).
* A hold that expires is not re-rendered by any timer (`optimistic-store.ts:18`), so
  a stale value may stand until the next render; and clearing all changes over
  a stale hold can show the attention mark once more before it goes.
* An appointment that runs past midnight is not labelled outside opening hours
  (`opening-hours.ts:39`, `view.ts:111`); `OfferedIsNotFlagged` is the other direction.
* After a clash the owner may edit the time under the banner, and "book anyway"
  then places it at a time she was shown no clash for
  (`BookingDetailSheet.tsx:48`); closing the new-booking sheet in mid-call resets
  the hook, so a second creation can start and a late answer lands on the
  reopened sheet, with another call of the hook behind it. `OverlapIsChosen` names
  both (`edited`, `late`).
* A confirm dialog dismissed in mid-call lets that call's late success close the
  dialog of another row, and a sheet closed in mid-call does the same to another
  sheet of its kind. `ClosesForItsOwnCall` says that these are the only calls that
  close what they were not sent from: it excepts a call by its own `mine` flag, not
  the run from then on. A dismissed dialog also frees its hook, which the page keeps:
  the button then looks idle with a call out, or loses its pending mark when the
  older call answers. `ButtonsTellTheTruth` excepts the calls of such a hook until
  none of them is in flight (`abandoned`), and those of a sheet that is gone; every
  other call shows as pending, and has its button to itself.
* The "Saved" banner returns over edits made while the save was in flight
  (`overtyped`), and a form saved over a rival's change overwrites it.

## 6. What is proved

`tlapm` checks the following for every value of the constants: any number of
bookings, calls, customers, requests, drains, keys, rows of hours, taps and
faults, with none of the bounds of section 3.

`BookingEngineProofs`

* `TypeCorrect`: `Spec => []TypeOK`, together with `TargetsExist` (a call names a booking
  that exists), without which a no-show would read a row that is not there.
* `NoSilentOverlapHolds`: `Spec => []NoSilentOverlap`, given `OverlapsShareADay`. The
  property is not inductive by itself; `IInv` adds `LocksHeld` (a placement past its
  lock statement holds the lock of its day) and `AnswersStand` (a conflict query that
  found nothing is still right when the call writes). The step for `AnswersStand`
  is the heart of it: whatever another call writes meanwhile either is not a
  placement, or is a placement under another day's lock, and by
  `OverlapsShareADay` that cannot fall into this call's interval (`WritersApart`).
  Then a placement that was told nothing lands on nothing.
* `EngineImplementsCalendar`: `Spec => ImplementsCalendar` from the same invariant: a step
  changes no row's abstract state, or is one `Place`, or one `Free` (`StepEffect`).
* `GoneStaysGoneHolds`: an action property, with no assumption on days.
* `RevisionAdvancesHolds`: each write to a row either leaves it alone or adds one to
  its revision, whatever else runs.
* `CustomerChangeIsFlaggedHolds`: from `Stamps` (a running call's `now()` is not in the
  future, and a customer only places, moves and cancels) and `FreshRows` (a row not
  inserted yet carries no stamp).
* `VerdictHoldsUnlessChangedHolds`: from `Verdicts`: a call that has judged remembers
  the revision it judged, and while the row still has it, the verdict holds. That
  rests on the revision growing with every move, and on a status that only
  leaves the live states.

`PublicBookingProofs`

* `PublicTypeCorrect` and `OverlapsAreTheOwnersHolds`, from the invariant
  `TypeOK /\ RequestsAreSound /\ OverlapsAreTheOwners`. `RequestsAreSound` says that what
  a request has established (its customer exists, its booking exists) is true until
  it writes: rows of customers and bookings are never deleted, which is a lemma
  about every step.
* `BlockedBooksNothingHolds`: from `BarredStop`: a request whose customer has been
  blocked for as long as it runs never gets past the lookup.
* `CapHoldsUnlessExcusedHolds`: from `CapKept`: of a number not excused, at most one
  request that would add a booking is under way, and once it has counted there is
  still room for it. The cardinality of the set of bookings held is followed
  through every step: an insert adds one, a tick of the clock, a cancellation or
  another customer's write adds none.
* `ScreenedUnlessInsertedHolds`: from `Reasons`: every customer in the table is there
  because of a booking seen before, because a request that inserted it then failed,
  or because one that inserted it is about to place.

`OpeningHoursProofs`

* `ScheduleTypeCorrect` and `RowsOverlapOnlyByRaceHolds`, from `HoursInv`: ids are used
  once, a check has listed only rows that were inserted before it, and of two
  rows on a weekday one was inserted later, after a check that either listed the
  other, and then they are apart, or did not. No two appointments share time
  (`Apart`), because each is placed against the diary as it is.
* `OfferedAsDefinedHolds`. The windows of a date are the maximal runs of minutes that its
  rows leave open (`WindowsAreRuns`): one closure cut out of the runs leaves the runs of
  what remains (`CutIsRuns`, `RunsAreCut`, `CutAgain`), so the loop over the closures does too.
  That loop is a recursive function, and induction over it is out of reach; instead
  the closed form is shown to satisfy its equations, hence that the function exists,
  and that any function that satisfies them is the closed form, by the least index
  at which they would differ (`LoopLeavesRuns`). The listing gives the k-th place to the
  candidate with k - 1 before it; `ListedInOrder` shows from the cardinalities of
  finite sets that this is a sequence of all of them in order. `DayOf` and
  `ThereAndBack` are the conversions of `time.ts` and back, on a day the clocks change too.
* `OfferedIsNotFlaggedHolds`: a run of minutes lies inside one of the joined windows
  (`MergedCovers`), so what the slots offer the label does not flag.
* `BookedInsideHoursHolds`, from `ReadsInvariant`. A request reads hours, closures and one-off
  hours in three statements and holds each as it was. `Together` says that until two
  changes have come in between, the three are those of a single schedule that was
  in force since the first statement: with one change, the parts read before it and
  the part read after it fit either the schedule before or the one after, because
  a change touches one table. The proof needs the tables finite (`Finite`), as
  `SetToSeq` and the ranks above do.

`RateLimiterProofs`

* `LimiterTypeCorrect`, `LimitHoldsAlways`, `RetryIsExactHolds`, `DropOnlyWhenFullHolds`,
  from the invariant that the history of a key is in order of time, that what the
  Map has forgotten of it has aged out (unless the key was reset or evicted), and
  that a refusal that still stands names the moment the oldest remembered hit
  ages out. `CountedByPeerHolds` is about `clientAddress` alone, from the assumption
  that the request passed the trusted proxies.

`NotificationQueueProofs`

* `QueueTypeCorrect`, `SentMeansReceivedHolds`, `HandledStaysHandledHolds`,
  `QueueMatchesCalendarHolds`, from `Ids` (an id is given to one row and never again, so
  a report reaches no row but the one its drain listed), `Delivered` (a drain about to
  report `sent` has delivered) and `Calendar` (what the hook in flight has still to
  do is exactly what separates the queue from the calendar).

`CustomerPagesProofs`

* `PagesInvariant`: the client hands the server one call at a time, so only the oldest
  has an answer (`OnlyFirst`), each button has one call out (`Single`) and is pending
  as long as it has (`Fits`), and the calendar is mounted on the screens that show one
  (`Where`). The other theorems add what an answer on its way still says when it
  arrives.
* `CacheIsFreshHolds`, with `Loads`: a load the calendar listens for is about the
  service on screen and, once answered, of this epoch. An epoch ends with
  an answer, when no other answer exists, or with the page started over, when no
  calendar is mounted.
* `BookingsAreShownHolds`, with `Promised` and `Once`: an accepted submission is a booking
  of the page's, and the only one of its day, so the answer that leaves is the one
  the booking waited for.
* `ManageShowsServerHolds`, with `Settled`: a change executed and not heard of is still how
  things stand.
* `PagesTypeCorrect`, from the invariants above.

`SetupPagesProofs`

* `SetupTypes`, `WritesAreShown`, `ButtonsAreHonest`, `ClosedByItsOwnCall`, from
  `SetupInvariant`. Its conjuncts: only the oldest call of the tab's queue is at the
  server (`Queued`); what is shown, or the page the answer about to be applied
  carries, is the database unless a rival wrote unseen (`Current`); a call in flight
  keeps its button pending, one call to a button, unless its sheet has gone or its
  confirmation was reset in mid-call (`Excused`, `Hooks`, `OneEach`); the banner
  stands over what is stored, and a save behind it stores the same (`Banner`); and a
  call of a sheet or dialog was sent from the one that is open, with no exception
  but the calls closed over (`Sources`). The exceptions are kept call by call, which
  is what lets the two theorems hold in every run, dismissals included. The lemma
  `BirthsHold`, that the ids the calls create are new and distinct, serves
  `OrderIsArranged`.
* `OrderIsArranged`: transactions that do not overlap leave the catalogue in order.
  The order the code's `ORDER BY` gives is a CHOOSE of an arrangement; that one
  exists for every finite set of rows is proved by a least counterexample: take
  away the last row of a smallest set that has none.

`AdminBookingsProofs`

* `AdminInvariant`: `Spec => []IInv`. The sheet on screen is of a booking listed there
  (`SheetInPlace`), a page lists what exists (`Listed`), what is on screen is the page
  with the live holds over it (`Overlaid`), only the oldest call has an answer
  (`InOrder`), the page of an answer says what the row says of a field nobody else
  has changed since, and a successful call's own patch is what the row holds
  (`Answered`, by `Truthful`), and each clash on a sheet or carried by a call is for the
  time shown, unless that was edited or the clash came late (`SheetsRead`).
* `OverlapIsChosenHolds`, from `SheetsRead`: the only calls that place over a conflict are
  those sent with the banner on the sheet.
* `NoRevertHolds`: a page that replaces the one on screen is an answer's or a fresh
  read, so by `Truthful` it agrees with the row; a hold put over it shows what the
  owner's call wrote, and one taken away leaves the page's value, which by
  `Overlaid` was that already, unless the hold was tapped over another value than
  the page's.
* The proof changed what is stated. With four calls a late clash could be another
  call's, which the exception of `OverlapIsChosen` did not name; a reset of the hook
  also dropped a call that had already left it, which the code does not do; and
  the base of a hold is what is displayed (section 5).

Assumptions: the named `ASSUME` of each module (types of the constants; TLC
evaluates all of them) and, where stated, `OverlapsShareADay`.

Only model-checked. Liveness (`EveryCallEnds`, `DueIsHandled`, `SpinnerEnds`): the prover
does not reason about fairness. The three runs that expect a violation have nothing
to prove.

## 7. Not modelled

* Authentication, the OAuth redirects and row-level security: who may call at all,
  one decision per request and no interleaving. Every module takes a call that
  got through.
* Onboarding (`src/app/onboarding/actions.ts`): one SQL function and two writes after
  it, of one caller. That a failure in between leaves a business the session does
  not know of is listed as a hazard.
* The pool of ten clients (`src/lib/db.ts:53`): its queue is node-postgres's.
  `EveryCallEnds` shows that the locks by themselves cannot stall.
* Migrations, seeding and demo scripts: run by hand or once per deployment, each
  migration in its own transaction.
* Wording, templates and provider transports; dictionaries, formatting, phone
  normalisation, iCal text, React layout: functions of their input.
* On the owner's screens: the note of a booking, the search for a customer and the
  WhatsApp composer, which change text only.
* The walk of `drainDue` over businesses and the token of the ops endpoints.

## 8. Running

    tlc -config EngineOwner.cfg MCBookingEngine
    tlc -config EngineLiveness.cfg MCBookingEngine
    tlc -config EngineMidnight.cfg MCBookingMidnight
    tlc -config NotifyQueue.cfg MCNotificationQueue
    tlc -config NotifyCancelled.cfg MCNotificationQueue
    tlc -config PublicRequests.cfg MCPublicBooking
    tlc -config RateLimits.cfg MCRateLimiter
    tlc -config OpeningHours.cfg MCOpeningHours
    tlc -config CustomerPages.cfg MCCustomerPages
    tlc -config CustomerCalendar.cfg MCCustomerPages
    tlc -config SetupPages.cfg MCSetupPages
    tlc -config AdminBookings.cfg MCAdminBookings
    for m in *Proofs.tla; do tlapm $m; done

The longest runs take about two minutes on two workers, the longer proofs some
minutes each.
