-------------------------- MODULE NotificationQueue --------------------------
(***************************************************************************)
(* The notification queue of one business: the hooks that run after a      *)
(* booking write has committed (lib/notify/hooks.ts, schedule.ts), the     *)
(* table they fill (queue.ts), and whoever empties it, either a drain of   *)
(* ops.ts or an external worker that lists what is due and reports each    *)
(* outcome.                                                                *)
(*                                                                         *)
(* Every statement of queue.ts is a transaction of its own, so each is an  *)
(* action, and the requests that write bookings, the hooks of earlier ones *)
(* and the drains interleave between any two of them.                      *)
(***************************************************************************)
EXTENDS Integers, Sequences, FiniteSets, SequencesExt

CONSTANTS
    Bookings,      \* booking ids
    Channels,      \* what the configured transport can deliver; {} for `none`
    Requests,      \* createBooking, rescheduleBooking and cancelBooking calls, one each
    Drains,        \* callers of the ops endpoints
    Starts,        \* instants an appointment can start at
    RemindersOn,   \* businesses.reminder_lead_min is not NULL
    Lead,          \* businesses.reminder_lead_min
    Limit,         \* the most rows one listing returns
    MaxClock,      \* bound on the clock
    MaxFaults      \* bound on the crashes and errors of a behaviour

Kinds == {"confirmed", "cancelled", "reminder"}
Keys == Bookings \X Kinds \X Channels

ASSUME QueueAssumption ==
    /\ IsFiniteSet(Bookings) /\ Bookings # {}
    /\ IsFiniteSet(Channels)
    /\ Starts \subseteq Nat /\ Starts # {}
    /\ RemindersOn \in BOOLEAN
    /\ Lead \in Nat
    /\ Limit \in Nat \ {0}
    /\ MaxClock \in Nat /\ MaxFaults \in Nat

VARIABLES
    \* the bookings, as their last commit left them
    state,         \* "none" | "live" | "gone"
    startsAt,
    \* torim.notifications, by its UNIQUE (booking_id, kind, channel)
    rows,
    nextId,        \* the id of the next row inserted
    clock,
    hook,          \* where each request's hook is
    drain,         \* where each drain is
    \* history
    received,      \* the rows, by key and id, whose message reached the customer
    disturbed,     \* bookings whose hooks overlapped, failed or were called for too late
    faults

bookings == <<state, startsAt>>
history == <<received, disturbed, faults>>
vars == <<bookings, rows, nextId, clock, hook, drain, history>>

NoRow == [id |-> 0, status |-> "absent", due |-> 0]
Queued(k) == rows[k].status = "queued"
Settled(k) == rows[k].status \in {"sent", "failed", "skipped"}

Idle == [step |-> "new", event |-> "created", booking |-> CHOOSE b \in Bookings : TRUE, left |-> <<>>]
Done == [Idle EXCEPT !.step = "done"]
Resting == [step |-> "idle", batch |-> <<>>, outcome |-> "sent"]

InFlight(b) == {r \in Requests : hook[r].step \in {"drop", "read", "queue"} /\ hook[r].booking = b}

Init ==
    /\ state = [b \in Bookings |-> "none"]
    /\ startsAt = [b \in Bookings |-> CHOOSE s \in Starts : TRUE]
    /\ rows = [k \in Keys |-> NoRow]
    /\ nextId = 1
    /\ clock = 0
    /\ hook = [r \in Requests |-> Idle]
    /\ drain = [d \in Drains |-> Resting]
    /\ received = {} /\ disturbed = {} /\ faults = 0

-----------------------------------------------------------------------------
(* The booking writes.  Neither rescheduleBooking nor cancelBooking looks  *)
(* at the status of the row it changes.                                    *)

\* scheduleForBooking comes next, if the transport can deliver anything.
GoOnToSchedule(h) == IF Channels = {} THEN Done ELSE [h EXCEPT !.step = "read"]

\* The write and the start of its hook: a new booking has nothing to drop.
Commit(r, event, b) ==
    /\ hook[r].step = "new"
    /\ LET h == [Idle EXCEPT !.step = "drop", !.event = event, !.booking = b]
       IN  hook' = [hook EXCEPT ![r] = IF event = "created" THEN GoOnToSchedule(h) ELSE h]
    /\ disturbed' = IF InFlight(b) # {} \/ state[b] = "gone" THEN disturbed \cup {b} ELSE disturbed
    /\ UNCHANGED <<rows, nextId, clock, drain, received, faults>>

CreateBooking(r) ==
    \E b \in Bookings, s \in Starts :
        /\ state[b] = "none"
        /\ state' = [state EXCEPT ![b] = "live"]
        /\ startsAt' = [startsAt EXCEPT ![b] = s]
        /\ Commit(r, "created", b)

RescheduleBooking(r) ==
    \E b \in Bookings, s \in Starts :
        /\ state[b] # "none"
        /\ startsAt' = [startsAt EXCEPT ![b] = s]
        /\ Commit(r, "moved", b)
        /\ UNCHANGED state

CancelBooking(r) ==
    \E b \in Bookings :
        /\ state[b] # "none"
        /\ state' = [state EXCEPT ![b] = "gone"]
        /\ Commit(r, "cancelled", b)
        /\ UNCHANGED startsAt

-----------------------------------------------------------------------------
(* The hooks.                                                              *)

\* Faulty variant: a history that is not kept, the DELETE without its status.
DropPendingAndSettled(b) ==
    [k \in Keys |-> IF k[1] = b THEN NoRow ELSE rows[k]]

\* dropPendingForBooking: what is left of the queue.
DropPending(b) ==
    [k \in Keys |-> IF k[1] = b /\ Queued(k) THEN NoRow ELSE rows[k]]

Drop(r) ==
    /\ hook[r].step = "drop"
    /\ rows' = DropPending(hook[r].booking)
    /\ hook' = [hook EXCEPT ![r] = GoOnToSchedule(@)]
    /\ UNCHANGED <<bookings, nextId, clock, drain, history>>

Immediate(event) == IF event = "cancelled" THEN "cancelled" ELSE "confirmed"

\* Faulty variant: a moved booking is scheduled under an event that queues no reminder.
RemindsIfNew(event, b) ==
    event = "created" /\ RemindersOn /\ startsAt[b] - Lead > clock

\* A reminder whose moment has passed is not queued late.
Reminds(event, b) ==
    event # "cancelled" /\ RemindersOn /\ startsAt[b] - Lead > clock

\* What scheduleForBooking will insert, in its order, for a booking it has just read:
\* a row per channel now, and one per channel at the reminder's moment if that is ahead.
Scheduled(event, b) ==
    LET PerChannel(kind, due) ==
            [i \in 1 .. Cardinality(Channels) |->
                [key |-> <<b, kind, SetToSeq(Channels)[i]>>, due |-> due]]
    IN  PerChannel(Immediate(event), clock)
            \o (IF Reminds(event, b) THEN PerChannel("reminder", startsAt[b] - Lead) ELSE <<>>)

Schedule(r) ==
    /\ hook[r].step = "read"
    /\ hook' = [hook EXCEPT ![r].step = "queue",
                            ![r].left = Scheduled(hook[r].event, hook[r].booking)]
    /\ UNCHANGED <<bookings, rows, nextId, clock, drain, history>>

\* INSERT ... ON CONFLICT (booking_id, kind, channel) DO NOTHING.
Enqueue(r) ==
    /\ hook[r].step = "queue"
    /\ LET next == Head(hook[r].left)
           rest == Tail(hook[r].left)
       IN  /\ IF rows[next.key] = NoRow
              THEN /\ rows' = [rows EXCEPT ![next.key] =
                                  [id |-> nextId, status |-> "queued", due |-> next.due]]
                   /\ nextId' = nextId + 1
              ELSE UNCHANGED <<rows, nextId>>
           /\ hook' = [hook EXCEPT ![r] = IF rest = <<>> THEN Done ELSE [@ EXCEPT !.left = rest]]
    /\ UNCHANGED <<bookings, clock, drain, history>>

\* An error is swallowed: after a failed drop the hook goes on to schedule, after any
\* other it is over.  A crash ends it wherever it is.
HookFails(r) ==
    /\ hook[r].step \in {"drop", "read", "queue"}
    /\ faults < MaxFaults
    /\ faults' = faults + 1
    /\ disturbed' = disturbed \cup {hook[r].booking}
    /\ \/ hook' = [hook EXCEPT ![r] = Done]
       \/ /\ hook[r].step = "drop"
          /\ hook' = [hook EXCEPT ![r] = GoOnToSchedule(@)]
    /\ UNCHANGED <<bookings, rows, nextId, clock, drain, received>>

-----------------------------------------------------------------------------
(* Emptying the queue.                                                     *)

\* listDue: queued and due, oldest first, at most Limit of them.
Due == {k \in Keys : Queued(k) /\ rows[k].due <= clock}
OldestFirst(k1, k2) ==
    \/ rows[k1].due < rows[k2].due
    \/ rows[k1].due = rows[k2].due /\ rows[k1].id < rows[k2].id

Listing(batch) ==
    /\ \A i, j \in DOMAIN batch : i < j => OldestFirst(batch[i], batch[j])
    /\ \A k \in Due \ Range(batch), i \in DOMAIN batch : OldestFirst(batch[i], k)

ListDue(d) ==
    /\ drain[d].step = "idle"
    /\ Due # {}
    /\ \E batch \in [1 .. (IF Cardinality(Due) < Limit THEN Cardinality(Due) ELSE Limit) -> Due] :
        /\ Listing(batch)
        /\ drain' = [drain EXCEPT ![d] =
               [step |-> "send", outcome |-> "sent",
                batch |-> [i \in DOMAIN batch |-> [key |-> batch[i], id |-> rows[batch[i]].id]]]]
    /\ UNCHANGED <<bookings, rows, nextId, clock, hook, history>>

\* The transport's answer.  A message it reports as failed may have arrived all the same.
Send(d) ==
    /\ drain[d].step = "send"
    /\ \E outcome \in {"sent", "failed", "skipped"}, arrived \in BOOLEAN :
        /\ outcome = "sent" => arrived
        /\ outcome = "skipped" => ~arrived
        /\ drain' = [drain EXCEPT ![d].step = "mark", ![d].outcome = outcome]
        /\ received' = IF arrived THEN received \cup {Head(drain[d].batch)} ELSE received
    /\ UNCHANGED <<bookings, rows, nextId, clock, hook, disturbed, faults>>

\* Faulty variant: the outcome is written to whatever row now has the same booking, kind
\* and channel.
MarkByKey(d, item) ==
    rows' = [k \in Keys |-> IF k = item.key /\ rows[k] # NoRow
                            THEN [rows[k] EXCEPT !.status = drain[d].outcome] ELSE rows[k]]

\* Faulty variant: "failed means try again later", so a failed row is left to be tried.
MarkUnlessFailed(d, item) ==
    rows' = [k \in Keys |-> IF rows[k].id = item.id /\ drain[d].outcome # "failed"
                            THEN [rows[k] EXCEPT !.status = drain[d].outcome] ELSE rows[k]]

\* Faulty variant: a failure is written down as a status the table's CHECK does not list.
MarkForRetry(d, item) ==
    rows' = [k \in Keys |-> IF rows[k].id = item.id
                            THEN [rows[k] EXCEPT !.status = IF drain[d].outcome = "failed"
                                                            THEN "retry" ELSE drain[d].outcome]
                            ELSE rows[k]]

\* markSent, markFailed, markSkipped: by id, whatever the row's status is, if it is still
\* there.
Mark(d, item) ==
    rows' = [k \in Keys |-> IF rows[k].id = item.id
                            THEN [rows[k] EXCEPT !.status = drain[d].outcome] ELSE rows[k]]

Report(d) ==
    /\ drain[d].step = "mark"
    /\ Mark(d, Head(drain[d].batch))
    /\ LET rest == Tail(drain[d].batch)
       IN  drain' = [drain EXCEPT ![d] = IF rest = <<>> THEN Resting
                                         ELSE [step |-> "send", outcome |-> "sent", batch |-> rest]]
    /\ UNCHANGED <<bookings, nextId, clock, hook, history>>

\* A statement of the drain throws, or its process dies: the rest of the batch is left.
DrainFails(d) ==
    /\ drain[d].step # "idle"
    /\ faults < MaxFaults
    /\ faults' = faults + 1
    /\ drain' = [drain EXCEPT ![d] = Resting]
    /\ UNCHANGED <<bookings, rows, nextId, clock, hook, received, disturbed>>

Tick ==
    /\ clock < MaxClock
    /\ clock' = clock + 1
    /\ UNCHANGED <<bookings, rows, nextId, hook, drain, history>>

HookStep(r) == Drop(r) \/ Schedule(r) \/ Enqueue(r)
DrainStep(d) == ListDue(d) \/ Send(d) \/ Report(d)

Next ==
    \/ \E r \in Requests :
        CreateBooking(r) \/ RescheduleBooking(r) \/ CancelBooking(r) \/ HookStep(r) \/ HookFails(r)
    \/ \E d \in Drains : DrainStep(d) \/ DrainFails(d)
    \/ Tick

Spec == Init /\ [][Next]_vars

\* A hook that has begun goes on, and a timer outside keeps asking for a drain, without
\* which nothing is ever sent.
FairSpec ==
    /\ Spec
    /\ \A r \in Requests : WF_vars(HookStep(r))
    /\ \A d \in Drains : WF_vars(DrainStep(d))

-----------------------------------------------------------------------------
(* What the queue is meant to guarantee.                                   *)

\* Every row and every process has its type; the statuses are those the table's CHECK lists.
TypeOK ==
    /\ state \in [Bookings -> {"none", "live", "gone"}]
    /\ startsAt \in [Bookings -> Starts]
    /\ rows \in [Keys -> [id : Nat, status : {"absent", "queued", "sent", "failed", "skipped"},
                          due : Nat]]
    /\ nextId \in Nat \ {0}
    /\ clock \in Nat
    /\ DOMAIN hook = Requests /\ DOMAIN drain = Drains
    /\ received \subseteq [key : Keys, id : Nat] /\ disturbed \subseteq Bookings
    /\ faults \in Nat

\* Once a booking's hooks have run, each after the one before it and to the end, what is
\* queued is what the calendar says: a live booking has been confirmed or is about to be
\* and its reminder is queued for the right moment or was already handled; a cancelled
\* one has a cancellation notice and nothing else waiting.
QueueMatchesCalendar ==
    \A b \in Bookings \ disturbed, ch \in Channels :
        LET confirmed == <<b, "confirmed", ch>>
            notice    == <<b, "cancelled", ch>>
            reminder  == <<b, "reminder", ch>>
        IN  InFlight(b) = {} =>
            /\ state[b] = "live" =>
                /\ rows[confirmed] # NoRow /\ rows[notice] = NoRow
                /\ Queued(reminder) => RemindersOn /\ rows[reminder].due = startsAt[b] - Lead
                /\ (RemindersOn /\ clock < startsAt[b] - Lead) => rows[reminder] # NoRow
            /\ state[b] = "gone" =>
                /\ ~Queued(confirmed) /\ ~Queued(reminder)
                /\ rows[notice] # NoRow

\* The record of what a customer received is true, also when a row is dropped and queued
\* anew between a drain's listing and its report: a row marked sent was itself delivered.
SentMeansReceived ==
    \A k \in Keys : rows[k].status = "sent" => [key |-> k, id |-> rows[k].id] \in received

\* What was handled stays on the record and is never handed out again: no later hook
\* drops it, and no report puts it back in the queue.
HandledStaysHandled ==
    [][\A k \in Keys : Settled(k) => Settled(k)' /\ rows'[k].id = rows[k].id]_vars

\* Whatever comes due is handled, whatever else fails, if drains keep being asked for.
DueIsHandled ==
    \A k \in Keys : (Queued(k) /\ rows[k].due <= clock) ~> ~(Queued(k) /\ rows[k].due <= clock)

-----------------------------------------------------------------------------
(* What docs/NOTIFICATIONS.md says v1 guarantees, and the code does not.   *)

\* d hands the message of k to the transport, which delivers it.
Delivers(d, k) ==
    /\ drain[d].step = "send" /\ drain'[d].step = "mark"
    /\ Head(drain[d].batch).key = k
    /\ Head(drain[d].batch) \in received'

\* "No duplicate message per (booking, kind, channel), enforced by a UNIQUE constraint."
NoDuplicateMessage ==
    [][\A d \in Drains, k \in Keys :
        Delivers(d, k) => k \notin {message.key : message \in received}]_vars

\* "No message for a booking that was cancelled or moved before it came due, because the
\* pending rows are deleted at the moment the booking changes": no reminder is delivered
\* from a row that is still pending when the cancellation, its hook included, is over.
NoReminderOnceCancelled ==
    [][\A d \in Drains, b \in Bookings, ch \in Channels :
        Delivers(d, <<b, "reminder", ch>>) =>
            ~(state[b] = "gone" /\ InFlight(b) = {} /\ Queued(<<b, "reminder", ch>>))]_vars
=============================================================================
