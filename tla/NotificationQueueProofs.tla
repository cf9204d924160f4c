------------------------ MODULE NotificationQueueProofs ------------------------
(***************************************************************************)
(* What holds of the notification queue for any number of bookings,        *)
(* channels, racing requests and drains.                                   *)
(*                                                                         *)
(* The inductive invariant Inv has three parts beyond the types.  Ids:     *)
(* an id is given to one row only and never again, so a report can reach   *)
(* no row but the one its drain listed.  Delivered: a drain about to       *)
(* report `sent` has delivered.  Calendar: what the hook in flight for a   *)
(* booking has still to do is exactly what separates the queue from the    *)
(* calendar.                                                               *)
(***************************************************************************)
EXTENDS NotificationQueue, FiniteSetTheorems, SequenceTheorems, TLAPS

Order == [key : Keys, due : Nat]
Item == [key : Keys, id : Nat]

HookState == [step : {"new", "drop", "read", "queue", "done"},
              event : {"created", "moved", "cancelled"},
              booking : Bookings, left : Seq(Order)]
DrainState == [step : {"idle", "send", "mark"}, batch : Seq(Item),
               outcome : {"sent", "failed", "skipped"}]

Types ==
    /\ TypeOK
    /\ hook \in [Requests -> HookState]
    /\ drain \in [Drains -> DrainState]
    /\ \A r \in Requests : /\ hook[r].step = "queue" => hook[r].left # <<>>
                           /\ hook[r].step = "read" => Channels # {}
    /\ \A d \in Drains : drain[d].step # "idle" => drain[d].batch # <<>>

Ids ==
    /\ \A k \in Keys : /\ rows[k].id < nextId
                       /\ rows[k].status = "absent" <=> rows[k] = NoRow
                       /\ rows[k] = NoRow <=> rows[k].id = 0
    /\ \A k1, k2 \in Keys : rows[k1].id = rows[k2].id => k1 = k2 \/ rows[k1].id = 0

Listed(item) ==
    /\ item.id # 0 /\ item.id < nextId
    /\ \A k \in Keys : rows[k].id = item.id => k = item.key

Batches == \A d \in Drains : \A i \in 1 .. Len(drain[d].batch) : Listed(drain[d].batch[i])

Delivered ==
    \A d \in Drains : drain[d].step = "mark" /\ drain[d].outcome = "sent"
                        => Head(drain[d].batch) \in received

Confirmed(b, ch) == <<b, "confirmed", ch>>
Notice(b, ch)    == <<b, "cancelled", ch>>
Reminder(b, ch)  == <<b, "reminder", ch>>

\* The part of QueueMatchesCalendar that no hook of b may ever break once its drop is done.
NothingStale(b, ch) ==
    /\ state[b] = "live" /\ Queued(Reminder(b, ch)) =>
            RemindersOn /\ rows[Reminder(b, ch)].due = startsAt[b] - Lead
    /\ state[b] = "gone" => ~Queued(Confirmed(b, ch)) /\ ~Queued(Reminder(b, ch))

Agreed(b, ch) ==
    /\ NothingStale(b, ch)
    /\ state[b] = "live" =>
        /\ rows[Confirmed(b, ch)] # NoRow
        /\ (RemindersOn /\ clock < startsAt[b] - Lead) => rows[Reminder(b, ch)] # NoRow
    /\ state[b] = "gone" => rows[Notice(b, ch)] # NoRow

Awaits(r, k) == \E i \in 1 .. Len(hook[r].left) : hook[r].left[i].key = k

\* A hook that is inserting holds rows of its own booking, none of them stale, and all
\* that the queue still lacks.
Inserting(r, b) ==
    /\ \A i \in 1 .. Len(hook[r].left), ch \in Channels :
        /\ hook[r].left[i].key = Reminder(b, ch) =>
              state[b] = "live" /\ RemindersOn /\ hook[r].left[i].due = startsAt[b] - Lead
        /\ hook[r].left[i].key = Confirmed(b, ch) => state[b] = "live"
        /\ hook[r].left[i].key = Notice(b, ch) => state[b] = "gone"
    /\ \A ch \in Channels :
        /\ state[b] = "gone" => rows[Notice(b, ch)] # NoRow \/ Awaits(r, Notice(b, ch))
        /\ state[b] = "live" =>
            /\ rows[Confirmed(b, ch)] # NoRow \/ Awaits(r, Confirmed(b, ch))
            /\ (RemindersOn /\ clock < startsAt[b] - Lead)
                   => rows[Reminder(b, ch)] # NoRow \/ Awaits(r, Reminder(b, ch))

Pending(r, b) ==
    /\ hook[r].event = "cancelled" <=> state[b] = "gone"
    /\ hook[r].step = "read" => \A k \in Keys : k[1] = b => ~Queued(k)
    /\ hook[r].step = "queue" =>
        /\ \A ch \in Channels : NothingStale(b, ch)
        /\ Inserting(r, b)

CalendarOf(b) ==
    /\ \A r1, r2 \in InFlight(b) : r1 = r2
    /\ state[b] = "none" => InFlight(b) = {} /\ \A k \in Keys : k[1] = b => rows[k] = NoRow
    /\ state[b] = "live" => \A ch \in Channels : rows[Notice(b, ch)] = NoRow
    /\ InFlight(b) = {} => \A ch \in Channels : Agreed(b, ch)
    /\ \A r \in InFlight(b) : Pending(r, b)

Calendar == \A b \in Bookings \ disturbed : CalendarOf(b)

\* A hook inserts rows of its own booking.
OwnRows ==
    \A r \in Requests : hook[r].step = "queue" =>
        \A i \in 1 .. Len(hook[r].left) : hook[r].left[i].key[1] = hook[r].booking

Inv == Types /\ Ids /\ Batches /\ Delivered /\ SentMeansReceived /\ OwnRows /\ Calendar

-----------------------------------------------------------------------------
(* The rows scheduleForBooking inserts.                                    *)

\* The channels are numbered, each once.
LEMMA ChannelsNumbered ==
    /\ Cardinality(Channels) \in Nat
    /\ \A i \in 1 .. Cardinality(Channels) : SetToSeq(Channels)[i] \in Channels
    /\ \A ch \in Channels : \E i \in 1 .. Cardinality(Channels) : SetToSeq(Channels)[i] = ch
<1> DEFINE n == Cardinality(Channels)
           f == SetToSeq(Channels)
<1>1. IsFiniteSet(Channels)
    BY QueueAssumption
<1>2. n \in Nat /\ ExistsBijection(1 .. n, Channels)
    BY <1>1, FS_CardinalityType
<1>3. \E g \in [1 .. n -> Channels] : IsInjective(g)
    BY <1>2 DEF ExistsBijection, Bijection, Injection
<1>4. f \in [1 .. n -> Channels] /\ IsInjective(f)
    BY <1>3 DEF SetToSeq
<1> HIDE DEF f
<1>5. f \in Injection(1 .. n, Channels)
    BY <1>4 DEF Injection
<1>6. Cardinality(1 .. n) = n
  <2> HIDE DEF n
  <2>1. Cardinality(1 .. n) = IF 1 > n THEN 0 ELSE n - 1 + 1
      BY <1>2, FS_Interval
  <2> QED
      BY <2>1, <1>2
<1>7. f \in Surjection(1 .. n, Channels)
    BY <1>1, <1>5, <1>6, FS_Injection
<1>8. /\ \A i \in 1 .. n : f[i] \in Channels
      /\ \A ch \in Channels : \E i \in 1 .. n : f[i] = ch
    BY <1>4, <1>7 DEF Surjection
<1> QED
    BY <1>2, <1>8 DEF f

PerChannel(b, kind, due) ==
    [i \in 1 .. Cardinality(Channels) |-> [key |-> <<b, kind, SetToSeq(Channels)[i]>>, due |-> due]]

\* One row of a kind for every channel, and nothing else.
LEMMA PerChannelFacts ==
    ASSUME NEW b \in Bookings, NEW kind \in Kinds, NEW due \in Nat
    PROVE  /\ PerChannel(b, kind, due) \in Seq(Order)
           /\ Len(PerChannel(b, kind, due)) = Cardinality(Channels)
           /\ \A i \in 1 .. Len(PerChannel(b, kind, due)) :
                /\ PerChannel(b, kind, due)[i].due = due
                /\ \E ch \in Channels : PerChannel(b, kind, due)[i].key = <<b, kind, ch>>
           /\ \A ch \in Channels : \E i \in 1 .. Len(PerChannel(b, kind, due)) :
                PerChannel(b, kind, due)[i].key = <<b, kind, ch>>
<1>0. PICK s : s = PerChannel(b, kind, due)
    OBVIOUS
<1> DEFINE n == Cardinality(Channels)
           f == SetToSeq(Channels)
<1>1. n \in Nat /\ \A i \in 1 .. n : f[i] \in Channels
    BY ChannelsNumbered
<1>2. \A ch \in Channels : \E i \in 1 .. n : f[i] = ch
    BY ChannelsNumbered
<1>3. s = [i \in 1 .. n |-> [key |-> <<b, kind, f[i]>>, due |-> due]]
    BY <1>0 DEF PerChannel
<1> HIDE DEF n, f
<1>4. \A i \in 1 .. n : <<b, kind, f[i]>> \in Keys
    BY <1>1 DEF Keys
<1>5. s \in [1 .. n -> Order]
    BY <1>3, <1>4 DEF Order
<1>6. s \in Seq(Order) /\ Len(s) = n
    BY <1>1, <1>5, LenProperties
<1>7. \A i \in 1 .. n : s[i].due = due /\ s[i].key = <<b, kind, f[i]>>
    BY <1>3
<1>8. \A i \in 1 .. Len(s) : s[i].due = due /\ \E ch \in Channels : s[i].key = <<b, kind, ch>>
    BY <1>1, <1>6, <1>7
<1>9. \A ch \in Channels : \E i \in 1 .. Len(s) : s[i].key = <<b, kind, ch>>
    BY <1>2, <1>6, <1>7
<1> QED
    BY <1>0, <1>6, <1>8, <1>9 DEF n

\* Every place of a concatenation is a place of one of its parts.
LEMMA ConcatParts ==
    ASSUME NEW S, NEW s \in Seq(S), NEW t \in Seq(S)
    PROVE  /\ s \o t \in Seq(S)
           /\ Len(s) \in Nat /\ Len(t) \in Nat /\ Len(s \o t) = Len(s) + Len(t)
           /\ \A i \in 1 .. Len(s) : i \in 1 .. Len(s \o t) /\ (s \o t)[i] = s[i]
           /\ \A i \in 1 .. Len(t) : Len(s) + i \in 1 .. Len(s \o t) /\ (s \o t)[Len(s) + i] = t[i]
           /\ \A i \in 1 .. Len(s \o t) :
                \/ i \in 1 .. Len(s) /\ (s \o t)[i] = s[i]
                \/ i - Len(s) \in 1 .. Len(t) /\ (s \o t)[i] = t[i - Len(s)]
<1>1. /\ s \o t \in Seq(S) /\ Len(s \o t) = Len(s) + Len(t)
      /\ \A i \in 1 .. (Len(s) + Len(t)) :
            (s \o t)[i] = IF i <= Len(s) THEN s[i] ELSE t[i - Len(s)]
    BY ConcatProperties
<1>2. Len(s) \in Nat /\ Len(t) \in Nat
    BY LenProperties
<1>3. ASSUME NEW i \in 1 .. Len(s) PROVE i \in 1 .. Len(s \o t) /\ (s \o t)[i] = s[i]
  <2>1. i \in 1 .. (Len(s) + Len(t)) /\ i <= Len(s)
      BY <1>2
  <2> QED
      BY <2>1, <1>1
<1>4. ASSUME NEW i \in 1 .. Len(t)
      PROVE  Len(s) + i \in 1 .. Len(s \o t) /\ (s \o t)[Len(s) + i] = t[i]
  <2>1. /\ Len(s) + i \in 1 .. (Len(s) + Len(t)) /\ ~(Len(s) + i <= Len(s))
        /\ Len(s) + i - Len(s) = i
      BY <1>2
  <2>2. PICK j \in 1 .. (Len(s) + Len(t)) : j = Len(s) + i
      BY <2>1
  <2>3. ~(j <= Len(s)) /\ j - Len(s) = i
      BY <2>1, <2>2
  <2>4. (s \o t)[j] = t[i]
      BY <2>3, <1>1
  <2> QED
      BY <2>2, <2>4, <1>1
<1>5. ASSUME NEW i \in 1 .. Len(s \o t)
      PROVE  \/ i \in 1 .. Len(s) /\ (s \o t)[i] = s[i]
             \/ i - Len(s) \in 1 .. Len(t) /\ (s \o t)[i] = t[i - Len(s)]
  <2>1. i \in 1 .. (Len(s) + Len(t))
      BY <1>1
  <2>2. i \in 1 .. Len(s) \/ (~(i <= Len(s)) /\ i - Len(s) \in 1 .. Len(t))
      BY <2>1, <1>2
  <2> QED
      BY <2>1, <2>2, <1>1
<1> QED
    BY <1>1, <1>2, <1>3, <1>4, <1>5

\* What the hook of b inserts: its confirmation or its notice at once, and the reminder
\* if its moment is ahead, for every channel.
LEMMA ScheduledFacts ==
    ASSUME Types, Channels # {}, NEW b \in Bookings, NEW event \in {"created", "moved", "cancelled"}
    PROVE  LET s == Scheduled(event, b)
           IN  /\ s \in Seq(Order) /\ s # <<>>
               /\ \A i \in 1 .. Len(s) : \E ch \in Channels :
                    \/ s[i].key = <<b, Immediate(event), ch>>
                    \/ /\ s[i].key = Reminder(b, ch)
                       /\ Reminds(event, b) /\ s[i].due = startsAt[b] - Lead
               /\ \A ch \in Channels :
                    /\ \E i \in 1 .. Len(s) : s[i].key = <<b, Immediate(event), ch>>
                    /\ Reminds(event, b) => \E i \in 1 .. Len(s) : s[i].key = Reminder(b, ch)
<1>1. PICK moment : moment = startsAt[b] - Lead
    OBVIOUS
<1>2. PICK now : now = PerChannel(b, Immediate(event), clock)
    OBVIOUS
<1>3. PICK later : later = IF Reminds(event, b) THEN PerChannel(b, "reminder", moment) ELSE <<>>
    OBVIOUS
<1>4. PICK s : s = Scheduled(event, b)
    OBVIOUS
<1>5. s = now \o later
    BY <1>1, <1>2, <1>3, <1>4 DEF Scheduled, PerChannel
<1>6. clock \in Nat /\ (Reminds(event, b) => moment \in Nat)
  <2>1. clock \in Nat /\ startsAt[b] \in Nat /\ Lead \in Nat
      BY QueueAssumption DEF Types, TypeOK
  <2> QED
      BY <2>1, <1>1 DEF Reminds
<1>7. Immediate(event) \in Kinds /\ "reminder" \in Kinds
    BY DEF Immediate, Kinds
<1>8. /\ now \in Seq(Order) /\ Len(now) = Cardinality(Channels)
      /\ \A i \in 1 .. Len(now) :
            now[i].due = clock /\ \E ch \in Channels : now[i].key = <<b, Immediate(event), ch>>
      /\ \A ch \in Channels : \E i \in 1 .. Len(now) : now[i].key = <<b, Immediate(event), ch>>
  <2> DEFINE t == PerChannel(b, Immediate(event), clock)
  <2>1. /\ t \in Seq(Order) /\ Len(t) = Cardinality(Channels)
        /\ \A i \in 1 .. Len(t) :
              t[i].due = clock /\ \E ch \in Channels : t[i].key = <<b, Immediate(event), ch>>
        /\ \A ch \in Channels : \E i \in 1 .. Len(t) : t[i].key = <<b, Immediate(event), ch>>
      BY <1>6, <1>7, PerChannelFacts
  <2> HIDE DEF t
  <2>2. now = t
      BY <1>2 DEF t
  <2> QED
      BY <2>1, <2>2
<1>9. now # <<>>
  <2>1. Cardinality(Channels) > 0
      BY ChannelsNumbered
  <2> QED
      BY <2>1, <1>8, EmptySeq
<1>10. /\ later \in Seq(Order) /\ (later # <<>> => Reminds(event, b))
       /\ \A i \in 1 .. Len(later) : \E ch \in Channels :
             later[i].key = <<b, "reminder", ch>> /\ later[i].due = moment
       /\ Reminds(event, b) =>
             \A ch \in Channels : \E i \in 1 .. Len(later) : later[i].key = <<b, "reminder", ch>>
  <2>1. CASE Reminds(event, b)
    <3>1. later = PerChannel(b, "reminder", moment) /\ moment \in Nat
        BY <2>1, <1>3, <1>6
    <3> QED
        <4> DEFINE t == PerChannel(b, "reminder", moment)
        <4>1. /\ t \in Seq(Order)
              /\ \A i \in 1 .. Len(t) :
                    t[i].due = moment /\ \E ch \in Channels : t[i].key = <<b, "reminder", ch>>
              /\ \A ch \in Channels : \E i \in 1 .. Len(t) : t[i].key = <<b, "reminder", ch>>
            BY <3>1, <1>7, PerChannelFacts
        <4>2. later = t
            BY <3>1
        <4> HIDE DEF t
        <4> QED
            BY <4>1, <4>2, <2>1
  <2>2. CASE ~Reminds(event, b)
    <3>1. later = <<>> /\ later \in Seq(Order) /\ Len(later) = 0
        BY <2>2, <1>3, EmptySeq
    <3> QED
        BY <3>1, <2>2
  <2> QED
      BY <2>1, <2>2
<1>11. /\ s \in Seq(Order) /\ s # <<>>
       /\ \A i \in 1 .. Len(s) : \E ch \in Channels :
            \/ s[i].key = <<b, Immediate(event), ch>>
            \/ s[i].key = <<b, "reminder", ch>> /\ later # <<>> /\ s[i].due = moment
       /\ \A ch \in Channels : \E i \in 1 .. Len(s) : s[i].key = <<b, Immediate(event), ch>>
       /\ \A ch \in Channels :
            (\E i \in 1 .. Len(later) : later[i].key = <<b, "reminder", ch>>)
                => \E i \in 1 .. Len(s) : s[i].key = <<b, "reminder", ch>>
  <2>1. /\ s \in Seq(Order) /\ Len(now) \in Nat /\ Len(later) \in Nat /\ Len(s) = Len(now) + Len(later)
        /\ \A i \in 1 .. Len(now) : i \in 1 .. Len(s) /\ s[i] = now[i]
        /\ \A i \in 1 .. Len(later) : Len(now) + i \in 1 .. Len(s) /\ s[Len(now) + i] = later[i]
        /\ \A i \in 1 .. Len(s) :
              \/ i \in 1 .. Len(now) /\ s[i] = now[i]
              \/ i - Len(now) \in 1 .. Len(later) /\ s[i] = later[i - Len(now)]
    <3>0. now \in Seq(Order) /\ later \in Seq(Order)
        BY <1>8, <1>10
    <3>1. /\ now \o later \in Seq(Order)
          /\ Len(now) \in Nat /\ Len(later) \in Nat /\ Len(now \o later) = Len(now) + Len(later)
        BY <3>0, ConcatParts
    <3>2. \A i \in 1 .. Len(now) : i \in 1 .. Len(now \o later) /\ (now \o later)[i] = now[i]
        BY <3>0, ConcatParts
    <3>3. \A i \in 1 .. Len(later) : Len(now) + i \in 1 .. Len(now \o later)
                                     /\ (now \o later)[Len(now) + i] = later[i]
        BY <3>0, ConcatParts
    <3>4. \A i \in 1 .. Len(now \o later) :
              \/ i \in 1 .. Len(now) /\ (now \o later)[i] = now[i]
              \/ i - Len(now) \in 1 .. Len(later) /\ (now \o later)[i] = later[i - Len(now)]
        BY <3>0, ConcatParts
    <3> QED
        BY <3>1, <3>2, <3>3, <3>4, <1>5
  <2>2. s # <<>>
      BY <2>1, <1>8, <1>9, EmptySeq
  <2>3. ASSUME NEW i \in 1 .. Len(s)
        PROVE  \E ch \in Channels :
                  \/ s[i].key = <<b, Immediate(event), ch>>
                  \/ s[i].key = <<b, "reminder", ch>> /\ later # <<>> /\ s[i].due = moment
    <3>1. CASE i \in 1 .. Len(now) /\ s[i] = now[i]
        BY <3>1, <1>8
    <3>2. CASE i - Len(now) \in 1 .. Len(later) /\ s[i] = later[i - Len(now)]
      <4>1. PICK j \in 1 .. Len(later) : s[i] = later[j]
          BY <3>2
      <4>2. later # <<>>
          BY <4>1, <1>10, EmptySeq
      <4> QED
          BY <4>1, <4>2, <1>10
    <3> QED
        BY <3>1, <3>2, <2>1
  <2>4. ASSUME NEW ch \in Channels PROVE \E i \in 1 .. Len(s) : s[i].key = <<b, Immediate(event), ch>>
    <3>1. PICK i \in 1 .. Len(now) : now[i].key = <<b, Immediate(event), ch>>
        BY <1>8
    <3>2. i \in 1 .. Len(s) /\ s[i] = now[i]
        BY <2>1
    <3> QED
        BY <3>1, <3>2
  <2>5. ASSUME NEW ch \in Channels, NEW j \in 1 .. Len(later), later[j].key = <<b, "reminder", ch>>
        PROVE  \E i \in 1 .. Len(s) : s[i].key = <<b, "reminder", ch>>
    <3>1. Len(now) + j \in 1 .. Len(s) /\ s[Len(now) + j] = later[j]
        BY <2>1
    <3> QED
        BY <3>1, <2>5
  <2> QED
      BY <2>1, <2>2, <2>3, <2>4, <2>5
<1> QED
    BY <1>1, <1>4, <1>10, <1>11 DEF Reminder

\* The last element off, the rest.
LEMMA AfterHead ==
    ASSUME NEW S, NEW s \in Seq(S), s # <<>>
    PROVE  /\ Head(s) \in S /\ Head(s) = s[1] /\ 1 \in 1 .. Len(s)
           /\ Tail(s) \in Seq(S) /\ Len(Tail(s)) = Len(s) - 1 /\ Len(s) \in Nat
           /\ \A i \in 1 .. Len(Tail(s)) : i + 1 \in 1 .. Len(s) /\ Tail(s)[i] = s[i + 1]
           /\ \A i \in 1 .. Len(s) : i = 1 \/ (i - 1 \in 1 .. Len(Tail(s)) /\ Tail(s)[i - 1] = s[i])
<1>1. Len(s) \in Nat /\ Len(s) # 0
    BY LenProperties, EmptySeq
<1>2. Tail(s) \in Seq(S) /\ Len(Tail(s)) = Len(s) - 1
      /\ \A i \in 1 .. Len(Tail(s)) : Tail(s)[i] = s[i + 1]
    BY HeadTailProperties
<1>3. Head(s) \in S /\ Head(s) = s[1]
    BY HeadTailProperties, <1>1
<1> QED
    BY <1>1, <1>2, <1>3

-----------------------------------------------------------------------------
(* The records: types, ids, what a drain has listed and delivered.  Inv    *)
(* without Calendar is inductive by itself.                                *)

Records == Types /\ Ids /\ Batches /\ Delivered /\ SentMeansReceived

\* A hook that a step has moved is still a hook.
LEMMA HookMoves ==
    ASSUME Types, NEW r \in Requests, NEW h \in HookState, hook' = [hook EXCEPT ![r] = h],
           h.step = "queue" => h.left # <<>>, h.step = "read" => Channels # {}
    PROVE  /\ hook' \in [Requests -> HookState]
           /\ DOMAIN hook' = Requests
           /\ \A q \in Requests : /\ hook'[q].step = "queue" => hook'[q].left # <<>>
                                  /\ hook'[q].step = "read" => Channels # {}
BY DEF Types

LEMMA DoneIsAHook == Idle \in HookState /\ Done \in HookState /\ Done.step = "done"
<1>1. (CHOOSE b \in Bookings : TRUE) \in Bookings
    BY QueueAssumption
<1>2. <<>> \in Seq(Order)
    BY EmptySeq
<1>3. Idle \in HookState
    BY <1>1, <1>2 DEF Idle, HookState
<1> QED
    BY <1>3 DEF Done, HookState

LEMMA GoOnIsAHook ==
    ASSUME NEW h \in HookState
    PROVE  /\ GoOnToSchedule(h) \in HookState
           /\ GoOnToSchedule(h).step \in {"done", "read"}
           /\ GoOnToSchedule(h).step = "read" =>
                Channels # {} /\ GoOnToSchedule(h) = [h EXCEPT !.step = "read"]
           /\ GoOnToSchedule(h).step = "done" => Channels = {}
BY DoneIsAHook DEF GoOnToSchedule, HookState

LEMMA RestingIsADrain == Resting \in DrainState /\ Resting.step = "idle" /\ Resting.batch = <<>>
BY EmptySeq DEF Resting, DrainState

\* A drain that a step has moved is still a drain, of rows that are listed.
LEMMA DrainMoves ==
    ASSUME Types, Batches, Delivered, NEW d \in Drains, NEW x \in DrainState,
           drain' = [drain EXCEPT ![d] = x], x.step # "idle" => x.batch # <<>>,
           \A i \in 1 .. Len(x.batch) : Listed(x.batch[i])',
           \A item \in Item : Listed(item) => Listed(item)',
           x.step = "mark" /\ x.outcome = "sent" => Head(x.batch) \in received',
           received \subseteq received'
    PROVE  /\ drain' \in [Drains -> DrainState] /\ DOMAIN drain' = Drains
           /\ \A q \in Drains : drain'[q].step # "idle" => drain'[q].batch # <<>>
           /\ Batches' /\ Delivered'
<1>1. /\ drain' \in [Drains -> DrainState] /\ DOMAIN drain' = Drains
      /\ \A q \in Drains : drain'[q].step # "idle" => drain'[q].batch # <<>>
    BY DEF Types
<1>2. Batches'
  <2> SUFFICES ASSUME NEW q \in Drains, NEW i \in 1 .. Len(drain'[q].batch)
               PROVE  \E item : item = drain'[q].batch[i] /\ Listed(item)'
      BY DEF Batches, Listed
  <2>1. CASE q = d
    <3>1. drain'[q] = x
        BY <2>1 DEF Types
    <3> QED
        BY <3>1
  <2>2. CASE q # d
    <3>1. drain'[q] = drain[q] /\ drain[q].batch \in Seq(Item)
        BY <2>2 DEF Types, DrainState
    <3>2. PICK item \in Item : item = drain[q].batch[i]
        BY <3>1, ElementOfSeq
    <3>3. Listed(item)
        BY <3>1, <3>2 DEF Batches
    <3> QED
        BY <3>1, <3>2, <3>3
  <2> QED
      BY <2>1, <2>2
<1>3. Delivered'
    BY DEF Types, Delivered
<1> QED
    BY <1>1, <1>2, <1>3

LEMMA InitRecords == ASSUME Init PROVE Records
<1>1. 0 \in Nat /\ 1 \in Nat \ {0} /\ (CHOOSE s \in Starts : TRUE) \in Starts
    BY QueueAssumption
<1>2. /\ hook = [r \in Requests |-> Idle] /\ drain = [d \in Drains |-> Resting]
      /\ hook \in [Requests -> HookState] /\ drain \in [Drains -> DrainState]
    BY DoneIsAHook, RestingIsADrain DEF Init
<1>3. TypeOK
    BY <1>1, <1>2 DEF Init, TypeOK, NoRow
<1>4. Types
    BY <1>2, <1>3, RestingIsADrain DEF Types, Idle
<1>5. Ids
    BY DEF Init, Ids, NoRow
<1>6. Batches /\ Delivered
    BY <1>2, RestingIsADrain, EmptySeq DEF Batches, Delivered
<1>7. SentMeansReceived
    BY DEF Init, NoRow, SentMeansReceived
<1> QED
    BY <1>4, <1>5, <1>6, <1>7 DEF Records

\* What leaves the rows, the drains and what was received alone.
LEMMA RecordsAside ==
    ASSUME Records, UNCHANGED <<rows, nextId, drain, received>>, Types'
    PROVE  Records'
BY DEF Records, Ids, Batches, Listed, Delivered, SentMeansReceived

\* A booking write: the hook that follows it starts at its drop, or past it.
LEMMA CommitStarts ==
    ASSUME Types, NEW r \in Requests, NEW event \in {"created", "moved", "cancelled"},
           NEW b \in Bookings, Commit(r, event, b)
    PROVE  \E h \in HookState :
              /\ hook' = [hook EXCEPT ![r] = h]
              /\ h.step \in {"done", "read", "drop"}
              /\ h.step # "done" => h.event = event /\ h.booking = b
              /\ h.step = "done" => Channels = {}
              /\ h.step = "read" => event = "created" /\ Channels # {}
<1> DEFINE h0 == [Idle EXCEPT !.step = "drop", !.event = event, !.booking = b]
<1>1. h0 \in HookState /\ h0.step = "drop" /\ h0.event = event /\ h0.booking = b
    BY DoneIsAHook DEF HookState
<1>2. hook' = [hook EXCEPT ![r] = IF event = "created" THEN GoOnToSchedule(h0) ELSE h0]
    BY DEF Commit
<1> HIDE DEF h0
<1>3. CASE event = "created"
  <2>1. /\ GoOnToSchedule(h0) \in HookState /\ GoOnToSchedule(h0).step \in {"done", "read"}
        /\ GoOnToSchedule(h0).step = "read" =>
             Channels # {} /\ GoOnToSchedule(h0) = [h0 EXCEPT !.step = "read"]
        /\ GoOnToSchedule(h0).step = "done" => Channels = {}
      BY <1>1, GoOnIsAHook
  <2>2. PICK h \in HookState : h = GoOnToSchedule(h0)
      BY <2>1
  <2>3. h.step = "read" => h.event = event /\ h.booking = b
      BY <2>1, <2>2, <1>1 DEF HookState
  <2> QED
      BY <2>1, <2>2, <2>3, <1>2, <1>3
<1>4. CASE event # "created"
    BY <1>1, <1>2, <1>4
<1> QED
    BY <1>3, <1>4

LEMMA WriteRecords ==
    ASSUME Records, NEW r \in Requests, CreateBooking(r) \/ RescheduleBooking(r) \/ CancelBooking(r)
    PROVE  Records'
<1>1. PICK b \in Bookings, event \in {"created", "moved", "cancelled"} :
        /\ Commit(r, event, b)
        /\ state' \in [Bookings -> {"none", "live", "gone"}] /\ startsAt' \in [Bookings -> Starts]
  <2>1. state \in [Bookings -> {"none", "live", "gone"}] /\ startsAt \in [Bookings -> Starts]
      BY DEF Records, Types, TypeOK
  <2>2. CASE CreateBooking(r)
      BY <2>1, <2>2 DEF CreateBooking
  <2>3. CASE RescheduleBooking(r)
      BY <2>1, <2>3 DEF RescheduleBooking
  <2>4. CASE CancelBooking(r)
      BY <2>1, <2>4 DEF CancelBooking
  <2> QED
      BY <2>2, <2>3, <2>4
<1>2. PICK h \in HookState :
        /\ hook' = [hook EXCEPT ![r] = h] /\ h.step # "queue" /\ (h.step = "read" => Channels # {})
    BY <1>1, CommitStarts DEF Records
<1>3. /\ hook' \in [Requests -> HookState] /\ DOMAIN hook' = Requests
      /\ \A q \in Requests : /\ hook'[q].step = "queue" => hook'[q].left # <<>>
                             /\ hook'[q].step = "read" => Channels # {}
    BY <1>2, HookMoves DEF Records
<1>4. UNCHANGED <<rows, nextId, clock, drain, received, faults>> /\ disturbed' \subseteq Bookings
    BY <1>1 DEF Commit, Records, Types, TypeOK
<1>5. TypeOK'
    BY <1>1, <1>3, <1>4 DEF Records, Types, TypeOK
<1>6. Types'
    BY <1>3, <1>4, <1>5 DEF Records, Types
<1> QED
    BY <1>4, <1>6, RecordsAside

LEMMA ScheduleRecords == ASSUME Records, NEW r \in Requests, Schedule(r) PROVE Records'
<1>1. hook[r] \in HookState /\ hook[r].step = "read" /\ Channels # {}
    BY DEF Schedule, Records, Types
<1>2. PICK s : s = Scheduled(hook[r].event, hook[r].booking)
    OBVIOUS
<1>3. s \in Seq(Order) /\ s # <<>>
    BY <1>1, <1>2, ScheduledFacts DEF HookState, Records
<1>4. PICK h \in HookState : h = [hook[r] EXCEPT !.step = "queue", !.left = s]
    BY <1>1, <1>3 DEF HookState
<1>5. hook' = [hook EXCEPT ![r] = h] /\ h.step = "queue" /\ h.left # <<>>
    BY <1>1, <1>2, <1>3, <1>4 DEF Schedule, HookState, Records, Types
<1>6. /\ hook' \in [Requests -> HookState] /\ DOMAIN hook' = Requests
      /\ \A q \in Requests : /\ hook'[q].step = "queue" => hook'[q].left # <<>>
                             /\ hook'[q].step = "read" => Channels # {}
    BY <1>5, HookMoves DEF Records
<1>7. UNCHANGED <<bookings, rows, nextId, clock, drain, history>>
    BY DEF Schedule
<1>8. Types'
    BY <1>6, <1>7 DEF Records, Types, TypeOK, bookings, history
<1> QED
    BY <1>7, <1>8, RecordsAside DEF history

LEMMA HookFailsRecords == ASSUME Records, NEW r \in Requests, HookFails(r) PROVE Records'
<1>1. hook[r] \in HookState
    BY DEF Records, Types
<1>2. PICK h \in HookState :
        hook' = [hook EXCEPT ![r] = h] /\ h.step # "queue" /\ (h.step = "read" => Channels # {})
  <2>1. /\ GoOnToSchedule(hook[r]) \in HookState /\ GoOnToSchedule(hook[r]).step # "queue"
        /\ GoOnToSchedule(hook[r]).step = "read" => Channels # {}
      BY <1>1, GoOnIsAHook
  <2>2. Done \in HookState /\ Done.step = "done"
      BY DoneIsAHook
  <2> QED
      BY <2>1, <2>2 DEF HookFails
<1>3. /\ hook' \in [Requests -> HookState] /\ DOMAIN hook' = Requests
      /\ \A q \in Requests : /\ hook'[q].step = "queue" => hook'[q].left # <<>>
                             /\ hook'[q].step = "read" => Channels # {}
    BY <1>2, HookMoves DEF Records
<1>4. /\ UNCHANGED <<bookings, rows, nextId, clock, drain, received>>
      /\ disturbed' \subseteq Bookings /\ faults' \in Nat
    BY <1>1 DEF HookFails, Records, Types, TypeOK, HookState
<1>5. Types'
    BY <1>3, <1>4 DEF Records, Types, TypeOK, bookings
<1> QED
    BY <1>4, <1>5, RecordsAside

LEMMA TickRecords == ASSUME Records, Tick PROVE Records'
<1>1. UNCHANGED <<bookings, rows, nextId, hook, drain, history>> /\ clock' \in Nat
    BY DEF Tick, Records, Types, TypeOK
<1>2. Types'
    BY <1>1 DEF Records, Types, TypeOK, bookings, history
<1> QED
    BY <1>1, <1>2, RecordsAside DEF history

LEMMA DropRecords == ASSUME Records, NEW r \in Requests, Drop(r) PROVE Records'
<1>1. hook[r] \in HookState /\ UNCHANGED <<bookings, nextId, clock, drain, history>>
    BY DEF Drop, Records, Types
<1>2. PICK h \in HookState :
        hook' = [hook EXCEPT ![r] = h] /\ h.step # "queue" /\ (h.step = "read" => Channels # {})
  <2>1. /\ GoOnToSchedule(hook[r]) \in HookState /\ GoOnToSchedule(hook[r]).step # "queue"
        /\ GoOnToSchedule(hook[r]).step = "read" => Channels # {}
      BY <1>1, GoOnIsAHook
  <2> QED
      BY <2>1 DEF Drop
<1>3. /\ hook' \in [Requests -> HookState] /\ DOMAIN hook' = Requests
      /\ \A q \in Requests : /\ hook'[q].step = "queue" => hook'[q].left # <<>>
                             /\ hook'[q].step = "read" => Channels # {}
    BY <1>2, HookMoves DEF Records
<1>4. DOMAIN rows' = Keys /\ \A k \in Keys : rows'[k] = rows[k] \/ (Queued(k) /\ rows'[k] = NoRow)
    BY DEF Drop, DropPending
<1>5. /\ nextId \in Nat \ {0}
      /\ rows \in [Keys -> [id : Nat, status : {"absent", "queued", "sent", "failed", "skipped"},
                            due : Nat]]
    BY DEF Records, Types, TypeOK
<1>6. rows' \in [Keys -> [id : Nat, status : {"absent", "queued", "sent", "failed", "skipped"},
                          due : Nat]]
  <2>1. rows' = [k \in Keys |-> rows'[k]]
      BY DEF Drop, DropPending
  <2>2. \A k \in Keys : rows'[k] \in [id : Nat,
            status : {"absent", "queued", "sent", "failed", "skipped"}, due : Nat]
      BY <1>4, <1>5 DEF NoRow
  <2> QED
      BY <2>1, <2>2
<1>7. Types'
    BY <1>1, <1>3, <1>6 DEF Records, Types, TypeOK, bookings, history
<1>8. \A k \in Keys : rows'[k].id = rows[k].id \/ rows'[k].id = 0
    BY <1>4 DEF NoRow
<1>9. Ids'
  <2>1. \A k \in Keys : /\ rows'[k].id < nextId'
                        /\ rows'[k].status = "absent" <=> rows'[k] = NoRow
                        /\ rows'[k] = NoRow <=> rows'[k].id = 0
      BY <1>1, <1>4, <1>5 DEF Records, Ids, NoRow
  <2>2. \A k1, k2 \in Keys : rows'[k1].id = rows'[k2].id => k1 = k2 \/ rows'[k1].id = 0
      BY <1>8 DEF Records, Ids
  <2> QED
      BY <2>1, <2>2 DEF Ids, NoRow
<1>10. \A item \in Item : Listed(item) => Listed(item)'
    BY <1>1, <1>8 DEF Listed
<1>11. Batches' /\ Delivered'
  <2>1. Batches'
    <3> SUFFICES ASSUME NEW d \in Drains, NEW i \in 1 .. Len(drain[d].batch)
                 PROVE  \E item : item = drain'[d].batch[i] /\ Listed(item)'
        BY <1>1 DEF Batches, Listed
    <3>1. drain[d].batch \in Seq(Item)
        BY DEF Records, Types, DrainState
    <3>2. PICK item \in Item : item = drain[d].batch[i]
        BY <3>1, ElementOfSeq
    <3> QED
        BY <3>2, <1>1, <1>10 DEF Records, Batches
  <2> QED
      BY <2>1, <1>1 DEF Records, Delivered, history
<1>12. SentMeansReceived'
    BY <1>1, <1>4 DEF Records, SentMeansReceived, NoRow, history
<1> QED
    BY <1>7, <1>9, <1>11, <1>12 DEF Records

\* A row goes in under an id no row and no drain has ever had.
LEMMA EnqueueRecords == ASSUME Records, NEW r \in Requests, Enqueue(r) PROVE Records'
<1>1. /\ hook[r] \in HookState /\ hook[r].left \in Seq(Order) /\ hook[r].left # <<>>
      /\ hook[r].step = "queue" /\ UNCHANGED <<bookings, clock, drain, history>>
    BY DEF Enqueue, Records, Types, HookState
<1>2. PICK next \in Order, rest \in Seq(Order) : next = Head(hook[r].left) /\ rest = Tail(hook[r].left)
    BY <1>1, AfterHead
<1>3. next.key \in Keys /\ next.due \in Nat
    BY <1>2 DEF Order
<1>4. /\ nextId \in Nat \ {0}
      /\ rows \in [Keys -> [id : Nat, status : {"absent", "queued", "sent", "failed", "skipped"},
                            due : Nat]]
    BY DEF Records, Types, TypeOK
<1>5. PICK h \in HookState :
        hook' = [hook EXCEPT ![r] = h] /\ (h.step = "queue" => h.left # <<>>) /\ h.step # "read"
  <2>1. CASE rest = <<>>
      BY <2>1, <1>2, DoneIsAHook DEF Enqueue
  <2>2. CASE rest # <<>>
    <3>1. PICK h \in HookState : h = [hook[r] EXCEPT !.left = rest]
        BY <1>1, <1>2 DEF HookState
    <3>2. h.left = rest /\ h.step = "queue"
        BY <3>1, <1>1 DEF HookState
    <3> QED
        BY <3>1, <3>2, <2>2, <1>2 DEF Enqueue
  <2> QED
      BY <2>1, <2>2
<1>6. /\ hook' \in [Requests -> HookState] /\ DOMAIN hook' = Requests
      /\ \A q \in Requests : /\ hook'[q].step = "queue" => hook'[q].left # <<>>
                             /\ hook'[q].step = "read" => Channels # {}
    BY <1>5, HookMoves DEF Records
<1>7. \/ UNCHANGED <<rows, nextId>>
      \/ /\ rows[next.key] = NoRow
         /\ rows' = [rows EXCEPT ![next.key] = [id |-> nextId, status |-> "queued", due |-> next.due]]
         /\ nextId' = nextId + 1
    BY <1>2 DEF Enqueue
<1>8. CASE UNCHANGED <<rows, nextId>>
  <2>1. Types'
      BY <1>1, <1>6, <1>8 DEF Records, Types, TypeOK, bookings, history
  <2> QED
      BY <2>1, <1>1, <1>8, RecordsAside DEF history
<1>9. CASE /\ rows[next.key] = NoRow
           /\ rows' = [rows EXCEPT ![next.key] = [id |-> nextId, status |-> "queued", due |-> next.due]]
           /\ nextId' = nextId + 1
  <2>1. /\ rows' \in [Keys -> [id : Nat, status : {"absent", "queued", "sent", "failed", "skipped"},
                               due : Nat]]
        /\ nextId' \in Nat \ {0}
      BY <1>3, <1>4, <1>9
  <2>2. Types'
      BY <1>1, <1>6, <2>1 DEF Records, Types, TypeOK, bookings, history
  <2>3. \A k \in Keys : k # next.key => rows'[k] = rows[k]
      BY <1>3, <1>4, <1>9
  <2>4. /\ rows'[next.key].id = nextId /\ rows'[next.key].status = "queued"
        /\ rows'[next.key] # NoRow
      BY <1>3, <1>4, <1>9 DEF NoRow
  <2>5. \A k \in Keys : rows[k].id < nextId /\ rows[k].id \in Nat
      BY <1>4 DEF Records, Ids
  <2>6. Ids'
    <3>1. \A k \in Keys : /\ rows'[k].id < nextId'
                          /\ rows'[k].status = "absent" <=> rows'[k] = NoRow
                          /\ rows'[k] = NoRow <=> rows'[k].id = 0
        BY <1>4, <1>9, <2>3, <2>4, <2>5 DEF Records, Ids
    <3>2. \A k1, k2 \in Keys : rows'[k1].id = rows'[k2].id => k1 = k2 \/ rows'[k1].id = 0
        BY <1>4, <2>3, <2>4, <2>5 DEF Records, Ids
    <3> QED
        BY <3>1, <3>2 DEF Ids, NoRow
  <2>7. \A item \in Item : Listed(item) => Listed(item)'
    <3> SUFFICES ASSUME NEW item \in Item, Listed(item) PROVE Listed(item)'
        OBVIOUS
    <3>1. item.id # 0 /\ item.id < nextId /\ item.id \in Nat
        BY DEF Listed, Item
    <3>2. \A k \in Keys : rows'[k].id = item.id => k = item.key
        BY <3>1, <2>3, <2>4, <1>4 DEF Listed
    <3> QED
        BY <3>1, <3>2, <1>4, <1>9 DEF Listed
  <2>8. Batches' /\ Delivered'
    <3>1. Batches'
      <4> SUFFICES ASSUME NEW d \in Drains, NEW i \in 1 .. Len(drain[d].batch)
                   PROVE  \E item : item = drain'[d].batch[i] /\ Listed(item)'
          BY <1>1 DEF Batches, Listed
      <4>1. drain[d].batch \in Seq(Item)
          BY DEF Records, Types, DrainState
      <4>2. PICK item \in Item : item = drain[d].batch[i]
          BY <4>1, ElementOfSeq
      <4> QED
          BY <4>2, <1>1, <2>7 DEF Records, Batches
    <3> QED
        BY <3>1, <1>1 DEF Records, Delivered, history
  <2>9. SentMeansReceived'
      BY <1>1, <2>3, <2>4 DEF Records, SentMeansReceived, history
  <2> QED
      BY <2>2, <2>6, <2>8, <2>9 DEF Records
<1> QED
    BY <1>7, <1>8, <1>9

LEMMA DueIsFinite == IsFiniteSet(Due) /\ Cardinality(Due) \in Nat /\ (Due # {} => Cardinality(Due) > 0)
<1>1. IsFiniteSet(Kinds)
  <2>1. Kinds = {"confirmed", "cancelled"} \cup {"reminder"}
      BY DEF Kinds
  <2>2. Kinds = ({"confirmed"} \cup {"cancelled"}) \cup {"reminder"}
      BY <2>1
  <2> QED
      BY <2>2, FS_Singleton, FS_Union
<1>2. IsFiniteSet(Bookings \X (Kinds \X Channels))
    BY <1>1, QueueAssumption, FS_Product
<1>3. IsFiniteSet(Keys)
  <2> DEFINE f == [p \in Bookings \X (Kinds \X Channels) |-> <<p[1], p[2][1], p[2][2]>>]
  <2>1. f \in Surjection(Bookings \X (Kinds \X Channels), Keys)
    <3>1. f \in [Bookings \X (Kinds \X Channels) -> Keys]
        BY DEF Keys
    <3>2. ASSUME NEW k \in Keys PROVE \E p \in Bookings \X (Kinds \X Channels) : f[p] = k
      <4>1. k = <<k[1], k[2], k[3]>> /\ <<k[1], <<k[2], k[3]>>>> \in Bookings \X (Kinds \X Channels)
          BY DEF Keys
      <4> QED
          BY <4>1
    <3> QED
        BY <3>1, <3>2 DEF Surjection
  <2> HIDE DEF f
  <2> QED
      BY <2>1, <1>2, FS_Surjection
<1>4. Due \in SUBSET Keys
    BY DEF Due
<1>5. IsFiniteSet(Due) /\ Cardinality(Due) \in Nat
    BY <1>3, <1>4, FS_Subset, FS_CardinalityType
<1> QED
    BY <1>5, FS_EmptySet

LEMMA DrainAsideRecords ==
    ASSUME Records, NEW d \in Drains, NEW x \in DrainState, drain' = [drain EXCEPT ![d] = x],
           x.step # "idle" => x.batch # <<>>,
           \A i \in 1 .. Len(x.batch) : Listed(x.batch[i]),
           x.step = "mark" /\ x.outcome = "sent" => Head(x.batch) \in received',
           received \subseteq received', received' \subseteq Item,
           UNCHANGED <<bookings, rows, nextId, clock, hook, disturbed>>, faults' \in Nat
    PROVE  Records'
<1>1. \A item : Listed(item) => Listed(item)'
    BY DEF Listed
<1>2. /\ drain' \in [Drains -> DrainState] /\ DOMAIN drain' = Drains
      /\ \A q \in Drains : drain'[q].step # "idle" => drain'[q].batch # <<>>
      /\ Batches' /\ Delivered'
    BY <1>1, DrainMoves DEF Records
<1>3. Types'
    BY <1>2 DEF Records, Types, TypeOK, bookings, Item
<1>4. Ids' /\ SentMeansReceived'
    BY DEF Records, Ids, SentMeansReceived
<1> QED
    BY <1>2, <1>3, <1>4 DEF Records

LEMMA ListDueRecords == ASSUME Records, NEW d \in Drains, ListDue(d) PROVE Records'
<1> DEFINE n == IF Cardinality(Due) < Limit THEN Cardinality(Due) ELSE Limit
<1>1. n \in Nat /\ n > 0
    BY DueIsFinite, QueueAssumption DEF ListDue
<1>2. /\ UNCHANGED <<bookings, rows, nextId, clock, hook, history>>
      /\ \E batch \in [1 .. n -> Due] : drain' = [drain EXCEPT ![d] =
               [step |-> "send", outcome |-> "sent",
                batch |-> [i \in DOMAIN batch |-> [key |-> batch[i], id |-> rows[batch[i]].id]]]]
    BY DEF ListDue
<1> HIDE DEF n
<1>3. PICK batch \in [1 .. n -> Due] : drain' = [drain EXCEPT ![d] =
               [step |-> "send", outcome |-> "sent",
                batch |-> [i \in DOMAIN batch |-> [key |-> batch[i], id |-> rows[batch[i]].id]]]]
    BY <1>2
<1>4. PICK items : items = [i \in 1 .. n |-> [key |-> batch[i], id |-> rows[batch[i]].id]]
    OBVIOUS
<1>5. \A k \in Due : k \in Keys /\ Queued(k) /\ rows[k].id \in Nat
    BY DEF Due, Records, Types, TypeOK
<1>6. items \in [1 .. n -> Item]
    BY <1>4, <1>5 DEF Item
<1>7. items \in Seq(Item) /\ Len(items) = n /\ items # <<>>
    BY <1>1, <1>6, LenProperties, EmptySeq
<1>8. \A i \in 1 .. Len(items) : Listed(items[i])
  <2> SUFFICES ASSUME NEW i \in 1 .. n PROVE Listed(items[i])
      BY <1>7
  <2>1. PICK k \in Due : items[i] = [key |-> k, id |-> rows[k].id]
      BY <1>4
  <2>2. k \in Keys /\ rows[k].id # 0 /\ rows[k].id < nextId
      BY <2>1, <1>5 DEF Queued, Records, Ids
  <2>3. items[i].key = k /\ items[i].id = rows[k].id
      BY <2>1
  <2>4. \A j \in Keys : rows[j].id = rows[k].id => j = k
      BY <2>2 DEF Records, Ids
  <2> QED
      BY <2>2, <2>3, <2>4 DEF Listed
<1>9. PICK x \in DrainState : x = [step |-> "send", outcome |-> "sent", batch |-> items]
    BY <1>7 DEF DrainState
<1>10. drain' = [drain EXCEPT ![d] = x]
    BY <1>3, <1>4, <1>9
<1>11. x.step = "send" /\ x.batch = items
    BY <1>9
<1>12. received' = received /\ received \subseteq Item /\ faults' \in Nat /\ disturbed' = disturbed
    BY <1>2 DEF history, Records, Types, TypeOK, Item
<1> QED
    BY <1>2, <1>7, <1>8, <1>10, <1>11, <1>12, DrainAsideRecords

LEMMA SendRecords == ASSUME Records, NEW d \in Drains, Send(d) PROVE Records'
<1>1. /\ drain[d] \in DrainState /\ drain[d].batch \in Seq(Item) /\ drain[d].batch # <<>>
      /\ UNCHANGED <<bookings, rows, nextId, clock, hook, disturbed, faults>>
    BY DEF Send, Records, Types, DrainState
<1>2. PICK outcome \in {"sent", "failed", "skipped"}, arrived \in BOOLEAN :
        /\ outcome = "sent" => arrived
        /\ drain' = [drain EXCEPT ![d].step = "mark", ![d].outcome = outcome]
        /\ received' = IF arrived THEN received \cup {Head(drain[d].batch)} ELSE received
    BY DEF Send
<1>3. PICK x \in DrainState : x = [drain[d] EXCEPT !.step = "mark", !.outcome = outcome]
    BY <1>1 DEF DrainState
<1>4. drain' = [drain EXCEPT ![d] = x] /\ x.batch = drain[d].batch /\ x.outcome = outcome
    BY <1>1, <1>2, <1>3 DEF Records, Types, DrainState
<1>5. Head(drain[d].batch) \in Item
    BY <1>1, AfterHead
<1>6. received \subseteq received' /\ received' \subseteq Item /\ faults' \in Nat
    BY <1>1, <1>2, <1>5 DEF Records, Types, TypeOK, Item
<1>7. \A i \in 1 .. Len(x.batch) : Listed(x.batch[i])
    BY <1>4 DEF Records, Batches
<1>8. x.step = "mark" /\ x.outcome = "sent" => Head(x.batch) \in received'
    BY <1>2, <1>4
<1> QED
    BY <1>1, <1>4, <1>6, <1>7, <1>8, DrainAsideRecords

LEMMA DrainFailsRecords == ASSUME Records, NEW d \in Drains, DrainFails(d) PROVE Records'
<1>1. /\ drain' = [drain EXCEPT ![d] = Resting] /\ faults' \in Nat
      /\ UNCHANGED <<bookings, rows, nextId, clock, hook, received, disturbed>>
    BY DEF DrainFails, Records, Types, TypeOK
<1>2. PICK x \in DrainState : x = Resting /\ x.step = "idle" /\ x.batch = <<>> /\ Len(x.batch) = 0
    BY RestingIsADrain, EmptySeq
<1>3. received' = received /\ received \subseteq Item
    BY <1>1 DEF Records, Types, TypeOK, Item
<1>4. \A i \in 1 .. Len(x.batch) : Listed(x.batch[i])
    BY <1>2
<1>5. received \subseteq received' /\ received' \subseteq Item /\ drain' = [drain EXCEPT ![d] = x]
    BY <1>1, <1>2, <1>3
<1> QED
    BY <1>1, <1>2, <1>4, <1>5, DrainAsideRecords

\* A report settles the row its drain listed, if that row is still there, and no other.
LEMMA ReportReaches ==
    ASSUME Records, NEW d \in Drains, Report(d)
    PROVE  \E item \in Item :
             /\ item = Head(drain[d].batch) /\ Listed(item)
             /\ drain[d].outcome = "sent" => item \in received
             /\ DOMAIN rows' = Keys
             /\ \A k \in Keys :
                  \/ rows'[k] = rows[k]
                  \/ /\ k = item.key /\ rows[k].id = item.id
                     /\ rows'[k] = [rows[k] EXCEPT !.status = drain[d].outcome]
<1>1. drain[d].batch \in Seq(Item) /\ drain[d].batch # <<>> /\ drain[d].step = "mark"
    BY DEF Report, Records, Types, DrainState
<1>2. PICK item \in Item : item = Head(drain[d].batch) /\ item = drain[d].batch[1]
    BY <1>1, AfterHead
<1>3. 1 \in 1 .. Len(drain[d].batch)
    BY <1>1, AfterHead
<1>4. Listed(item)
    BY <1>2, <1>3 DEF Records, Batches
<1>5. drain[d].outcome = "sent" => item \in received
    BY <1>1, <1>2 DEF Records, Delivered
<1>6. rows' = [k \in Keys |-> IF rows[k].id = item.id
                              THEN [rows[k] EXCEPT !.status = drain[d].outcome] ELSE rows[k]]
    BY <1>2 DEF Report, Mark
<1> QED
    BY <1>2, <1>4, <1>5, <1>6 DEF Listed

LEMMA ReportRecords == ASSUME Records, NEW d \in Drains, Report(d) PROVE Records'
<1>1. PICK item \in Item :
        /\ item = Head(drain[d].batch) /\ Listed(item)
        /\ drain[d].outcome = "sent" => item \in received
        /\ DOMAIN rows' = Keys
        /\ \A k \in Keys :
             \/ rows'[k] = rows[k]
             \/ /\ k = item.key /\ rows[k].id = item.id
                /\ rows'[k] = [rows[k] EXCEPT !.status = drain[d].outcome]
    BY ReportReaches
<1>2. /\ drain[d] \in DrainState /\ drain[d].batch \in Seq(Item) /\ drain[d].batch # <<>>
      /\ drain[d].outcome \in {"sent", "failed", "skipped"}
      /\ UNCHANGED <<bookings, nextId, clock, hook, history>>
    BY DEF Report, Records, Types, DrainState
<1>3. /\ nextId \in Nat \ {0}
      /\ rows \in [Keys -> [id : Nat, status : {"absent", "queued", "sent", "failed", "skipped"},
                            due : Nat]]
    BY DEF Records, Types, TypeOK
<1>4. \A k \in Keys : /\ rows'[k] \in [id : Nat, status : {"absent", "queued", "sent", "failed", "skipped"},
                                       due : Nat]
                      /\ rows'[k].id = rows[k].id
                      /\ \/ rows'[k] = rows[k]
                         \/ /\ rows[k].id # 0 /\ k = item.key /\ rows[k].id = item.id
                            /\ rows'[k].status = drain[d].outcome
  <2> SUFFICES ASSUME NEW k \in Keys
               PROVE  /\ rows'[k] \in [id : Nat, due : Nat,
                              status : {"absent", "queued", "sent", "failed", "skipped"}]
                      /\ rows'[k].id = rows[k].id
                      /\ \/ rows'[k] = rows[k]
                         \/ /\ rows[k].id # 0 /\ k = item.key /\ rows[k].id = item.id
                            /\ rows'[k].status = drain[d].outcome
      OBVIOUS
  <2>1. rows[k] \in [id : Nat, status : {"absent", "queued", "sent", "failed", "skipped"}, due : Nat]
      BY <1>3
  <2>2. CASE rows'[k] = rows[k]
      BY <2>1, <2>2
  <2>3. CASE /\ k = item.key /\ rows[k].id = item.id
             /\ rows'[k] = [rows[k] EXCEPT !.status = drain[d].outcome]
    <3>1. item.id # 0
        BY <1>1 DEF Listed
    <3>2. PICK o \in {"sent", "failed", "skipped"} : o = drain[d].outcome
        BY <1>2
    <3>3. rows'[k] = [rows[k] EXCEPT !.status = o]
        BY <2>3, <3>2
    <3> QED
        BY <2>1, <2>3, <3>1, <3>2, <3>3
  <2> QED
      BY <2>2, <2>3, <1>1
<1>5. rows' \in [Keys -> [id : Nat, status : {"absent", "queued", "sent", "failed", "skipped"},
                          due : Nat]]
  <2>1. rows' = [k \in Keys |-> rows'[k]]
      BY DEF Report, Mark
  <2> QED
      BY <2>1, <1>4
<1>6. PICK x \in DrainState :
        /\ drain' = [drain EXCEPT ![d] = x] /\ x.step # "mark"
        /\ x.step # "idle" => x.batch # <<>>
        /\ x.batch = <<>> \/ x.batch = Tail(drain[d].batch)
  <2>1. PICK rest \in Seq(Item) : rest = Tail(drain[d].batch)
      BY <1>2, AfterHead
  <2>2. CASE rest = <<>>
      BY <2>1, <2>2, RestingIsADrain DEF Report
  <2>3. CASE rest # <<>>
    <3>1. PICK x \in DrainState : x = [step |-> "send", outcome |-> "sent", batch |-> rest]
        BY DEF DrainState
    <3> QED
        BY <3>1, <2>1, <2>3 DEF Report
  <2> QED
      BY <2>2, <2>3
<1>7. \A i \in Item : Listed(i) => Listed(i)'
    BY <1>2, <1>4 DEF Listed
<1>8. \A i \in 1 .. Len(x.batch) : Listed(x.batch[i])
  <2>1. CASE x.batch = <<>>
      BY <2>1, EmptySeq
  <2>2. CASE x.batch = Tail(drain[d].batch)
    <3> SUFFICES ASSUME NEW i \in 1 .. Len(Tail(drain[d].batch))
                 PROVE  Listed(Tail(drain[d].batch)[i])
        BY <2>2
    <3>1. i + 1 \in 1 .. Len(drain[d].batch) /\ Tail(drain[d].batch)[i] = drain[d].batch[i + 1]
        BY <1>2, AfterHead
    <3> QED
        BY <3>1 DEF Records, Batches
  <2> QED
      BY <2>1, <2>2, <1>6
<1>9. \A i \in 1 .. Len(x.batch) : Listed(x.batch[i])'
  <2>1. x.batch \in Seq(Item)
      BY DEF DrainState
  <2> QED
      BY <2>1, <1>7, <1>8, ElementOfSeq
<1>10. received' = received
    BY <1>2 DEF history
<1>11. /\ drain' \in [Drains -> DrainState] /\ DOMAIN drain' = Drains
       /\ \A q \in Drains : drain'[q].step # "idle" => drain'[q].batch # <<>>
       /\ Batches' /\ Delivered'
    BY <1>6, <1>7, <1>9, <1>10, DrainMoves DEF Records
<1>12. Types'
    BY <1>2, <1>5, <1>11 DEF Records, Types, TypeOK, bookings, history
<1>13. Ids'
  <2>1. \A k \in Keys : /\ rows'[k].id < nextId'
                        /\ rows'[k].status = "absent" <=> rows'[k] = NoRow
                        /\ rows'[k] = NoRow <=> rows'[k].id = 0
      BY <1>2, <1>4 DEF Records, Ids, NoRow
  <2>2. \A k1, k2 \in Keys : rows'[k1].id = rows'[k2].id => k1 = k2 \/ rows'[k1].id = 0
      BY <1>4 DEF Records, Ids
  <2> QED
      BY <2>1, <2>2 DEF Ids, NoRow
<1>14. SentMeansReceived'
  <2> SUFFICES ASSUME NEW k \in Keys, rows'[k].status = "sent"
               PROVE  [key |-> k, id |-> rows'[k].id] \in received
      BY <1>10 DEF SentMeansReceived
  <2>1. CASE rows'[k] = rows[k]
      BY <2>1 DEF Records, SentMeansReceived
  <2>2. CASE k = item.key /\ rows[k].id = item.id /\ rows'[k].status = drain[d].outcome
    <3>1. item \in received /\ item = [key |-> item.key, id |-> item.id]
        BY <2>2, <1>1 DEF Item
    <3> QED
        BY <3>1, <2>2, <1>4
  <2> QED
      BY <2>1, <2>2, <1>4
<1> QED
    BY <1>11, <1>12, <1>13, <1>14 DEF Records

LEMMA NextRecords == ASSUME Records, [Next]_vars PROVE Records'
<1>1. CASE UNCHANGED vars
  <2>1. Types'
      BY <1>1 DEF vars, bookings, history, Records, Types, TypeOK
  <2> QED
      BY <2>1, <1>1, RecordsAside DEF vars, bookings, history
<1>2. CASE Next
    BY <1>2, WriteRecords, DropRecords, ScheduleRecords, EnqueueRecords, HookFailsRecords,
       ListDueRecords, SendRecords, ReportRecords, DrainFailsRecords, TickRecords
       DEF Next, HookStep, DrainStep
<1> QED
    BY <1>1, <1>2

-----------------------------------------------------------------------------
(* The queue and the calendar.                                             *)

\* The three keys of a booking and a channel are three.
LEMMA KeysApart ==
    ASSUME NEW b \in Bookings, NEW ch \in Channels
    PROVE  /\ Confirmed(b, ch) \in Keys /\ Confirmed(b, ch)[1] = b
           /\ Notice(b, ch) \in Keys /\ Notice(b, ch)[1] = b
           /\ Reminder(b, ch) \in Keys /\ Reminder(b, ch)[1] = b
           /\ Confirmed(b, ch) # Notice(b, ch) /\ Confirmed(b, ch) # Reminder(b, ch)
           /\ Notice(b, ch) # Reminder(b, ch)
BY DEF Confirmed, Notice, Reminder, Keys, Kinds

\* The rows of b are those they were, save that some that were queued may be settled.
SameRows(b) ==
    \A k \in Keys : k[1] = b =>
        /\ rows'[k] = NoRow <=> rows[k] = NoRow
        /\ Queued(k)' => Queued(k) /\ rows'[k].due = rows[k].due

\* The hooks of b are those they were, where they were.
SameHooks(b) ==
    \A r \in Requests :
        \/ hook'[r] = hook[r]
        \/ /\ hook[r].step \notin {"drop", "read", "queue"} \/ hook[r].booking # b
           /\ hook'[r].step \notin {"drop", "read", "queue"} \/ hook'[r].booking # b

LEMMA AgreedAside ==
    ASSUME NEW b \in Bookings, NEW ch \in Channels, state'[b] = state[b], startsAt'[b] = startsAt[b],
           clock \in Nat, clock' \in Nat, clock <= clock', startsAt[b] \in Nat, Lead \in Nat, SameRows(b)
    PROVE  /\ NothingStale(b, ch) => NothingStale(b, ch)'
           /\ Agreed(b, ch) => Agreed(b, ch)'
<1> DEFINE c == Confirmed(b, ch)
           n == Notice(b, ch)
           m == Reminder(b, ch)
<1>1. c \in Keys /\ c[1] = b /\ n \in Keys /\ n[1] = b /\ m \in Keys /\ m[1] = b
    BY KeysApart
<1>2. c' = c /\ n' = n /\ m' = m
    BY DEF Confirmed, Notice, Reminder
<1> HIDE DEF c, n, m
<1>3. \A k \in {c, n, m} : /\ rows'[k] = NoRow <=> rows[k] = NoRow
                           /\ Queued(k)' => Queued(k) /\ rows'[k].due = rows[k].due
    BY <1>1 DEF SameRows
<1>4. NoRow' = NoRow
    BY DEF NoRow
<1>5. NothingStale(b, ch) => NothingStale(b, ch)'
    BY <1>2, <1>3 DEF NothingStale, c, n, m
<1>6. clock' < startsAt[b] - Lead => clock < startsAt[b] - Lead
    OBVIOUS
<1> QED
    BY <1>2, <1>3, <1>4, <1>5, <1>6 DEF Agreed, c, n, m

LEMMA PendingAside ==
    ASSUME NEW b \in Bookings, NEW r \in Requests, state'[b] = state[b], startsAt'[b] = startsAt[b],
           clock \in Nat, clock' \in Nat, clock <= clock', startsAt[b] \in Nat, Lead \in Nat, SameRows(b),
           hook'[r] = hook[r], Pending(r, b)
    PROVE  Pending(r, b)'
<1>1. (hook[r].event = "cancelled" <=> state[b] = "gone")'
    BY DEF Pending
<1>2. hook'[r].step = "read" => \A k \in Keys : k[1] = b => ~Queued(k)'
    BY DEF Pending, SameRows
<1>3. ASSUME hook[r].step = "queue" PROVE (\A ch \in Channels : NothingStale(b, ch))' /\ Inserting(r, b)'
  <2>1. (\A ch \in Channels : NothingStale(b, ch)) /\ Inserting(r, b)
      BY <1>3 DEF Pending
  <2>2. (\A ch \in Channels : NothingStale(b, ch))'
    <3> SUFFICES ASSUME NEW ch \in Channels PROVE NothingStale(b, ch)'
        OBVIOUS
    <3> QED
        BY <2>1, AgreedAside
  <2>3. (\A i \in 1 .. Len(hook[r].left), ch \in Channels :
            /\ hook[r].left[i].key = Reminder(b, ch) =>
                  state[b] = "live" /\ RemindersOn /\ hook[r].left[i].due = startsAt[b] - Lead
            /\ hook[r].left[i].key = Confirmed(b, ch) => state[b] = "live"
            /\ hook[r].left[i].key = Notice(b, ch) => state[b] = "gone")'
      BY <2>1 DEF Inserting, Reminder, Confirmed, Notice
  <2>5. (\A ch \in Channels :
        /\ state[b] = "gone" => rows[Notice(b, ch)] # NoRow \/ Awaits(r, Notice(b, ch))
        /\ state[b] = "live" =>
            /\ rows[Confirmed(b, ch)] # NoRow \/ Awaits(r, Confirmed(b, ch))
            /\ (RemindersOn /\ clock < startsAt[b] - Lead)
                   => rows[Reminder(b, ch)] # NoRow \/ Awaits(r, Reminder(b, ch)))'
    <3> SUFFICES ASSUME NEW ch \in Channels
                 PROVE  (/\ state[b] = "gone" => rows[Notice(b, ch)] # NoRow \/ Awaits(r, Notice(b, ch))
                         /\ state[b] = "live" =>
                             /\ rows[Confirmed(b, ch)] # NoRow \/ Awaits(r, Confirmed(b, ch))
                             /\ (RemindersOn /\ clock < startsAt[b] - Lead)
                                    => rows[Reminder(b, ch)] # NoRow \/ Awaits(r, Reminder(b, ch)))'
        OBVIOUS
    <3> DEFINE c == Confirmed(b, ch)
               n == Notice(b, ch)
               m == Reminder(b, ch)
    <3>1. c \in Keys /\ c[1] = b /\ n \in Keys /\ n[1] = b /\ m \in Keys /\ m[1] = b
        BY KeysApart
    <3>2. c' = c /\ n' = n /\ m' = m
        BY DEF Confirmed, Notice, Reminder
    <3> HIDE DEF c, n, m
    <3>3. \A k \in {c, n, m} : /\ rows'[k] = NoRow <=> rows[k] = NoRow
                               /\ (\E i \in 1 .. Len(hook[r].left) : hook[r].left[i].key = k)
                                  <=> \E i \in 1 .. Len(hook'[r].left) : hook'[r].left[i].key = k
        BY <3>1 DEF SameRows
    <3>4. clock' < startsAt[b] - Lead => clock < startsAt[b] - Lead
        OBVIOUS
    <3>5. NoRow' = NoRow
        BY DEF NoRow
    <3>6. /\ state[b] = "gone" => rows[n] # NoRow \/ Awaits(r, n)
          /\ state[b] = "live" =>
              /\ rows[c] # NoRow \/ Awaits(r, c)
              /\ (RemindersOn /\ clock < startsAt[b] - Lead) => rows[m] # NoRow \/ Awaits(r, m)
        BY <2>1 DEF Inserting, c, n, m
    <3>7. (/\ state[b] = "gone" => rows[n] # NoRow \/ Awaits(r, n)
           /\ state[b] = "live" =>
              /\ rows[c] # NoRow \/ Awaits(r, c)
              /\ (RemindersOn /\ clock < startsAt[b] - Lead) => rows[m] # NoRow \/ Awaits(r, m))'
        BY <3>2, <3>3, <3>4, <3>5, <3>6 DEF Awaits
    <3> QED
        BY <3>7 DEF c, n, m
  <2> QED
      BY <2>2, <2>3, <2>5 DEF Inserting
<1> QED
    BY <1>1, <1>2, <1>3 DEF Pending

LEMMA CalendarAside ==
    ASSUME NEW b \in Bookings, state'[b] = state[b], startsAt'[b] = startsAt[b],
           clock \in Nat, clock' \in Nat, clock <= clock', startsAt[b] \in Nat, Lead \in Nat,
           SameRows(b), SameHooks(b), CalendarOf(b)
    PROVE  CalendarOf(b)'
<1>1. InFlight(b)' = InFlight(b) /\ \A r \in InFlight(b) : r \in Requests /\ hook'[r] = hook[r]
    BY DEF InFlight, SameHooks
<1>2. (\A r1, r2 \in InFlight(b) : r1 = r2)'
    BY <1>1 DEF CalendarOf
<1>3. (state[b] = "none" => InFlight(b) = {} /\ \A k \in Keys : k[1] = b => rows[k] = NoRow)'
    BY <1>1 DEF CalendarOf, SameRows, NoRow
<1>4. (state[b] = "live" => \A ch \in Channels : rows[Notice(b, ch)] = NoRow)'
  <2> SUFFICES ASSUME state[b] = "live", NEW ch \in Channels PROVE rows'[Notice(b, ch)] = NoRow
      BY DEF Notice, NoRow
  <2> QED
      BY KeysApart DEF CalendarOf, SameRows
<1>5. (InFlight(b) = {} => \A ch \in Channels : Agreed(b, ch))'
  <2> SUFFICES ASSUME InFlight(b) = {}, NEW ch \in Channels PROVE Agreed(b, ch)'
      BY <1>1
  <2> QED
      BY AgreedAside DEF CalendarOf
<1>6. (\A r \in InFlight(b) : Pending(r, b))'
  <2> SUFFICES ASSUME NEW r \in InFlight(b) PROVE Pending(r, b)'
      BY <1>1
  <2> QED
      BY <1>1, PendingAside DEF CalendarOf
<1> QED
    BY <1>2, <1>3, <1>4, <1>5, <1>6 DEF CalendarOf

\* The drains and the clock leave every booking's part as it was.
LEMMA DrainKeepsCalendar ==
    ASSUME Inv, (\E d \in Drains : DrainStep(d) \/ DrainFails(d)) \/ Tick \/ UNCHANGED vars
    PROVE  Calendar'
<1>1. /\ UNCHANGED <<state, startsAt, hook, disturbed>>
      /\ clock \in Nat /\ clock' \in Nat /\ clock <= clock'
      /\ startsAt \in [Bookings -> Nat] /\ Lead \in Nat
  <2>1. clock \in Nat /\ startsAt \in [Bookings -> Nat] /\ Lead \in Nat
      BY QueueAssumption DEF Inv, Types, TypeOK
  <2>2. CASE \E d \in Drains : DrainStep(d) \/ DrainFails(d)
    <3>1. UNCHANGED <<state, startsAt, hook, disturbed, clock>>
        BY <2>2 DEF DrainStep, DrainFails, ListDue, Send, Report, bookings, history
    <3> QED
        BY <2>1, <3>1
  <2>3. CASE Tick
    <3>1. UNCHANGED <<state, startsAt, hook, disturbed>> /\ clock' = clock + 1
        BY <2>3 DEF Tick, bookings, history
    <3> QED
        BY <2>1, <3>1
  <2>4. CASE UNCHANGED vars
    <3>1. UNCHANGED <<state, startsAt, hook, disturbed, clock>>
        BY <2>4 DEF vars, bookings, history
    <3> QED
        BY <2>1, <3>1
  <2> QED
      BY <2>2, <2>3, <2>4
<1>2. ASSUME NEW b \in Bookings PROVE SameRows(b)
  <2>1. CASE rows' = rows
      BY <2>1 DEF SameRows, Queued
  <2>2. CASE rows' # rows
    <3>1. PICK d \in Drains : Report(d)
        BY <2>2 DEF DrainStep, DrainFails, ListDue, Send, Tick, vars
    <3>2. PICK item \in Item :
             /\ Listed(item)
             /\ \A k \in Keys :
                  \/ rows'[k] = rows[k]
                  \/ /\ k = item.key /\ rows[k].id = item.id
                     /\ rows'[k] = [rows[k] EXCEPT !.status = drain[d].outcome]
        BY <3>1, ReportReaches DEF Inv, Records
    <3>3. drain[d].outcome \in {"sent", "failed", "skipped"}
        BY DEF Inv, Types, DrainState
    <3>4. \A k \in Keys : rows[k] \in [id : Nat, due : Nat,
              status : {"absent", "queued", "sent", "failed", "skipped"}]
        BY DEF Inv, Types, TypeOK
    <3> SUFFICES ASSUME NEW k \in Keys
                 PROVE  /\ rows'[k] = NoRow <=> rows[k] = NoRow
                        /\ Queued(k)' => Queued(k) /\ rows'[k].due = rows[k].due
        BY DEF SameRows
    <3>5. CASE rows'[k] = rows[k]
        BY <3>5 DEF Queued
    <3>6. CASE /\ k = item.key /\ rows[k].id = item.id
               /\ rows'[k] = [rows[k] EXCEPT !.status = drain[d].outcome]
      <4>1. rows'[k].id # 0 /\ rows[k].id # 0 /\ rows'[k].status # "queued"
          BY <3>2, <3>3, <3>4, <3>6 DEF Listed
      <4> QED
          BY <4>1 DEF Queued, NoRow
    <3> QED
        BY <3>2, <3>5, <3>6
  <2> QED
      BY <2>1, <2>2
<1>3. ASSUME NEW b \in Bookings \ disturbed' PROVE CalendarOf(b)'
  <2>1. CalendarOf(b) /\ SameHooks(b)
      BY <1>1 DEF Inv, Calendar, SameHooks
  <2> QED
      BY <2>1, <1>1, <1>2, CalendarAside
<1> QED
    BY <1>3 DEF Calendar

InFlightStep == {"drop", "read", "queue"}

\* A step of the hook of one booking leaves the others as they were.
LEMMA OthersAside ==
    ASSUME Inv, NEW r \in Requests, NEW h \in HookState, NEW b0, NEW b \in Bookings \ disturbed, b # b0,
           hook' = [hook EXCEPT ![r] = h],
           hook[r].step \in InFlightStep => hook[r].booking = b0,
           h.step \in InFlightStep => h.booking = b0,
           state'[b] = state[b], startsAt'[b] = startsAt[b], clock' = clock,
           \A k \in Keys : k[1] = b => rows'[k] = rows[k]
    PROVE  CalendarOf(b)'
<1>1. SameHooks(b)
    BY DEF SameHooks, InFlightStep, Inv, Types
<1>2. SameRows(b)
    BY DEF SameRows, Queued, NoRow
<1>3. clock \in Nat /\ clock' \in Nat /\ clock <= clock' /\ startsAt[b] \in Nat /\ Lead \in Nat
  <2>1. clock \in Nat /\ startsAt \in [Bookings -> Nat] /\ Lead \in Nat
      BY QueueAssumption DEF Inv, Types, TypeOK
  <2> QED
      BY <2>1
<1>4. CalendarOf(b)
    BY DEF Inv, Calendar
<1> QED
    BY <1>1, <1>2, <1>3, <1>4, CalendarAside

\* A step of the only hook of a booking is judged by where that hook is afterwards.
LEMMA OwnHook ==
    ASSUME Inv, NEW r \in Requests, NEW h \in HookState, NEW b \in Bookings,
           hook' = [hook EXCEPT ![r] = h],
           InFlight(b) \subseteq {r},
           h.step \in InFlightStep => h.booking = b,
           state'[b] # "none",
           (state[b] = "live" => \A ch \in Channels : rows[Notice(b, ch)] = NoRow)',
           h.step \notin InFlightStep => (\A ch \in Channels : Agreed(b, ch))',
           h.step \in InFlightStep => Pending(r, b)'
    PROVE  CalendarOf(b)'
<1>1. InFlight(b)' = IF h.step \in InFlightStep THEN {r} ELSE {}
  <2>1. hook'[r] = h /\ \A q \in Requests : q # r => hook'[q] = hook[q]
      BY DEF Inv, Types
  <2>2. \A q \in Requests : q # r => q \notin InFlight(b)'
      BY <2>1 DEF InFlight
  <2>3. r \in InFlight(b)' <=> h.step \in InFlightStep
      BY <2>1 DEF InFlight, InFlightStep
  <2>4. InFlight(b)' \subseteq Requests
      BY DEF InFlight
  <2> QED
      BY <2>2, <2>3, <2>4
<1> QED
    BY <1>1 DEF CalendarOf

LEMMA WriteKeepsCalendar ==
    ASSUME Inv, NEW r \in Requests, CreateBooking(r) \/ RescheduleBooking(r) \/ CancelBooking(r)
    PROVE  Calendar'
<1>1. PICK b0 \in Bookings, event \in {"created", "moved", "cancelled"} :
        /\ Commit(r, event, b0)
        /\ \A b \in Bookings \ {b0} : state'[b] = state[b] /\ startsAt'[b] = startsAt[b]
        /\ \/ event = "created" /\ state[b0] = "none" /\ state'[b0] = "live"
           \/ event = "moved" /\ state[b0] # "none" /\ state'[b0] = state[b0]
           \/ event = "cancelled" /\ state[b0] # "none" /\ state'[b0] = "gone"
  <2>1. state \in [Bookings -> {"none", "live", "gone"}] /\ startsAt \in [Bookings -> Starts]
      BY DEF Inv, Types, TypeOK
  <2>2. CASE CreateBooking(r)
      BY <2>1, <2>2 DEF CreateBooking
  <2>3. CASE RescheduleBooking(r)
      BY <2>1, <2>3 DEF RescheduleBooking
  <2>4. CASE CancelBooking(r)
      BY <2>1, <2>4 DEF CancelBooking
  <2> QED
      BY <2>2, <2>3, <2>4
<1>2. PICK h \in HookState :
        /\ hook' = [hook EXCEPT ![r] = h]
        /\ h.step \in {"done", "read", "drop"}
        /\ h.step # "done" => h.event = event /\ h.booking = b0
        /\ h.step = "done" => Channels = {}
        /\ h.step = "read" => event = "created" /\ Channels # {}
    BY <1>1, CommitStarts DEF Inv
<1>3. /\ UNCHANGED <<rows, nextId, clock, drain, received, faults>> /\ hook[r].step = "new"
      /\ disturbed \subseteq disturbed'
      /\ b0 \notin disturbed' => InFlight(b0) = {} /\ state[b0] # "gone" /\ b0 \notin disturbed
    BY <1>1 DEF Commit
<1>4. ASSUME NEW b \in Bookings \ disturbed', b # b0 PROVE CalendarOf(b)'
  <2>1. hook[r].step \notin InFlightStep /\ (h.step \in InFlightStep => h.booking = b0)
      BY <1>2, <1>3 DEF InFlightStep
  <2>2. b \in Bookings \ disturbed
      BY <1>3
  <2> QED
      BY <2>1, <2>2, <1>1, <1>2, <1>3, <1>4, OthersAside
<1>5. ASSUME b0 \notin disturbed' PROVE CalendarOf(b0)'
  <2>1. InFlight(b0) = {} /\ state[b0] # "gone" /\ CalendarOf(b0)
      BY <1>3, <1>5 DEF Inv, Calendar
  <2>2. state[b0] \in {"none", "live"}
      BY <2>1 DEF Inv, Types, TypeOK
  <2>3. state'[b0] # "none" /\ (event = "cancelled" <=> state'[b0] = "gone")
      BY <1>1, <2>2
  <2>4. (state[b0] = "live" => \A ch \in Channels : rows[Notice(b0, ch)] = NoRow)'
    <3> SUFFICES ASSUME NEW ch \in Channels PROVE rows[Notice(b0, ch)] = NoRow
        BY <1>3 DEF Notice, NoRow
    <3> QED
        BY <2>1, <2>2, KeysApart DEF CalendarOf
  <2>5. h.step \notin InFlightStep => (\A ch \in Channels : Agreed(b0, ch))'
      BY <1>2 DEF InFlightStep
  <2>6. ASSUME h.step \in InFlightStep PROVE Pending(r, b0)'
    <3>1. hook'[r] = h /\ h.step # "queue" /\ h.event = event
        BY <2>6, <1>2 DEF InFlightStep, Inv, Types
    <3>2. ASSUME h.step = "read" PROVE \A k \in Keys : k[1] = b0 => ~Queued(k)'
      <4>1. state[b0] = "none"
          BY <3>2, <1>1, <1>2
      <4> QED
          BY <4>1, <2>1, <1>3 DEF CalendarOf, Queued, NoRow
    <3> QED
        BY <3>1, <3>2, <2>3 DEF Pending
  <2>7. InFlight(b0) \subseteq {r} /\ (h.step \in InFlightStep => h.booking = b0)
      BY <2>1, <1>2 DEF InFlightStep
  <2> QED
      BY <2>3, <2>4, <2>5, <2>6, <2>7, <1>2, OwnHook
<1> QED
    BY <1>4, <1>5 DEF Calendar

LEMMA HookFailsKeepsCalendar == ASSUME Inv, NEW r \in Requests, HookFails(r) PROVE Calendar'
<1>1. hook[r] \in HookState
    BY DEF Inv, Types
<1>2. PICK h \in HookState :
        hook' = [hook EXCEPT ![r] = h] /\ (h.step \in InFlightStep => h.booking = hook[r].booking)
  <2>1. /\ GoOnToSchedule(hook[r]) \in HookState
        /\ GoOnToSchedule(hook[r]).step \in {"done", "read"}
        /\ GoOnToSchedule(hook[r]).step = "read" =>
              GoOnToSchedule(hook[r]) = [hook[r] EXCEPT !.step = "read"]
      BY <1>1, GoOnIsAHook
  <2>2. GoOnToSchedule(hook[r]).step = "read" => GoOnToSchedule(hook[r]).booking = hook[r].booking
      BY <2>1, <1>1 DEF HookState
  <2>3. Done \in HookState /\ Done.step = "done"
      BY DoneIsAHook
  <2>4. \/ hook' = [hook EXCEPT ![r] = Done]
        \/ hook' = [hook EXCEPT ![r] = GoOnToSchedule(hook[r])]
      BY <1>1 DEF HookFails, Inv, Types
  <2> QED
      BY <2>1, <2>2, <2>3, <2>4 DEF InFlightStep
<1>3. /\ UNCHANGED <<bookings, rows, nextId, clock, drain, received>>
      /\ disturbed' = disturbed \cup {hook[r].booking}
    BY DEF HookFails
<1>4. ASSUME NEW b \in Bookings \ disturbed' PROVE CalendarOf(b)'
  <2>1. b \in Bookings \ disturbed /\ b # hook[r].booking
      BY <1>3
  <2> QED
      BY <2>1, <1>2, <1>3, OthersAside DEF bookings
<1> QED
    BY <1>4 DEF Calendar

LEMMA DropKeepsCalendar == ASSUME Inv, NEW r \in Requests, Drop(r) PROVE Calendar'
<1>1. PICK b0 \in Bookings : b0 = hook[r].booking
    BY DEF Inv, Types, HookState
<1>2. hook[r] \in HookState /\ hook[r].step = "drop"
    BY DEF Drop, Inv, Types
<1>3. PICK h \in HookState :
        /\ hook' = [hook EXCEPT ![r] = h]
        /\ h.step \in {"done", "read"} /\ (h.step = "done" => Channels = {})
        /\ h.step = "read" => h.event = hook[r].event /\ h.booking = b0
  <2>1. /\ GoOnToSchedule(hook[r]) \in HookState
        /\ GoOnToSchedule(hook[r]).step \in {"done", "read"}
        /\ GoOnToSchedule(hook[r]).step = "read" =>
              GoOnToSchedule(hook[r]) = [hook[r] EXCEPT !.step = "read"]
        /\ GoOnToSchedule(hook[r]).step = "done" => Channels = {}
      BY <1>2, GoOnIsAHook
  <2>2. GoOnToSchedule(hook[r]).step = "read" =>
            /\ GoOnToSchedule(hook[r]).event = hook[r].event
            /\ GoOnToSchedule(hook[r]).booking = b0
      BY <2>1, <1>1, <1>2 DEF HookState
  <2>3. hook' = [hook EXCEPT ![r] = GoOnToSchedule(hook[r])]
      BY DEF Drop, Inv, Types
  <2> QED
      BY <2>1, <2>2, <2>3
<1>4. /\ UNCHANGED <<bookings, nextId, clock, drain, history>>
      /\ rows' = [k \in Keys |-> IF k[1] = b0 /\ Queued(k) THEN NoRow ELSE rows[k]]
    BY <1>1 DEF Drop, DropPending
<1>5. ASSUME NEW b \in Bookings \ disturbed', b # b0 PROVE CalendarOf(b)'
  <2>1. \A k \in Keys : k[1] = b => rows'[k] = rows[k]
      BY <1>4, <1>5
  <2>2. b \in Bookings \ disturbed /\ (h.step \in InFlightStep => h.booking = b0)
      BY <1>3, <1>4 DEF history, InFlightStep
  <2>3. state'[b] = state[b] /\ startsAt'[b] = startsAt[b] /\ clock' = clock
      BY <1>4 DEF bookings
  <2> QED
      BY <2>1, <2>2, <2>3, <1>1, <1>3, <1>5, OthersAside
<1>6. ASSUME b0 \notin disturbed' PROVE CalendarOf(b0)'
  <2>1. CalendarOf(b0) /\ r \in InFlight(b0)
      BY <1>1, <1>2, <1>4, <1>6 DEF Inv, Calendar, history, InFlight
  <2>2. InFlight(b0) \subseteq {r} /\ Pending(r, b0) /\ state[b0] # "none"
      BY <2>1 DEF CalendarOf
  <2>3. (state[b0] = "live" => \A ch \in Channels : rows[Notice(b0, ch)] = NoRow)'
    <3> SUFFICES ASSUME state[b0] = "live", NEW ch \in Channels
                 PROVE  rows'[Notice(b0, ch)] = NoRow
        BY <1>4 DEF Notice, NoRow, bookings
    <3>1. Notice(b0, ch) \in Keys /\ rows[Notice(b0, ch)] = NoRow
        BY <2>1, KeysApart DEF CalendarOf
    <3> HIDE DEF Notice
    <3> QED
        BY <3>1, <1>4
  <2>4. h.step \notin InFlightStep => (\A ch \in Channels : Agreed(b0, ch))'
      BY <1>3 DEF InFlightStep
  <2>5. ASSUME h.step \in InFlightStep PROVE Pending(r, b0)'
    <3>1. hook'[r] = h /\ h.step = "read" /\ h.event = hook[r].event
        BY <2>5, <1>3 DEF InFlightStep, Inv, Types
    <3>2. \A k \in Keys : k[1] = b0 => ~Queued(k)'
        BY <1>4 DEF Queued, NoRow
    <3>3. hook[r].event = "cancelled" <=> state'[b0] = "gone"
        BY <2>2, <1>4 DEF Pending, bookings
    <3> QED
        BY <3>1, <3>2, <3>3 DEF Pending
  <2>6. state'[b0] # "none" /\ (h.step \in InFlightStep => h.booking = b0)
      BY <2>2, <1>3, <1>4 DEF bookings, InFlightStep
  <2> QED
      BY <2>2, <2>3, <2>4, <2>5, <2>6, <1>3, OwnHook
<1> QED
    BY <1>5, <1>6 DEF Calendar

\* What a hook is about to insert, just computed, is what the queue lacks.
LEMMA ScheduleKeepsCalendar == ASSUME Inv, NEW r \in Requests, Schedule(r) PROVE Calendar'
<1>1. PICK b0 \in Bookings : b0 = hook[r].booking
    BY DEF Inv, Types, HookState
<1>2. hook[r] \in HookState /\ hook[r].step = "read" /\ Channels # {}
    BY DEF Schedule, Inv, Types
<1>3. PICK event \in {"created", "moved", "cancelled"} : event = hook[r].event
    BY <1>2 DEF HookState
<1>4. PICK s : s = Scheduled(event, b0)
    OBVIOUS
<1>5. /\ s \in Seq(Order) /\ s # <<>>
      /\ \A i \in 1 .. Len(s) : \E ch \in Channels :
            \/ s[i].key = <<b0, Immediate(event), ch>>
            \/ /\ s[i].key = Reminder(b0, ch)
               /\ Reminds(event, b0) /\ s[i].due = startsAt[b0] - Lead
      /\ \A ch \in Channels :
            /\ \E i \in 1 .. Len(s) : s[i].key = <<b0, Immediate(event), ch>>
            /\ Reminds(event, b0) => \E i \in 1 .. Len(s) : s[i].key = Reminder(b0, ch)
    BY <1>2, <1>4, ScheduledFacts DEF Inv
<1>6. PICK h \in HookState : h = [hook[r] EXCEPT !.step = "queue", !.left = s]
    BY <1>2, <1>5 DEF HookState
<1>7. hook' = [hook EXCEPT ![r] = h] /\ h.step = "queue" /\ h.left = s /\ h.event = event /\ h.booking = b0
    BY <1>1, <1>2, <1>3, <1>4, <1>6 DEF Schedule, HookState, Inv, Types
<1>8. UNCHANGED <<bookings, rows, nextId, clock, drain, history>>
    BY DEF Schedule
<1>9. ASSUME NEW b \in Bookings \ disturbed', b # b0 PROVE CalendarOf(b)'
  <2>1. b \in Bookings \ disturbed
      BY <1>8 DEF history
  <2> QED
      BY <2>1, <1>1, <1>7, <1>8, <1>9, OthersAside DEF bookings
<1>10. ASSUME b0 \notin disturbed' PROVE CalendarOf(b0)'
  <2>1. CalendarOf(b0) /\ r \in InFlight(b0)
      BY <1>1, <1>2, <1>8, <1>10 DEF Inv, Calendar, history, InFlight
  <2>2. InFlight(b0) \subseteq {r} /\ Pending(r, b0) /\ state[b0] # "none"
      BY <2>1 DEF CalendarOf
  <2>3. (event = "cancelled" <=> state[b0] = "gone") /\ (event # "cancelled" <=> state[b0] = "live")
      BY <2>2, <1>3 DEF Pending, Inv, Types, TypeOK
  <2>4. \A k \in Keys : k[1] = b0 => ~Queued(k)
      BY <2>2, <1>2 DEF Pending
  <2>5. \A ch \in Channels : NothingStale(b0, ch)
      BY <2>4, KeysApart DEF NothingStale
  <2>6. hook'[r] = h
      BY <1>7 DEF Inv, Types
  <2>7. \A ch \in Channels : /\ event = "cancelled" => <<b0, Immediate(event), ch>> = Notice(b0, ch)
                             /\ event # "cancelled" => <<b0, Immediate(event), ch>> = Confirmed(b0, ch)
      BY DEF Immediate, Notice, Confirmed
  <2>8. Inserting(r, b0)'
    <3>1. \A i \in 1 .. Len(s), ch \in Channels :
            /\ s[i].key = Reminder(b0, ch) =>
                  state[b0] = "live" /\ RemindersOn /\ s[i].due = startsAt[b0] - Lead
            /\ s[i].key = Confirmed(b0, ch) => state[b0] = "live"
            /\ s[i].key = Notice(b0, ch) => state[b0] = "gone"
      <4> SUFFICES ASSUME NEW i \in 1 .. Len(s), NEW ch \in Channels
                   PROVE  /\ s[i].key = Reminder(b0, ch) =>
                              state[b0] = "live" /\ RemindersOn /\ s[i].due = startsAt[b0] - Lead
                          /\ s[i].key = Confirmed(b0, ch) => state[b0] = "live"
                          /\ s[i].key = Notice(b0, ch) => state[b0] = "gone"
          OBVIOUS
      <4>1. PICK c \in Channels :
              \/ s[i].key = <<b0, Immediate(event), c>>
              \/ /\ s[i].key = Reminder(b0, c)
                 /\ Reminds(event, b0) /\ s[i].due = startsAt[b0] - Lead
          BY <1>5
      <4>2. CASE s[i].key = <<b0, Immediate(event), c>>
          BY <4>2, <2>3 DEF Immediate, Reminder, Confirmed, Notice
      <4>3. CASE /\ s[i].key = Reminder(b0, c)
                 /\ Reminds(event, b0) /\ s[i].due = startsAt[b0] - Lead
          BY <4>3, <2>3 DEF Reminds, Reminder, Confirmed, Notice
      <4> QED
          BY <4>1, <4>2, <4>3
    <3>3. \A ch \in Channels :
            /\ state[b0] = "gone" => \E i \in 1 .. Len(s) : s[i].key = Notice(b0, ch)
            /\ state[b0] = "live" =>
                 /\ \E i \in 1 .. Len(s) : s[i].key = Confirmed(b0, ch)
                 /\ (RemindersOn /\ clock < startsAt[b0] - Lead) =>
                        \E i \in 1 .. Len(s) : s[i].key = Reminder(b0, ch)
      <4>1. clock \in Nat /\ startsAt[b0] \in Nat /\ Lead \in Nat
          BY QueueAssumption DEF Inv, Types, TypeOK
      <4>2. state[b0] = "live" /\ RemindersOn /\ clock < startsAt[b0] - Lead => Reminds(event, b0)
          BY <4>1, <2>3 DEF Reminds
      <4> QED
          BY <4>2, <1>5, <2>3, <2>7
    <3>4. /\ hook'[r].left = s /\ state' = state /\ startsAt' = startsAt /\ clock' = clock
        BY <2>6, <1>7, <1>8 DEF bookings
    <3>5. (\A i \in 1 .. Len(hook[r].left), ch \in Channels :
            /\ hook[r].left[i].key = Reminder(b0, ch) =>
                  state[b0] = "live" /\ RemindersOn /\ hook[r].left[i].due = startsAt[b0] - Lead
            /\ hook[r].left[i].key = Confirmed(b0, ch) => state[b0] = "live"
            /\ hook[r].left[i].key = Notice(b0, ch) => state[b0] = "gone")'
        BY <3>1, <3>4 DEF Reminder, Confirmed, Notice
    <3>7. (\A ch \in Channels :
            /\ state[b0] = "gone" => rows[Notice(b0, ch)] # NoRow \/ Awaits(r, Notice(b0, ch))
            /\ state[b0] = "live" =>
                /\ rows[Confirmed(b0, ch)] # NoRow \/ Awaits(r, Confirmed(b0, ch))
                /\ (RemindersOn /\ clock < startsAt[b0] - Lead)
                       => rows[Reminder(b0, ch)] # NoRow \/ Awaits(r, Reminder(b0, ch)))'
        BY <3>3, <3>4 DEF Awaits, Reminder, Confirmed, Notice
    <3> QED
        BY <3>5, <3>7 DEF Inserting
  <2>9. Pending(r, b0)'
    <3>1. (\A ch \in Channels : NothingStale(b0, ch))'
        BY <2>5, <1>8 DEF NothingStale, Queued, Reminder, Confirmed, bookings
    <3> QED
        BY <3>1, <2>3, <2>6, <2>8, <1>7, <1>8 DEF Pending, bookings
  <2>10. (state[b0] = "live" => \A ch \in Channels : rows[Notice(b0, ch)] = NoRow)'
      BY <2>1, <1>8 DEF CalendarOf, Notice, NoRow, bookings
  <2> QED
      BY <2>2, <2>9, <2>10, <1>7, <1>8, OwnHook DEF InFlightStep, bookings
<1> QED
    BY <1>9, <1>10 DEF Calendar

LEMMA EnqueueKeepsCalendar == ASSUME Inv, NEW r \in Requests, Enqueue(r) PROVE Calendar'
<1>1. PICK b0 \in Bookings : b0 = hook[r].booking
    BY DEF Inv, Types, HookState
<1>2. /\ hook[r] \in HookState /\ hook[r].step = "queue"
      /\ hook[r].left \in Seq(Order) /\ hook[r].left # <<>>
      /\ UNCHANGED <<bookings, clock, drain, history>>
    BY DEF Enqueue, Inv, Types, HookState
<1>3. PICK left : left = hook[r].left
    OBVIOUS
<1>4. PICK next \in Order, rest \in Seq(Order) :
        /\ next = Head(left) /\ next = left[1] /\ 1 \in 1 .. Len(left) /\ rest = Tail(left)
        /\ \A i \in 1 .. Len(rest) : i + 1 \in 1 .. Len(left) /\ rest[i] = left[i + 1]
        /\ \A i \in 1 .. Len(left) : i = 1 \/ (i - 1 \in 1 .. Len(rest) /\ rest[i - 1] = left[i])
  <2>1. left \in Seq(Order) /\ left # <<>>
      BY <1>2, <1>3
  <2>2. /\ Head(left) \in Order /\ Head(left) = left[1] /\ 1 \in 1 .. Len(left)
        /\ Tail(left) \in Seq(Order)
      BY <2>1, AfterHead
  <2>3. \A i \in 1 .. Len(Tail(left)) : i + 1 \in 1 .. Len(left) /\ Tail(left)[i] = left[i + 1]
      BY <2>1, AfterHead
  <2>4. \A i \in 1 .. Len(left) :
            i = 1 \/ (i - 1 \in 1 .. Len(Tail(left)) /\ Tail(left)[i - 1] = left[i])
      BY <2>1, AfterHead
  <2> QED
      BY <2>2, <2>3, <2>4
<1>5. next.key \in Keys /\ next.due \in Nat /\ nextId \in Nat \ {0} /\ DOMAIN rows = Keys
    BY <1>4 DEF Order, Inv, Types, TypeOK
<1>6. PICK h \in HookState :
        /\ hook' = [hook EXCEPT ![r] = h]
        /\ \/ h.step = "done" /\ rest = <<>>
           \/ /\ h.step = "queue" /\ h.left = rest
              /\ h.event = hook[r].event /\ h.booking = b0
  <2>1. CASE rest = <<>>
      BY <2>1, <1>3, <1>4, DoneIsAHook DEF Enqueue
  <2>2. CASE rest # <<>>
    <3>1. PICK h \in HookState : h = [hook[r] EXCEPT !.left = rest]
        BY <1>2, <1>4 DEF HookState
    <3>2. h.left = rest /\ h.step = "queue" /\ h.event = hook[r].event /\ h.booking = b0
        BY <3>1, <1>1, <1>2 DEF HookState
    <3>3. hook' = [hook EXCEPT ![r] = h]
        BY <3>1, <2>2, <1>3, <1>4 DEF Enqueue, Inv, Types
    <3> QED
        BY <3>2, <3>3
  <2> QED
      BY <2>1, <2>2
<1>7. /\ \A k \in Keys : k # next.key => rows'[k] = rows[k]
      /\ rows'[next.key] # NoRow
      /\ \/ rows'[next.key] = rows[next.key]
         \/ /\ rows[next.key] = NoRow
            /\ rows'[next.key] = [id |-> nextId, status |-> "queued", due |-> next.due]
    BY <1>3, <1>4, <1>5 DEF Enqueue, NoRow
<1>8. ASSUME NEW b \in Bookings \ disturbed', b # b0 PROVE CalendarOf(b)'
  <2>1. \A k \in Keys : k[1] = b => rows'[k] = rows[k]
    <3>1. next.key[1] = b0
        BY <1>1, <1>2, <1>3, <1>4 DEF Inv, OwnRows
    <3> QED
        BY <3>1, <1>7, <1>8
  <2>2. b \in Bookings \ disturbed /\ (h.step \in InFlightStep => h.booking = b0)
      BY <1>2, <1>6 DEF history, InFlightStep
  <2>3. state'[b] = state[b] /\ startsAt'[b] = startsAt[b] /\ clock' = clock
      BY <1>2 DEF bookings
  <2>4. hook[r].step \in InFlightStep => hook[r].booking = b0
      BY <1>1
  <2> QED
      BY <2>1, <2>2, <2>3, <2>4, <1>6, <1>8, OthersAside
<1>9. ASSUME b0 \notin disturbed' PROVE CalendarOf(b0)'
  <2>1. CalendarOf(b0) /\ r \in InFlight(b0)
      BY <1>1, <1>2, <1>9 DEF Inv, Calendar, history, InFlight
  <2>2. InFlight(b0) \subseteq {r} /\ Pending(r, b0) /\ state[b0] # "none"
      BY <2>1 DEF CalendarOf
  <2>3. (\A ch \in Channels : NothingStale(b0, ch)) /\ Inserting(r, b0)
      BY <2>2, <1>2 DEF Pending
  <2>4. /\ state' = state /\ startsAt' = startsAt /\ clock' = clock /\ NoRow' = NoRow
        /\ hook'[r] = h
      BY <1>2, <1>6 DEF bookings, NoRow, Inv, Types
  <2>5. \A i \in 1 .. Len(left), ch \in Channels :
            /\ left[i].key = Reminder(b0, ch) =>
                  state[b0] = "live" /\ RemindersOn /\ left[i].due = startsAt[b0] - Lead
            /\ left[i].key = Confirmed(b0, ch) => state[b0] = "live"
            /\ left[i].key = Notice(b0, ch) => state[b0] = "gone"
      BY <2>3, <1>3 DEF Inserting
  <2>6. /\ \A k \in Keys : rows[k] # NoRow => rows'[k] # NoRow
        /\ \A k \in Keys : Queued(k)' =>
              (Queued(k) /\ rows'[k].due = rows[k].due) \/ (k = next.key /\ rows'[k].due = next.due)
      BY <1>7 DEF Queued
  <2>7. \A ch \in Channels : NothingStale(b0, ch)'
    <3> SUFFICES ASSUME NEW ch \in Channels PROVE NothingStale(b0, ch)'
        OBVIOUS
    <3> DEFINE c == Confirmed(b0, ch)
               m == Reminder(b0, ch)
    <3>1. c \in Keys /\ m \in Keys /\ c' = c /\ m' = m
        BY KeysApart DEF Confirmed, Reminder
    <3>2. /\ next.key = m => state[b0] = "live" /\ RemindersOn /\ next.due = startsAt[b0] - Lead
          /\ next.key = c => state[b0] = "live"
        BY <2>5, <1>4
    <3> HIDE DEF c, m
    <3>3. /\ state[b0] = "live" /\ Queued(m) => RemindersOn /\ rows[m].due = startsAt[b0] - Lead
          /\ state[b0] = "gone" => ~Queued(c) /\ ~Queued(m)
        BY <2>3 DEF NothingStale, c, m
    <3>4. (/\ state[b0] = "live" /\ Queued(m) => RemindersOn /\ rows[m].due = startsAt[b0] - Lead
           /\ state[b0] = "gone" => ~Queued(c) /\ ~Queued(m))'
        BY <3>1, <3>2, <3>3, <2>4, <2>6
    <3> QED
        BY <3>4 DEF NothingStale, c, m
  <2>8. ASSUME NEW k \in Keys, rows[k] # NoRow \/ Awaits(r, k)
        PROVE  rows'[k] # NoRow \/ \E i \in 1 .. Len(rest) : rest[i].key = k
    <3>1. CASE rows[k] # NoRow
        BY <3>1, <2>6
    <3>2. CASE Awaits(r, k)
      <4>1. PICK i \in 1 .. Len(left) : left[i].key = k
          BY <3>2, <1>3 DEF Awaits
      <4>2. CASE i = 1
          BY <4>1, <4>2, <1>4, <1>7
      <4>3. CASE i # 1
          BY <4>1, <4>3, <1>4
      <4> QED
          BY <4>2, <4>3
    <3> QED
        BY <3>1, <3>2, <2>8
  <2>9. \A ch \in Channels :
          /\ Notice(b0, ch) \in Keys /\ Confirmed(b0, ch) \in Keys /\ Reminder(b0, ch) \in Keys
          /\ state[b0] = "gone" => rows[Notice(b0, ch)] # NoRow \/ Awaits(r, Notice(b0, ch))
          /\ state[b0] = "live" =>
               /\ rows[Confirmed(b0, ch)] # NoRow \/ Awaits(r, Confirmed(b0, ch))
               /\ (RemindersOn /\ clock < startsAt[b0] - Lead)
                      => rows[Reminder(b0, ch)] # NoRow \/ Awaits(r, Reminder(b0, ch))
      BY <2>3, KeysApart DEF Inserting
  <2>10. (state[b0] = "live" => \A ch \in Channels : rows[Notice(b0, ch)] = NoRow)'
    <3> SUFFICES ASSUME state[b0] = "live", NEW ch \in Channels PROVE rows'[Notice(b0, ch)] = NoRow
        BY <2>4 DEF Notice
    <3>1. Notice(b0, ch) \in Keys /\ rows[Notice(b0, ch)] = NoRow /\ next.key # Notice(b0, ch)
        BY <2>1, <2>5, <1>4, KeysApart DEF CalendarOf
    <3> QED
        BY <3>1, <1>7
  <2>11. ASSUME h.step \notin InFlightStep PROVE (\A ch \in Channels : Agreed(b0, ch))'
    <3> SUFFICES ASSUME NEW ch \in Channels PROVE Agreed(b0, ch)'
        OBVIOUS
    <3>1. Len(rest) = 0
        BY <2>11, <1>6, EmptySeq DEF InFlightStep
    <3>2. \A k \in Keys : rows[k] # NoRow \/ Awaits(r, k) => rows'[k] # NoRow
        BY <3>1, <2>8
    <3>3. /\ state[b0] = "gone" => rows'[Notice(b0, ch)] # NoRow
          /\ state[b0] = "live" =>
               /\ rows'[Confirmed(b0, ch)] # NoRow
               /\ (RemindersOn /\ clock < startsAt[b0] - Lead) => rows'[Reminder(b0, ch)] # NoRow
        BY <3>2, <2>9
    <3>4. NothingStale(b0, ch)'
        BY <2>7
    <3> QED
        BY <3>3, <3>4, <2>4 DEF Agreed, Notice, Confirmed, Reminder
  <2>12. ASSUME h.step \in InFlightStep PROVE Pending(r, b0)'
    <3>1. h.step = "queue" /\ h.left = rest /\ h.event = hook[r].event
        BY <2>12, <1>6 DEF InFlightStep
    <3>2. (\A i \in 1 .. Len(hook[r].left), ch \in Channels :
            /\ hook[r].left[i].key = Reminder(b0, ch) =>
                  state[b0] = "live" /\ RemindersOn /\ hook[r].left[i].due = startsAt[b0] - Lead
            /\ hook[r].left[i].key = Confirmed(b0, ch) => state[b0] = "live"
            /\ hook[r].left[i].key = Notice(b0, ch) => state[b0] = "gone")'
      <4>1. \A i \in 1 .. Len(rest), ch \in Channels :
              /\ rest[i].key = Reminder(b0, ch) =>
                    state[b0] = "live" /\ RemindersOn /\ rest[i].due = startsAt[b0] - Lead
              /\ rest[i].key = Confirmed(b0, ch) => state[b0] = "live"
              /\ rest[i].key = Notice(b0, ch) => state[b0] = "gone"
        <5> SUFFICES ASSUME NEW i \in 1 .. Len(rest), NEW ch \in Channels
                     PROVE  /\ rest[i].key = Reminder(b0, ch) =>
                                state[b0] = "live" /\ RemindersOn /\ rest[i].due = startsAt[b0] - Lead
                            /\ rest[i].key = Confirmed(b0, ch) => state[b0] = "live"
                            /\ rest[i].key = Notice(b0, ch) => state[b0] = "gone"
            OBVIOUS
        <5>1. PICK j \in 1 .. Len(left) : rest[i] = left[j]
            BY <1>4
        <5> QED
            BY <5>1, <2>5
      <4> QED
          BY <4>1, <3>1, <2>4 DEF Reminder, Confirmed, Notice
    <3>3. (\A ch \in Channels :
            /\ state[b0] = "gone" => rows[Notice(b0, ch)] # NoRow \/ Awaits(r, Notice(b0, ch))
            /\ state[b0] = "live" =>
                /\ rows[Confirmed(b0, ch)] # NoRow \/ Awaits(r, Confirmed(b0, ch))
                /\ (RemindersOn /\ clock < startsAt[b0] - Lead)
                       => rows[Reminder(b0, ch)] # NoRow \/ Awaits(r, Reminder(b0, ch)))'
      <4>1. \A k \in Keys : rows[k] # NoRow \/ Awaits(r, k) => (rows[k] # NoRow \/ Awaits(r, k))'
          BY <2>4, <2>8, <3>1 DEF Awaits
      <4> QED
          BY <4>1, <2>4, <2>9 DEF Reminder, Confirmed, Notice
    <3>4. Inserting(r, b0)'
        BY <3>2, <3>3 DEF Inserting
    <3> QED
        BY <3>1, <3>4, <2>2, <2>4, <2>7 DEF Pending
  <2>13. state'[b0] # "none" /\ (h.step \in InFlightStep => h.booking = b0)
      BY <2>2, <2>4, <1>6 DEF InFlightStep
  <2> QED
      BY <2>2, <2>10, <2>11, <2>12, <2>13, <1>6, OwnHook
<1> QED
    BY <1>8, <1>9 DEF Calendar

\* Only its own hook's rows are ever in a hook's hands.
LEMMA OwnRowsKept == ASSUME Inv, [Next]_vars PROVE OwnRows'
<1> SUFFICES ASSUME NEW q \in Requests, hook'[q].step = "queue", NEW i \in 1 .. Len(hook'[q].left)
             PROVE  hook'[q].left[i].key[1] = hook'[q].booking
    BY DEF OwnRows
<1>1. CASE hook'[q] = hook[q]
    BY <1>1 DEF Inv, OwnRows
<1>2. CASE hook'[q] # hook[q]
  <2>1. hook[q] \in HookState
      BY DEF Inv, Types
  <2>2. Schedule(q) \/ Enqueue(q)
    <3>1. ASSUME NEW r \in Requests, CreateBooking(r) \/ RescheduleBooking(r) \/ CancelBooking(r)
          PROVE  FALSE
      <4>1. PICK b \in Bookings, event \in {"created", "moved", "cancelled"} : Commit(r, event, b)
          BY <3>1 DEF CreateBooking, RescheduleBooking, CancelBooking
      <4>2. PICK h \in HookState : hook' = [hook EXCEPT ![r] = h] /\ h.step \in {"done", "read", "drop"}
          BY <4>1, CommitStarts DEF Inv
      <4> QED
          BY <4>2, <1>2 DEF Inv, Types
    <3>2. ASSUME NEW r \in Requests, Drop(r) \/ HookFails(r) PROVE FALSE
      <4>1. /\ hook[r] \in HookState
            /\ \/ hook' = [hook EXCEPT ![r] = Done]
               \/ hook' = [hook EXCEPT ![r] = GoOnToSchedule(hook[r])]
          BY <3>2 DEF Drop, HookFails, Inv, Types
      <4>2. Done.step = "done" /\ GoOnToSchedule(hook[r]).step \in {"done", "read"}
          BY <4>1, DoneIsAHook, GoOnIsAHook
      <4> QED
          BY <4>1, <4>2, <1>2 DEF Inv, Types
    <3>3. ASSUME NEW r \in Requests, Schedule(r) \/ Enqueue(r) PROVE r = q
        BY <3>3, <1>2 DEF Schedule, Enqueue, Inv, Types
    <3>4. ASSUME (\E d \in Drains : DrainStep(d) \/ DrainFails(d)) \/ Tick \/ UNCHANGED vars PROVE FALSE
        BY <3>4, <1>2 DEF DrainStep, DrainFails, ListDue, Send, Report, Tick, vars
    <3> QED
        BY <3>1, <3>2, <3>3, <3>4 DEF Next, HookStep
  <2>3. CASE Schedule(q)
    <3>1. PICK s : s = Scheduled(hook[q].event, hook[q].booking)
        OBVIOUS
    <3>2. hook'[q].left = s /\ hook'[q].booking = hook[q].booking
        BY <2>1, <2>3, <3>1 DEF Schedule, Inv, Types, HookState
    <3>3. hook[q].booking \in Bookings /\ hook[q].event \in {"created", "moved", "cancelled"} /\ Channels # {}
        BY <2>1, <2>3 DEF Schedule, HookState, Inv, Types
    <3>4. \A j \in 1 .. Len(s) : \E ch \in Channels :
             \/ s[j].key = <<hook[q].booking, Immediate(hook[q].event), ch>>
             \/ s[j].key = Reminder(hook[q].booking, ch)
        BY <3>1, <3>3, ScheduledFacts DEF Inv
    <3> QED
        BY <3>2, <3>4 DEF Reminder
  <2>4. CASE Enqueue(q)
    <3>1. hook[q].left \in Seq(Order) /\ hook[q].left # <<>> /\ hook[q].step = "queue"
        BY <2>1, <2>4 DEF Enqueue, HookState, Inv, Types
    <3>2. PICK rest : rest = Tail(hook[q].left)
        OBVIOUS
    <3>3. hook' = [hook EXCEPT ![q] = IF rest = <<>> THEN Done ELSE [hook[q] EXCEPT !.left = rest]]
        BY <2>4, <3>2 DEF Enqueue, Inv, Types
    <3>4. hook'[q].left = rest /\ hook'[q].booking = hook[q].booking
        BY <2>1, <3>3, DoneIsAHook DEF HookState, Inv, Types
    <3>5. i + 1 \in 1 .. Len(hook[q].left) /\ rest[i] = hook[q].left[i + 1]
        BY <3>1, <3>2, <3>4, AfterHead
    <3> QED
        BY <3>1, <3>4, <3>5 DEF Inv, OwnRows
  <2> QED
      BY <2>2, <2>3, <2>4
<1> QED
    BY <1>1, <1>2

LEMMA InitEstablishes == ASSUME Init PROVE Inv
<1>1. Records
    BY InitRecords
<1>2. hook = [r \in Requests |-> Idle] /\ Idle.step = "new"
    BY DEF Init, Idle
<1>3. OwnRows
    BY <1>2 DEF OwnRows
<1>4. ASSUME NEW b \in Bookings PROVE CalendarOf(b)
  <2>1. InFlight(b) = {} /\ state[b] = "none" /\ \A k \in Keys : rows[k] = NoRow
      BY <1>2 DEF Init, InFlight
  <2> QED
      BY <2>1 DEF CalendarOf, Agreed, NothingStale
<1> QED
    BY <1>1, <1>3, <1>4 DEF Inv, Records, Calendar

LEMMA NextKeeps == ASSUME Inv, [Next]_vars PROVE Inv'
<1>1. Records'
    BY NextRecords DEF Inv, Records
<1>2. Calendar'
    BY WriteKeepsCalendar, DropKeepsCalendar, ScheduleKeepsCalendar, EnqueueKeepsCalendar,
       HookFailsKeepsCalendar, DrainKeepsCalendar DEF Next, HookStep
<1> QED
    BY <1>1, <1>2, OwnRowsKept DEF Inv, Records

\* What is settled stays as it is through every step.
LEMMA SettledStays ==
    ASSUME Inv, [Next]_vars, NEW k \in Keys, Settled(k)
    PROVE  Settled(k)' /\ rows'[k].id = rows[k].id
<1>1. rows[k].status \in {"sent", "failed", "skipped"} /\ rows[k] # NoRow
    BY DEF Settled, NoRow
<1>2. CASE rows' = rows
    BY <1>2 DEF Settled
<1>3. ASSUME NEW r \in Requests, Drop(r) PROVE rows'[k] = rows[k]
    BY <1>1, <1>3 DEF Drop, DropPending, Queued
<1>4. ASSUME NEW r \in Requests, Enqueue(r) PROVE rows'[k] = rows[k]
  <2>1. rows[k] # NoRow /\ DOMAIN rows = Keys
      BY <1>1 DEF Inv, Types, TypeOK
  <2> QED
      BY <2>1, <1>4 DEF Enqueue
<1>5. ASSUME NEW d \in Drains, Report(d) PROVE Settled(k)' /\ rows'[k].id = rows[k].id
  <2>1. /\ drain[d].outcome \in {"sent", "failed", "skipped"}
        /\ rows[k] \in [id : Nat, status : {"absent", "queued", "sent", "failed", "skipped"}, due : Nat]
      BY DEF Inv, Types, TypeOK, DrainState
  <2>2. rows'[k] = rows[k] \/ rows'[k] = [rows[k] EXCEPT !.status = drain[d].outcome]
      BY <1>5, ReportReaches DEF Inv, Records
  <2> QED
      BY <2>1, <2>2 DEF Settled
<1>6. \/ rows' = rows \/ (\E r \in Requests : Drop(r) \/ Enqueue(r)) \/ \E d \in Drains : Report(d)
    BY DEF Next, HookStep, DrainStep, CreateBooking, RescheduleBooking, CancelBooking, Commit, Schedule,
           HookFails, ListDue, Send, DrainFails, Tick, vars
<1> QED
    BY <1>2, <1>3, <1>4, <1>5, <1>6 DEF Settled

-----------------------------------------------------------------------------
(* The theorems.                                                           *)

\* The invariant holds throughout, for any number of bookings, channels, racing
\* requests and drains (the statements of queue.ts and the order hooks.ts calls them in).
THEOREM QueueInvariant == Spec => []Inv
<1>1. Init => Inv
    BY InitEstablishes
<1>2. Inv /\ [Next]_vars => Inv'
    BY NextKeeps
<1> QED
    BY <1>1, <1>2, PTL DEF Spec

\* Every row, hook and drain keeps its type.
THEOREM QueueTypeCorrect == Spec => []TypeOK
<1>1. Inv => TypeOK
    BY DEF Inv, Types
<1> QED
    BY <1>1, QueueInvariant, PTL

\* A row marked sent was itself delivered, whatever was dropped and queued anew between
\* a drain's listing and its report (markSent by id).
THEOREM SentMeansReceivedHolds == Spec => []SentMeansReceived
<1>1. Inv => SentMeansReceived
    BY DEF Inv
<1> QED
    BY <1>1, QueueInvariant, PTL

\* Once its hooks have run one after the other and to the end, what is queued for a
\* booking is what the calendar says, whatever the drains do meanwhile (hooks.ts).
THEOREM QueueMatchesCalendarHolds == Spec => []QueueMatchesCalendar
<1>1. Inv => QueueMatchesCalendar
    BY DEF Inv, Calendar, CalendarOf, Agreed, NothingStale, Confirmed, Notice, Reminder,
           QueueMatchesCalendar
<1> QED
    BY <1>1, QueueInvariant, PTL

\* What was handled stays on the record and is never queued again (dropPendingForBooking
\* deletes the queued rows only, an insert finds the key taken, a report settles).
THEOREM HandledStaysHandledHolds == Spec => HandledStaysHandled
<1>1. Inv /\ [Next]_vars =>
        \A k \in Keys : Settled(k) => Settled(k)' /\ rows'[k].id = rows[k].id
    BY SettledStays
<1> QED
    BY <1>1, QueueInvariant, PTL DEF Spec, HandledStaysHandled
=============================================================================
