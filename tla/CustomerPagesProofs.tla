-------------------------- MODULE CustomerPagesProofs --------------------------
(***************************************************************************)
(* What holds of a customer's page for any services, days, taps, rivals    *)
(* and faults.                                                             *)
(*                                                                         *)
(* Everything rests on the order of the calls: the client sends one at a   *)
(* time, so only the oldest can have been answered (OnlyFirst), and what   *)
(* the server did with it is still true when the page hears of it.  Where  *)
(* says where the page can be, Out which calls its buttons have out.       *)
(***************************************************************************)
EXTENDS CustomerPages, SequenceTheorems, TLAPS

-----------------------------------------------------------------------------
(* Types.                                                                  *)

Steps == {"service", "time", "details", "done"}
Booking == [service : Services, day : Days]
AppointmentType == [status : {"none", "confirmed", "cancelled"}, day : Days]
CacheRec == [known : BOOLEAN, open : SUBSET Days, service : Services \cup {None}, epoch : Nat]
CallRec == [kind : {"load", "book", "move", "cancel"}, service : Services \cup {None},
            day : Days \cup {None}, month : Months \cup {None}, heard : BOOLEAN,
            answer : Answers, cache : CacheRec, status : {"none", "confirmed", "cancelled"}]
FlowType == [step : Steps, service : Services \cup {None}, submitting : BOOLEAN,
             confirmation : Booking \cup {None}]
ManageType == [status : {"none", "confirmed", "cancelled"}, day : Days, sheet : BOOLEAN,
               dialog : BOOLEAN, moving : BOOLEAN, cancelling : BOOLEAN]
PickerType == [mounted : BOOLEAN, month : Months, cache : [Months -> CacheRec],
               failed : SUBSET Months, pending : BOOLEAN, kind : Selections,
               day : Days \cup {None}]

Server ==
    /\ page \in {"book", "manage"}
    /\ taken \subseteq Days /\ mine \subseteq Booking
    /\ appointment \in AppointmentType
    /\ clock \in 0 .. MaxClock

Ui ==
    /\ slot \in Days \cup {None} /\ epoch \in Nat
    /\ flow \in FlowType /\ manage \in ManageType /\ picker \in PickerType

Typed == Server /\ Ui /\ calls \in Seq(CallRec)

-----------------------------------------------------------------------------
(* The invariant.                                                          *)

\* One call is at the server at a time, so only the oldest has an answer.
OnlyFirst == \A i \in 1 .. Len(calls) : calls[i].answer # "none" => i = 1

\* A button has one call out.
Single ==
    \A i, j \in 1 .. Len(calls) : calls[i].kind = calls[j].kind /\ calls[i].kind # "load" => i = j

\* What a call is for, and that the button it belongs to is pending.
Fits(c) ==
    /\ c.kind = "load" => c.month \in Months /\ c.service \in Services
    /\ c.kind = "book" => /\ page = "book" /\ flow.submitting
                          /\ c.service \in Services /\ c.day \in Days
    /\ c.kind = "move" => page = "manage" /\ manage.moving /\ c.day \in Days
    /\ c.kind = "cancel" => page = "manage" /\ manage.cancelling

Out == OnlyFirst /\ Single /\ \A i \in 1 .. Len(calls) : Fits(calls[i])

\* Where the page can be.
Where ==
    /\ flow.step = "time" \/ manage.sheet <=> picker.mounted
    /\ page = "book" => ~manage.sheet /\ ~manage.dialog /\ ~manage.moving /\ ~manage.cancelling
    /\ page = "manage" => flow.step = "service" /\ ~flow.submitting
    /\ flow.step \in {"time", "details"} => flow.service \in Services
    /\ flow.step = "details" => slot \in Days
    /\ flow.submitting => flow.step # "done" /\ flow.service \in Services

PagesInv == Typed /\ Where /\ Out

\* The service the calendar on screen is about.
Current == IF page = "book" THEN flow.service ELSE Managed

\* A load the calendar still listens for was asked for the service on screen, and once
\* answered holds what the server said in this epoch.
Loads ==
    \A i \in 1 .. Len(calls) : calls[i].kind = "load" /\ calls[i].heard =>
        /\ picker.mounted /\ calls[i].service = Current
        /\ calls[i].answer = "ok" => calls[i].cache.epoch = epoch /\ calls[i].cache.service = Current

\* No data is of an epoch to come.
Epochs ==
    /\ \A m \in Months : picker.cache[m].epoch <= epoch
    /\ \A i \in 1 .. Len(calls) : calls[i].cache.epoch <= epoch

\* A day is booked once.
Once ==
    /\ \A a, b \in mine : a.day = b.day => a = b
    /\ \A b \in mine : b.day \notin taken

\* What the server has answered to a submission is a booking of this page's.
Promised ==
    \A i \in 1 .. Len(calls) : calls[i].kind = "book" /\ calls[i].answer = "ok" =>
        [service |-> calls[i].service, day |-> calls[i].day] \in mine

Same == manage.status = appointment.status /\ manage.day = appointment.day

\* The manage page shows the appointment, or the answer that will make it so is next.
Synced ==
    page = "manage" /\ lost = {} /\ ~touched =>
        \/ Same
        \/ \E i \in 1 .. Len(calls) :
              /\ calls[i].answer = "ok" /\ calls[i].status = appointment.status
              /\ \/ calls[i].kind = "move" /\ calls[i].day = appointment.day
                 \/ calls[i].kind = "cancel" /\ manage.day = appointment.day

-----------------------------------------------------------------------------
(* Arithmetic of months, and of the sequence of calls.                     *)

\* Every day is in a month of the calendar.
LEMMA DaysHaveMonths ==
  ASSUME NEW d \in Days
  PROVE  MonthOf(d) \in Months
  <1>1. /\ LastDay \in Nat /\ DaysPerMonth \in Nat /\ DaysPerMonth > 0
        /\ d \in Nat /\ d <= LastDay
    BY PagesAssumption DEF Days
  <1>2. ASSUME NEW a \in Nat, NEW n \in Nat, n > 0
        PROVE  /\ a \div n \in Int
               /\ n * (a \div n) <= a /\ a < n * (a \div n) + n
    BY <1>2
  <1>3. \A q, r \in Int, n \in Nat : q > r => n * q >= n * r + n
    OBVIOUS
  <1>4. \A q \in Int, n \in Nat : q < 0 => n * q <= -n
    OBVIOUS
  <1>5. PICK p \in Int : p = d \div DaysPerMonth /\ DaysPerMonth * p <= d
                         /\ d < DaysPerMonth * p + DaysPerMonth
    BY <1>1, <1>2
  <1>6. PICK q \in Int : q = LastDay \div DaysPerMonth /\ DaysPerMonth * q <= LastDay
                         /\ LastDay < DaysPerMonth * q + DaysPerMonth
    BY <1>1, <1>2
  <1>7. ~(p > q)
    BY <1>1, <1>3, <1>5, <1>6
  <1>8. ~(p < 0)
    BY <1>1, <1>4, <1>5
  <1>9. QED
    BY <1>5, <1>6, <1>7, <1>8 DEF MonthOf, Months

\* A call is added at the end.
LEMMA AppendFacts ==
  ASSUME NEW S, NEW s \in Seq(S), NEW c \in S
  PROVE  /\ Append(s, c) \in Seq(S)
         /\ Len(s) \in Nat /\ Len(Append(s, c)) = Len(s) + 1
         /\ \A i \in 1 .. Len(Append(s, c)) :
               \/ i \in 1 .. Len(s) /\ Append(s, c)[i] = s[i]
               \/ i = Len(s) + 1 /\ Append(s, c)[i] = c
         /\ \A i \in 1 .. Len(s) : i \in 1 .. Len(Append(s, c)) /\ Append(s, c)[i] = s[i]
  OBVIOUS

\* The call that leaves is the first: the others move up.
LEMMA RemoveFacts ==
  ASSUME NEW S, NEW s \in Seq(S), 1 \in 1 .. Len(s)
  PROVE  /\ RemoveAt(s, 1) \in Seq(S)
         /\ Len(s) \in Nat /\ Len(RemoveAt(s, 1)) = Len(s) - 1
         /\ \A i \in 1 .. Len(RemoveAt(s, 1)) :
               i + 1 \in 1 .. Len(s) /\ RemoveAt(s, 1)[i] = s[i + 1]
  <1>1. RemoveAt(s, 1) = SubSeq(s, 1, 0) \o SubSeq(s, 2, Len(s))
    BY DEF RemoveAt
  <1>2. SubSeq(s, 1, 0) = <<>>
    OBVIOUS
  <1>3. RemoveAt(s, 1) = SubSeq(s, 2, Len(s))
    BY <1>1, <1>2
  <1>4. Len(s) \in Nat /\ Len(s) >= 1 /\ s # <<>>
    OBVIOUS
  <1>5. RemoveAt(s, 1) = Tail(s)
    BY <1>3, <1>4, TailIsSubSeq
  <1>6. /\ Tail(s) \in Seq(S) /\ Len(Tail(s)) = Len(s) - 1
        /\ \A i \in 1 .. Len(Tail(s)) : Tail(s)[i] = s[i + 1]
    BY <1>4, HeadTailProperties
  <1>7. \A i \in 1 .. Len(s) - 1 : i + 1 \in 1 .. Len(s)
    BY <1>4
  <1>8. QED
    BY <1>4, <1>5, <1>6, <1>7

\* A sequence of records with one field changed.
LEMMA MappedFacts ==
  ASSUME NEW S, NEW s \in Seq(S), NEW t, t = [i \in DOMAIN s |-> t[i]],
         \A i \in 1 .. Len(s) : t[i] \in S
  PROVE  t \in Seq(S) /\ Len(t) = Len(s)
  <1>1. Len(s) \in Nat /\ DOMAIN s = 1 .. Len(s)
    OBVIOUS
  <1>2. t \in [1 .. Len(s) -> S]
    BY <1>1
  <1>3. t \in Seq(S)
    BY <1>1, <1>2, SeqDef
  <1>4. QED
    BY <1>1, <1>2, <1>3

\* The calls after the picker has been unmounted.
LEMMA UnheardFacts ==
  ASSUME NEW s \in Seq(CallRec),
         NEW t, t = [i \in DOMAIN s |-> [s[i] EXCEPT !.heard = FALSE]]
  PROVE  /\ t \in Seq(CallRec) /\ Len(t) = Len(s)
         /\ \A i \in 1 .. Len(s) : t[i] = [s[i] EXCEPT !.heard = FALSE]
  <1>1. Len(s) \in Nat /\ DOMAIN s = 1 .. Len(s)
    OBVIOUS
  <1>2. \A i \in 1 .. Len(s) : t[i] = [s[i] EXCEPT !.heard = FALSE] /\ s[i] \in CallRec
    BY <1>1
  <1>3. ASSUME NEW i \in 1 .. Len(s) PROVE t[i] \in CallRec
    <2>1. s[i] \in CallRec /\ t[i] = [s[i] EXCEPT !.heard = FALSE]
      BY <1>2
    <2>2. \A c \in CallRec : [c EXCEPT !.heard = FALSE] \in CallRec
      BY DEF CallRec
    <2>3. QED
      BY <2>1, <2>2
  <1>4. t = [i \in DOMAIN s |-> t[i]]
    BY <1>1
  <1>5. QED
    BY <1>2, <1>3, <1>4, MappedFacts

-----------------------------------------------------------------------------
(* The values the code assigns have their types.                           *)

LEMMA NoPickerTyped == NoPicker \in PickerType /\ Absent \in CacheRec
  <1>1. LastDay \in Days /\ MonthOf(LastDay) \in Months
    BY PagesAssumption, DaysHaveMonths DEF Days
  <1>2. 0 \in Months
    BY <1>1 DEF Months
  <1>3. Absent \in CacheRec
    BY DEF Absent, CacheRec
  <1>4. NoCache \in [Months -> CacheRec]
    BY <1>3 DEF NoCache
  <1>5. QED
    BY <1>2, <1>3, <1>4 DEF NoPicker, PickerType, Selections

\* A calendar that is mounted, or reset in place, has no data.
LEMMA MountedTyped ==
  ASSUME Server, Ui
  PROVE  /\ Mounted \in PickerType /\ Mounted.mounted /\ Mounted.cache = NoCache
         /\ Reset(picker) \in PickerType /\ Reset(picker).mounted = picker.mounted
         /\ Reset(picker).cache = NoCache
  <1>1. NoPicker \in PickerType /\ NoPicker.cache = NoCache /\ NoCache \in [Months -> CacheRec]
    BY NoPickerTyped DEF NoPicker, NoCache
  <1>2. InitialDay \in Days \cup {None}
    BY DEF Ui, ManageType, InitialDay
  <1>3. InitialDay # None => MonthOf(InitialDay) \in Months
    BY <1>2, DaysHaveMonths
  <1>4. ASSUME NEW p \in PickerType
        PROVE  /\ InitialSelection(p) \in PickerType
               /\ InitialSelection(p).mounted = p.mounted /\ InitialSelection(p).cache = p.cache
    BY <1>2 DEF InitialSelection, PickerType, Selections
  <1>5. [NoPicker EXCEPT !.mounted = TRUE, !.month = IF InitialDay = None THEN 0 ELSE MonthOf(InitialDay)]
          \in PickerType
    BY <1>1, <1>3 DEF PickerType, NoPicker
  <1>6. Mounted \in PickerType /\ Mounted.mounted /\ Mounted.cache = NoCache
    BY <1>1, <1>4, <1>5 DEF Mounted, NoPicker
  <1>7. InitialSelection(picker) \in PickerType /\ InitialSelection(picker).mounted = picker.mounted
    BY <1>4 DEF Ui
  <1>8. QED
    BY <1>1, <1>6, <1>7 DEF Reset, PickerType

LEMMA CallTyped ==
  ASSUME NEW k \in {"load", "book", "move", "cancel"}, NEW s \in Services \cup {None},
         NEW d \in Days \cup {None}, NEW m \in Months \cup {None}
  PROVE  /\ Call(k, s, d, m) \in CallRec
         /\ Call(k, s, d, m).kind = k /\ Call(k, s, d, m).answer = "none"
         /\ Call(k, s, d, m).service = s /\ Call(k, s, d, m).day = d /\ Call(k, s, d, m).month = m
  BY NoPickerTyped DEF Call, CallRec, Answers

-----------------------------------------------------------------------------
(* What a step may do to the calls.                                        *)

\* d is the call c, further on.
From(d, c) == d.kind = c.kind /\ d.service = c.service /\ d.day = c.day /\ d.month = c.month

\* Every call was there before.
Continue ==
    /\ calls' \in Seq(CallRec)
    /\ OnlyFirst' /\ Single'
    /\ \A i \in 1 .. Len(calls') : \E j \in 1 .. Len(calls) : From(calls'[i], calls[j])

LEMMA SameContinue ==
  ASSUME Typed, Out, calls' = calls
  PROVE  Continue
  BY DEF Typed, Out, OnlyFirst, Single, Continue, From

LEMMA UnheardCalls ==
  ASSUME Typed, calls' = Unheard
  PROVE  /\ calls' \in Seq(CallRec) /\ Len(calls') = Len(calls)
         /\ \A i \in 1 .. Len(calls) : calls'[i] = [calls[i] EXCEPT !.heard = FALSE]
  BY UnheardFacts DEF Typed, Unheard

LEMMA UnheardContinue ==
  ASSUME Typed, Out, calls' = Unheard
  PROVE  Continue
  <1>1. /\ calls' \in Seq(CallRec) /\ Len(calls') = Len(calls)
        /\ \A i \in 1 .. Len(calls) : calls'[i] = [calls[i] EXCEPT !.heard = FALSE]
    BY UnheardCalls
  <1>2. \A i \in 1 .. Len(calls) : calls[i] \in CallRec
    BY DEF Typed
  <1>3. \A i \in 1 .. Len(calls) : From(calls'[i], calls[i]) /\ calls'[i].answer = calls[i].answer
    BY <1>1, <1>2 DEF From, CallRec
  <1>4. QED
    BY <1>1, <1>3 DEF Out, OnlyFirst, Single, Continue, From

\* The server executes a call: the first one, which had no answer.
LEMMA ExecuteContinues ==
  ASSUME Typed, Out, NEW i \in 1 .. Len(calls), Ready(i), NEW d \in CallRec, From(d, calls[i]),
         calls' = [calls EXCEPT ![i] = d]
  PROVE  Continue
  <1>1. i = 1
    BY DEF Ready
  <1>2. /\ calls' \in Seq(CallRec) /\ Len(calls') = Len(calls)
        /\ calls'[1] = d /\ \A j \in 1 .. Len(calls) : j # 1 => calls'[j] = calls[j]
    BY <1>1 DEF Typed
  <1>3. \A j \in 1 .. Len(calls) : From(calls'[j], calls[j])
    BY <1>1, <1>2 DEF From
  <1>4. QED
    BY <1>2, <1>3 DEF Out, OnlyFirst, Single, Continue, From

\* A call is answered and leaves: the first one.
LEMMA AnswerContinues ==
  ASSUME Typed, Out, NEW i \in 1 .. Len(calls), calls[i].answer # "none", calls' = Without(i)
  PROVE  /\ i = 1 /\ Continue
         /\ \A j \in 1 .. Len(calls') : /\ j + 1 \in 1 .. Len(calls)
                                        /\ From(calls'[j], calls[j + 1])
                                        /\ calls'[j].answer = "none"
                                        /\ calls'[j].cache = calls[j + 1].cache
                                        /\ calls'[j].heard => /\ calls[j + 1].heard
                                                              /\ picker.mounted => picker'.mounted
         /\ \A j \in 1 .. Len(calls') : calls'[j].kind # "load" => calls'[j].kind # calls[i].kind
  <1>1. i = 1
    BY DEF Out, OnlyFirst
  <1>2. PICK rest : rest = RemoveAt(calls, 1)
    OBVIOUS
  <1>3. /\ rest \in Seq(CallRec) /\ Len(calls) \in Nat /\ Len(rest) = Len(calls) - 1
        /\ \A j \in 1 .. Len(rest) : j + 1 \in 1 .. Len(calls) /\ rest[j] = calls[j + 1]
    BY <1>1, <1>2, RemoveFacts DEF Typed
  <1>4. /\ calls' \in Seq(CallRec) /\ Len(calls') = Len(rest)
        /\ \A j \in 1 .. Len(rest) :
              /\ From(calls'[j], rest[j]) /\ calls'[j].answer = rest[j].answer
              /\ calls'[j].cache = rest[j].cache
              /\ calls'[j].heard => rest[j].heard /\ (picker.mounted => picker'.mounted)
    <2>1. CASE picker.mounted /\ ~picker'.mounted
      <3>1. calls' = [j \in DOMAIN rest |-> [rest[j] EXCEPT !.heard = FALSE]]
        BY <1>1, <1>2, <2>1 DEF Without
      <3>2. /\ calls' \in Seq(CallRec) /\ Len(calls') = Len(rest)
            /\ \A j \in 1 .. Len(rest) : calls'[j] = [rest[j] EXCEPT !.heard = FALSE]
        <4>1. rest \in Seq(CallRec)
          BY <1>3
        <4>2. QED
          BY <4>1, <3>1, UnheardFacts, Zenon
      <3>3. \A j \in 1 .. Len(rest) : rest[j] \in CallRec
        BY <1>3
      <3>4. QED
        BY <3>2, <3>3 DEF From, CallRec
    <2>2. CASE ~(picker.mounted /\ ~picker'.mounted)
      <3>1. calls' = rest
        BY <1>1, <1>2, <2>2 DEF Without
      <3>2. QED
        BY <1>3, <2>2, <3>1 DEF From
    <2>3. QED
      BY <2>1, <2>2
  <1>5. ASSUME NEW j \in 1 .. Len(calls')
        PROVE  /\ j + 1 \in 1 .. Len(calls) /\ From(calls'[j], calls[j + 1])
               /\ calls'[j].answer = calls[j + 1].answer
               /\ calls'[j].cache = calls[j + 1].cache
               /\ calls'[j].heard => calls[j + 1].heard /\ (picker.mounted => picker'.mounted)
    BY <1>3, <1>4
  <1>6. ASSUME NEW j \in 1 .. Len(calls') PROVE j + 1 # 1
    BY <1>4
  <1>7. \A j \in 1 .. Len(calls') : calls'[j].answer = "none"
    BY <1>5, <1>6 DEF Out, OnlyFirst
  <1>8. \A j \in 1 .. Len(calls') : calls'[j].kind # "load" => calls'[j].kind # calls[i].kind
    BY <1>1, <1>5, <1>6 DEF Out, Single, From
  <1>9. Single'
    <2>1. SUFFICES ASSUME NEW j \in 1 .. Len(calls'), NEW k \in 1 .. Len(calls'),
                          calls'[j].kind = calls'[k].kind, calls'[j].kind # "load"
                   PROVE  j = k
      BY DEF Single
    <2>2. /\ j + 1 \in 1 .. Len(calls) /\ k + 1 \in 1 .. Len(calls)
          /\ calls[j + 1].kind = calls'[j].kind /\ calls[k + 1].kind = calls'[k].kind
      BY <1>5 DEF From
    <2>3. j + 1 = k + 1
      BY <2>1, <2>2 DEF Out, Single
    <2>4. j \in Int /\ k \in Int
      OBVIOUS
    <2>5. QED
      BY <2>3, <2>4
  <1>10. QED
    BY <1>1, <1>4, <1>5, <1>7, <1>8, <1>9 DEF Continue, OnlyFirst

\* A call is sent.
LEMMA SendFacts ==
  ASSUME Typed, Out, NEW c \in CallRec, c.answer = "none", calls' = Append(calls, c),
         c.kind # "load" => \A i \in 1 .. Len(calls) : calls[i].kind # c.kind
  PROVE  /\ calls' \in Seq(CallRec) /\ OnlyFirst' /\ Single'
         /\ Len(calls') = Len(calls) + 1 /\ Len(calls) \in Nat
         /\ \A i \in 1 .. Len(calls') : \/ i \in 1 .. Len(calls) /\ calls'[i] = calls[i]
                                        \/ i = Len(calls) + 1 /\ calls'[i] = c
         /\ \A i \in 1 .. Len(calls) : i \in 1 .. Len(calls') /\ calls'[i] = calls[i]
  <1>1. /\ calls' \in Seq(CallRec) /\ Len(calls') = Len(calls) + 1 /\ Len(calls) \in Nat
        /\ \A i \in 1 .. Len(calls') : \/ i \in 1 .. Len(calls) /\ calls'[i] = calls[i]
                                       \/ i = Len(calls) + 1 /\ calls'[i] = c
        /\ \A i \in 1 .. Len(calls) : i \in 1 .. Len(calls') /\ calls'[i] = calls[i]
    BY AppendFacts DEF Typed
  <1>2. OnlyFirst'
    BY <1>1 DEF Out, OnlyFirst
  <1>3. Single'
    BY <1>1 DEF Out, Single
  <1>4. QED
    BY <1>1, <1>2, <1>3

-----------------------------------------------------------------------------
(* Where the page can be, and which calls it has out: every step.          *)

LEMMA InitPages == Init => PagesInv
  <1> SUFFICES ASSUME Init PROVE PagesInv
    OBVIOUS
  <1>1. 0 \in 0 .. MaxClock /\ ManagedDay \in Days
    BY PagesAssumption
  <1>2. calls = <<>> /\ calls \in Seq(CallRec) /\ Len(calls) = 0
    BY DEF Init
  <1>3. Server
    BY <1>1 DEF Init, Server, AppointmentType
  <1>4. slot \in Days \cup {None} /\ epoch \in Nat
    BY DEF Init
  <1>5. flow \in FlowType
    BY DEF Init, FlowType, Steps
  <1>6. manage \in ManageType
    BY <1>1 DEF Init, ManageType
  <1>7. picker \in PickerType
    BY NoPickerTyped DEF Init
  <1>8. Out
    BY <1>2 DEF Out, OnlyFirst, Single
  <1>9. Where
    BY DEF Init, Where, NoPicker
  <1>10. QED
    BY <1>2, <1>3, <1>4, <1>5, <1>6, <1>7, <1>8, <1>9 DEF PagesInv, Typed, Ui

\* The calls that continue fit where the page is, if their buttons are still pending.
LEMMA OutContinues ==
  ASSUME Out, Continue, page' = page,
         \A i \in 1 .. Len(calls') :
            /\ calls'[i].kind = "book" /\ flow.submitting => flow'.submitting
            /\ calls'[i].kind = "move" /\ manage.moving => manage'.moving
            /\ calls'[i].kind = "cancel" /\ manage.cancelling => manage'.cancelling
  PROVE  Out'
  <1>1. ASSUME NEW i \in 1 .. Len(calls') PROVE Fits(calls[i])'
    <2>1. PICK j \in 1 .. Len(calls) : From(calls'[i], calls[j])
      BY DEF Continue
    <2>2. Fits(calls[j])
      BY DEF Out
    <2>3. QED
      BY <2>1, <2>2 DEF Fits, From
  <1>2. QED
    BY <1>1 DEF Out, Continue

\* A tap on the calendar, and its hunt, leave it mounted and everything else alone.
LEMMA PickerStep ==
  ASSUME PagesInv, picker' \in PickerType, picker'.mounted = picker.mounted,
         UNCHANGED <<page, server, slot, epoch, flow, manage, calls>>
  PROVE  PagesInv'
  <1>1. Continue
    BY SameContinue DEF PagesInv
  <1>2. Out'
    BY <1>1, OutContinues DEF PagesInv
  <1>3. Typed'
    BY DEF PagesInv, Typed, Server, Ui, server
  <1>4. Where'
    BY DEF PagesInv, Where
  <1>5. QED
    BY <1>2, <1>3, <1>4 DEF PagesInv

LEMMA CalendarTaps ==
  ASSUME PagesInv, NEW d \in Days, NEW step \in {-1, 1},
         SelectDay(d) \/ HuntFrom(d) \/ ChangeMonth(step) \/ JumpToHorizon \/ Retry \/ Hunt
  PROVE  PagesInv' /\ picker'.cache = picker.cache /\ picker'.mounted = picker.mounted
         /\ UNCHANGED <<page, server, slot, epoch, flow, manage, calls, seen, lost, touched>>
  <1>0. picker \in PickerType /\ LastDay \in Days
    BY PagesAssumption DEF PagesInv, Typed, Ui, Days
  <1>1. UNCHANGED <<page, server, slot, epoch, flow, manage, calls, seen, lost, touched>>
    BY DEF SelectDay, HuntFrom, ChangeMonth, JumpToHorizon, Retry, Hunt, PickerTap, Tap, history
  <1>2. MonthOf(LastDay) \in Months
    BY <1>0, DaysHaveMonths
  <1>3. CASE SelectDay(d) \/ HuntFrom(d) \/ Retry
    <2>1. picker' \in PickerType /\ picker'.cache = picker.cache /\ picker'.mounted = picker.mounted
      BY <1>0, <1>3 DEF SelectDay, HuntFrom, Retry, PickerType, Selections
    <2>2. QED
      BY <1>1, <2>1, PickerStep
  <1>4. CASE ChangeMonth(step) \/ JumpToHorizon
    <2>1. picker' \in PickerType /\ picker'.cache = picker.cache /\ picker'.mounted = picker.mounted
      BY <1>0, <1>2, <1>4 DEF ChangeMonth, JumpToHorizon, PickerType, Selections
    <2>2. QED
      BY <1>1, <2>1, PickerStep
  <1>5. CASE Hunt
    <2>1. picker.month + 1 \in Months
      BY <1>0, <1>2, <1>5 DEF Hunt, CanGoNext, PickerType, Months
    <2>2. picker' \in PickerType /\ picker'.cache = picker.cache /\ picker'.mounted = picker.mounted
      BY <1>0, <1>5, <2>1 DEF Hunt, PickerType, Selections
    <2>3. QED
      BY <1>1, <2>2, PickerStep
  <1>6. QED
    BY <1>3, <1>4, <1>5

\* A call is sent and its button becomes pending.
LEMMA SendStep ==
  ASSUME PagesInv, NEW c \in CallRec, c.answer = "none", calls' = Append(calls, c),
         c.kind # "load" => \A i \in 1 .. Len(calls) : calls[i].kind # c.kind,
         Fits(c)', page' = page, flow.submitting => flow'.submitting,
         manage.moving => manage'.moving, manage.cancelling => manage'.cancelling
  PROVE  Out' /\ calls' \in Seq(CallRec)
  <1>1. /\ calls' \in Seq(CallRec) /\ OnlyFirst' /\ Single'
        /\ \A i \in 1 .. Len(calls') : \/ i \in 1 .. Len(calls) /\ calls'[i] = calls[i]
                                       \/ calls'[i] = c
    BY SendFacts DEF PagesInv
  <1>2. ASSUME NEW i \in 1 .. Len(calls') PROVE Fits(calls[i])'
    <2>1. CASE i \in 1 .. Len(calls) /\ calls'[i] = calls[i]
      BY <2>1 DEF PagesInv, Out, Fits
    <2>2. CASE calls'[i] = c
      BY <2>2
    <2>3. QED
      BY <1>1, <2>1, <2>2
  <1>3. QED
    BY <1>1, <1>2 DEF Out

LEMMA FetchStep ==
  ASSUME PagesInv, FetchMonth
  PROVE  PagesInv'
  <1>1. picker \in PickerType /\ flow \in FlowType /\ Managed \in Services
    BY PagesAssumption DEF PagesInv, Typed, Ui
  <1>2. PICK s : s = IF page = "book" THEN flow.service ELSE Managed
    OBVIOUS
  <1>3. s \in Services /\ picker.month \in Months
    BY <1>1, <1>2 DEF FetchMonth, PagesInv, Where, PickerType
  <1>4. PICK c : c = Call("load", s, None, picker.month)
    OBVIOUS
  <1>5. /\ c \in CallRec /\ c.kind = "load" /\ c.answer = "none"
        /\ c.service = s /\ c.month = picker.month
    BY <1>3, <1>4, CallTyped
  <1>6. calls' = Append(calls, c) /\ UNCHANGED <<page, server, slot, epoch, flow, manage>>
    BY <1>2, <1>4 DEF FetchMonth
  <1>7. Fits(c)'
    BY <1>3, <1>5 DEF Fits
  <1>8. Out' /\ calls' \in Seq(CallRec)
    BY <1>5, <1>6, <1>7, SendStep
  <1>9. picker' \in PickerType /\ picker'.mounted = picker.mounted
    BY <1>1 DEF FetchMonth, PickerType
  <1>10. Typed'
    BY <1>6, <1>8, <1>9 DEF PagesInv, Typed, Server, Ui, server
  <1>11. Where'
    BY <1>6, <1>9 DEF PagesInv, Where
  <1>12. QED
    BY <1>8, <1>10, <1>11 DEF PagesInv

\* Taps that mount a calendar: no call changes.
LEMMA MountStep ==
  ASSUME PagesInv, NEW s \in Services, ChooseService(s) \/ BackToTime \/ OpenSheet
  PROVE  PagesInv' /\ picker' = Mounted /\ ~picker.mounted /\ calls' = calls
         /\ UNCHANGED <<page, server, epoch, seen, lost, touched>>
  <1>1. /\ picker' = Mounted /\ calls' = calls
        /\ UNCHANGED <<page, server, epoch, seen, lost, touched>>
    BY DEF ChooseService, BackToTime, OpenSheet, Tap
  <1>2. picker' \in PickerType /\ picker'.mounted
    BY <1>1, MountedTyped DEF PagesInv, Typed
  <1>3. Continue
    BY <1>1, SameContinue DEF PagesInv
  <1>4. /\ flow \in FlowType /\ manage \in ManageType /\ slot \in Days \cup {None} /\ Where
        /\ page \in {"book", "manage"}
    BY DEF PagesInv, Typed, Ui, Server
  <1>5. /\ flow' \in FlowType /\ manage' \in ManageType /\ slot' \in Days \cup {None}
        /\ flow'.submitting = flow.submitting /\ manage'.moving = manage.moving
        /\ manage'.cancelling = manage.cancelling
    BY <1>4 DEF ChooseService, BackToTime, OpenSheet, FlowType, ManageType, Steps
  <1>6. Out'
    BY <1>1, <1>3, <1>5, OutContinues DEF PagesInv
  <1>7. Typed'
    BY <1>1, <1>2, <1>3, <1>5 DEF PagesInv, Typed, Server, Ui, server, Continue
  <1>8. Where' /\ ~picker.mounted
    <2>1. CASE ChooseService(s)
      BY <1>1, <1>2, <1>4, <2>1 DEF ChooseService, ServiceStep, Where, FlowType
    <2>2. CASE BackToTime
      BY <1>1, <1>2, <1>4, <2>2 DEF BackToTime, DetailsStep, Where, FlowType
    <2>3. CASE OpenSheet
      BY <1>1, <1>2, <1>4, <2>3 DEF OpenSheet, MayChange, Where, ManageType
    <2>4. QED
      BY <2>1, <2>2, <2>3
  <1>9. QED
    BY <1>1, <1>6, <1>7, <1>8 DEF PagesInv

\* Taps that unmount it: it listens no more.
LEMMA UnmountStep ==
  ASSUME PagesInv, NEW d \in Days, ChooseSlot(d) \/ BackToService \/ CloseSheet
  PROVE  PagesInv' /\ picker' = NoPicker /\ calls' = Unheard
         /\ UNCHANGED <<page, server, epoch, seen, lost, touched>>
  <1>1. /\ picker' = NoPicker /\ calls' = Unheard
        /\ UNCHANGED <<page, server, epoch, seen, lost, touched>>
    BY DEF ChooseSlot, BackToService, CloseSheet, Tap
  <1>2. picker' \in PickerType /\ ~picker'.mounted
    BY <1>1, NoPickerTyped DEF NoPicker
  <1>3. Continue
    BY <1>1, UnheardContinue DEF PagesInv
  <1>4. /\ flow \in FlowType /\ manage \in ManageType /\ slot \in Days \cup {None} /\ Where
        /\ page \in {"book", "manage"}
    BY DEF PagesInv, Typed, Ui, Server
  <1>5. /\ flow' \in FlowType /\ manage' \in ManageType /\ slot' \in Days \cup {None}
        /\ flow'.submitting = flow.submitting /\ manage'.moving = manage.moving
        /\ manage'.cancelling = manage.cancelling
    BY <1>4 DEF ChooseSlot, BackToService, CloseSheet, FlowType, ManageType, Steps
  <1>6. Out'
    BY <1>1, <1>3, <1>5, OutContinues DEF PagesInv
  <1>7. Typed'
    BY <1>1, <1>2, <1>3, <1>5 DEF PagesInv, Typed, Server, Ui, server, Continue
  <1>8. Where'
    <2>1. CASE ChooseSlot(d)
      BY <1>1, <1>2, <1>4, <2>1 DEF ChooseSlot, MayPick, Where, FlowType
    <2>2. CASE BackToService
      BY <1>1, <1>2, <1>4, <2>2 DEF BackToService, Where, FlowType
    <2>3. CASE CloseSheet
      BY <1>1, <1>2, <1>4, <2>3 DEF CloseSheet, Where, ManageType
    <2>4. QED
      BY <2>1, <2>2, <2>3
  <1>9. QED
    BY <1>1, <1>6, <1>7, <1>8 DEF PagesInv

\* Taps that only open, close or start anew.
LEMMA QuietStep ==
  ASSUME PagesInv, NEW d \in Days, StartOver \/ ChangePendingSlot(d) \/ OpenDialog \/ CloseDialog
  PROVE  PagesInv' /\ UNCHANGED <<page, server, picker, calls, seen, lost, touched>>
         /\ epoch' \in Nat /\ epoch <= epoch' /\ (picker.mounted => epoch' = epoch /\ flow' = flow)
         /\ Same' = Same
  <1>1. UNCHANGED <<page, server, picker, calls, seen, lost, touched>>
    BY DEF StartOver, ChangePendingSlot, OpenDialog, CloseDialog, Tap
  <1>2. Continue
    BY <1>1, SameContinue DEF PagesInv
  <1>3. flow \in FlowType /\ manage \in ManageType /\ slot \in Days \cup {None} /\ Where /\ epoch \in Nat
    BY DEF PagesInv, Typed, Ui
  <1>4. /\ flow' \in FlowType /\ manage' \in ManageType /\ slot' \in Days \cup {None}
        /\ flow.submitting => flow'.submitting
        /\ manage'.moving = manage.moving /\ manage'.cancelling = manage.cancelling
        /\ manage'.status = manage.status /\ manage'.day = manage.day /\ manage'.sheet = manage.sheet
    <2>1. CASE StartOver
      BY <1>3, <2>1 DEF StartOver, FlowType, Steps, ConfirmationView, Where
    <2>2. CASE ChangePendingSlot(d)
      BY <1>3, <2>2 DEF ChangePendingSlot
    <2>3. CASE OpenDialog \/ CloseDialog
      BY <1>3, <2>3 DEF OpenDialog, CloseDialog, ManageType
    <2>4. QED
      BY <2>1, <2>2, <2>3
  <1>5. Out'
    BY <1>1, <1>2, <1>4, OutContinues DEF PagesInv
  <1>6. epoch' \in Nat /\ epoch <= epoch' /\ (picker.mounted => epoch' = epoch /\ flow' = flow)
    BY <1>3 DEF StartOver, ChangePendingSlot, OpenDialog, CloseDialog, ConfirmationView, Where
  <1>7. Typed'
    BY <1>1, <1>4, <1>6 DEF PagesInv, Typed, Server, Ui, server
  <1>8. Where'
    <2>1. CASE StartOver
      BY <1>1, <1>3, <2>1 DEF StartOver, ConfirmationView, Where
    <2>2. CASE ChangePendingSlot(d)
      BY <1>1, <1>3, <2>2 DEF ChangePendingSlot, Where
    <2>3. CASE OpenDialog
      BY <1>1, <1>3, <2>3 DEF OpenDialog, MayChange, Where, ManageType
    <2>4. CASE CloseDialog
      BY <1>1, <1>3, <2>4 DEF CloseDialog, Where, ManageType
    <2>5. QED
      BY <2>1, <2>2, <2>3, <2>4
  <1>9. QED
    BY <1>1, <1>4, <1>5, <1>6, <1>7, <1>8 DEF PagesInv, Same, server

\* Taps that send a call.
LEMMA SubmitStep ==
  ASSUME PagesInv, Submit \/ ConfirmMove \/ ConfirmCancel
  PROVE  /\ PagesInv' /\ UNCHANGED <<page, server, epoch, picker, seen, lost, touched>>
         /\ Same' = Same
         /\ flow'.service = flow.service /\ flow'.step = flow.step
         /\ flow'.confirmation = flow.confirmation
         /\ \E c \in CallRec : c.kind # "load" /\ c.answer = "none" /\ c.cache = Absent
                              /\ calls' = Append(calls, c)
  <1>1. UNCHANGED <<page, server, slot, epoch, picker, seen, lost, touched>>
    BY DEF Submit, ConfirmMove, ConfirmCancel, Tap
  <1>2. flow \in FlowType /\ manage \in ManageType /\ slot \in Days \cup {None} /\ Where /\ Out
    BY DEF PagesInv, Typed, Ui
  <1>3. /\ flow' \in FlowType /\ manage' \in ManageType
        /\ flow.submitting => flow'.submitting
        /\ manage.moving => manage'.moving
        /\ manage.cancelling => manage'.cancelling
        /\ manage'.status = manage.status /\ manage'.day = manage.day /\ manage'.sheet = manage.sheet
        /\ flow'.service = flow.service /\ flow'.step = flow.step
        /\ flow'.confirmation = flow.confirmation
    BY <1>2 DEF Submit, ConfirmMove, ConfirmCancel, FlowType, ManageType, Steps
  <1>4. PICK c \in CallRec :
          /\ c.kind # "load" /\ c.answer = "none" /\ c.cache = Absent /\ calls' = Append(calls, c)
          /\ Fits(c)' /\ \A i \in 1 .. Len(calls) : calls[i].kind # c.kind
    <2>1. CASE Submit
      <3>1. PICK c : c = Call("book", flow.service, slot, None)
        OBVIOUS
      <3>2. flow.service \in Services /\ slot \in Days /\ flow'.submitting /\ page' = "book"
        BY <1>1, <1>2, <2>1 DEF Submit, DetailsStep, Where, FlowType
      <3>3. /\ c \in CallRec /\ c.kind = "book" /\ c.answer = "none"
            /\ c.service = flow.service /\ c.day = slot
        BY <3>1, <3>2, CallTyped
      <3>4. c.cache = Absent
        BY <3>1 DEF Call
      <3>5. \A i \in 1 .. Len(calls) : calls[i].kind # "book"
        BY <1>2, <2>1 DEF Submit, Out, Fits
      <3>6. QED
        BY <2>1, <3>1, <3>2, <3>3, <3>4, <3>5 DEF Submit, Fits
    <2>2. CASE ConfirmMove
      <3>1. PICK c : c = Call("move", Managed, slot, None)
        OBVIOUS
      <3>2. Managed \in Services /\ slot \in Days /\ manage'.moving /\ page' = "manage"
        BY <1>1, <1>2, <2>2, PagesAssumption DEF ConfirmMove, Where, ManageType, PagesInv, Typed, Server
      <3>3. c \in CallRec /\ c.kind = "move" /\ c.answer = "none" /\ c.day = slot
        BY <3>1, <3>2, CallTyped
      <3>4. c.cache = Absent
        BY <3>1 DEF Call
      <3>5. \A i \in 1 .. Len(calls) : calls[i].kind # "move"
        BY <1>2, <2>2 DEF ConfirmMove, Out, Fits
      <3>6. QED
        BY <2>2, <3>1, <3>2, <3>3, <3>4, <3>5 DEF ConfirmMove, Fits
    <2>3. CASE ConfirmCancel
      <3>1. PICK c : c = Call("cancel", Managed, None, None)
        OBVIOUS
      <3>2. Managed \in Services /\ manage'.cancelling /\ page' = "manage"
        BY <1>1, <1>2, <2>3, PagesAssumption DEF ConfirmCancel, Where, ManageType, PagesInv, Typed, Server
      <3>3. c \in CallRec /\ c.kind = "cancel" /\ c.answer = "none"
        BY <3>1, <3>2, CallTyped
      <3>4. c.cache = Absent
        BY <3>1 DEF Call
      <3>5. \A i \in 1 .. Len(calls) : calls[i].kind # "cancel"
        BY <1>2, <2>3 DEF ConfirmCancel, Out, Fits
      <3>6. QED
        BY <2>3, <3>1, <3>2, <3>3, <3>4, <3>5 DEF ConfirmCancel, Fits
    <2>4. QED
      BY <2>1, <2>2, <2>3
  <1>5. Out' /\ calls' \in Seq(CallRec)
    BY <1>1, <1>3, <1>4, SendStep
  <1>6. Typed'
    BY <1>1, <1>3, <1>5 DEF PagesInv, Typed, Server, Ui, server
  <1>7. Where'
    BY <1>1, <1>2, <1>3, <1>4 DEF Submit, ConfirmMove, ConfirmCancel, DetailsStep, Where
  <1>8. QED
    BY <1>1, <1>3, <1>4, <1>5, <1>6, <1>7 DEF PagesInv, Same, server

\* What the server has done to the call c by the time it is d.
Serves(c, d) ==
    /\ From(d, c) /\ d.heard = c.heard
    /\ \/ /\ c.kind = "load" /\ d.answer = "ok"
          /\ d.cache.epoch = epoch /\ d.cache.service = c.service
          /\ UNCHANGED <<mine, appointment>>
       \/ /\ c.kind = "book" /\ d.answer = "ok" /\ d.cache = Absent
          /\ c.day \notin Busy /\ mine' = mine \cup {[service |-> c.service, day |-> c.day]}
          /\ UNCHANGED appointment
       \/ /\ c.kind = "move" /\ d.answer = "ok" /\ d.cache = Absent
          /\ appointment' = [appointment EXCEPT !.day = c.day] /\ d.status = appointment.status
          /\ UNCHANGED mine
       \/ /\ c.kind = "cancel" /\ d.answer = "ok" /\ d.cache = Absent
          /\ appointment' = [appointment EXCEPT !.status = "cancelled"] /\ d.status = "cancelled"
          /\ UNCHANGED mine
       \/ d.answer # "ok" /\ d.cache = Absent /\ UNCHANGED <<mine, appointment>>

\* Executed replaces the call by one with an answer.
LEMMA ExecutedFacts ==
  ASSUME PagesInv, NEW i \in 1 .. Len(calls), NEW answer \in Answers, Executed(i, answer),
         appointment' \in AppointmentType
  PROVE  \E d \in CallRec : /\ calls' = [calls EXCEPT ![i] = d]
                            /\ From(d, calls[i]) /\ d.heard = calls[i].heard
                            /\ d.answer = answer /\ d.status = appointment'.status
                            /\ d.cache = Absent
  <1>1. PICK d : d = [calls[i] EXCEPT !.answer = answer, !.status = appointment'.status, !.cache = Absent]
    OBVIOUS
  <1>2. calls \in Seq(CallRec) /\ calls[i] \in CallRec
    BY DEF PagesInv, Typed
  <1>3. d \in CallRec
    BY <1>1, <1>2, NoPickerTyped DEF CallRec, AppointmentType
  <1>4. calls' = [calls EXCEPT ![i] = d]
    BY <1>1, <1>2 DEF Executed
  <1>5. QED
    BY <1>1, <1>2, <1>3, <1>4 DEF From, CallRec

LEMMA ExecuteEffect ==
  ASSUME PagesInv, Execute
  PROVE  /\ 1 \in 1 .. Len(calls) /\ calls[1].answer = "none" /\ Server'
         /\ UNCHANGED <<page, ui, taken, clock, seen, lost, touched>>
         /\ \E d \in CallRec : calls' = [calls EXCEPT ![1] = d] /\ Serves(calls[1], d)
  <1>0. calls \in Seq(CallRec) /\ DOMAIN calls = 1 .. Len(calls) /\ Server /\ Ui /\ Out
    BY DEF PagesInv, Typed
  <1>1. PICK i \in 1 .. Len(calls) :
          /\ Ready(i) /\ calls[i].answer = "none"
          /\ Load(i) \/ Book(i) \/ Move(i) \/ Cancel(i) \/ Refuse(i)
          /\ UNCHANGED <<page, ui, seen, lost, touched>>
    BY <1>0 DEF Execute
  <1>2. i = 1 /\ calls[1] \in CallRec /\ Fits(calls[1])
    BY <1>0, <1>1 DEF Ready, Out
  <1>3. UNCHANGED <<taken, clock>>
    BY <1>1 DEF Load, Book, Move, Cancel, Refuse, server
  <1>4. \A s \in Services : Offered(s) \subseteq Days \ Busy
    BY PagesAssumption DEF Offered
  <1>5. Managed \in Services
    BY PagesAssumption
  <1>6. {"ok", "taken", "too_late", "refused"} \subseteq Answers
    BY DEF Answers
  <1>7. CASE Load(i)
    <2>1. PICK e : e = [known |-> TRUE, service |-> calls[1].service, epoch |-> epoch,
                        open |-> {d \in Offered(calls[1].service) : MonthOf(d) = calls[1].month}]
      OBVIOUS
    <2>2. calls[1].service \in Services /\ calls[1].kind = "load"
      BY <1>2, <1>7 DEF Load, Fits
    <2>3. e \in CacheRec
      BY <1>0, <1>4, <2>1, <2>2 DEF CacheRec, Ui
    <2>4. PICK d : d = [calls[1] EXCEPT !.answer = "ok", !.cache = e]
      OBVIOUS
    <2>5. d \in CallRec /\ From(d, calls[1]) /\ d.heard = calls[1].heard /\ d.answer = "ok" /\ d.cache = e
      BY <1>2, <1>6, <2>3, <2>4 DEF CallRec, From
    <2>6. calls' = [calls EXCEPT ![1] = d]
      BY <1>0, <1>1, <1>2, <1>7, <2>1, <2>4 DEF Load
    <2>7. UNCHANGED server
      BY <1>7 DEF Load
    <2>8. Server'
      BY <1>0, <1>1, <2>7 DEF Server, server
    <2>9. Serves(calls[1], d)
      BY <2>1, <2>2, <2>5, <2>7 DEF Serves, server
    <2>10. QED
      BY <1>1, <1>2, <1>3, <2>5, <2>6, <2>8, <2>9
  <1>8. CASE Book(i)
    <2>1. /\ calls[1].kind = "book" /\ calls[1].service \in Services /\ calls[1].day \in Days
          /\ appointment' = appointment
      BY <1>2, <1>8 DEF Book, Fits
    <2>2. CASE calls[1].day \in Offered(calls[1].service)
      <3>1. /\ mine' = mine \cup {[service |-> calls[1].service, day |-> calls[1].day]}
            /\ Executed(1, "ok") /\ calls[1].day \notin Busy
        BY <1>2, <1>4, <1>8, <2>1, <2>2 DEF Book
      <3>2. Server'
        BY <1>0, <1>1, <1>3, <2>1, <3>1 DEF Server, Booking
      <3>3. PICK d \in CallRec : /\ calls' = [calls EXCEPT ![1] = d] /\ From(d, calls[1])
                                 /\ d.heard = calls[1].heard /\ d.answer = "ok" /\ d.cache = Absent
        BY <1>1, <1>2, <1>6, <3>1, <3>2, ExecutedFacts DEF Server
      <3>4. Serves(calls[1], d)
        BY <2>1, <3>1, <3>3 DEF Serves
      <3>5. QED
        BY <1>1, <1>2, <1>3, <3>2, <3>3, <3>4
    <2>3. CASE calls[1].day \notin Offered(calls[1].service)
      <3>1. mine' = mine /\ Executed(1, "taken")
        BY <1>2, <1>8, <2>3 DEF Book
      <3>2. Server'
        BY <1>0, <1>1, <1>3, <2>1, <3>1 DEF Server
      <3>3. PICK d \in CallRec : /\ calls' = [calls EXCEPT ![1] = d] /\ From(d, calls[1])
                                 /\ d.heard = calls[1].heard /\ d.answer = "taken" /\ d.cache = Absent
        BY <1>1, <1>2, <1>6, <3>1, <3>2, ExecutedFacts DEF Server
      <3>4. Serves(calls[1], d)
        BY <2>1, <3>1, <3>3 DEF Serves
      <3>5. QED
        BY <1>1, <1>2, <1>3, <3>2, <3>3, <3>4
    <2>4. QED
      BY <2>2, <2>3
  <1>9. CASE Move(i) \/ Cancel(i) \/ Refuse(i)
    <2>1. mine' = mine
      BY <1>9 DEF Move, Cancel, Refuse, server
    <2>2. PICK answer \in {"ok", "taken", "too_late", "refused"} :
            /\ Executed(1, answer)
            /\ \/ answer # "ok" /\ appointment' = appointment
               \/ /\ answer = "ok" /\ calls[1].kind = "move" /\ calls[1].day \in Days
                  /\ appointment' = [appointment EXCEPT !.day = calls[1].day]
               \/ /\ answer = "ok" /\ calls[1].kind = "cancel"
                  /\ appointment' = [appointment EXCEPT !.status = "cancelled"]
      <3>1. CASE Move(i)
        BY <1>2, <3>1 DEF Move, Fits
      <3>2. CASE Cancel(i)
        BY <1>2, <3>2 DEF Cancel
      <3>3. CASE Refuse(i)
        BY <1>2, <3>3 DEF Refuse, server
      <3>4. QED
        BY <1>9, <3>1, <3>2, <3>3
    <2>3. appointment \in AppointmentType
      BY <1>0 DEF Server
    <2>4. appointment' \in AppointmentType
      BY <2>2, <2>3 DEF AppointmentType
    <2>5. Server'
      BY <1>0, <1>1, <1>3, <2>1, <2>4 DEF Server
    <2>6. PICK d \in CallRec : /\ calls' = [calls EXCEPT ![1] = d] /\ From(d, calls[1])
                               /\ d.heard = calls[1].heard /\ d.answer = answer /\ d.cache = Absent
                               /\ d.status = appointment'.status
      BY <1>1, <1>2, <1>6, <2>2, <2>4, ExecutedFacts
    <2>7. Serves(calls[1], d)
      BY <2>1, <2>2, <2>3, <2>6 DEF Serves, AppointmentType
    <2>8. QED
      BY <1>1, <1>2, <1>3, <2>5, <2>6, <2>7
  <1>10. QED
    BY <1>1, <1>7, <1>8, <1>9

LEMMA ExecuteStep ==
  ASSUME PagesInv, Execute
  PROVE  PagesInv'
  <1>1. /\ 1 \in 1 .. Len(calls) /\ Server' /\ UNCHANGED <<page, ui>>
        /\ \E d \in CallRec : calls' = [calls EXCEPT ![1] = d] /\ Serves(calls[1], d)
    BY ExecuteEffect
  <1>2. Continue
    BY <1>1, ExecuteContinues DEF PagesInv, Ready, Serves
  <1>3. Out'
    BY <1>1, <1>2, OutContinues DEF PagesInv, ui
  <1>4. Typed'
    BY <1>1, <1>2 DEF PagesInv, Typed, Ui, ui, Continue
  <1>5. Where'
    BY <1>1 DEF PagesInv, Where, ui
  <1>6. QED
    BY <1>3, <1>4, <1>5 DEF PagesInv

\* The page hears an answer, or that there will be none.
Hears(c) ==
    \/ Handle(c) /\ lost' = lost
    \/ c.kind = "load" /\ LoadFails(c) /\ lost' = lost
    \/ c.kind # "load" /\ Thrown(c) /\ lost' = lost \cup {c.day}

LEMMA AnswerEffect ==
  ASSUME PagesInv, Answer \/ LoseAnswer
  PROVE  /\ 1 \in 1 .. Len(calls) /\ calls[1] \in CallRec /\ Fits(calls[1])
         /\ calls[1].answer # "none" /\ calls' = Without(1)
         /\ UNCHANGED <<page, server, touched>>
         /\ Hears(calls[1])
  <1>0. calls \in Seq(CallRec) /\ DOMAIN calls = 1 .. Len(calls) /\ Out
    BY DEF PagesInv, Typed
  <1>1. PICK i \in 1 .. Len(calls) :
          /\ calls[i].answer # "none" /\ calls' = Without(i)
          /\ UNCHANGED <<page, server, touched>>
          /\ Hears(calls[i])
    <2>1. CASE Answer
      BY <1>0, <2>1 DEF Answer, Hears
    <2>2. CASE LoseAnswer
      BY <1>0, <2>2 DEF LoseAnswer, Hears
    <2>3. QED
      BY <2>1, <2>2
  <1>2. i = 1
    BY <1>0, <1>1 DEF Out, OnlyFirst
  <1>3. QED
    BY <1>0, <1>1, <1>2 DEF Out

\* Where the page is after an answer, and which button it released.
LEMMA HearsWhere ==
  ASSUME PagesInv, NEW c \in CallRec, Fits(c), page' = page, Hears(c)
  PROVE  /\ Ui' /\ Where'
         /\ flow.submitting /\ c.kind # "book" => flow'.submitting
         /\ manage.moving /\ c.kind # "move" => manage'.moving
         /\ manage.cancelling /\ c.kind # "cancel" => manage'.cancelling
  <1>0. /\ slot \in Days \cup {None} /\ epoch \in Nat /\ flow \in FlowType /\ manage \in ManageType
        /\ picker \in PickerType /\ Where /\ page \in {"book", "manage"} /\ Server /\ Ui
    BY DEF PagesInv, Typed, Ui, Server
  <1>1. /\ NoPicker \in PickerType /\ ~NoPicker.mounted
        /\ Mounted \in PickerType /\ Mounted.mounted
        /\ Reset(picker) \in PickerType /\ Reset(picker).mounted = picker.mounted
    BY <1>0, NoPickerTyped, MountedTyped DEF NoPicker
  <1>2. CASE c.kind = "load" /\ (Loaded(c) \/ LoadFails(c))
    <2>1. UNCHANGED <<slot, epoch, flow, manage>> /\ c.month \in Months /\ c.cache \in CacheRec
      BY <1>2 DEF Loaded, LoadFails, Fits, CallRec
    <2>2. picker' \in PickerType /\ picker'.mounted = picker.mounted
      <3>1. CASE Loaded(c)
        BY <1>0, <2>1, <3>1 DEF Loaded, PickerType
      <3>2. CASE LoadFails(c)
        BY <1>0, <2>1, <3>2 DEF LoadFails, PickerType
      <3>3. QED
        BY <1>2, <3>1, <3>2
    <2>3. QED
      BY <1>0, <2>1, <2>2 DEF Ui, Where
  <1>3. CASE c.kind = "book" /\ Booked(c)
    <2>1. /\ page = "book" /\ c.service \in Services /\ c.day \in Days
          /\ UNCHANGED <<slot, epoch, manage>> /\ picker' = NoPicker
          /\ flow' = [flow EXCEPT !.submitting = FALSE, !.step = "done",
                                  !.confirmation = [service |-> c.service, day |-> c.day]]
      BY <1>3 DEF Fits, Booked
    <2>2. flow' \in FlowType /\ flow'.step = "done" /\ ~flow'.submitting
      BY <1>0, <2>1 DEF FlowType, Steps, Booking
    <2>3. QED
      BY <1>0, <1>1, <1>3, <2>1, <2>2 DEF Ui, Where
  <1>4. CASE c.kind = "book" /\ SlotTaken(c)
    <2>1. /\ page = "book" /\ flow.submitting /\ slot' = None /\ epoch' = epoch + 1 /\ manage' = manage
          /\ picker' = Refreshed(picker.mounted)
          /\ flow' = [flow EXCEPT !.submitting = FALSE, !.step = "time"]
      BY <1>4 DEF Fits, SlotTaken
    <2>2. /\ flow' \in FlowType /\ flow'.step = "time" /\ ~flow'.submitting
          /\ flow'.service = flow.service
      BY <1>0, <2>1 DEF FlowType, Steps
    <2>3. picker' \in PickerType /\ picker'.mounted
      BY <1>0, <1>1, <2>1 DEF Refreshed
    <2>4. QED
      BY <1>0, <1>4, <2>1, <2>2, <2>3 DEF Ui, Where
  <1>5. CASE c.kind = "move" /\ (Moved(c) \/ MoveTaken(c))
    <2>1. /\ page = "manage" /\ c.day \in Days /\ flow' = flow /\ slot' = None
          /\ epoch' \in Nat /\ c.status \in {"none", "confirmed", "cancelled"}
      BY <1>0, <1>5 DEF Fits, Moved, MoveTaken, CallRec
    <2>2. /\ manage' \in ManageType /\ manage'.cancelling = manage.cancelling
          /\ picker' \in PickerType
          /\ manage.sheet <=> picker.mounted
          /\ manage'.sheet <=> picker'.mounted
      <3>1. manage.sheet <=> picker.mounted
        BY <1>0, <2>1 DEF Where
      <3>2. CASE Moved(c)
        BY <1>0, <1>1, <2>1, <3>1, <3>2 DEF Moved, ManageType
      <3>3. CASE MoveTaken(c)
        BY <1>0, <1>1, <2>1, <3>1, <3>3 DEF MoveTaken, ManageType
      <3>4. QED
        BY <1>5, <3>1, <3>2, <3>3
    <2>3. QED
      BY <1>0, <1>5, <2>1, <2>2 DEF Ui, Where
  <1>6. CASE c.kind = "cancel" /\ (Cancelled(c) \/ TooLate(c))
    <2>1. /\ page = "manage" /\ UNCHANGED <<slot, epoch, flow, picker>>
          /\ c.status \in {"none", "confirmed", "cancelled"}
      BY <1>6 DEF Fits, Cancelled, TooLate, CallRec
    <2>2. /\ manage' \in ManageType /\ manage'.moving = manage.moving /\ manage'.sheet = manage.sheet
      BY <1>0, <1>6, <2>1 DEF Cancelled, TooLate, ManageType
    <2>3. QED
      BY <1>0, <1>6, <2>1, <2>2 DEF Ui, Where
  <1>7. CASE c.kind # "load" /\ Thrown(c)
    <2>1. UNCHANGED <<slot, epoch, picker>>
      BY <1>7 DEF Thrown
    <2>2. /\ flow' \in FlowType /\ flow'.step = flow.step /\ flow'.service = flow.service
          /\ flow'.submitting => flow.submitting
          /\ flow.submitting /\ c.kind # "book" => flow'.submitting
      BY <1>0, <1>7 DEF Thrown, FlowType
    <2>3. /\ manage' \in ManageType /\ manage'.sheet = manage.sheet /\ manage'.dialog = manage.dialog
          /\ manage'.moving = (manage.moving /\ c.kind # "move")
          /\ manage'.cancelling = (manage.cancelling /\ c.kind # "cancel")
      BY <1>0, <1>7 DEF Thrown, ManageType
    <2>4. QED
      BY <1>0, <2>1, <2>2, <2>3 DEF Ui, Where
  <1>8. QED
    BY <1>2, <1>3, <1>4, <1>5, <1>6, <1>7 DEF Hears, Handle

LEMMA AnswerStep ==
  ASSUME PagesInv, Answer \/ LoseAnswer
  PROVE  PagesInv'
  <1>1. /\ 1 \in 1 .. Len(calls) /\ calls[1] \in CallRec /\ Fits(calls[1])
        /\ calls[1].answer # "none" /\ calls' = Without(1)
        /\ UNCHANGED <<page, server>> /\ Hears(calls[1])
    BY AnswerEffect
  <1>2. /\ Continue
        /\ \A j \in 1 .. Len(calls') : calls'[j].kind # "load" => calls'[j].kind # calls[1].kind
    BY <1>1, AnswerContinues DEF PagesInv
  <1>3. /\ Ui' /\ Where'
        /\ flow.submitting /\ calls[1].kind # "book" => flow'.submitting
        /\ manage.moving /\ calls[1].kind # "move" => manage'.moving
        /\ manage.cancelling /\ calls[1].kind # "cancel" => manage'.cancelling
    BY <1>1, HearsWhere
  <1>4. Out'
    BY <1>1, <1>2, <1>3, OutContinues DEF PagesInv
  <1>5. Typed'
    BY <1>1, <1>2, <1>3 DEF PagesInv, Typed, Server, server, Continue
  <1>6. QED
    BY <1>3, <1>4, <1>5 DEF PagesInv

\* Everyone else.
LEMMA OthersStep ==
  ASSUME PagesInv, NEW d \in Days, OthersBook(d) \/ OwnerCancels \/ Tick
  PROVE  PagesInv' /\ UNCHANGED <<page, mine, ui, calls, seen, lost>>
  <1>1. UNCHANGED <<page, mine, ui, calls, seen, lost>>
    BY DEF OthersBook, OwnerCancels, Tick, history
  <1>2. Continue
    BY <1>1, SameContinue DEF PagesInv
  <1>3. Out'
    BY <1>1, <1>2, OutContinues DEF PagesInv, ui
  <1>4. Where'
    BY <1>1 DEF PagesInv, Where, ui
  <1>5. Ui'
    BY <1>1 DEF PagesInv, Typed, Ui, ui
  <1>6. Server
    BY DEF PagesInv, Typed
  <1>7. Server'
    <2>1. CASE OthersBook(d)
      BY <1>1, <1>6, <2>1 DEF OthersBook, Server
    <2>2. CASE OwnerCancels
      BY <1>1, <1>6, <2>2 DEF OwnerCancels, Server, AppointmentType
    <2>3. CASE Tick
      BY <1>1, <1>6, <2>3, PagesAssumption DEF Tick, Server
    <2>4. QED
      BY <2>1, <2>2, <2>3
  <1>8. QED
    BY <1>1, <1>3, <1>4, <1>5, <1>7 DEF PagesInv, Typed

\* The actions, in the groups the lemmas above speak of.
OneOf(d, s, step) ==
    \/ SelectDay(d) \/ HuntFrom(d) \/ ChangeMonth(step) \/ JumpToHorizon \/ Retry \/ Hunt
    \/ FetchMonth
    \/ ChooseService(s) \/ BackToTime \/ OpenSheet
    \/ ChooseSlot(d) \/ BackToService \/ CloseSheet
    \/ StartOver \/ ChangePendingSlot(d) \/ OpenDialog \/ CloseDialog
    \/ Submit \/ ConfirmMove \/ ConfirmCancel
    \/ Execute
    \/ Answer \/ LoseAnswer
    \/ OthersBook(d) \/ OwnerCancels \/ Tick

LEMMA NextSteps ==
  ASSUME Next
  PROVE  \E d \in Days, s \in Services, step \in {-1, 1} : OneOf(d, s, step)
  <1>1. ManagedDay \in Days /\ Managed \in Services /\ 1 \in {-1, 1}
    BY PagesAssumption
  <1>2. CASE TapsCalendar
    BY <1>1, <1>2 DEF TapsCalendar, OneOf
  <1>3. CASE TapsBook
    BY <1>1, <1>3 DEF TapsBook, OneOf
  <1>4. CASE TapsManage \/ Effects \/ Network \/ LoseAnswer \/ OwnerCancels \/ Tick
    BY <1>1, <1>4 DEF TapsManage, Effects, Network, OneOf
  <1>5. CASE \E d \in Days : OthersBook(d)
    BY <1>1, <1>5 DEF OneOf
  <1>6. QED
    BY <1>2, <1>3, <1>4, <1>5 DEF Next

LEMMA PagesStep == PagesInv /\ [Next]_vars => PagesInv'
  <1> SUFFICES ASSUME PagesInv, [Next]_vars PROVE PagesInv'
    OBVIOUS
  <1>1. CASE Next
    <2>1. PICK d \in Days, s \in Services, step \in {-1, 1} : OneOf(d, s, step)
      BY <1>1, NextSteps
    <2>2. QED
      BY <2>1, CalendarTaps, FetchStep, MountStep, UnmountStep, QuietStep, SubmitStep,
         ExecuteStep, AnswerStep, OthersStep DEF OneOf
  <1>2. CASE UNCHANGED vars
    <2>1. UNCHANGED <<page, server, slot, epoch, flow, manage, picker, calls>>
      BY <1>2 DEF vars, ui
    <2>2. picker' \in PickerType
      BY <2>1 DEF PagesInv, Typed, Ui
    <2>3. QED
      BY <2>1, <2>2, PickerStep
  <1>3. QED
    BY <1>1, <1>2

\* Where the page can be and which calls it has out, in every state.
THEOREM PagesInvariant == Spec => []PagesInv
  <1>1. QED
    BY InitPages, PagesStep, PTL DEF Spec

-----------------------------------------------------------------------------
(* What the calendar holds is fresh.                                       *)

FreshInv == Epochs /\ Loads /\ CacheIsFresh

\* What an answer does to the data on screen.
LEMMA HearsFresh ==
  ASSUME PagesInv, NEW c \in CallRec, Fits(c), page' = page, Hears(c)
  PROVE  /\ epoch' \in Nat /\ epoch <= epoch' /\ flow'.service = flow.service
         /\ \/ /\ picker'.cache = picker.cache /\ picker'.mounted = picker.mounted
               /\ epoch' = epoch \/ ~picker'.mounted
            \/ picker'.cache = NoCache
            \/ /\ c.kind = "load" /\ c.answer = "ok" /\ c.heard /\ c.month \in Months
               /\ epoch' = epoch /\ picker'.cache = [picker.cache EXCEPT ![c.month] = c.cache]
  <1>0. epoch \in Nat /\ flow \in FlowType /\ picker \in PickerType /\ Server /\ Ui
    BY DEF PagesInv, Typed, Ui
  <1>1. /\ NoPicker.cache = NoCache /\ Mounted.cache = NoCache /\ Reset(picker).cache = NoCache
    BY <1>0, MountedTyped DEF NoPicker
  <1>2. CASE c.kind = "load" /\ c.answer = "ok" /\ Loaded(c)
    BY <1>0, <1>2 DEF Loaded, Fits, PickerType
  <1>3. CASE LoadFails(c)
    BY <1>0, <1>3 DEF LoadFails, PickerType
  <1>4. CASE Booked(c) \/ SlotTaken(c)
    <2>1. flow'.service = flow.service
      BY <1>0, <1>4 DEF Booked, SlotTaken, FlowType
    <2>2. epoch' \in Nat /\ epoch <= epoch' /\ picker'.cache = NoCache
      BY <1>0, <1>1, <1>4 DEF Booked, SlotTaken, Refreshed
    <2>3. QED
      BY <2>1, <2>2
  <1>5. CASE Moved(c) \/ MoveTaken(c)
    BY <1>0, <1>1, <1>5 DEF Moved, MoveTaken
  <1>6. CASE Cancelled(c) \/ TooLate(c)
    BY <1>0, <1>6 DEF Cancelled, TooLate
  <1>7. CASE Thrown(c)
    BY <1>0, <1>7 DEF Thrown, FlowType
  <1>8. QED
    BY <1>2, <1>3, <1>4, <1>5, <1>6, <1>7 DEF Hears, Handle

LEMMA NoCacheFacts ==
  ASSUME NEW m \in Months
  PROVE  ~NoCache[m].known /\ NoCache[m].epoch = 0 /\ Absent.epoch = 0
  BY DEF NoCache, Absent

LEMMA FreshAnswer ==
  ASSUME PagesInv, FreshInv, Answer \/ LoseAnswer
  PROVE  FreshInv'
  <1>0. /\ Epochs /\ Loads /\ CacheIsFresh /\ picker \in PickerType
        /\ \A m \in Months : picker.cache[m] \in CacheRec
    BY DEF FreshInv, PagesInv, Typed, Ui, PickerType
  <1>1. /\ 1 \in 1 .. Len(calls) /\ calls[1] \in CallRec /\ Fits(calls[1])
        /\ calls[1].answer # "none" /\ calls' = Without(1) /\ page' = page /\ Hears(calls[1])
    BY AnswerEffect
  <1>2. \A j \in 1 .. Len(calls') : /\ j + 1 \in 1 .. Len(calls) /\ From(calls'[j], calls[j + 1])
                                    /\ calls'[j].answer = "none"
                                    /\ calls'[j].cache = calls[j + 1].cache
                                    /\ calls'[j].heard => /\ calls[j + 1].heard
                                                          /\ picker.mounted => picker'.mounted
    BY <1>1, AnswerContinues DEF PagesInv
  <1>3. /\ epoch' \in Nat /\ epoch \in Nat /\ epoch <= epoch' /\ flow'.service = flow.service
        /\ \/ /\ picker'.cache = picker.cache /\ picker'.mounted = picker.mounted
              /\ epoch' = epoch \/ ~picker'.mounted
           \/ picker'.cache = NoCache
           \/ /\ calls[1].kind = "load" /\ calls[1].answer = "ok" /\ calls[1].heard
              /\ calls[1].month \in Months /\ epoch' = epoch
              /\ picker'.cache = [picker.cache EXCEPT ![calls[1].month] = calls[1].cache]
    BY <1>1, HearsFresh DEF PagesInv, Typed, Ui
  <1>4. Current' = Current
    BY <1>1, <1>3 DEF Current
  <1>5. Loads'
    <2>1. SUFFICES ASSUME NEW i \in 1 .. Len(calls'), calls'[i].kind = "load", calls'[i].heard
                   PROVE  picker'.mounted /\ calls'[i].service = Current' /\ calls'[i].answer # "ok"
      BY DEF Loads
    <2>2. /\ i + 1 \in 1 .. Len(calls) /\ calls[i + 1].kind = "load" /\ calls[i + 1].heard
          /\ calls'[i].service = calls[i + 1].service
          /\ calls'[i].answer = "none" /\ (picker.mounted => picker'.mounted)
      BY <1>2, <2>1 DEF From
    <2>3. picker.mounted /\ calls[i + 1].service = Current
      BY <1>0, <2>2 DEF Loads
    <2>4. QED
      BY <1>4, <2>2, <2>3
  <1>6. ASSUME NEW m \in Months
        PROVE  /\ picker'.cache[m].epoch <= epoch'
               /\ picker'.mounted /\ picker'.cache[m].known =>
                     picker'.cache[m].epoch = epoch' /\ picker'.cache[m].service = Current
    <2>1. /\ picker.cache[m].epoch \in Nat /\ picker.cache[m].epoch <= epoch
          /\ picker.mounted /\ picker.cache[m].known =>
               picker.cache[m].epoch = epoch /\ picker.cache[m].service = Current
      BY <1>0 DEF Epochs, CacheIsFresh, Current, CacheRec
    <2>2. CASE picker'.cache = picker.cache /\ picker'.mounted = picker.mounted
               /\ (epoch' = epoch \/ ~picker'.mounted)
      BY <1>3, <2>1, <2>2
    <2>3. CASE picker'.cache = NoCache
      BY <1>3, <2>3, NoCacheFacts
    <2>4. CASE /\ calls[1].kind = "load" /\ calls[1].answer = "ok" /\ calls[1].heard
               /\ epoch' = epoch
               /\ picker'.cache = [picker.cache EXCEPT ![calls[1].month] = calls[1].cache]
      <3>1. /\ picker.mounted /\ calls[1].cache.epoch = epoch /\ calls[1].cache.service = Current
        BY <1>0, <1>1, <2>4 DEF Loads
      <3>2. picker.cache \in [Months -> CacheRec]
        BY <1>0 DEF PickerType
      <3>3. picker'.cache[m] = IF m = calls[1].month THEN calls[1].cache ELSE picker.cache[m]
        BY <2>4, <3>2
      <3>4. QED
        BY <1>3, <2>1, <2>4, <3>1, <3>3
    <2>5. QED
      BY <1>3, <2>2, <2>3, <2>4
  <1>7. Epochs'
    <2>1. ASSUME NEW i \in 1 .. Len(calls') PROVE calls'[i].cache.epoch <= epoch'
      <3>1. /\ i + 1 \in 1 .. Len(calls) /\ calls'[i].cache = calls[i + 1].cache
            /\ calls[i + 1].cache.epoch <= epoch
        BY <1>0, <1>2 DEF Epochs
      <3>2. calls[i + 1] \in CallRec
        BY <3>1 DEF PagesInv, Typed
      <3>3. calls[i + 1].cache.epoch \in Nat
        BY <3>2 DEF CallRec, CacheRec
      <3>4. QED
        BY <1>3, <3>1, <3>3
    <2>2. QED
      BY <1>6, <2>1 DEF Epochs
  <1>8. CacheIsFresh'
    BY <1>1, <1>4, <1>6 DEF CacheIsFresh, Current
  <1>9. QED
    BY <1>5, <1>7, <1>8 DEF FreshInv

LEMMA FreshSame ==
  ASSUME FreshInv, page' = page, epoch' = epoch, flow'.service = flow.service,
         picker'.cache = picker.cache, picker'.mounted = picker.mounted, calls' = calls
  PROVE  FreshInv'
  BY DEF FreshInv, Epochs, Loads, CacheIsFresh, Current

\* A call is sent, by a button or by the calendar on screen.
LEMMA FreshSend ==
  ASSUME PagesInv, FreshInv, page' = page, epoch' = epoch, flow'.service = flow.service,
         picker'.cache = picker.cache, picker'.mounted = picker.mounted,
         NEW c \in CallRec, c.answer = "none", c.cache = Absent, calls' = Append(calls, c),
         c.kind = "load" => picker.mounted /\ c.service = Current
  PROVE  FreshInv'
  <1>1. /\ Epochs /\ Loads /\ CacheIsFresh /\ epoch \in Nat /\ Absent.epoch = 0
    BY DEF FreshInv, PagesInv, Typed, Ui, Absent
  <1>2. \A i \in 1 .. Len(calls') : \/ i \in 1 .. Len(calls) /\ calls'[i] = calls[i]
                                    \/ calls'[i] = c
    BY AppendFacts DEF PagesInv, Typed
  <1>3. Current' = Current
    BY DEF Current
  <1>4. Epochs'
    BY <1>1, <1>2 DEF Epochs
  <1>5. Loads'
    BY <1>1, <1>2, <1>3 DEF Loads
  <1>6. CacheIsFresh'
    BY <1>1 DEF CacheIsFresh
  <1>7. QED
    BY <1>4, <1>5, <1>6 DEF FreshInv

LEMMA FreshExecute ==
  ASSUME PagesInv, FreshInv, Execute
  PROVE  FreshInv'
  <1>1. /\ 1 \in 1 .. Len(calls) /\ UNCHANGED <<page, epoch, flow, picker>>
        /\ Epochs /\ Loads /\ CacheIsFresh /\ epoch \in Nat /\ Absent.epoch = 0
    BY ExecuteEffect DEF FreshInv, PagesInv, Typed, Ui, ui, Absent
  <1>2. PICK d \in CallRec : calls' = [calls EXCEPT ![1] = d] /\ Serves(calls[1], d)
    BY ExecuteEffect
  <1>3. /\ Len(calls') = Len(calls) /\ calls'[1] = d
        /\ \A i \in 1 .. Len(calls) : i # 1 => calls'[i] = calls[i]
    BY <1>1, <1>2 DEF PagesInv, Typed
  <1>4. /\ From(d, calls[1]) /\ d.heard = calls[1].heard /\ d.cache.epoch <= epoch
        /\ d.kind = "load" /\ d.answer = "ok" =>
              d.cache.epoch = epoch /\ d.cache.service = d.service
    BY <1>1, <1>2 DEF Serves, From
  <1>5. Epochs'
    BY <1>1, <1>3, <1>4 DEF Epochs
  <1>6. Loads'
    BY <1>1, <1>3, <1>4 DEF Loads, From, Current
  <1>7. CacheIsFresh'
    BY <1>1 DEF CacheIsFresh
  <1>8. QED
    BY <1>5, <1>6, <1>7 DEF FreshInv

\* The calendar is mounted, or unmounted, or stays away: it holds nothing.
LEMMA FreshUnloaded ==
  ASSUME PagesInv, FreshInv, page' = page, epoch' \in Nat, epoch <= epoch',
         \/ picker'.cache = NoCache /\ calls' = Unheard
         \/ ~picker.mounted /\ picker'.cache = NoCache /\ calls' = calls
         \/ ~picker.mounted /\ picker' = picker /\ calls' = calls
  PROVE  FreshInv'
  <1>1. /\ Epochs /\ Loads /\ epoch \in Nat
        /\ calls \in Seq(CallRec) /\ \A m \in Months : picker.cache[m].epoch \in Nat
    BY DEF FreshInv, PagesInv, Typed, Ui, PickerType, CacheRec
  <1>2. /\ Len(calls') = Len(calls)
        /\ \A i \in 1 .. Len(calls) : \/ calls'[i].cache = calls[i].cache /\ ~calls'[i].heard
                                      \/ ~picker.mounted /\ calls'[i] = calls[i]
    <2>1. CASE calls' = Unheard
      <3>1. /\ Len(calls') = Len(calls)
            /\ \A i \in 1 .. Len(calls) : calls'[i] = [calls[i] EXCEPT !.heard = FALSE]
        BY <2>1, UnheardCalls DEF PagesInv
      <3>2. ASSUME NEW i \in 1 .. Len(calls)
            PROVE  calls'[i].cache = calls[i].cache /\ ~calls'[i].heard
        <4>1. calls[i] \in CallRec /\ calls'[i] = [calls[i] EXCEPT !.heard = FALSE]
          BY <1>1, <3>1
        <4>2. QED
          BY <4>1 DEF CallRec
      <3>3. QED
        BY <3>1, <3>2
    <2>2. CASE ~picker.mounted /\ calls' = calls
      BY <2>2
    <2>3. QED
      BY <2>1, <2>2
  <1>3. ASSUME NEW i \in 1 .. Len(calls) PROVE calls[i].cache.epoch \in Nat
    <2>1. calls[i] \in CallRec
      BY <1>1
    <2>2. QED
      BY <2>1 DEF CallRec, CacheRec
  <1>4. Loads'
    BY <1>1, <1>2 DEF Loads
  <1>5. \A i \in 1 .. Len(calls') : calls'[i].cache.epoch <= epoch'
    BY <1>1, <1>2, <1>3 DEF Epochs
  <1>6. \A m \in Months : picker'.cache[m].epoch <= epoch'
    BY <1>1, NoCacheFacts DEF Epochs
  <1>7. CacheIsFresh'
    BY <1>1, NoCacheFacts DEF CacheIsFresh
  <1>8. QED
    BY <1>4, <1>5, <1>6, <1>7 DEF FreshInv, Epochs

LEMMA FreshStep == PagesInv /\ FreshInv /\ [Next]_vars => FreshInv'
  <1> SUFFICES ASSUME PagesInv, FreshInv, [Next]_vars PROVE FreshInv'
    OBVIOUS
  <1>0. epoch \in Nat /\ flow \in FlowType /\ picker \in PickerType
    BY DEF PagesInv, Typed, Ui
  <1>1. CASE Next
    <2>1. PICK d \in Days, s \in Services, step \in {-1, 1} : OneOf(d, s, step)
      BY <1>1, NextSteps
    <2>2. CASE SelectDay(d) \/ HuntFrom(d) \/ ChangeMonth(step) \/ JumpToHorizon \/ Retry \/ Hunt
      BY <2>2, CalendarTaps, FreshSame
    <2>3. CASE FetchMonth
      <3>1. PICK c : c = Call("load", Current, None, picker.month)
        OBVIOUS
      <3>2. Current \in Services /\ picker.month \in Months /\ picker.mounted
        BY <1>0, <2>3, PagesAssumption DEF FetchMonth, PagesInv, Where, PickerType, Current
      <3>3. c \in CallRec /\ c.answer = "none" /\ c.service = Current /\ c.kind = "load"
        BY <3>1, <3>2, CallTyped
      <3>4. c.cache = Absent
        BY <3>1 DEF Call
      <3>5. calls' = Append(calls, c) /\ UNCHANGED <<page, epoch, flow>>
        BY <2>3, <3>1 DEF FetchMonth, Current
      <3>6. picker'.cache = picker.cache /\ picker'.mounted = picker.mounted
        BY <1>0, <2>3 DEF FetchMonth, PickerType
      <3>7. QED
        BY <3>2, <3>3, <3>4, <3>5, <3>6, FreshSend
    <2>4. CASE ChooseService(s) \/ BackToTime \/ OpenSheet
      <3>1. Mounted.cache = NoCache
        BY MountedTyped DEF PagesInv, Typed
      <3>2. QED
        BY <1>0, <2>4, <3>1, MountStep, FreshUnloaded
    <2>5. CASE ChooseSlot(d) \/ BackToService \/ CloseSheet
      <3>1. NoPicker.cache = NoCache
        BY DEF NoPicker
      <3>2. QED
        BY <1>0, <2>5, <3>1, UnmountStep, FreshUnloaded
    <2>6. CASE StartOver \/ ChangePendingSlot(d) \/ OpenDialog \/ CloseDialog
      <3>1. /\ UNCHANGED <<page, picker, calls>> /\ epoch' \in Nat /\ epoch <= epoch'
            /\ (picker.mounted => epoch' = epoch /\ flow' = flow)
        BY <2>6, QuietStep
      <3>2. QED
        BY <3>1, FreshUnloaded, FreshSame
    <2>7. CASE Submit \/ ConfirmMove \/ ConfirmCancel
      <3>1. /\ UNCHANGED <<page, epoch, picker>> /\ flow'.service = flow.service
            /\ \E c \in CallRec : c.kind # "load" /\ c.answer = "none" /\ c.cache = Absent
                                  /\ calls' = Append(calls, c)
        BY <2>7, SubmitStep
      <3>2. QED
        BY <3>1, FreshSend
    <2>8. CASE OthersBook(d) \/ OwnerCancels \/ Tick
      BY <2>8, OthersStep, FreshSame DEF ui
    <2>9. QED
      BY <2>1, <2>2, <2>3, <2>4, <2>5, <2>6, <2>7, <2>8, FreshExecute, FreshAnswer DEF OneOf
  <1>2. CASE UNCHANGED vars
    BY <1>2, FreshSame DEF vars, ui
  <1>3. QED
    BY <1>1, <1>2

LEMMA InitFresh == Init => FreshInv
  <1> SUFFICES ASSUME Init PROVE FreshInv
    OBVIOUS
  <1>1. /\ picker.cache = NoCache /\ ~picker.mounted /\ Len(calls) = 0 /\ epoch = 0
    BY DEF Init, NoPicker
  <1>2. QED
    BY <1>1, NoCacheFacts DEF FreshInv, Epochs, Loads, CacheIsFresh

\* The months on screen are those of the service on screen, read since the page last learnt
\* that they were stale: a load that was overtaken is not listened to, or answers into an
\* empty calendar of the same service.
THEOREM CacheIsFreshHolds == Spec => []CacheIsFresh
  <1>1. FreshInv => CacheIsFresh
    BY DEF FreshInv
  <1>2. QED
    BY <1>1, InitFresh, FreshStep, PagesInvariant, PTL DEF Spec

-----------------------------------------------------------------------------
(* What has been booked is shown.                                          *)

BookedInv == Once /\ Promised /\ BookingsAreShown

\* The answer to a submission that was accepted.
Accepted(c) == c.kind = "book" /\ c.answer = "ok"

\* Every booking is shown, or its answer was lost, or is on its way.
Waits(b) == \E i \in 1 .. Len(calls) : Accepted(calls[i]) /\ calls[i].day = b.day

LEMMA ShownFacts ==
  ASSUME calls \in Seq(CallRec)
  PROVE  BookingsAreShown <=> /\ \A b \in mine : b \in seen \/ b.day \in lost \/ Waits(b)
                              /\ seen \subseteq mine
                              /\ flow.step = "done" => flow.confirmation \in mine
  <1>1. DOMAIN calls = 1 .. Len(calls)
    OBVIOUS
  <1>2. QED
    BY <1>1 DEF BookingsAreShown, Accepted, Waits

LEMMA ShownFactsNext ==
  ASSUME (calls \in Seq(CallRec))'
  PROVE  (BookingsAreShown <=> /\ \A b \in mine : b \in seen \/ b.day \in lost \/ Waits(b)
                               /\ seen \subseteq mine
                               /\ flow.step = "done" => flow.confirmation \in mine)'
  <1>1. (DOMAIN calls = 1 .. Len(calls))'
    OBVIOUS
  <1>2. QED
    BY <1>1 DEF BookingsAreShown, Accepted, Waits

\* Steps that book nothing and answer no submission.
LEMMA BookedKeeps ==
  ASSUME PagesInv, PagesInv', BookedInv, Once', mine' = mine, seen' = seen, lost \subseteq lost',
         flow'.step = "done" => flow'.confirmation \in mine,
         \A i \in 1 .. Len(calls) : Accepted(calls[i]) =>
            \E j \in 1 .. Len(calls') : From(calls'[j], calls[i]) /\ Accepted(calls[j])',
         \A j \in 1 .. Len(calls') : Accepted(calls[j])' =>
            \E i \in 1 .. Len(calls) : From(calls'[j], calls[i]) /\ Accepted(calls[i])
  PROVE  BookedInv'
  <1>1. /\ Promised /\ seen \subseteq mine
        /\ \A b \in mine : b \in seen \/ b.day \in lost \/ Waits(b)
    BY ShownFacts DEF BookedInv, PagesInv, Typed
  <1>2. ASSUME NEW b \in mine, Waits(b) PROVE Waits(b)'
    <2>1. PICK i \in 1 .. Len(calls) : Accepted(calls[i]) /\ calls[i].day = b.day
      BY <1>2 DEF Waits
    <2>2. PICK j \in 1 .. Len(calls') : From(calls'[j], calls[i]) /\ Accepted(calls[j])'
      BY <2>1
    <2>3. calls'[j].day = b.day
      BY <2>1, <2>2 DEF From
    <2>4. QED
      BY <2>2, <2>3 DEF Waits
  <1>3. \A b \in mine' : b \in seen' \/ b.day \in lost' \/ Waits(b)'
    BY <1>1, <1>2
  <1>4. Promised'
    <2>1. SUFFICES ASSUME NEW j \in 1 .. Len(calls'), Accepted(calls[j])'
                   PROVE  [service |-> calls'[j].service, day |-> calls'[j].day] \in mine
      BY DEF Promised, Accepted
    <2>2. PICK i \in 1 .. Len(calls) : From(calls'[j], calls[i]) /\ Accepted(calls[i])
      BY <2>1
    <2>3. QED
      BY <1>1, <2>2 DEF Promised, From, Accepted
  <1>5. BookingsAreShown'
    BY <1>1, <1>3, ShownFactsNext DEF PagesInv, Typed
  <1>6. QED
    BY <1>4, <1>5 DEF BookedInv

\* What an answer does to what is shown.
LEMMA HearsBooked ==
  ASSUME PagesInv, NEW c \in CallRec, Fits(c), Hears(c)
  PROVE  \/ /\ Accepted(c) /\ lost' = lost
            /\ seen' = seen \cup {[service |-> c.service, day |-> c.day]}
            /\ flow'.confirmation = [service |-> c.service, day |-> c.day]
         \/ /\ Accepted(c) => c.day \in lost'
            /\ seen' = seen /\ lost \subseteq lost'
            /\ flow'.step = "done" => flow.step = "done" /\ flow'.confirmation = flow.confirmation
  <1>0. flow \in FlowType
    BY DEF PagesInv, Typed, Ui
  <1>1. CASE c.kind = "book" /\ c.answer = "ok" /\ Booked(c) /\ lost' = lost
    BY <1>0, <1>1 DEF Booked, FlowType, Accepted
  <1>2. CASE c.kind = "book" /\ c.answer = "taken" /\ SlotTaken(c) /\ lost' = lost
    BY <1>0, <1>2 DEF SlotTaken, FlowType, Accepted
  <1>3. CASE c.kind = "load" \/ c.kind = "cancel" \/ c.kind = "move"
    <2>1. ~Accepted(c)
      BY <1>3 DEF Accepted
    <2>2. seen' = seen /\ lost \subseteq lost'
      BY <1>3 DEF Hears, Handle, Loaded, LoadFails, Moved, MoveTaken, Cancelled, TooLate, Thrown
    <2>3. flow' = flow
      BY <1>3 DEF Hears, Handle, Loaded, LoadFails, Moved, MoveTaken, Cancelled, TooLate, Thrown
    <2>4. QED
      BY <2>1, <2>2, <2>3
  <1>4. CASE /\ c.kind = "book" /\ Thrown(c)
             /\ (lost' = lost \cup {c.day} \/ (lost' = lost /\ c.answer = "refused"))
    BY <1>0, <1>4 DEF Thrown, FlowType, Accepted
  <1>6. c.kind \in {"load", "book", "move", "cancel"}
    BY DEF CallRec
  <1>5. CASE c.kind = "book"
    <2>1. \/ c.answer = "ok" /\ Booked(c) /\ lost' = lost
          \/ c.answer = "taken" /\ SlotTaken(c) /\ lost' = lost
          \/ Thrown(c) /\ (lost' = lost \cup {c.day} \/ (lost' = lost /\ c.answer = "refused"))
      BY <1>5 DEF Hears, Handle
    <2>2. QED
      BY <1>1, <1>2, <1>4, <1>5, <2>1
  <1>7. QED
    BY <1>3, <1>5, <1>6

LEMMA BookedAnswer ==
  ASSUME PagesInv, PagesInv', BookedInv, Answer \/ LoseAnswer
  PROVE  BookedInv'
  <1>0. calls \in Seq(CallRec) /\ OnlyFirst
    BY DEF PagesInv, Typed, Out
  <1>1. /\ 1 \in 1 .. Len(calls) /\ calls[1] \in CallRec /\ Fits(calls[1])
        /\ calls[1].answer # "none" /\ calls' = Without(1)
        /\ UNCHANGED <<taken, mine>> /\ Hears(calls[1])
    BY AnswerEffect DEF server
  <1>2. \A j \in 1 .. Len(calls') : ~Accepted(calls[j])'
    BY <1>1, AnswerContinues DEF PagesInv, Accepted
  <1>3. /\ Once /\ Promised /\ seen \subseteq mine
        /\ \A b \in mine : b \in seen \/ b.day \in lost \/ Waits(b)
        /\ flow.step = "done" => flow.confirmation \in mine
    BY <1>0, ShownFacts DEF BookedInv
  <1>4. Once'
    BY <1>1, <1>3 DEF Once
  <1>5. ASSUME NEW b \in mine, Waits(b)
        PROVE  Accepted(calls[1]) /\ calls[1].day = b.day
    BY <1>0, <1>5 DEF Waits, Accepted, OnlyFirst
  <1>6. /\ seen' \subseteq mine
        /\ \A b \in mine : b \in seen' \/ b.day \in lost'
        /\ flow'.step = "done" => flow'.confirmation \in mine
    <2>1. PICK booked : booked = [service |-> calls[1].service, day |-> calls[1].day]
      OBVIOUS
    <2>2. CASE /\ Accepted(calls[1]) /\ lost' = lost
               /\ seen' = seen \cup {booked} /\ flow'.confirmation = booked
      <3>1. booked \in mine /\ booked.day = calls[1].day
        BY <1>1, <1>3, <2>1, <2>2 DEF Promised, Accepted
      <3>2. \A b \in mine : Waits(b) => b = booked
        BY <1>3, <1>5, <3>1 DEF Once
      <3>3. QED
        BY <1>3, <2>2, <3>1, <3>2
    <2>3. CASE /\ Accepted(calls[1]) => calls[1].day \in lost'
               /\ seen' = seen /\ lost \subseteq lost'
               /\ flow'.step = "done" => flow.step = "done" /\ flow'.confirmation = flow.confirmation
      <3>1. \A b \in mine : Waits(b) => b.day \in lost'
        BY <1>5, <2>3
      <3>2. QED
        BY <1>3, <2>3, <3>1
    <2>4. QED
      BY <1>1, <2>1, <2>2, <2>3, HearsBooked
  <1>7. BookingsAreShown'
    BY <1>1, <1>6, ShownFactsNext DEF PagesInv, Typed
  <1>8. Promised'
    BY <1>2 DEF Promised, Accepted
  <1>9. QED
    BY <1>4, <1>7, <1>8 DEF BookedInv

LEMMA BookedExecute ==
  ASSUME PagesInv, PagesInv', BookedInv, Execute
  PROVE  BookedInv'
  <1>0. calls \in Seq(CallRec) /\ OnlyFirst
    BY DEF PagesInv, Typed, Out
  <1>1. /\ 1 \in 1 .. Len(calls) /\ calls[1].answer = "none" /\ Fits(calls[1])
        /\ UNCHANGED <<flow, taken, seen, lost>>
    BY ExecuteEffect DEF ui, PagesInv, Out
  <1>2. PICK d \in CallRec : calls' = [calls EXCEPT ![1] = d] /\ Serves(calls[1], d)
    BY ExecuteEffect
  <1>3. /\ Len(calls') = Len(calls) /\ calls'[1] = d
        /\ \A i \in 1 .. Len(calls) : i # 1 => calls'[i] = calls[i]
    BY <1>0, <1>1, <1>2
  <1>4. \A i \in 1 .. Len(calls) : ~Accepted(calls[i])
    BY <1>0, <1>1 DEF OnlyFirst, Accepted
  <1>5. /\ Once /\ seen \subseteq mine
        /\ \A b \in mine : b \in seen \/ b.day \in lost
        /\ flow.step = "done" => flow.confirmation \in mine
    BY <1>0, <1>4, ShownFacts DEF BookedInv, Waits
  <1>6. CASE /\ calls[1].kind = "book" /\ d.answer = "ok" /\ From(d, calls[1])
             /\ calls[1].day \notin Busy
             /\ mine' = mine \cup {[service |-> calls[1].service, day |-> calls[1].day]}
    <2>1. PICK booked : booked = [service |-> calls[1].service, day |-> calls[1].day]
      OBVIOUS
    <2>2. booked.day = calls[1].day /\ mine' = mine \cup {booked}
      BY <1>6, <2>1
    <2>3. calls[1].day \notin taken /\ \A b \in mine : b.day # calls[1].day
      BY <1>6 DEF Busy
    <2>4. Once'
      BY <1>1, <1>5, <2>2, <2>3 DEF Once
    <2>5. Waits(booked)'
      <3>1. 1 \in 1 .. Len(calls') /\ Accepted(calls[1])' /\ calls'[1].day = booked.day
        BY <1>1, <1>3, <1>6, <2>2 DEF From, Accepted
      <3>2. QED
        BY <3>1 DEF Waits
    <2>6. BookingsAreShown'
      BY <1>1, <1>5, <2>2, <2>5, ShownFactsNext DEF PagesInv, Typed
    <2>7. Promised'
      <3>1. SUFFICES ASSUME NEW j \in 1 .. Len(calls'), Accepted(calls[j])'
                     PROVE  [service |-> calls'[j].service, day |-> calls'[j].day] = booked
        BY <2>2 DEF Promised, Accepted
      <3>2. j = 1
        BY <1>3, <1>4, <3>1 DEF Accepted
      <3>3. QED
        BY <1>3, <1>6, <2>1, <3>2 DEF From
    <2>8. QED
      BY <2>4, <2>6, <2>7 DEF BookedInv
  <1>7. CASE mine' = mine /\ ~Accepted(d)
    <2>1. \A j \in 1 .. Len(calls') : ~Accepted(calls[j])'
      BY <1>3, <1>4, <1>7 DEF Accepted
    <2>2. Once'
      BY <1>1, <1>5, <1>7 DEF Once
    <2>3. QED
      BY <1>1, <1>4, <1>5, <1>7, <2>1, <2>2, BookedKeeps
  <1>8. QED
    BY <1>2, <1>6, <1>7 DEF Serves, From, Accepted

LEMMA BookedStep == PagesInv /\ PagesInv' /\ BookedInv /\ [Next]_vars => BookedInv'
  <1> SUFFICES ASSUME PagesInv, PagesInv', BookedInv, [Next]_vars PROVE BookedInv'
    OBVIOUS
  <1>0. /\ flow \in FlowType /\ calls \in Seq(CallRec) /\ Once
        /\ flow.step = "done" => flow.confirmation \in mine
    BY DEF PagesInv, Typed, Ui, BookedInv, BookingsAreShown
  <1>1. ASSUME \/ calls' = calls
               \/ calls' = Unheard
               \/ \E c \in CallRec : c.answer = "none" /\ calls' = Append(calls, c),
               mine' = mine, Once', seen' = seen, lost' = lost,
               flow'.step = "done" => flow.step = "done" /\ flow'.confirmation = flow.confirmation
        PROVE  BookedInv'
    <2>1. CASE calls' = calls
      BY <1>0, <1>1, <2>1, BookedKeeps DEF Accepted, From
    <2>2. CASE calls' = Unheard
      <3>1. /\ Len(calls') = Len(calls)
            /\ \A i \in 1 .. Len(calls) : /\ calls'[i] = [calls[i] EXCEPT !.heard = FALSE]
                                          /\ calls[i] \in CallRec
        BY <1>0, <2>2, UnheardCalls DEF PagesInv
      <3>2. ASSUME NEW i \in 1 .. Len(calls)
            PROVE  From(calls'[i], calls[i]) /\ (Accepted(calls[i])' <=> Accepted(calls[i]))
        BY <3>1 DEF From, Accepted, CallRec
      <3>3. QED
        BY <1>0, <1>1, <3>1, <3>2, BookedKeeps
    <2>3. ASSUME NEW c \in CallRec, c.answer = "none", calls' = Append(calls, c) PROVE BookedInv'
      <3>1. /\ \A i \in 1 .. Len(calls') : \/ i \in 1 .. Len(calls) /\ calls'[i] = calls[i]
                                           \/ calls'[i] = c
            /\ \A i \in 1 .. Len(calls) : i \in 1 .. Len(calls') /\ calls'[i] = calls[i]
        BY <1>0, <2>3, AppendFacts
      <3>2. \A i \in 1 .. Len(calls) : Accepted(calls[i]) =>
              \E j \in 1 .. Len(calls') : From(calls'[j], calls[i]) /\ Accepted(calls[j])'
        BY <3>1 DEF From, Accepted
      <3>3. \A j \in 1 .. Len(calls') : Accepted(calls[j])' =>
              \E i \in 1 .. Len(calls) : From(calls'[j], calls[i]) /\ Accepted(calls[i])
        BY <2>3, <3>1 DEF From, Accepted
      <3>4. QED
        BY <1>0, <1>1, <3>2, <3>3, BookedKeeps
    <2>4. QED
      BY <1>1, <2>1, <2>2, <2>3
  <1>2. CASE Next
    <2>1. PICK d \in Days, s \in Services, step \in {-1, 1} : OneOf(d, s, step)
      BY <1>2, NextSteps
    <2>2. ASSUME mine' = mine, taken' = taken PROVE Once'
      BY <1>0, <2>2 DEF Once
    <2>3. CASE SelectDay(d) \/ HuntFrom(d) \/ ChangeMonth(step) \/ JumpToHorizon \/ Retry \/ Hunt
      BY <1>1, <2>2, <2>3, CalendarTaps DEF server
    <2>4. CASE FetchMonth
      <3>1. PICK c : c = Call("load", Current, None, picker.month)
        OBVIOUS
      <3>2. Current \in Services /\ picker.month \in Months
        BY <1>0, <2>4, PagesAssumption DEF FetchMonth, PagesInv, Typed, Ui, Where, PickerType, Current
      <3>3. c \in CallRec /\ c.answer = "none"
        BY <3>1, <3>2, CallTyped
      <3>4. calls' = Append(calls, c) /\ UNCHANGED <<flow, taken, mine, seen, lost>>
        BY <2>4, <3>1 DEF FetchMonth, Current, server, history
      <3>5. QED
        BY <1>1, <2>2, <3>3, <3>4
    <2>5. CASE ChooseService(s) \/ BackToTime \/ OpenSheet
      <3>1. flow'.step = "done" => flow' = flow
        BY <1>0, <2>5 DEF ChooseService, BackToTime, OpenSheet, FlowType
      <3>2. QED
        BY <1>1, <2>2, <2>5, <3>1, MountStep DEF server
    <2>6. CASE ChooseSlot(d) \/ BackToService \/ CloseSheet
      <3>1. flow'.step = "done" => flow' = flow
        BY <1>0, <2>6 DEF ChooseSlot, BackToService, CloseSheet, FlowType
      <3>2. QED
        BY <1>1, <2>2, <2>6, <3>1, UnmountStep DEF server
    <2>7. CASE StartOver \/ ChangePendingSlot(d) \/ OpenDialog \/ CloseDialog
      <3>1. flow'.step = "done" => flow' = flow
        BY <2>7 DEF StartOver, ChangePendingSlot, OpenDialog, CloseDialog
      <3>2. QED
        BY <1>1, <2>2, <2>7, <3>1, QuietStep DEF server
    <2>8. CASE Submit \/ ConfirmMove \/ ConfirmCancel
      <3>1. /\ UNCHANGED <<taken, mine, seen, lost>>
            /\ flow'.step = flow.step /\ flow'.confirmation = flow.confirmation
            /\ \E c \in CallRec : c.answer = "none" /\ calls' = Append(calls, c)
        BY <2>8, SubmitStep DEF server
      <3>2. QED
        BY <1>1, <2>2, <3>1
    <2>9. CASE OthersBook(d) \/ OwnerCancels \/ Tick
      <3>1. UNCHANGED <<mine, flow, calls, seen, lost>>
        BY <2>9, OthersStep DEF ui
      <3>2. Once'
        BY <1>0, <2>9, <3>1 DEF OthersBook, OwnerCancels, Tick, Once, Busy
      <3>3. QED
        BY <1>1, <3>1, <3>2
    <2>10. QED
      BY <2>1, <2>3, <2>4, <2>5, <2>6, <2>7, <2>8, <2>9, BookedExecute, BookedAnswer DEF OneOf
  <1>3. CASE UNCHANGED vars
    <2>1. UNCHANGED <<flow, calls, taken, mine, seen, lost>>
      BY <1>3 DEF vars, ui, server, history
    <2>2. Once'
      BY <1>0, <2>1 DEF Once
    <2>3. QED
      BY <1>1, <2>1, <2>2
  <1>4. QED
    BY <1>2, <1>3

LEMMA InitBooked == Init => BookedInv
  <1> SUFFICES ASSUME Init PROVE BookedInv
    OBVIOUS
  <1>1. mine = {} /\ seen = {} /\ Len(calls) = 0 /\ flow.step = "service"
    BY DEF Init
  <1>2. QED
    BY <1>1 DEF BookedInv, Once, Promised, BookingsAreShown

\* A booking the page has made is confirmed with what was booked, or its answer is on the
\* way, or was lost: nothing the customer taps meanwhile makes the page drop the answer.
THEOREM BookingsAreShownHolds == Spec => []BookingsAreShown
  <1>1. BookedInv => BookingsAreShown
    BY DEF BookedInv
  <1>2. QED
    BY <1>1, InitBooked, BookedStep, PagesInvariant, PTL DEF Spec

-----------------------------------------------------------------------------
(* The manage page shows the appointment.                                  *)

\* A change the server has made and the page has not heard of is still how things stand:
\* no other call is executed before the answer, and the owner has not interfered.
Settled ==
    page = "manage" /\ ~touched =>
        \A i \in 1 .. Len(calls) : calls[i].answer = "ok" =>
            /\ calls[i].kind = "move" => /\ calls[i].status = appointment.status
                                         /\ calls[i].day = appointment.day
            /\ calls[i].kind = "cancel" => calls[i].status = appointment.status

SyncedInv == Settled /\ Synced

\* d is the answered call c, unchanged but for who listens.
Still(d, c) == From(d, c) /\ d.answer = c.answer /\ d.status = c.status

LEMMA StillFacts ==
  ASSUME PagesInv,
         \/ calls' = calls
         \/ calls' = Unheard
         \/ \E c \in CallRec : c.answer = "none" /\ calls' = Append(calls, c)
  PROVE  /\ \A i \in 1 .. Len(calls) : \E j \in 1 .. Len(calls') : Still(calls'[j], calls[i])
         /\ \A j \in 1 .. Len(calls') : \/ calls'[j].answer = "none"
                                        \/ \E i \in 1 .. Len(calls) : Still(calls'[j], calls[i])
  <1>0. calls \in Seq(CallRec)
    BY DEF PagesInv, Typed
  <1>1. CASE calls' = calls
    BY <1>1 DEF Still, From
  <1>2. CASE calls' = Unheard
    <2>1. /\ Len(calls') = Len(calls)
          /\ \A i \in 1 .. Len(calls) : /\ calls'[i] = [calls[i] EXCEPT !.heard = FALSE]
                                        /\ calls[i] \in CallRec
      BY <1>0, <1>2, UnheardCalls DEF PagesInv
    <2>2. ASSUME NEW i \in 1 .. Len(calls) PROVE Still(calls'[i], calls[i])
      BY <2>1 DEF From, Still, CallRec
    <2>3. QED
      BY <2>1, <2>2
  <1>3. ASSUME NEW c \in CallRec, c.answer = "none", calls' = Append(calls, c)
        PROVE  /\ \A i \in 1 .. Len(calls) : \E j \in 1 .. Len(calls') : Still(calls'[j], calls[i])
               /\ \A j \in 1 .. Len(calls') : \/ calls'[j].answer = "none"
                                              \/ \E i \in 1 .. Len(calls) : Still(calls'[j], calls[i])
    <2>1. /\ \A i \in 1 .. Len(calls') : \/ i \in 1 .. Len(calls) /\ calls'[i] = calls[i]
                                         \/ calls'[i] = c
          /\ \A i \in 1 .. Len(calls) : i \in 1 .. Len(calls') /\ calls'[i] = calls[i]
      BY <1>0, <1>3, AppendFacts
    <2>2. QED
      BY <1>3, <2>1 DEF Still, From
  <1>4. QED
    BY <1>1, <1>2, <1>3

\* Steps that change neither the appointment nor what the page shows of it.
LEMMA SyncedKeeps ==
  ASSUME PagesInv, SyncedInv, UNCHANGED <<page, appointment, lost, touched>>,
         manage'.status = manage.status, manage'.day = manage.day,
         \/ calls' = calls
         \/ calls' = Unheard
         \/ \E c \in CallRec : c.answer = "none" /\ calls' = Append(calls, c)
  PROVE  SyncedInv'
  <1>1. /\ \A i \in 1 .. Len(calls) : \E j \in 1 .. Len(calls') : Still(calls'[j], calls[i])
        /\ \A j \in 1 .. Len(calls') : \/ calls'[j].answer = "none"
                                       \/ \E i \in 1 .. Len(calls) : Still(calls'[j], calls[i])
    BY StillFacts
  <1>2. Settled'
    <2>1. SUFFICES ASSUME page = "manage", ~touched, NEW j \in 1 .. Len(calls'), calls'[j].answer = "ok"
                   PROVE  /\ calls'[j].kind = "move" => /\ calls'[j].status = appointment.status
                                                        /\ calls'[j].day = appointment.day
                          /\ calls'[j].kind = "cancel" => calls'[j].status = appointment.status
      BY DEF Settled
    <2>2. PICK i \in 1 .. Len(calls) : Still(calls'[j], calls[i])
      BY <1>1, <2>1
    <2>3. QED
      BY <2>1, <2>2 DEF SyncedInv, Settled, Still, From
  <1>3. Synced'
    <2>1. SUFFICES ASSUME page = "manage", lost = {}, ~touched, ~Same
                   PROVE  \E j \in 1 .. Len(calls') :
                             /\ calls'[j].answer = "ok" /\ calls'[j].status = appointment.status
                             /\ \/ calls'[j].kind = "move" /\ calls'[j].day = appointment.day
                                \/ calls'[j].kind = "cancel" /\ manage.day = appointment.day
      BY DEF Synced, Same
    <2>2. PICK i \in 1 .. Len(calls) :
             /\ calls[i].answer = "ok" /\ calls[i].status = appointment.status
             /\ \/ calls[i].kind = "move" /\ calls[i].day = appointment.day
                \/ calls[i].kind = "cancel" /\ manage.day = appointment.day
      BY <2>1 DEF SyncedInv, Synced
    <2>3. PICK j \in 1 .. Len(calls') : Still(calls'[j], calls[i])
      BY <1>1
    <2>4. QED
      BY <2>2, <2>3 DEF Still, From
  <1>4. QED
    BY <1>2, <1>3 DEF SyncedInv

\* What an answer does to what the manage page shows.
LEMMA HearsSynced ==
  ASSUME PagesInv, NEW c \in CallRec, Fits(c), Hears(c)
  PROVE  \/ c.kind = "move" /\ c.answer = "ok" /\ manage'.status = c.status /\ manage'.day = c.day
         \/ c.kind = "cancel" /\ c.answer = "ok" /\ manage'.status = c.status /\ manage'.day = manage.day
         \/ /\ manage'.status = manage.status /\ manage'.day = manage.day
            /\ c.answer = "ok" /\ c.kind \in {"move", "cancel"} => lost' # {}
  <1>0. manage \in ManageType
    BY DEF PagesInv, Typed, Ui
  <1>1. CASE c.kind = "move" /\ c.answer = "ok" /\ Moved(c)
    BY <1>0, <1>1 DEF Moved, ManageType
  <1>2. CASE c.kind = "cancel" /\ c.answer = "ok" /\ Cancelled(c)
    BY <1>0, <1>2 DEF Cancelled, ManageType
  <1>3. CASE (c.kind = "load" \/ c.kind = "book") /\ manage' = manage
    BY <1>3
  <1>4. CASE MoveTaken(c) /\ c.answer = "taken"
    BY <1>0, <1>4 DEF MoveTaken, ManageType
  <1>5. CASE TooLate(c) /\ c.answer = "too_late"
    BY <1>0, <1>5 DEF TooLate, ManageType
  <1>6. CASE Thrown(c) /\ (c.answer = "refused" \/ lost' = lost \cup {c.day})
    <2>1. manage'.status = manage.status /\ manage'.day = manage.day
      BY <1>0, <1>6 DEF Thrown, ManageType
    <2>2. QED
      BY <1>6, <2>1
  <1>7. CASE c.kind = "load" \/ (c.kind = "book" /\ ~Thrown(c))
    BY <1>3, <1>7 DEF Hears, Handle, Loaded, LoadFails, Booked, SlotTaken
  <1>8. CASE Handle(c) /\ c.kind # "load" /\ (c.kind = "book" => Thrown(c))
    BY <1>1, <1>2, <1>4, <1>5, <1>6, <1>8 DEF Handle, Booked, SlotTaken, Thrown
  <1>9. QED
    BY <1>6, <1>7, <1>8 DEF Hears

LEMMA SyncedAnswer ==
  ASSUME PagesInv, SyncedInv, Answer \/ LoseAnswer
  PROVE  SyncedInv'
  <1>1. /\ 1 \in 1 .. Len(calls) /\ calls[1] \in CallRec /\ Fits(calls[1])
        /\ calls[1].answer # "none" /\ calls' = Without(1)
        /\ UNCHANGED <<page, appointment, touched>> /\ Hears(calls[1])
        /\ Settled /\ Synced
    BY AnswerEffect DEF server, SyncedInv
  <1>2. \A j \in 1 .. Len(calls') : calls'[j].answer # "ok"
    BY <1>1, AnswerContinues DEF PagesInv
  <1>3. Settled'
    BY <1>2 DEF Settled
  <1>4. ASSUME page = "manage", lost' = {}, ~touched PROVE Same'
    <2>1. lost = {}
      BY <1>1, <1>4 DEF Hears
    <2>2. \/ Same
          \/ /\ calls[1].answer = "ok" /\ calls[1].status = appointment.status
             /\ \/ calls[1].kind = "move" /\ calls[1].day = appointment.day
                \/ calls[1].kind = "cancel" /\ manage.day = appointment.day
      BY <1>1, <1>4, <2>1 DEF Synced, PagesInv, Out, OnlyFirst
    <2>3. CASE calls[1].kind = "move" /\ calls[1].answer = "ok"
               /\ manage'.status = calls[1].status /\ manage'.day = calls[1].day
      BY <1>1, <1>4, <2>3 DEF Settled, Same
    <2>4. CASE calls[1].kind = "cancel" /\ calls[1].answer = "ok"
               /\ manage'.status = calls[1].status /\ manage'.day = manage.day
      BY <1>1, <1>4, <2>2, <2>4 DEF Settled, Same
    <2>5. CASE /\ manage'.status = manage.status /\ manage'.day = manage.day
               /\ ~(calls[1].answer = "ok" /\ calls[1].kind \in {"move", "cancel"})
      BY <1>1, <2>2, <2>5 DEF Same
    <2>6. QED
      BY <1>1, <1>4, <2>3, <2>4, <2>5, HearsSynced
  <1>5. Synced'
    BY <1>1, <1>4 DEF Synced
  <1>6. QED
    BY <1>3, <1>5 DEF SyncedInv

LEMMA SyncedExecute ==
  ASSUME PagesInv, SyncedInv, Execute
  PROVE  SyncedInv'
  <1>0. calls \in Seq(CallRec) /\ OnlyFirst /\ Synced /\ appointment \in AppointmentType
    BY DEF PagesInv, Typed, Server, Out, SyncedInv
  <1>1. /\ 1 \in 1 .. Len(calls) /\ calls[1].answer = "none"
        /\ UNCHANGED <<page, manage, lost, touched>>
    BY ExecuteEffect DEF ui
  <1>2. PICK d \in CallRec : calls' = [calls EXCEPT ![1] = d] /\ Serves(calls[1], d)
    BY ExecuteEffect
  <1>3. /\ Len(calls') = Len(calls) /\ calls'[1] = d
        /\ \A i \in 1 .. Len(calls) : i # 1 => calls'[i] = calls[i]
    BY <1>0, <1>1, <1>2
  <1>4. \A i \in 1 .. Len(calls) : calls[i].answer # "ok"
    BY <1>0, <1>1 DEF OnlyFirst
  <1>5. \A i \in 1 .. Len(calls') : calls'[i].answer = "ok" => i = 1
    BY <1>3, <1>4
  <1>6. page = "manage" /\ lost = {} /\ ~touched => Same
    BY <1>0, <1>4 DEF Synced
  <1>7. CASE appointment' = appointment /\ ~(d.answer = "ok" /\ d.kind \in {"move", "cancel"})
    <2>1. Settled'
      BY <1>3, <1>5, <1>7 DEF Settled
    <2>2. Synced'
      BY <1>1, <1>6, <1>7 DEF Synced, Same
    <2>3. QED
      BY <2>1, <2>2 DEF SyncedInv
  <1>8. CASE /\ d.kind = "move" /\ d.answer = "ok"
             /\ appointment' = [appointment EXCEPT !.day = d.day] /\ d.status = appointment.status
    <2>1. appointment'.day = d.day /\ appointment'.status = d.status
      BY <1>0, <1>8 DEF AppointmentType
    <2>2. Settled'
      BY <1>3, <1>5, <1>8, <2>1 DEF Settled
    <2>3. Synced'
      BY <1>1, <1>3, <1>8, <2>1 DEF Synced
    <2>4. QED
      BY <2>2, <2>3 DEF SyncedInv
  <1>9. CASE /\ d.kind = "cancel" /\ d.answer = "ok"
             /\ appointment' = [appointment EXCEPT !.status = "cancelled"] /\ d.status = "cancelled"
    <2>1. appointment'.day = appointment.day /\ appointment'.status = d.status
      BY <1>0, <1>9 DEF AppointmentType
    <2>2. Settled'
      BY <1>3, <1>5, <1>9, <2>1 DEF Settled
    <2>3. Synced'
      BY <1>1, <1>3, <1>6, <1>9, <2>1 DEF Synced, Same
    <2>4. QED
      BY <2>2, <2>3 DEF SyncedInv
  <1>10. QED
    BY <1>2, <1>7, <1>8, <1>9 DEF Serves, From

LEMMA SyncedStep == PagesInv /\ SyncedInv /\ [Next]_vars => SyncedInv'
  <1> SUFFICES ASSUME PagesInv, SyncedInv, [Next]_vars PROVE SyncedInv'
    OBVIOUS
  <1>0. flow \in FlowType /\ manage \in ManageType
    BY DEF PagesInv, Typed, Ui
  <1>1. CASE Next
    <2>1. PICK d \in Days, s \in Services, step \in {-1, 1} : OneOf(d, s, step)
      BY <1>1, NextSteps
    <2>2. CASE SelectDay(d) \/ HuntFrom(d) \/ ChangeMonth(step) \/ JumpToHorizon \/ Retry \/ Hunt
      BY <2>2, CalendarTaps, SyncedKeeps DEF server
    <2>3. CASE FetchMonth
      <3>1. PICK c : c = Call("load", Current, None, picker.month)
        OBVIOUS
      <3>2. Current \in Services /\ picker.month \in Months
        BY <1>0, <2>3, PagesAssumption DEF FetchMonth, PagesInv, Typed, Ui, Where, PickerType, Current
      <3>3. c \in CallRec /\ c.answer = "none"
        BY <3>1, <3>2, CallTyped
      <3>4. calls' = Append(calls, c) /\ UNCHANGED <<page, appointment, lost, touched, manage>>
        BY <2>3, <3>1 DEF FetchMonth, Current, server, history
      <3>5. QED
        BY <3>3, <3>4, SyncedKeeps
    <2>4. CASE ChooseService(s) \/ BackToTime \/ OpenSheet
      <3>1. manage'.status = manage.status /\ manage'.day = manage.day
        BY <1>0, <2>4 DEF ChooseService, BackToTime, OpenSheet, ManageType
      <3>2. QED
        BY <2>4, <3>1, MountStep, SyncedKeeps DEF server
    <2>5. CASE ChooseSlot(d) \/ BackToService \/ CloseSheet
      <3>1. manage'.status = manage.status /\ manage'.day = manage.day
        BY <1>0, <2>5 DEF ChooseSlot, BackToService, CloseSheet, ManageType
      <3>2. QED
        BY <2>5, <3>1, UnmountStep, SyncedKeeps DEF server
    <2>6. CASE StartOver \/ ChangePendingSlot(d) \/ OpenDialog \/ CloseDialog
      <3>1. manage'.status = manage.status /\ manage'.day = manage.day
        BY <1>0, <2>6 DEF StartOver, ChangePendingSlot, OpenDialog, CloseDialog, ManageType
      <3>2. QED
        BY <2>6, <3>1, QuietStep, SyncedKeeps DEF server
    <2>7. CASE Submit \/ ConfirmMove \/ ConfirmCancel
      <3>1. manage'.status = manage.status /\ manage'.day = manage.day
        BY <1>0, <2>7 DEF Submit, ConfirmMove, ConfirmCancel, ManageType
      <3>2. /\ UNCHANGED <<page, appointment, lost, touched>>
            /\ \E c \in CallRec : c.answer = "none" /\ calls' = Append(calls, c)
        BY <2>7, SubmitStep DEF server
      <3>3. QED
        BY <3>1, <3>2, SyncedKeeps
    <2>8. CASE OthersBook(d) \/ Tick
      BY <2>8, SyncedKeeps DEF OthersBook, Tick, ui, history
    <2>9. CASE OwnerCancels
      BY <2>9 DEF OwnerCancels, SyncedInv, Settled, Synced
    <2>10. QED
      BY <2>1, <2>2, <2>3, <2>4, <2>5, <2>6, <2>7, <2>8, <2>9, SyncedExecute, SyncedAnswer DEF OneOf
  <1>2. CASE UNCHANGED vars
    BY <1>2, SyncedKeeps DEF vars, ui, server, history
  <1>3. QED
    BY <1>1, <1>2

LEMMA InitSynced == Init => SyncedInv
  <1> SUFFICES ASSUME Init PROVE SyncedInv
    OBVIOUS
  <1>1. Len(calls) = 0 /\ manage.status = appointment.status /\ manage.day = appointment.day
    BY DEF Init
  <1>2. QED
    BY <1>1 DEF SyncedInv, Settled, Synced, Same

\* With neither button pending, the manage page shows the appointment as the server has
\* it, whatever was closed or opened while a change was in flight, unless an answer was
\* lost or the owner changed it meanwhile.
THEOREM ManageShowsServerHolds == Spec => []ManageShowsServer
  <1>1. PagesInv /\ SyncedInv => ManageShowsServer
    BY DEF PagesInv, Out, Fits, SyncedInv, Synced, Same, ManageShowsServer
  <1>2. QED
    BY <1>1, InitSynced, SyncedStep, PagesInvariant, PTL DEF Spec

-----------------------------------------------------------------------------
(* The type invariant of the runs.                                         *)

\* Every variable has its type, the calendar is mounted on the screens that show one, no
\* data is of an epoch to come, and no day has two bookings.
THEOREM PagesTypeCorrect == Spec => []TypeOK
  <1>1. ASSUME PagesInv, FreshInv, BookedInv PROVE TypeOK
    <2>1. /\ Server /\ Ui /\ calls \in Seq(CallRec) /\ Where /\ Epochs /\ Once
          /\ DOMAIN calls = 1 .. Len(calls)
      BY <1>1 DEF PagesInv, Typed, FreshInv, BookedInv
    <2>2. ASSUME NEW e \in CacheRec, e.epoch <= epoch PROVE CacheOf(e)
      BY <2>1, <2>2 DEF CacheOf, CacheRec, Ui
    <2>3. \A m \in Months : CacheOf(picker.cache[m])
      BY <2>1, <2>2 DEF Epochs, Ui, PickerType
    <2>4. ASSUME NEW i \in DOMAIN calls PROVE calls[i].answer \in Answers /\ CacheOf(calls[i].cache)
      <3>1. calls[i] \in CallRec /\ calls[i].cache.epoch <= epoch
        BY <2>1 DEF Epochs
      <3>2. calls[i].answer \in Answers /\ calls[i].cache \in CacheRec
        BY <3>1 DEF CallRec
      <3>3. QED
        BY <2>2, <3>1, <3>2
    <2>5. {d \in Days : d \in {b.day : b \in mine}} \cap taken = {}
      BY <2>1 DEF Once
    <2>6. /\ picker.month \in Months /\ picker.failed \subseteq Months
          /\ picker.kind \in Selections /\ picker.day \in Days \cup {None}
          /\ flow.step \in {"service", "time", "details", "done"}
      BY <2>1 DEF Ui, PickerType, FlowType, Steps
    <2>7. QED
      BY <2>1, <2>3, <2>4, <2>5, <2>6 DEF TypeOK, Server, Ui, Where, Booking, AppointmentType
  <1>2. QED
    BY <1>1, InitFresh, FreshStep, InitBooked, BookedStep, PagesInvariant, PTL DEF Spec

=============================================================================
