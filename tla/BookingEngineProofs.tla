------------------------- MODULE BookingEngineProofs -------------------------
(***************************************************************************)
(* Proofs about BookingEngine, for any number of bookings, calls and days: *)
(* types, the slot locks, no double booking, the refinement of the calendar;*)
(* then the history of a booking - its revision, the customer's unseen     *)
(* change, the verdict a cancellation or a no-show rests on - with no      *)
(* assumption on which placements share a day.                             *)
(***************************************************************************)
EXTENDS BookingEngine, TLAPS

-----------------------------------------------------------------------------
(* Types.                                                                  *)

Phases == {"new", "lock", "check", "judge", "write", "done", "failed"}

\* The record a finished call is left with is one a call can have.
LEMMA BlankArgType == BlankArg \in Arg
  <1>1. (CHOOSE s \in Starts : TRUE) \in Starts
    BY EngineAssumption
  <1>2. (CHOOSE sh \in Shapes : TRUE) \in Shapes
    BY EngineAssumption
  <1>3. QED
    BY <1>1, <1>2 DEF BlankArg, Arg, AllKinds, Actors

LEMMA BeginType ==
  ASSUME TypeOK, NEW c \in Calls, NEW a \in Arg, NEW ph \in Phases, Begin(c, a, ph)
  PROVE  TypeOK'
  <1>1. [a EXCEPT !.at = clock] \in Arg
    BY DEF TypeOK, Arg
  <1>2. arg' \in [Calls -> Arg]
    BY <1>1 DEF TypeOK, Begin
  <1>3. phase' \in [Calls -> Phases]
    BY DEF TypeOK, Begin, Phases
  <1>4. QED
    BY <1>2, <1>3 DEF TypeOK, Begin, table, Phases

LEMMA EndType ==
  ASSUME TypeOK, NEW c \in Calls, NEW outcome \in Phases, End(c, outcome)
  PROVE  /\ phase' \in [Calls -> Phases]
         /\ lockedBy' \in [Days -> Calls \cup {NoCall}]
         /\ arg' \in [Calls -> Arg]
         /\ found' \in [Calls -> BOOLEAN]
         /\ clock' \in Nat
  <1>1. arg' \in [Calls -> Arg]
    BY BlankArgType DEF TypeOK, End
  <1>2. QED
    BY <1>1 DEF TypeOK, End, Phases

LEMMA AbortType ==
  ASSUME TypeOK, NEW c \in Calls, Abort(c)
  PROVE  TypeOK'
  <1>1. End(c, "failed") /\ UNCHANGED table
    BY DEF Abort
  <1>2. "failed" \in Phases
    BY DEF Phases
  <1>3. QED
    BY <1>1, <1>2, EndType DEF TypeOK, table, Phases

LEMMA StartType ==
  ASSUME TypeOK, NEW c \in Calls, Start(c)
  PROVE  TypeOK'
  <1> USE BlankArgType DEF Phases
  <1>1. CASE BeginCreate(c)
    <2>1. PICK by \in Actors, s \in Starts, sh \in Shapes, st \in {"pending", "confirmed"},
               allow \in BOOLEAN :
            Begin(c, [BlankArg EXCEPT !.kind = "create", !.by = by, !.start = s,
                                      !.shape = sh, !.status = st, !.allow = allow], "lock")
      BY <1>1 DEF BeginCreate
    <2>2. [BlankArg EXCEPT !.kind = "create", !.by = by, !.start = s,
                           !.shape = sh, !.status = st, !.allow = allow] \in Arg
      BY DEF Arg, AllKinds
    <2>3. QED
      BY <2>1, <2>2, BeginType
  <1>2. CASE BeginReschedule(c)
    <2>1. PICK b \in Bookings, by \in Actors, s \in Starts, allow \in BOOLEAN :
            Begin(c, [BlankArg EXCEPT !.kind = "reschedule", !.by = by, !.booking = b,
                                      !.start = s, !.shape = shape[b], !.allow = allow], "lock")
      BY <1>2 DEF BeginReschedule
    <2>2. [BlankArg EXCEPT !.kind = "reschedule", !.by = by, !.booking = b,
                           !.start = s, !.shape = shape[b], !.allow = allow] \in Arg
      BY DEF Arg, AllKinds, TypeOK
    <2>3. QED
      BY <2>1, <2>2, BeginType
  <1>3. CASE BeginCancel(c)
    <2>1. PICK b \in Bookings, by \in Actors :
            Begin(c, [BlankArg EXCEPT !.kind = "cancel", !.by = by, !.booking = b],
                  IF by = "customer" THEN "judge" ELSE "write")
      BY <1>3 DEF BeginCancel
    <2>2. [BlankArg EXCEPT !.kind = "cancel", !.by = by, !.booking = b] \in Arg
      BY DEF Arg, AllKinds
    <2>3. QED
      BY <2>1, <2>2, BeginType
  <1>4. CASE BeginNoShow(c)
    <2>1. PICK b \in Bookings :
            Begin(c, [BlankArg EXCEPT !.kind = "noShow", !.booking = b], "judge")
      BY <1>4 DEF BeginNoShow
    <2>2. [BlankArg EXCEPT !.kind = "noShow", !.booking = b] \in Arg
      BY DEF Arg, AllKinds
    <2>3. QED
      BY <2>1, <2>2, BeginType
  <1>5. CASE BeginOwnerMark(c)
    <2>1. PICK b \in Bookings, kind \in {"confirm", "seen"} :
            Begin(c, [BlankArg EXCEPT !.kind = kind, !.booking = b, !.saw = changedAt[b]],
                  "write")
      BY <1>5 DEF BeginOwnerMark
    <2>2. [BlankArg EXCEPT !.kind = kind, !.booking = b, !.saw = changedAt[b]] \in Arg
      BY DEF Arg, AllKinds, TypeOK
    <2>3. QED
      BY <2>1, <2>2, BeginType
  <1>6. CASE BeginAllSeen(c)
    <2>1. [BlankArg EXCEPT !.kind = "allSeen"] \in Arg
      BY DEF Arg, AllKinds
    <2>2. QED
      BY <1>6, <2>1, BeginType DEF BeginAllSeen
  <1>7. QED
    BY <1>1, <1>2, <1>3, <1>4, <1>5, <1>6 DEF Start

LEMMA StampType ==
  ASSUME TypeOK, NEW c \in Calls, NEW b \in Bookings, StampChange(c, b)
  PROVE  changedAt' \in [Bookings -> Nat] /\ seenAt' \in [Bookings -> Nat]
  <1>1. arg[c].at \in Nat
    BY DEF TypeOK, Arg
  <1>2. QED
    BY <1>1 DEF StampChange, TypeOK

LEMMA StatementType ==
  ASSUME TypeOK, TargetsExist, NEW c \in Calls, Statement(c)
  PROVE  TypeOK'
  <1>0. "done" \in Phases /\ arg[c] \in Arg
    BY DEF Phases, TypeOK
  <1>1. CASE LockDay(c)
    BY <1>1, <1>0 DEF LockDay, Proceed, TypeOK, table
  <1>2. CASE CheckConflict(c)
    <2>1. CASE Abort(c)
      BY <2>1, AbortType
    <2>2. CASE /\ found' = [found EXCEPT ![c] = FindConflict(arg[c].start, arg[c].shape, Excluded(c))]
               /\ Proceed(c, "write")
               /\ UNCHANGED lockedBy
      <3>1. FindConflict(arg[c].start, arg[c].shape, Excluded(c)) \in BOOLEAN
        BY DEF FindConflict
      <3>2. QED
        BY <2>2, <3>1 DEF Proceed, TypeOK, table
    <2>3. QED
      BY <1>2, <2>1, <2>2 DEF CheckConflict
  <1>3. CASE InsertBooking(c)
    <2>1. arg[c].status \in {"pending", "confirmed"} /\ arg[c].start \in Starts
          /\ arg[c].shape \in Shapes /\ arg[c].at \in Nat /\ found[c] \in BOOLEAN
      BY <1>0 DEF Arg, TypeOK
    <2>2. End(c, "done")
      BY <1>3 DEF InsertBooking
    <2>3. QED
      BY <1>3, <1>0, <2>1, <2>2, EndType DEF InsertBooking, TypeOK, Phases
  <1>4. CASE MoveBooking(c)
    <2>1. arg[c].start \in Starts /\ found[c] \in BOOLEAN
      BY <1>0 DEF Arg, TypeOK
    <2>2. End(c, "done")
      BY <1>4 DEF MoveBooking
    <2>3. arg[c].booking \in Bookings
      BY <1>4 DEF MoveBooking, TargetsExist, Running
    <2>4. StampChange(c, arg[c].booking)
      BY <1>4 DEF MoveBooking
    <2>5. revision' \in [Bookings -> Nat]
      BY <1>4, <2>3 DEF MoveBooking, TypeOK
    <2>6. /\ starts' \in [Bookings -> Starts] /\ overlapped' \in [Bookings -> BOOLEAN]
          /\ UNCHANGED <<status, shape>>
      BY <1>4, <2>1 DEF MoveBooking, TypeOK
    <2>7. QED
      BY <1>0, <2>2, <2>3, <2>4, <2>5, <2>6, EndType, StampType DEF TypeOK, Phases
  <1>5. CASE JudgeNotice(c)
    <2>1. CASE Abort(c)
      BY <2>1, AbortType
    <2>2. CASE /\ phase' = [phase EXCEPT ![c] = "write"]
               /\ arg' = [arg EXCEPT ![c].saw = revision[arg[c].booking]]
               /\ UNCHANGED <<table, clock, lockedBy, found>>
      <3>1. revision[arg[c].booking] \in Nat
        BY <1>5 DEF JudgeNotice, TypeOK, TargetsExist, Running
      <3>2. arg' \in [Calls -> Arg]
        BY <2>2, <3>1 DEF TypeOK, Arg
      <3>3. QED
        BY <2>2, <3>2 DEF TypeOK, table
    <2>3. QED
      BY <1>5, <2>1, <2>2 DEF JudgeNotice
  <1>6. CASE CancelBooking(c)
    <2>1. End(c, "done")
      BY <1>6 DEF CancelBooking
    <2>2. arg[c].booking \in Bookings
      BY <1>6 DEF CancelBooking, TargetsExist, Running
    <2>3. StampChange(c, arg[c].booking)
      BY <1>6 DEF CancelBooking
    <2>4. revision' \in [Bookings -> Nat]
      BY <1>6, <2>2 DEF CancelBooking, TypeOK
    <2>5. QED
      BY <1>0, <1>6, <2>1, <2>2, <2>3, <2>4, EndType, StampType
      DEF CancelBooking, TypeOK, Phases
  <1>7. CASE JudgeFinished(c)
    <2>1. CASE Abort(c)
      BY <2>1, AbortType
    <2>2. CASE /\ phase' = [phase EXCEPT ![c] = "write"]
               /\ arg' = [arg EXCEPT ![c].saw = revision[arg[c].booking]]
               /\ UNCHANGED <<table, clock, lockedBy, found>>
      <3>1. revision[arg[c].booking] \in Nat
        BY <1>7 DEF JudgeFinished, TypeOK, TargetsExist, Running
      <3>2. arg' \in [Calls -> Arg]
        BY <2>2, <3>1 DEF TypeOK, Arg
      <3>3. QED
        BY <2>2, <3>2 DEF TypeOK, table
    <2>3. QED
      BY <1>7, <2>1, <2>2 DEF JudgeFinished
  <1>8. CASE MarkNoShow(c)
    <2>1. End(c, "done")
      BY <1>8 DEF MarkNoShow
    <2>2. arg[c].booking \in Bookings
      BY <1>8 DEF MarkNoShow, TargetsExist, Running
    <2>3. revision' \in [Bookings -> Nat]
      BY <1>8, <2>2 DEF MarkNoShow, TypeOK
    <2>4. QED
      BY <1>8, <1>0, <2>1, <2>3, EndType DEF MarkNoShow, TypeOK, Phases
  <1>9. CASE ConfirmBooking(c)
    <2>1. End(c, "done")
      BY <1>9 DEF ConfirmBooking
    <2>2. QED
      BY <1>9, <1>0, <2>1, EndType DEF ConfirmBooking, TypeOK, Phases
  <1>10. CASE MarkBookingSeen(c)
    <2>1. arg[c].at \in Nat
      BY <1>0 DEF Arg
    <2>2. End(c, "done")
      BY <1>10 DEF MarkBookingSeen
    <2>3. QED
      BY <1>10, <1>0, <2>1, <2>2, EndType DEF MarkBookingSeen, TypeOK, Phases
  <1>11. CASE MarkAllSeen(c)
    <2>1. arg[c].at \in Nat
      BY <1>0 DEF Arg
    <2>2. End(c, "done")
      BY <1>11 DEF MarkAllSeen
    <2>3. QED
      BY <1>11, <1>0, <2>1, <2>2, EndType DEF MarkAllSeen, TypeOK, Phases
  <1>12. QED
    BY <1>1, <1>2, <1>3, <1>4, <1>5, <1>6, <1>7, <1>8, <1>9, <1>10, <1>11 DEF Statement

-----------------------------------------------------------------------------
(* What a step leaves alone.                                               *)

\* The step is some other call's: d is where it was and keeps its locks.
Untouched(d) ==
    /\ phase'[d] = phase[d] /\ arg'[d] = arg[d] /\ found'[d] = found[d]
    /\ \A day \in Days : lockedBy[day] = d => lockedBy'[day] = d

LEMMA EndFrame ==
  ASSUME TypeOK, NEW c \in Calls, NEW outcome \in {"done", "failed"}, End(c, outcome)
  PROVE  /\ phase'[c] = outcome
         /\ \A d \in Calls \ {c} : Untouched(d)
  BY DEF End, Untouched, TypeOK

LEMMA StepFrame ==
  ASSUME TypeOK, NEW c \in Calls, Start(c) \/ Statement(c) \/ Rollback(c)
  PROVE  \A d \in Calls \ {c} : Untouched(d)
  <1>1. ASSUME NEW a, NEW ph, Begin(c, a, ph)
        PROVE  \A d \in Calls \ {c} : Untouched(d)
    BY <1>1 DEF Begin, Untouched, TypeOK
  <1>2. CASE Start(c)
    BY <1>1, <1>2 DEF Start, BeginCreate, BeginReschedule, BeginCancel, BeginNoShow,
                      BeginOwnerMark, BeginAllSeen
  <1>3. ASSUME Abort(c) PROVE \A d \in Calls \ {c} : Untouched(d)
    BY <1>3, EndFrame DEF Abort
  <1>4. CASE Statement(c)
    <2>1. CASE LockDay(c)
      <3>1. \A day \in Days : lockedBy[day] \in Calls => lockedBy'[day] = lockedBy[day]
        BY <2>1, EngineAssumption DEF LockDay, TypeOK
      <3>2. QED
        BY <2>1, <3>1 DEF LockDay, Proceed, Untouched, TypeOK
    <2>2. CASE CheckConflict(c)
      BY <2>2, <1>3 DEF CheckConflict, Proceed, Untouched, TypeOK
    <2>3. CASE JudgeNotice(c)
      BY <2>3, <1>3 DEF JudgeNotice, Untouched, TypeOK
    <2>4. CASE JudgeFinished(c)
      BY <2>4, <1>3 DEF JudgeFinished, Untouched, TypeOK
    <2>5. CASE End(c, "done")
      BY <2>5, EndFrame
    <2>6. QED
      BY <1>4, <2>1, <2>2, <2>3, <2>4, <2>5
      DEF Statement, InsertBooking, MoveBooking, CancelBooking, MarkNoShow, ConfirmBooking,
          MarkBookingSeen, MarkAllSeen
  <1>5. CASE Rollback(c)
    BY <1>3, <1>5 DEF Rollback
  <1>6. QED
    BY <1>2, <1>4, <1>5

\* c places booking b: a new row, or the row c was asked to move.
Places(c, b) ==
    /\ phase[c] = "write" /\ Placement(c)
    /\ \/ arg[c].booking = NoBooking /\ status[b] = "none"
             /\ status'[b] \in {"pending", "confirmed"}
       \/ arg[c].booking = b /\ status[b] # "none" /\ status'[b] = status[b]
    /\ starts' = [starts EXCEPT ![b] = arg[c].start]
    /\ shape' = [shape EXCEPT ![b] = arg[c].shape]
    /\ overlapped' = [overlapped EXCEPT ![b] = found[c]]
    /\ \A a \in Bookings \ {b} : status'[a] = status[a]

\* No booking is placed: rows stay where they are, and none becomes live.
OnlyFrees ==
    /\ UNCHANGED <<starts, shape, overlapped>>
    /\ \A b \in Bookings : /\ Live(b)' => Live(b)
                           /\ status[b] = "none" <=> status'[b] = "none"
                           /\ Gone(b) => Gone(b)'
    /\ \/ \A b \in Bookings : Live(b)' = Live(b) /\ Gone(b)' = Gone(b)
       \/ \E b \in Bookings : /\ status[b] # "none" /\ Gone(b)'
                              /\ \A a \in Bookings \ {b} : status'[a] = status[a]

LEMMA StatementEffect ==
  ASSUME TypeOK, TargetsExist, NEW c \in Calls, Statement(c)
  PROVE  (\E b \in Bookings : Places(c, b)) \/ OnlyFrees
  <1>1. CASE UNCHANGED table
    BY <1>1 DEF OnlyFrees, table, Live, Gone
  <1>2. CASE InsertBooking(c)
    <2>1. arg[c].booking = NoBooking
      BY <1>2 DEF InsertBooking, TargetsExist, Running
    <2>2. arg[c].status \in {"pending", "confirmed"}
      BY DEF TypeOK, Arg
    <2>3. QED
      BY <1>2, <2>1, <2>2 DEF InsertBooking, Places, Placement, TypeOK
  <1>3. CASE MoveBooking(c)
    <2>1. /\ arg[c].booking \in Bookings /\ status[arg[c].booking] # "none"
          /\ arg[c].shape = shape[arg[c].booking]
      BY <1>3 DEF MoveBooking, TargetsExist, Running
    <2>2. shape' = [shape EXCEPT ![arg[c].booking] = arg[c].shape]
      BY <1>3, <2>1 DEF MoveBooking, TypeOK
    <2>3. Places(c, arg[c].booking)
      BY <1>3, <2>1, <2>2 DEF MoveBooking, Places, Placement, TypeOK
    <2>4. QED
      BY <2>1, <2>3
  <1>4. CASE CancelBooking(c) \/ MarkNoShow(c)
    <2>1. arg[c].booking \in Bookings /\ status[arg[c].booking] # "none"
      BY <1>4 DEF CancelBooking, MarkNoShow, TargetsExist, Running
    <2>2. /\ UNCHANGED <<starts, shape, overlapped>>
          /\ status' \in {[status EXCEPT ![arg[c].booking] = "cancelled"],
                          [status EXCEPT ![arg[c].booking] = "no_show"]}
      BY <1>4 DEF CancelBooking, MarkNoShow
    <2>3. /\ status'[arg[c].booking] \in {"cancelled", "no_show"}
          /\ \A a \in Bookings \ {arg[c].booking} : status'[a] = status[a]
      BY <2>1, <2>2 DEF TypeOK
    <2>4. QED
      BY <2>1, <2>2, <2>3 DEF OnlyFrees, Live, Gone
  <1>5. CASE ConfirmBooking(c)
    BY <1>5 DEF ConfirmBooking, OnlyFrees, Live, Gone, TypeOK
  <1>6. CASE MarkBookingSeen(c) \/ MarkAllSeen(c)
    BY <1>6 DEF MarkBookingSeen, MarkAllSeen, OnlyFrees, Live, Gone
  <1>7. QED
    BY <1>1, <1>2, <1>3, <1>4, <1>5, <1>6
    DEF Statement, LockDay, CheckConflict, JudgeNotice, JudgeFinished, Proceed, Abort

\* A step places one booking or places none.
LEMMA StepEffect ==
  ASSUME TypeOK, TargetsExist, [Next]_vars
  PROVE  (\E c \in Calls, b \in Bookings : Places(c, b) /\ Statement(c)) \/ OnlyFrees
  <1>1. CASE UNCHANGED table
    BY <1>1 DEF OnlyFrees, table, Live, Gone
  <1>2. CASE \E c \in Calls : Statement(c)
    BY <1>2, StatementEffect
  <1>3. ASSUME NEW c \in Calls, Start(c) PROVE UNCHANGED table
    BY <1>3 DEF Start, BeginCreate, BeginReschedule, BeginCancel, BeginNoShow,
                BeginOwnerMark, BeginAllSeen, Begin
  <1>4. QED
    BY <1>1, <1>2, <1>3 DEF Next, Rollback, Abort, Tick, vars

\* Rows are never deleted and never change their shape.
LEMMA RowsPersist ==
  ASSUME TypeOK, TargetsExist, [Next]_vars,
         NEW b \in Bookings, status[b] # "none"
  PROVE  status'[b] # "none" /\ shape'[b] = shape[b]
  <1>1. CASE OnlyFrees
    BY <1>1 DEF OnlyFrees
  <1>2. ASSUME NEW c \in Calls, NEW a \in Bookings, Places(c, a)
        PROVE  status'[b] # "none" /\ shape'[b] = shape[b]
    <2>1. CASE a = b
      <3>1. phase[c] = "write" /\ Placement(c) /\ arg[c].booking = b
        BY <1>2, <2>1 DEF Places
      <3>2. arg[c].shape = shape[b]
        BY <3>1, EngineAssumption DEF TargetsExist, Placement, Running
      <3>3. QED
        BY <1>2, <2>1, <3>2 DEF Places, TypeOK
    <2>2. CASE a # b
      BY <1>2, <2>2 DEF Places, TypeOK
    <2>3. QED
      BY <2>1, <2>2
  <1>3. QED
    BY <1>1, <1>2, StepEffect

-----------------------------------------------------------------------------
(* Calls keep naming rows that exist.                                      *)

Named(a) ==
    /\ a.kind = "create" => a.booking = NoBooking
    /\ a.kind \notin {"create", "allSeen"} =>
          a.booking \in Bookings /\ status[a.booking] # "none"
    /\ a.kind = "reschedule" => a.shape = shape[a.booking]

LEMMA BlankArgNamesNothing == BlankArg.booking = NoBooking
  BY DEF BlankArg

LEMMA StartNames ==
  ASSUME TypeOK, NEW c \in Calls, Start(c)
  PROVE  /\ Named(arg'[c])
         /\ phase'[c] = "lock" \/ (phase'[c] \in {"judge", "write"} /\ ~Placement(c)')
         /\ phase'[c] = "lock" => Placement(c)'
         /\ UNCHANGED table
  <1> USE BlankArgType, BlankArgNamesNothing DEF Arg, TypeOK, Begin, Named, Placement
  <1>1. CASE BeginCreate(c)
    BY <1>1 DEF BeginCreate
  <1>2. CASE BeginReschedule(c)
    BY <1>2 DEF BeginReschedule
  <1>3. CASE BeginCancel(c)
    BY <1>3 DEF BeginCancel
  <1>4. CASE BeginNoShow(c)
    BY <1>4 DEF BeginNoShow
  <1>5. CASE BeginOwnerMark(c)
    BY <1>5 DEF BeginOwnerMark
  <1>6. CASE BeginAllSeen(c)
    BY <1>6 DEF BeginAllSeen
  <1>7. QED
    BY <1>1, <1>2, <1>3, <1>4, <1>5, <1>6 DEF Start

LEMMA StatementKeepsArg ==
  ASSUME TypeOK, NEW c \in Calls, Statement(c), Running(c)'
  PROVE  /\ Running(c) /\ phase'[c] \in {"check", "write"}
         /\ arg'[c].kind = arg[c].kind /\ arg'[c].booking = arg[c].booking
         /\ arg'[c].start = arg[c].start /\ arg'[c].shape = arg[c].shape
  <1>1. ASSUME NEW outcome \in {"done", "failed"}, End(c, outcome) PROVE FALSE
    BY <1>1, EndFrame DEF Running
  <1>2. CASE LockDay(c)
    BY <1>2 DEF LockDay, Proceed, Running, TypeOK
  <1>3. CASE CheckConflict(c)
    BY <1>1, <1>3 DEF CheckConflict, Abort, Proceed, Running, TypeOK
  <1>4. CASE JudgeNotice(c)
    BY <1>1, <1>4 DEF JudgeNotice, Abort, Running, TypeOK, Arg
  <1>5. CASE JudgeFinished(c)
    BY <1>1, <1>5 DEF JudgeFinished, Abort, Running, TypeOK, Arg
  <1>6. QED
    BY <1>1, <1>2, <1>3, <1>4, <1>5
    DEF Statement, InsertBooking, MoveBooking, CancelBooking, MarkNoShow, ConfirmBooking,
        MarkBookingSeen, MarkAllSeen

LEMMA TargetsStep ==
  ASSUME TypeOK, TargetsExist, [Next]_vars
  PROVE  TargetsExist'
  <1> SUFFICES ASSUME NEW d \in Calls, Running(d)'
               PROVE  Named(arg[d])'
    BY DEF TargetsExist, Named
  <1>1. ASSUME Running(d), arg'[d].kind = arg[d].kind, arg'[d].booking = arg[d].booking,
               arg'[d].shape = arg[d].shape
        PROVE  Named(arg[d])'
    <2>1. Named(arg[d])
      BY <1>1 DEF TargetsExist, Named
    <2>2. CASE arg[d].kind \in {"create", "allSeen"}
      BY <1>1, <2>1, <2>2 DEF Named
    <2>3. CASE arg[d].kind \notin {"create", "allSeen"}
      <3>1. status'[arg[d].booking] # "none" /\ shape'[arg[d].booking] = shape[arg[d].booking]
        BY <2>1, <2>3, RowsPersist DEF Named
      <3>2. QED
        BY <1>1, <2>1, <2>3, <3>1 DEF Named
    <2>4. QED
      BY <2>2, <2>3
  <1>2. CASE Untouched(d)
    BY <1>1, <1>2 DEF Untouched, Running
  <1>3. CASE Start(d)
    BY <1>3, StartNames DEF Named, table
  <1>4. CASE Statement(d)
    BY <1>1, <1>4, StatementKeepsArg
  <1>5. CASE Rollback(d)
    BY <1>5, EndFrame DEF Rollback, Abort, Running
  <1>6. CASE Tick \/ UNCHANGED vars
    BY <1>2, <1>6 DEF Tick, vars, Untouched
  <1>7. QED
    BY <1>2, <1>3, <1>4, <1>5, <1>6, StepFrame DEF Next

\* The types are inductive together with the names: a no-show judged on a row that
\* does not exist would read no revision.
LEMMA TypeStep ==
  ASSUME TypeOK, TargetsExist, [Next]_vars
  PROVE  TypeOK'
  <1>1. CASE Tick
    BY <1>1 DEF Tick, TypeOK, table
  <1>2. CASE UNCHANGED vars
    BY <1>2 DEF vars, table, TypeOK
  <1>3. QED
    BY <1>1, <1>2, StartType, StatementType, AbortType DEF Next, Rollback

LEMMA InitTypes == Init => TypeOK /\ TargetsExist
  BY BlankArgType, EngineAssumption DEF Init, TypeOK, TargetsExist, Running, Arg

\* Type correctness of the engine, for all values of its constants.
THEOREM TypeCorrect == Spec => []TypeOK
  <1>1. TypeOK /\ TargetsExist /\ [Next]_vars => (TypeOK /\ TargetsExist)'
    BY TypeStep, TargetsStep
  <1>2. QED
    BY <1>1, InitTypes, PTL DEF Spec

-----------------------------------------------------------------------------
(* The day locks.                                                          *)

LEMMA LocksStep ==
  ASSUME TypeOK, TargetsExist, LocksHeld, [Next]_vars
  PROVE  LocksHeld'
  <1> DEFINE Held(d) == /\ phase[d] \in {"lock", "check"} => Placement(d)
                        /\ (phase[d] \in {"check", "write"} /\ Placement(d))
                              => lockedBy[DayOf(arg[d].start)] = d
  <1> SUFFICES ASSUME NEW d \in Calls
               PROVE  Held(d)'
    BY DEF LocksHeld
  <1>1. Held(d)
    BY DEF LocksHeld
  <1>2. arg[d].start \in Starts /\ DayOf(arg[d].start) \in Days
    BY EngineAssumption DEF TypeOK, Arg
  <1>3. CASE Untouched(d)
    BY <1>1, <1>2, <1>3 DEF Untouched, Placement
  <1>4. CASE Start(d)
    BY <1>4, StartNames DEF Placement
  <1>5. CASE Statement(d)
    <2>1. CASE ~Running(d)'
      BY <2>1 DEF Running
    <2>2. CASE Running(d)'
      <3>1. /\ phase'[d] \in {"check", "write"} /\ Placement(d)' = Placement(d)
            /\ arg'[d].start = arg[d].start
        BY <1>5, <2>2, StatementKeepsArg DEF Placement
      <3>2. CASE LockDay(d)
        BY <1>1, <1>2, <3>1, <3>2 DEF LockDay, TypeOK
      <3>3. CASE CheckConflict(d)
        <4>1. ~Abort(d)
          BY <2>2, EndFrame DEF Abort, Running
        <4>2. QED
          BY <1>1, <3>1, <3>3, <4>1 DEF CheckConflict, Proceed
      <3>4. CASE JudgeNotice(d) \/ JudgeFinished(d)
        <4>1. ~Abort(d)
          BY <2>2, EndFrame DEF Abort, Running
        <4>2. ~Placement(d) /\ phase'[d] = "write"
          BY <3>4, <4>1 DEF JudgeNotice, JudgeFinished, Placement, TypeOK
        <4>3. QED
          BY <3>1, <4>2
      <3>5. CASE End(d, "done")
        BY <2>2, <3>5, EndFrame DEF Running
      <3>6. QED
        BY <1>5, <3>2, <3>3, <3>4, <3>5
        DEF Statement, InsertBooking, MoveBooking, CancelBooking, MarkNoShow,
            ConfirmBooking, MarkBookingSeen, MarkAllSeen
    <2>3. QED
      BY <2>1, <2>2
  <1>6. CASE Rollback(d)
    BY <1>6, EndFrame DEF Rollback, Abort
  <1>7. CASE Tick \/ UNCHANGED vars
    BY <1>3, <1>7 DEF Tick, vars, Untouched
  <1>8. QED
    BY <1>3, <1>4, <1>5, <1>6, <1>7, StepFrame DEF Next

-----------------------------------------------------------------------------
(* No silent overlap.                                                      *)

\* Two calls about to write placements place them on different days, so that neither
\* can fall into the interval the other has found free.
LEMMA WritersApart ==
  ASSUME TypeOK, LocksHeld, OverlapsShareADay,
         NEW c \in Calls, NEW d \in Calls, c # d,
         phase[c] = "write", Placement(c), phase[d] = "write", Placement(d)
  PROVE  ~Overlap(Blocked(arg[c].start, arg[c].shape), Blocked(arg[d].start, arg[d].shape))
  <1>1. lockedBy[DayOf(arg[c].start)] = c /\ lockedBy[DayOf(arg[d].start)] = d
    BY DEF LocksHeld
  <1>2. /\ arg[c].start \in Starts /\ arg[c].shape \in Shapes
        /\ arg[d].start \in Starts /\ arg[d].shape \in Shapes
    BY DEF TypeOK, Arg
  <1>3. QED
    BY <1>1, <1>2 DEF OverlapsShareADay

LEMMA AnswersStep ==
  ASSUME TypeOK, TargetsExist, LocksHeld, AnswersStand, OverlapsShareADay, [Next]_vars
  PROVE  AnswersStand'
  <1> SUFFICES ASSUME NEW d \in Calls, phase'[d] = "write", Placement(d)', ~found'[d],
                      NEW a \in Bookings
               PROVE  ~Conflicts(a, arg[d].start, arg[d].shape, Excluded(d))'
    BY DEF AnswersStand, FindConflict
  <1>1. CASE Untouched(d)
    <2>1. /\ phase[d] = "write" /\ Placement(d) /\ arg'[d] = arg[d]
          /\ ~Conflicts(a, arg[d].start, arg[d].shape, Excluded(d))
      BY <1>1 DEF Untouched, AnswersStand, FindConflict, Placement
    <2>2. CASE OnlyFrees
      BY <2>1, <2>2 DEF OnlyFrees, Conflicts, BlockedBy, Excluded
    <2>3. ASSUME NEW c \in Calls, NEW b \in Bookings, Places(c, b), Statement(c)
          PROVE  ~Conflicts(a, arg[d].start, arg[d].shape, Excluded(d))'
      <3>1. CASE a = b
        <4>1. c # d
          <5>1. InsertBooking(c) \/ MoveBooking(c) => End(c, "done")
            BY DEF InsertBooking, MoveBooking
          <5>2. InsertBooking(c) \/ MoveBooking(c)
            BY <2>3 DEF Places, Placement, Statement, LockDay, CheckConflict, JudgeNotice,
                        CancelBooking, JudgeFinished, MarkNoShow, ConfirmBooking,
                        MarkBookingSeen, MarkAllSeen
          <5>3. QED
            BY <5>1, <5>2, EndFrame
        <4>2. BlockedBy(b)' = Blocked(arg[c].start, arg[c].shape)
          BY <2>3 DEF Places, BlockedBy, TypeOK
        <4>3. ~Overlap(Blocked(arg[c].start, arg[c].shape), Blocked(arg[d].start, arg[d].shape))
          BY <2>1, <2>3, <4>1, WritersApart DEF Places
        <4>4. QED
          BY <2>1, <3>1, <4>2, <4>3 DEF Conflicts, Overlap, Blocked
      <3>2. CASE a # b
        <4>1. BlockedBy(a)' = BlockedBy(a) /\ Live(a)' = Live(a)
          BY <2>3, <3>2 DEF Places, BlockedBy, Live, TypeOK
        <4>2. QED
          BY <2>1, <4>1 DEF Conflicts, Excluded, Overlap, Blocked
      <3>3. QED
        BY <3>1, <3>2
    <2>4. QED
      BY <2>2, <2>3, StepEffect
  <1>2. CASE Start(d)
    BY <1>2, StartNames
  <1>3. CASE Statement(d)
    <2>1. ~End(d, "done") /\ ~Abort(d)
      BY EndFrame DEF Abort
    <2>2. CASE CheckConflict(d)
      <3>1. /\ Proceed(d, "write")
            /\ found' = [found EXCEPT ![d] =
                           FindConflict(arg[d].start, arg[d].shape, Excluded(d))]
        BY <2>1, <2>2 DEF CheckConflict
      <3>2. ~FindConflict(arg[d].start, arg[d].shape, Excluded(d))
        BY <3>1 DEF TypeOK
      <3>3. QED
        BY <3>1, <3>2 DEF FindConflict, Conflicts, Proceed, table, Live, BlockedBy, Excluded
    <2>3. CASE LockDay(d)
      BY <2>3 DEF LockDay, Proceed, TypeOK
    <2>4. CASE JudgeNotice(d) \/ JudgeFinished(d)
      <3>1. arg'[d].kind = arg[d].kind
        BY <2>1, <2>4 DEF JudgeNotice, JudgeFinished, TypeOK, Arg
      <3>2. QED
        BY <2>4, <3>1 DEF JudgeNotice, JudgeFinished, Placement
    <2>5. QED
      BY <1>3, <2>1, <2>2, <2>3, <2>4
      DEF Statement, InsertBooking, MoveBooking, CancelBooking, MarkNoShow,
          ConfirmBooking, MarkBookingSeen, MarkAllSeen
  <1>4. CASE Rollback(d)
    BY <1>4, EndFrame DEF Rollback, Abort
  <1>5. CASE Tick \/ UNCHANGED vars
    BY <1>1, <1>5 DEF Tick, vars, Untouched
  <1>6. QED
    BY <1>1, <1>2, <1>3, <1>4, <1>5, StepFrame DEF Next

\* A placement about which the caller is told nothing lands on no live booking.
LEMMA UntoldPlacementIsClear ==
  ASSUME TypeOK, AnswersStand, NEW c \in Calls, NEW b \in Bookings, Places(c, b),
         ~found[c], NEW a \in Bookings, a # b, Live(a)
  PROVE  ~Overlap(BlockedBy(a), Blocked(arg[c].start, arg[c].shape))
  <1>1. ~Conflicts(a, arg[c].start, arg[c].shape, Excluded(c))
    BY DEF AnswersStand, FindConflict, Places
  <1>2. a # Excluded(c)
    BY EngineAssumption DEF Places, Excluded
  <1>3. QED
    BY <1>1, <1>2 DEF Conflicts

LEMMA NoSilentOverlapStep ==
  ASSUME TypeOK, TypeOK', TargetsExist, AnswersStand, NoSilentOverlap, [Next]_vars
  PROVE  NoSilentOverlap'
  <1>1. CASE OnlyFrees
    BY <1>1 DEF OnlyFrees, NoSilentOverlap, BlockedBy
  <1>2. ASSUME NEW c \in Calls, NEW b \in Bookings, Places(c, b)
        PROVE  NoSilentOverlap'
    <2>1. /\ BlockedBy(b)' = Blocked(arg[c].start, arg[c].shape)
          /\ overlapped'[b] = found[c]
      BY <1>2 DEF Places, BlockedBy, TypeOK
    <2>2. \A a \in Bookings \ {b} :
            /\ BlockedBy(a)' = BlockedBy(a) /\ Live(a)' = Live(a)
            /\ overlapped'[a] = overlapped[a]
      BY <1>2 DEF Places, BlockedBy, Live, TypeOK
    <2>3. ASSUME NEW a \in Bookings, a # b, Live(a)', Overlap(BlockedBy(a), BlockedBy(b))'
          PROVE  overlapped'[b]
      BY <1>2, <2>1, <2>2, <2>3, UntoldPlacementIsClear DEF Overlap
    <2>4. ASSUME NEW a \in Bookings, a # b, Live(a)', Overlap(BlockedBy(b), BlockedBy(a))'
          PROVE  overlapped'[b]
      <3>1. BlockedBy(a)'.from \in Int /\ BlockedBy(a)'.until \in Int
            /\ BlockedBy(b)'.from \in Int /\ BlockedBy(b)'.until \in Int
        <4>1. ASSUME NEW x \in Bookings
              PROVE  BlockedBy(x)'.from \in Int /\ BlockedBy(x)'.until \in Int
          <5>1. starts'[x] \in Nat /\ shape'[x] \in [dur : Nat \ {0}, before : Nat, after : Nat]
            BY EngineAssumption DEF TypeOK
          <5>2. QED
            BY <5>1 DEF BlockedBy, Blocked
        <4>2. QED
          BY <4>1
      <3>2. Overlap(BlockedBy(a), BlockedBy(b))'
        BY <2>4, <3>1 DEF Overlap
      <3>3. QED
        BY <2>3, <2>4, <3>2
    <2>5. QED
      BY <2>2, <2>3, <2>4 DEF NoSilentOverlap
  <1>3. QED
    BY <1>1, <1>2, StepEffect

LEMMA InitInvariant == Init => IInv
  BY InitTypes DEF Init, IInv, LocksHeld, AnswersStand, NoSilentOverlap, Live

LEMMA InvariantStep ==
  ASSUME OverlapsShareADay, IInv, [Next]_vars
  PROVE  IInv'
  BY TypeStep, TargetsStep, LocksStep, AnswersStep, NoSilentOverlapStep DEF IInv

\* The invariant that carries the result on lib/booking.ts, where overlapping placements
\* share a day.
THEOREM EngineInvariant ==
  ASSUME OverlapsShareADay
  PROVE  Spec => []IInv
  BY InitInvariant, InvariantStep, PTL DEF Spec

\* Nobody is double-booked without having been told, however calls interleave, as
\* long as overlapping placements take the same day's lock.
THEOREM NoSilentOverlapHolds ==
  ASSUME OverlapsShareADay
  PROVE  Spec => []NoSilentOverlap
  <1>1. IInv => NoSilentOverlap
    BY DEF IInv
  <1>2. QED
    BY <1>1, EngineInvariant, PTL

\* A cancelled or missed booking never becomes live again, with no assumption on days.
THEOREM GoneStaysGoneHolds == Spec => GoneStaysGone
  <1>1. TypeOK /\ TargetsExist /\ [Next]_vars => (TypeOK /\ TargetsExist)'
    BY TypeStep, TargetsStep
  <1>2. ASSUME TypeOK, TargetsExist, [Next]_vars, NEW b \in Bookings, Gone(b)
        PROVE  Gone(b)'
    BY <1>2, StepEffect DEF OnlyFrees, Places, Gone
  <1>3. TypeOK /\ TargetsExist /\ [Next]_vars
          => [\A b \in Bookings : Gone(b) => Gone(b)']_vars
    BY <1>2
  <1>4. QED
    BY <1>1, <1>3, InitTypes, PTL DEF Spec, GoneStaysGone

-----------------------------------------------------------------------------
(* The engine implements the calendar.                                     *)

LEMMA InitMaps == Init => Calendar!CalendarInit
  BY InitTypes DEF Init, Calendar!CalendarInit, Live, Gone, TypeOK, BlockedBy

LEMMA FreeMaps ==
  ASSUME TypeOK, OnlyFrees
  PROVE  [Calendar!CalendarNext]_(Calendar!calendarVars)
  <1>1. /\ [b \in Bookings |-> BlockedBy(b)]' = [b \in Bookings |-> BlockedBy(b)]
        /\ overlapped' = overlapped
    BY DEF OnlyFrees, BlockedBy
  <1>2. CASE \A b \in Bookings : Live(b)' = Live(b) /\ Gone(b)' = Gone(b)
    <2>1. UNCHANGED [b \in Bookings |-> IF Live(b) THEN "live"
                                       ELSE IF Gone(b) THEN "gone" ELSE "free"]
      BY <1>2
    <2>2. QED
      BY <1>1, <2>1 DEF Calendar!calendarVars
  <1>3. ASSUME NEW b \in Bookings, status[b] # "none", Gone(b)',
               \A a \in Bookings \ {b} : status'[a] = status[a]
        PROVE  Calendar!Free(b)
    <2>1. /\ \A a \in Bookings \ {b} : Live(a)' = Live(a) /\ Gone(a)' = Gone(a)
          /\ ~Live(b)' /\ (Live(b) \/ Gone(b))
      BY <1>3 DEF Live, Gone, TypeOK
    <2>2. QED
      BY <1>1, <1>3, <2>1 DEF Calendar!Free
  <1>4. QED
    BY <1>2, <1>3 DEF OnlyFrees, Calendar!CalendarNext

LEMMA PlaceMaps ==
  ASSUME TypeOK, TypeOK', TargetsExist, AnswersStand,
         NEW c \in Calls, NEW b \in Bookings, Places(c, b)
  PROVE  Calendar!Place(b, Blocked(arg[c].start, arg[c].shape), found[c])
  <1> DEFINE s == Blocked(arg[c].start, arg[c].shape)
  <1>1. [a \in Bookings |-> BlockedBy(a)]'
          = [[a \in Bookings |-> BlockedBy(a)] EXCEPT ![b] = s]
    <2>1. BlockedBy(b)' = s
      BY DEF Places, BlockedBy, TypeOK
    <2>2. \A a \in Bookings \ {b} : BlockedBy(a)' = BlockedBy(a)
      BY DEF Places, BlockedBy, TypeOK
    <2>3. QED
      BY <2>1, <2>2
  <1>2. /\ \A a \in Bookings \ {b} : Live(a)' = Live(a) /\ Gone(a)' = Gone(a)
        /\ status[b] = "none" => ~Live(b) /\ ~Gone(b) /\ Live(b)'
        /\ status[b] # "none" => /\ Live(b) \/ Gone(b)
                                 /\ Live(b)' = Live(b) /\ Gone(b)' = Gone(b)
    BY DEF Places, Live, Gone, TypeOK
  <1>3. found[c] \/ \A a \in Bookings \ {b} : Live(a) => ~Overlap(BlockedBy(a), s)
    BY UntoldPlacementIsClear
  <1>4. found[c] \/ Calendar!Clear(b, s)
    BY <1>3 DEF Calendar!Clear, Calendar!Overlap, Overlap
  <1>5. overlapped' = [overlapped EXCEPT ![b] = found[c]]
    BY DEF Places
  <1>6. QED
    BY <1>1, <1>2, <1>4, <1>5 DEF Calendar!Place

LEMMA StepMaps ==
  ASSUME TypeOK, TypeOK', TargetsExist, AnswersStand, [Next]_vars
  PROVE  [Calendar!CalendarNext]_(Calendar!calendarVars)
  <1>1. CASE OnlyFrees
    BY <1>1, FreeMaps
  <1>2. ASSUME NEW c \in Calls, NEW b \in Bookings, Places(c, b)
        PROVE  Calendar!CalendarNext
    <2>1. /\ Blocked(arg[c].start, arg[c].shape) \in {Blocked(s, sh) : s \in Starts, sh \in Shapes}
          /\ found[c] \in BOOLEAN
      BY DEF TypeOK, Arg
    <2>2. QED
      BY <1>2, <2>1, PlaceMaps DEF Calendar!CalendarNext
  <1>3. QED
    BY <1>1, <1>2, StepEffect

\* To everyone who reads the calendar, each call to the engine is one indivisible
\* placement or one indivisible freeing.
THEOREM EngineImplementsCalendar ==
  ASSUME OverlapsShareADay
  PROVE  Spec => ImplementsCalendar
  <1>1. IInv /\ IInv' /\ [Next]_vars => [Calendar!CalendarNext]_(Calendar!calendarVars)
    BY StepMaps DEF IInv
  <1>2. QED
    BY <1>1, InitMaps, EngineInvariant, PTL DEF Spec, ImplementsCalendar, Calendar!CalendarSpec

-----------------------------------------------------------------------------
(* The revision.                                                           *)

\* What one step may do to a row that exists.
Revised(b) ==
    /\ revision'[b] >= revision[b]
    /\ (starts'[b] # starts[b] \/ (Live(b) /\ Gone(b)')) => revision'[b] > revision[b]

LEMMA SameRowRevised ==
  ASSUME TypeOK, NEW b \in Bookings, revision'[b] = revision[b], starts'[b] = starts[b],
         Gone(b)' => Gone(b)
  PROVE  Revised(b)
  BY DEF TypeOK, Revised, Live, Gone

LEMMA StatementRevises ==
  ASSUME TypeOK, TargetsExist, NEW c \in Calls, Statement(c),
         NEW b \in Bookings, status[b] # "none"
  PROVE  Revised(b)
  <1>0. revision[b] \in Nat
    BY DEF TypeOK
  <1>1. CASE UNCHANGED table
    BY <1>1, SameRowRevised DEF table, Gone
  <1>2. CASE InsertBooking(c)
    <2>1. revision' = revision /\ starts'[b] = starts[b] /\ status'[b] = status[b]
      BY <1>2 DEF InsertBooking, TypeOK
    <2>2. QED
      BY <2>1, SameRowRevised DEF Gone
  <1>3. CASE MoveBooking(c)
    <2>1. arg[c].booking \in Bookings
      BY <1>3 DEF MoveBooking, TargetsExist, Running
    <2>2. CASE arg[c].booking = b
      <3>1. revision'[b] = revision[b] + 1
        BY <1>3, <2>2 DEF MoveBooking, TypeOK
      <3>2. QED
        BY <1>0, <3>1 DEF Revised
    <2>3. CASE arg[c].booking # b
      <3>1. revision'[b] = revision[b] /\ starts'[b] = starts[b] /\ status' = status
        BY <1>3, <2>3 DEF MoveBooking, TypeOK
      <3>2. QED
        BY <3>1, SameRowRevised DEF Gone
    <2>4. QED
      BY <2>2, <2>3
  <1>4. CASE CancelBooking(c) \/ MarkNoShow(c)
    <2>1. CASE arg[c].booking = b
      <3>1. revision'[b] = revision[b] + 1
        BY <1>4, <2>1 DEF CancelBooking, MarkNoShow, TypeOK
      <3>2. QED
        BY <1>0, <3>1 DEF Revised
    <2>2. CASE arg[c].booking # b
      <3>1. revision'[b] = revision[b] /\ starts'[b] = starts[b] /\ status'[b] = status[b]
        BY <1>4, <2>2 DEF CancelBooking, MarkNoShow, TypeOK
      <3>2. QED
        BY <3>1, SameRowRevised DEF Gone
    <2>3. QED
      BY <2>1, <2>2
  <1>5. CASE ConfirmBooking(c)
    <2>1. /\ revision' = revision /\ starts' = starts
          /\ status'[b] \in {status[b], "confirmed"}
      BY <1>5 DEF ConfirmBooking, TypeOK
    <2>2. QED
      BY <2>1, SameRowRevised DEF Gone
  <1>6. CASE MarkBookingSeen(c) \/ MarkAllSeen(c)
    BY <1>6, SameRowRevised DEF MarkBookingSeen, MarkAllSeen, Gone
  <1>7. QED
    BY <1>1, <1>2, <1>3, <1>4, <1>5, <1>6
    DEF Statement, LockDay, CheckConflict, JudgeNotice, JudgeFinished, Proceed, Abort

LEMMA StepRevises ==
  ASSUME TypeOK, TargetsExist, [Next]_vars, NEW b \in Bookings, status[b] # "none"
  PROVE  Revised(b)
  <1>1. CASE UNCHANGED table
    BY <1>1, SameRowRevised DEF table, Gone
  <1>2. CASE \E c \in Calls : Statement(c)
    BY <1>2, StatementRevises
  <1>3. ASSUME NEW c \in Calls, Start(c) PROVE UNCHANGED table
    BY <1>3, StartNames
  <1>4. QED
    BY <1>1, <1>2, <1>3 DEF Next, Rollback, Abort, Tick, vars

\* A row's types and the rows the calls name are kept by every step.
LEMMA TypesAlways == Spec => [](TypeOK /\ TargetsExist)
  <1>1. TypeOK /\ TargetsExist /\ [Next]_vars => (TypeOK /\ TargetsExist)'
    BY TypeStep, TargetsStep
  <1>2. QED
    BY <1>1, InitTypes, PTL DEF Spec

\* Whenever an appointment moves or is called off its revision grows, whichever of the
\* writers of lib/booking.ts commits first.
THEOREM RevisionAdvancesHolds == Spec => RevisionAdvances
  <1>1. TypeOK /\ TargetsExist /\ [Next]_vars
          => [\A b \in Bookings :
                (status[b] # "none" /\ (starts'[b] # starts[b] \/ (Live(b) /\ Gone(b)')))
                    => revision'[b] > revision[b]]_vars
    BY StepRevises DEF Revised
  <1>2. QED
    BY <1>1, TypesAlways, PTL DEF Spec, RevisionAdvances

-----------------------------------------------------------------------------
(* What a running call's record says.                                      *)

\* A customer's call places, moves or cancels, and a call's now() has been reached.
Stamped(c) ==
    Running(c) => /\ 0 < arg[c].at /\ arg[c].at <= clock
                  /\ arg[c].by = "customer" => arg[c].kind \in {"create", "reschedule", "cancel"}

Stamps == clock > 0 /\ \A c \in Calls : Stamped(c)

LEMMA StartStamps ==
  ASSUME TypeOK, NEW c \in Calls, Start(c)
  PROVE  /\ arg'[c].at = clock /\ clock' = clock
         /\ arg'[c].by = "customer" => arg'[c].kind \in {"create", "reschedule", "cancel"}
         /\ (phase'[c] = "write" /\ arg'[c].by = "customer") => arg'[c].kind # "cancel"
         /\ phase'[c] = "write" => arg'[c].kind # "noShow"
  <1>0. BlankArg.by = "admin"
    BY DEF BlankArg
  <1> USE BlankArgType, <1>0 DEF Arg, TypeOK, Begin
  <1>1. CASE BeginCreate(c)
    BY <1>1 DEF BeginCreate
  <1>2. CASE BeginReschedule(c)
    BY <1>2 DEF BeginReschedule
  <1>3. CASE BeginCancel(c)
    BY <1>3 DEF BeginCancel
  <1>4. CASE BeginNoShow(c)
    BY <1>4 DEF BeginNoShow
  <1>5. CASE BeginOwnerMark(c)
    BY <1>5 DEF BeginOwnerMark
  <1>6. CASE BeginAllSeen(c)
    BY <1>6 DEF BeginAllSeen
  <1>7. QED
    BY <1>1, <1>2, <1>3, <1>4, <1>5, <1>6 DEF Start

LEMMA StatementKeepsStamp ==
  ASSUME TypeOK, NEW c \in Calls, Statement(c), Running(c)'
  PROVE  /\ arg'[c].at = arg[c].at /\ arg'[c].by = arg[c].by
         /\ clock' = clock
  <1>1. ASSUME NEW outcome \in {"done", "failed"}, End(c, outcome) PROVE FALSE
    BY <1>1, EndFrame DEF Running
  <1>2. CASE LockDay(c)
    BY <1>2 DEF LockDay, Proceed
  <1>3. CASE CheckConflict(c)
    BY <1>1, <1>3 DEF CheckConflict, Abort, Proceed
  <1>4. CASE JudgeNotice(c)
    BY <1>1, <1>4 DEF JudgeNotice, Abort, TypeOK, Arg
  <1>5. CASE JudgeFinished(c)
    BY <1>1, <1>5 DEF JudgeFinished, Abort, TypeOK, Arg
  <1>6. QED
    BY <1>1, <1>2, <1>3, <1>4, <1>5
    DEF Statement, InsertBooking, MoveBooking, CancelBooking, MarkNoShow, ConfirmBooking,
        MarkBookingSeen, MarkAllSeen

LEMMA ClockAdvances ==
  ASSUME TypeOK, [Next]_vars
  PROVE  clock' \in Nat /\ clock' >= clock
  <1>1. ASSUME clock' = clock PROVE clock' \in Nat /\ clock' >= clock
    BY <1>1 DEF TypeOK
  <1>2. CASE Tick
    BY <1>2 DEF Tick, TypeOK
  <1>3. ASSUME NEW c \in Calls, Start(c) PROVE clock' = clock
    BY <1>3, StartStamps
  <1>4. ASSUME NEW c \in Calls, Statement(c) PROVE clock' = clock
    BY <1>4 DEF Statement, LockDay, CheckConflict, JudgeNotice, JudgeFinished, Proceed,
        Abort, InsertBooking, MoveBooking, CancelBooking, MarkNoShow, ConfirmBooking,
        MarkBookingSeen, MarkAllSeen, End
  <1>5. ASSUME NEW c \in Calls, Rollback(c) PROVE clock' = clock
    BY <1>5 DEF Rollback, Abort, End
  <1>6. CASE UNCHANGED vars
    BY <1>1, <1>6 DEF vars
  <1>7. QED
    BY <1>1, <1>2, <1>3, <1>4, <1>5, <1>6 DEF Next

LEMMA StampsStep ==
  ASSUME TypeOK, Stamps, [Next]_vars
  PROVE  Stamps'
  <1>0. clock \in Nat /\ clock' \in Nat /\ clock' >= clock /\ clock > 0 /\ clock' > 0
    BY ClockAdvances DEF TypeOK, Stamps
  <1> SUFFICES ASSUME NEW d \in Calls, Running(d)'
               PROVE  Stamped(d)'
    BY <1>0 DEF Stamps, Stamped
  <1>1. arg[d].at \in Nat
    BY DEF TypeOK, Arg
  <1>2. CASE Untouched(d)
    <2>1. Running(d) /\ arg'[d] = arg[d]
      BY <1>2 DEF Untouched, Running
    <2>2. QED
      BY <1>0, <1>1, <2>1 DEF Stamps, Stamped
  <1>3. CASE Start(d)
    BY <1>0, <1>3, StartStamps DEF Stamped
  <1>4. CASE Statement(d)
    <2>1. Running(d) /\ arg'[d].kind = arg[d].kind
      BY <1>4, StatementKeepsArg
    <2>2. arg'[d].at = arg[d].at /\ arg'[d].by = arg[d].by
      BY <1>4, StatementKeepsStamp
    <2>3. QED
      BY <1>0, <1>1, <2>1, <2>2 DEF Stamps, Stamped
  <1>5. CASE Rollback(d)
    BY <1>5, EndFrame DEF Rollback, Abort, Running
  <1>6. CASE Tick \/ UNCHANGED vars
    BY <1>2, <1>6 DEF Tick, vars, Untouched
  <1>7. QED
    BY <1>2, <1>3, <1>4, <1>5, <1>6, StepFrame DEF Next

-----------------------------------------------------------------------------
(* The unseen-changes badge.                                               *)

\* An id without a row carries no stamp, so a new booking starts unseen.
FreshRows == \A b \in Bookings : status[b] = "none" => changedAt[b] = 0 /\ seenAt[b] = 0

\* A statement touches the stamps of no id without a row, but for the row it inserts.
LEMMA StatementFresh ==
  ASSUME TypeOK, TargetsExist, FreshRows, NEW c \in Calls, Statement(c),
         NEW b \in Bookings, status'[b] = "none"
  PROVE  status[b] = "none" /\ changedAt'[b] = changedAt[b] /\ seenAt'[b] = seenAt[b]
  <1>1. CASE UNCHANGED table
    BY <1>1 DEF table
  <1>2. CASE InsertBooking(c)
    <2>1. arg[c].status # "none"
      BY DEF TypeOK, Arg
    <2>2. QED
      BY <1>2, <2>1 DEF InsertBooking, TypeOK
  <1>3. ASSUME Running(c), arg[c].kind \notin {"create", "allSeen"}, status[b] = "none"
        PROVE  arg[c].booking # b
    BY <1>3 DEF TargetsExist
  <1>4. CASE MoveBooking(c)
    BY <1>3, <1>4 DEF MoveBooking, StampChange, Running, TypeOK
  <1>5. CASE CancelBooking(c)
    BY <1>3, <1>5 DEF CancelBooking, StampChange, Running, TypeOK
  <1>6. CASE MarkNoShow(c) \/ ConfirmBooking(c) \/ MarkBookingSeen(c)
    BY <1>3, <1>6 DEF MarkNoShow, ConfirmBooking, MarkBookingSeen, Running, TypeOK
  <1>7. CASE MarkAllSeen(c)
    BY <1>7 DEF MarkAllSeen, FreshRows, NeedsAttention, TypeOK
  <1>8. QED
    BY <1>1, <1>2, <1>4, <1>5, <1>6, <1>7
    DEF Statement, LockDay, CheckConflict, JudgeNotice, JudgeFinished, Proceed, Abort

LEMMA FreshStep ==
  ASSUME TypeOK, TargetsExist, FreshRows, [Next]_vars
  PROVE  FreshRows'
  <1>1. CASE UNCHANGED table
    BY <1>1 DEF table, FreshRows
  <1>2. CASE \E c \in Calls : Statement(c)
    BY <1>2, StatementFresh DEF FreshRows
  <1>3. ASSUME NEW c \in Calls, Start(c) PROVE UNCHANGED table
    BY <1>3, StartNames
  <1>4. QED
    BY <1>1, <1>2, <1>3 DEF Next, Rollback, Abort, Tick, vars

\* A write that commits is the call's own statement.
LEMMA CommitIsOwn ==
  ASSUME TypeOK, [Next]_vars, NEW c \in Calls, phase[c] = "write", phase'[c] = "done"
  PROVE  Statement(c)
  <1>1. CASE Untouched(c)
    BY <1>1 DEF Untouched
  <1>2. CASE Start(c)
    BY <1>2 DEF Start, BeginCreate, BeginReschedule, BeginCancel, BeginNoShow,
                BeginOwnerMark, BeginAllSeen, Begin
  <1>3. CASE Rollback(c)
    BY <1>3, EndFrame DEF Rollback, Abort
  <1>4. CASE Tick \/ UNCHANGED vars
    BY <1>4 DEF Tick, vars
  <1>5. QED
    BY <1>1, <1>2, <1>3, <1>4, StepFrame DEF Next

LEMMA StampFlags ==
  ASSUME TypeOK, NEW c \in Calls, NEW b \in Bookings, StampChange(c, b),
         arg[c].by = "customer", arg[c].at > 0
  PROVE  NeedsAttention(b)'
  <1>1. changedAt'[b] = arg[c].at /\ seenAt'[b] = 0 /\ arg[c].at \in Nat
    BY DEF StampChange, TypeOK, Arg
  <1>2. QED
    BY <1>1 DEF NeedsAttention

LEMMA CommitFlags ==
  ASSUME TypeOK, TargetsExist, Stamps, FreshRows, [Next]_vars,
         NEW c \in Calls, NEW b \in Bookings, Commits(c, b), arg[c].by = "customer"
  PROVE  NeedsAttention(b)'
  <1>1. Statement(c) /\ phase[c] = "write" /\ Running(c)
    BY CommitIsOwn DEF Commits, Running
  <1>2. /\ arg[c].kind \in {"create", "reschedule", "cancel"}
        /\ arg[c].at > 0 /\ arg[c].at \in Nat
    BY <1>1 DEF Stamps, Stamped, TypeOK, Arg
  <1>3. CASE InsertBooking(c)
    <2>1. arg[c].booking # b
      BY <1>1, <1>3, EngineAssumption DEF InsertBooking, TargetsExist
    <2>2. status[b] = "none" /\ status'[b] # "none"
      BY <2>1 DEF Commits
    <2>3. changedAt'[b] = arg[c].at
      BY <1>3, <2>2 DEF InsertBooking, TypeOK
    <2>4. seenAt'[b] = 0
      BY <1>3, <2>2 DEF InsertBooking, FreshRows
    <2>5. QED
      BY <1>2, <2>3, <2>4 DEF NeedsAttention
  <1>4. CASE MoveBooking(c)
    BY <1>2, <1>4, StampFlags DEF MoveBooking, Commits
  <1>5. CASE CancelBooking(c)
    BY <1>2, <1>5, StampFlags DEF CancelBooking, Commits
  <1>6. QED
    BY <1>1, <1>2, <1>3, <1>4, <1>5
    DEF Statement, LockDay, CheckConflict, JudgeNotice, JudgeFinished, MarkNoShow,
        ConfirmBooking, MarkBookingSeen, MarkAllSeen

LEMMA StampsAlways == Spec => [](Stamps /\ FreshRows)
  <1>1. Init => Stamps /\ FreshRows
    BY DEF Init, Stamps, Stamped, Running, FreshRows
  <1>2. TypeOK /\ TargetsExist /\ Stamps /\ FreshRows /\ [Next]_vars => (Stamps /\ FreshRows)'
    BY StampsStep, FreshStep
  <1>3. QED
    BY <1>1, <1>2, TypesAlways, PTL DEF Spec

\* A customer's booking, move or cancellation is on the owner's list as it commits,
\* whatever she acknowledged while its transaction ran.
THEOREM CustomerChangeIsFlaggedHolds == Spec => CustomerChangeIsFlagged
  <1>1. TypeOK /\ TargetsExist /\ Stamps /\ FreshRows /\ [Next]_vars
          => [\A c \in Calls, b \in Bookings :
                (Commits(c, b) /\ arg[c].by = "customer") => NeedsAttention(b)']_vars
    BY CommitFlags
  <1>2. QED
    BY <1>1, TypesAlways, StampsAlways, PTL DEF Spec, CustomerChangeIsFlagged

-----------------------------------------------------------------------------
(* The verdicts.                                                           *)

\* What the judged call would read again, were the row still the one it judged.
Judged(c) ==
    phase[c] = "write" =>
        /\ arg[c].kind = "noShow" =>
              /\ arg[c].saw <= revision[arg[c].booking]
              /\ arg[c].saw = revision[arg[c].booking] => Ends(arg[c].booking) <= arg[c].at
        /\ (arg[c].kind = "cancel" /\ arg[c].by = "customer") =>
              /\ arg[c].saw <= revision[arg[c].booking]
              /\ arg[c].saw = revision[arg[c].booking]
                    => starts[arg[c].booking] - arg[c].at >= CancelWindow

Verdicts == \A c \in Calls : Judged(c)

\* A verdict survives a step that leaves the call as it is: the row it is about keeps
\* its place, or its revision leaves the one that was judged behind.
LEMMA VerdictSurvives ==
  ASSUME TypeOK, TypeOK', TargetsExist, Verdicts, [Next]_vars,
         NEW d \in Calls, phase'[d] = phase[d], arg'[d] = arg[d]
  PROVE  Judged(d)'
  <1> SUFFICES ASSUME phase[d] = "write", arg[d].kind \in {"noShow", "cancel"}
               PROVE  Judged(d)'
    BY DEF Judged
  <1>1. PICK b \in Bookings : b = arg[d].booking /\ status[b] # "none"
    BY DEF TargetsExist, Running
  <1>2. Revised(b)
    BY <1>1, StepRevises
  <1>3. shape'[b] = shape[b]
    BY <1>1, RowsPersist
  <1>4. revision[b] \in Nat /\ revision'[b] \in Nat /\ arg[d].saw \in Nat
    BY DEF TypeOK, Arg
  <1>5. ASSUME arg[d].saw <= revision[b]
        PROVE  /\ arg[d].saw <= revision'[b]
               /\ arg[d].saw = revision'[b] =>
                     revision[b] = arg[d].saw /\ starts'[b] = starts[b]
    BY <1>2, <1>4, <1>5 DEF Revised
  <1>6. CASE arg[d].kind = "noShow"
    BY <1>1, <1>3, <1>5, <1>6 DEF Verdicts, Judged, Ends
  <1>7. CASE arg[d].kind = "cancel"
    BY <1>1, <1>5, <1>7 DEF Verdicts, Judged
  <1>8. QED
    BY <1>6, <1>7

LEMMA VerdictReached ==
  ASSUME TypeOK, TypeOK', TargetsExist, LocksHeld, Verdicts, NEW d \in Calls, Statement(d)
  PROVE  Judged(d)'
  <1> SUFFICES ASSUME phase'[d] = "write"
               PROVE  Judged(d)'
    BY DEF Judged
  <1>0. ~End(d, "done") /\ ~Abort(d)
    BY EndFrame DEF Abort
  <1>1. CASE CheckConflict(d)
    <2>1. arg' = arg
      BY <1>0, <1>1 DEF CheckConflict, Proceed
    <2>2. Placement(d)
      BY <1>1 DEF CheckConflict, LocksHeld
    <2>3. QED
      BY <2>1, <2>2 DEF Judged, Placement
  <1>2. CASE JudgeNotice(d)
    <2>1. /\ arg[d].kind = "cancel"
          /\ starts[arg[d].booking] - arg[d].at >= CancelWindow
          /\ arg' = [arg EXCEPT ![d].saw = revision[arg[d].booking]]
          /\ UNCHANGED table
      BY <1>0, <1>2 DEF JudgeNotice
    <2>2. PICK b \in Bookings : b = arg[d].booking
      BY <1>2 DEF JudgeNotice, TargetsExist, Running
    <2>3. /\ arg'[d].kind = "cancel" /\ arg'[d].booking = b /\ arg'[d].at = arg[d].at
          /\ arg'[d].saw = revision[b] /\ revision[b] \in Nat
      BY <2>1, <2>2 DEF TypeOK, Arg
    <2>4. QED
      BY <2>1, <2>2, <2>3 DEF Judged, table
  <1>3. CASE JudgeFinished(d)
    <2>1. /\ arg[d].kind = "noShow"
          /\ Ends(arg[d].booking) <= arg[d].at
          /\ arg' = [arg EXCEPT ![d].saw = revision[arg[d].booking]]
          /\ UNCHANGED table
      BY <1>0, <1>3 DEF JudgeFinished
    <2>2. PICK b \in Bookings : b = arg[d].booking
      BY <1>3 DEF JudgeFinished, TargetsExist, Running
    <2>3. /\ arg'[d].kind = "noShow" /\ arg'[d].booking = b /\ arg'[d].at = arg[d].at
          /\ arg'[d].saw = revision[b] /\ revision[b] \in Nat
      BY <2>1, <2>2 DEF TypeOK, Arg
    <2>4. QED
      BY <2>1, <2>2, <2>3 DEF Judged, table, Ends
  <1>4. CASE LockDay(d)
    BY <1>4 DEF LockDay, Proceed, TypeOK
  <1>5. QED
    BY <1>0, <1>1, <1>2, <1>3, <1>4
    DEF Statement, InsertBooking, MoveBooking, CancelBooking, MarkNoShow,
        ConfirmBooking, MarkBookingSeen, MarkAllSeen

LEMMA VerdictsStep ==
  ASSUME TypeOK, TypeOK', TargetsExist, LocksHeld, Verdicts, [Next]_vars
  PROVE  Verdicts'
  <1> SUFFICES ASSUME NEW d \in Calls
               PROVE  Judged(d)'
    BY DEF Verdicts
  <1>1. CASE Untouched(d)
    BY <1>1, VerdictSurvives DEF Untouched
  <1>2. CASE Start(d)
    <2>1. /\ (phase'[d] = "write" /\ arg'[d].by = "customer") => arg'[d].kind # "cancel"
          /\ phase'[d] = "write" => arg'[d].kind # "noShow"
      BY <1>2, StartStamps
    <2>2. QED
      BY <2>1 DEF Judged
  <1>3. CASE Statement(d)
    BY <1>3, VerdictReached
  <1>4. CASE Rollback(d)
    BY <1>4, EndFrame DEF Rollback, Abort, Judged
  <1>5. CASE Tick \/ UNCHANGED vars
    BY <1>1, <1>5 DEF Tick, vars, Untouched
  <1>6. QED
    BY <1>1, <1>2, <1>3, <1>4, <1>5, StepFrame DEF Next

LEMMA VerdictsAlways == Spec => [](LocksHeld /\ Verdicts)
  <1>1. Init => LocksHeld /\ Verdicts
    BY DEF Init, LocksHeld, Verdicts, Judged
  <1>2. TypeOK /\ TargetsExist /\ LocksHeld /\ Verdicts /\ [Next]_vars
          => (LocksHeld /\ Verdicts)'
    BY TypeStep, LocksStep, VerdictsStep
  <1>3. QED
    BY <1>1, <1>2, TypesAlways, PTL DEF Spec

LEMMA CommitRespectsVerdict ==
  ASSUME TypeOK, TargetsExist, Stamps, Verdicts,
         NEW c \in Calls, NEW b \in Bookings, Commits(c, b), revision[b] = arg[c].saw
  PROVE  /\ arg[c].kind = "noShow" => Ends(b) <= clock
         /\ (arg[c].kind = "cancel" /\ arg[c].by = "customer")
               => starts[b] - arg[c].at >= CancelWindow
  <1>1. phase[c] = "write" /\ Judged(c) /\ arg[c].at <= clock
    BY DEF Commits, Verdicts, Stamps, Stamped, Running
  <1>2. arg[c].at \in Nat /\ clock \in Nat
    BY DEF TypeOK, Arg
  <1>3. starts[b] \in Nat /\ shape[b].dur \in Nat
    <2>1. starts[b] \in Starts /\ shape[b] \in Shapes
      BY DEF TypeOK
    <2>2. shape[b] \in [dur : Nat \ {0}, before : Nat, after : Nat]
      BY <2>1, EngineAssumption
    <2>3. QED
      BY <2>1, <2>2, EngineAssumption
  <1>4. arg[c].kind \in {"noShow", "cancel"} => arg[c].booking = b
    BY DEF Commits
  <1>5. CASE arg[c].kind = "noShow"
    <2>1. Ends(b) <= arg[c].at /\ Ends(b) \in Nat
      BY <1>1, <1>3, <1>4, <1>5 DEF Judged, Ends
    <2>2. QED
      BY <1>1, <1>2, <1>5, <2>1
  <1>6. CASE arg[c].kind = "cancel"
    BY <1>1, <1>4, <1>6 DEF Judged
  <1>7. QED
    BY <1>5, <1>6

\* A verdict read before the write is still true at the COMMIT unless the booking was
\* changed in between: the gap between JudgeNotice or JudgeFinished and the UPDATE lets
\* in nothing but a change that its revision shows.
THEOREM VerdictHoldsUnlessChangedHolds == Spec => VerdictHoldsUnlessChanged
  <1>1. TypeOK /\ TargetsExist /\ Stamps /\ Verdicts /\ [Next]_vars
          => [\A c \in Calls, b \in Bookings :
                (Commits(c, b) /\ revision[b] = arg[c].saw) =>
                    /\ arg[c].kind = "noShow" => Ends(b) <= clock
                    /\ (arg[c].kind = "cancel" /\ arg[c].by = "customer")
                          => starts[b] - arg[c].at >= CancelWindow]_vars
    BY CommitRespectsVerdict
  <1>2. QED
    BY <1>1, TypesAlways, StampsAlways, VerdictsAlways, PTL DEF Spec, VerdictHoldsUnlessChanged
=============================================================================
