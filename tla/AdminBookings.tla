---------------------------- MODULE AdminBookings ----------------------------
(***************************************************************************)
(* The owner's screens of bookings: the day with its detail sheet and its  *)
(* sheet for a new booking, the list of unseen changes, and the optimistic *)
(* store that stands between what the server last rendered and what she    *)
(* sees.  The engine's transactions are single steps here; BookingEngine   *)
(* takes them apart.  Other people - customers, another device - write     *)
(* between any two steps.                                                  *)
(*                                                                         *)
(* queue holds the calls and refreshes of this tab in the order in which   *)
(* the framework dispatches them, one at a time.                           *)
(***************************************************************************)
EXTENDS Naturals, Sequences

CONSTANTS
  Bookings,   \* every booking there may be
  First,      \* First[b]: its row at the start
  Slots,      \* times of the day on screen; live bookings of one slot overlap
  Questions,  \* of "cancel" and "no_show", the ones the owner asks herself
  TTL,        \* how long a hold may live
  MaxNow,     \* bound: the clock of the tab
  MaxCalls,   \* bound: calls the owner makes
  MaxOthers,  \* bound: changes other people make
  None

Live == {"pending", "confirmed"}
Statuses == Live \cup {"cancelled", "no_show"}
Fields == {"status", "attention"}
Row == [made : BOOLEAN, status : Statuses, attention : BOOLEAN, slot : Slots]
Values == [status |-> Statuses, attention |-> BOOLEAN]
Hold(f) == [expected : Values[f], base : Values[f], at : Nat]
ClashRec == [slot : Slots, late : BOOLEAN]
Sheets == [b : Bookings, slot : Slots, clash : {None} \cup ClashRec, edited : BOOLEAN,
           confirming : {None, "cancel", "no_show"}]

ASSUME AdminAssumption ==
  /\ TTL \in Nat /\ MaxNow \in Nat /\ MaxCalls \in Nat /\ MaxOthers \in Nat
  /\ Questions \subseteq {"cancel", "no_show"}
  /\ Slots # {} /\ First \in [Bookings -> Row]
  /\ None \notin Sheets /\ \A f \in Fields : None \notin Hold(f)
  /\ \A S \in SUBSET Bookings : None \notin [S -> Row]

VARIABLES
  db,         \* the bookings' rows
  now,        \* the clock of the tab
  screen,     \* "day" or "changes"
  page,       \* the rows last rendered for this screen
  holds,      \* the optimistic store: hold of each <<booking, field>>, or None
  display,    \* what the list shows: the page with the holds laid over it
  detail,     \* the detail sheet: None, or what it works with
  create,     \* the sheet for a new booking, mounted with the day
  busy,       \* hooks whose pending flag is set
  queue,      \* calls and refreshes of this tab
  calls,      \* how many calls it has made
  others,     \* how many changes others have made
  mine        \* <<booking, field>> last changed by what the owner did in this tab

tab == <<screen, page, holds, display, detail, create, busy, queue>>
vars == <<db, now, calls, others, mine, tab>>

-----------------------------------------------------------------------------
(* The optimistic store. *)

\* A hold lives while the server still reports what it replaced, and not too long.
Alive(hold, value, at) == hold # None /\ at - hold.at <= TTL /\ value = hold.base

\* resolve, for every row of a page.
Resolve(hs, p, at) ==
  [b \in DOMAIN p |->
     [f \in Fields |-> IF Alive(hs[b][f], p[b][f], at) THEN hs[b][f].expected ELSE p[b][f]]]

\* prune: what the page has settled or overtaken, and whatever has expired.
Prune(hs, p, at) ==
  [b \in Bookings |->
     [f \in Fields |->
        LET hold == hs[b][f]
        IN IF hold = None \/ at - hold.at > TTL THEN None
           ELSE IF b \in DOMAIN p /\ ~Alive(hold, p[b][f], at) THEN None ELSE hold]]

-----------------------------------------------------------------------------
(* The database and what is rendered from it. *)

\* The day lists every booking; the changes, those that need attention.
Rendered(d, where) ==
  [b \in {x \in Bookings : d[x].made /\ (where = "changes" => d[x].attention)} |-> d[b]]

\* findConflict: the live bookings that one at this time would overlap.
Overlapped(d, b, slot) ==
  {o \in Bookings \ {b} : d[o].made /\ d[o].status \in Live /\ d[o].slot = slot}

\* Faulty: a move looks for no conflict.
AnswerMovesBlindly(d, c) ==
  CASE c.op = "confirm" -> IF d[c.id].status = "pending" THEN "ok" ELSE "not_found"
    [] c.op = "create" ->
         IF Overlapped(d, c.id, c.slot) # {} /\ ~c.allow THEN "conflict" ELSE "ok"
    [] OTHER -> "ok"

\* What a call answers.
Answer(d, c) ==
  CASE c.op = "confirm" -> IF d[c.id].status = "pending" THEN "ok" ELSE "not_found"
    [] c.op \in {"create", "move"} ->
         IF Overlapped(d, c.id, c.slot) # {} /\ ~c.allow THEN "conflict" ELSE "ok"
    [] OTHER -> "ok"

\* What a call that answers "ok" leaves.
Write(d, c) ==
  CASE c.op = "confirm" -> [d EXCEPT ![c.id].status = "confirmed"]
    [] c.op = "cancel"  -> [d EXCEPT ![c.id].status = "cancelled"]
    [] c.op = "no_show" -> [d EXCEPT ![c.id].status = "no_show"]
    [] c.op = "seen"    -> [d EXCEPT ![c.id].attention = FALSE]
    [] c.op = "all"     -> [b \in Bookings |-> [d[b] EXCEPT !.attention = FALSE]]
    [] c.op = "move"    -> [d EXCEPT ![c.id].slot = c.slot]
    [] c.op = "create"  -> [d EXCEPT ![c.id] = [First[c.id] EXCEPT !.made = TRUE, !.slot = c.slot]]

\* What a call's success writes on screen ahead of the server, in the rows it was tapped
\* on: base is what was on screen of them at the tap.
Field(c) == IF c.op \in {"seen", "all"} THEN "attention" ELSE "status"
Patch(c) == [confirm |-> "confirmed", cancel |-> "cancelled", no_show |-> "no_show",
             seen |-> FALSE, all |-> FALSE][c.op]
Patches(c, b, f) == b \in DOMAIN c.base /\ f = Field(c)
Changed(c) == {p \in Bookings \X Fields :
                 Patches(c, p[1], p[2]) /\ c.base[p[1]][p[2]] # Patch(c)}

\* apply, for every row of a call's patch: a value already showing is not held.
Apply(hs, c, at) ==
  [b \in Bookings |->
     [f \in Fields |->
        IF ~Patches(c, b, f) THEN hs[b][f]
        ELSE IF c.base[b][f] = Patch(c) THEN None
        ELSE [expected |-> Patch(c), base |-> c.base[b][f], at |-> at]]]

-----------------------------------------------------------------------------
(* Hooks and calls. *)

\* run(): ignored while pending.  A call remembers what was on screen at the tap.
Send(hook, op, id, more) ==
  /\ hook \notin busy /\ calls < MaxCalls
  /\ calls' = calls + 1
  /\ busy' = busy \cup {hook}
  /\ queue' = Append(queue,
       [hook |-> hook, op |-> op, id |-> id, slot |-> more.slot, allow |-> more.allow,
        read |-> more.read, edited |-> more.edited, base |-> more.base,
        mount |-> "here", at |-> "sent", result |-> None, page |-> None, where |-> screen])

Plain(rows) == [slot |-> None, allow |-> FALSE, read |-> None, edited |-> FALSE,
                base |-> [b \in rows |-> display[b]]]

\* The components of these hooks unmount, or reset them.
Without(q, hooks, how) ==
  [i \in DOMAIN q |->
     IF q[i].hook \in hooks /\ q[i].mount # "gone" THEN [q[i] EXCEPT !.mount = how] ELSE q[i]]
LetGo(hooks, how) == busy' = busy \ hooks /\ queue' = Without(queue, hooks, how)

\* A call is out that the hook still waits for.
Out(hook, q) == \E i \in DOMAIN q : q[i].hook = hook /\ q[i].mount = "here"

\* A hook is named for its button, a row's with its booking.
Hook(name) == <<name, None>>
DetailHooks == {Hook(n) : n \in {"seen", "confirm", "cancel", "no_show", "move"}}
AllHooks == DetailHooks \cup {Hook("create"), Hook("all")} \cup {<<"row", b>> : b \in Bookings}

NewSheet == [open |-> FALSE, slot |-> CHOOSE s \in Slots : TRUE,
             clash |-> None, edited |-> FALSE, saved |-> FALSE]

-----------------------------------------------------------------------------
(* What the owner does. *)

\* A page arrives: the effect prunes the store with it and the list is shown anew.
Show(hs, p) ==
  /\ page' = p
  /\ holds' = Prune(hs, p, now)
  /\ display' = Resolve(Prune(hs, p, now), p, now)

\* From the day to the changes and back: everything mounted goes, and a page
\* comes from the server.  The store is not part of any component.
Go ==
  /\ screen' = IF screen = "day" THEN "changes" ELSE "day"
  /\ Show(holds, Rendered(db, screen'))
  /\ detail' = None /\ create' = NewSheet
  /\ LetGo(AllHooks, "gone")
  /\ UNCHANGED <<db, now, calls, others, mine>>

OpenDetail ==
  /\ screen = "day" /\ detail = None /\ ~create.open
  /\ \E b \in DOMAIN display :
       detail' = [b |-> b, slot |-> page[b].slot, clash |-> None,
                  edited |-> FALSE, confirming |-> None]
  /\ UNCHANGED <<db, now, screen, page, holds, display, create, busy, queue, calls,
                 others, mine>>

\* Faulty: the optimistic values are the sheet's own state and go with it.
CloseDetailForgets ==
  /\ detail # None
  /\ detail' = None
  /\ LetGo(DetailHooks, "gone")
  /\ holds' = [b \in Bookings |-> [f \in Fields |-> None]]
  /\ display' = Resolve(holds', page, now)
  /\ UNCHANGED <<db, now, screen, page, create, calls, others, mine>>

\* Also while its calls are in flight.
CloseDetail ==
  /\ detail # None
  /\ detail' = None
  /\ LetGo(DetailHooks, "gone")
  /\ UNCHANGED <<db, now, screen, page, holds, display, create, calls, others, mine>>

\* The sheet's buttons, each there only for what the sheet shows.
Seen ==
  /\ display[detail.b].attention
  /\ Send(Hook("seen"), "seen", detail.b, Plain({detail.b}))
  /\ UNCHANGED detail

ConfirmBooking ==
  /\ display[detail.b].status = "pending"
  /\ Send(Hook("confirm"), "confirm", detail.b, Plain({detail.b}))
  /\ UNCHANGED detail

\* Cancel and no-show ask first; closing the question leaves the call alone.
Ask ==
  /\ detail.confirming = None /\ display[detail.b].status \in Live
  /\ \E q \in Questions : detail' = [detail EXCEPT !.confirming = q]
  /\ UNCHANGED <<busy, queue, calls>>

Reconsider ==
  /\ detail.confirming # None
  /\ detail' = [detail EXCEPT !.confirming = None]
  /\ UNCHANGED <<busy, queue, calls>>

ConfirmAsked ==
  /\ detail.confirming # None
  /\ Send(Hook(detail.confirming), detail.confirming, detail.b, Plain({detail.b}))
  /\ UNCHANGED detail

\* The move section: a time, the move button, and under a named clash the
\* button that moves anyway.  run() clears the clash it was sent under.
EditMove ==
  /\ display[detail.b].status \in Live
  /\ \E s \in Slots \ {detail.slot} :
       detail' = [detail EXCEPT !.slot = s,
                          !.edited = (detail.clash # None \/ Out(Hook("move"), queue))]
  /\ UNCHANGED <<busy, queue, calls>>

Move ==
  /\ display[detail.b].status \in Live
  /\ \E allow \in {FALSE} \cup (IF detail.clash = None THEN {} ELSE {TRUE}) :
       Send(Hook("move"), "move", detail.b,
            [slot |-> detail.slot, allow |-> allow, read |-> detail.clash,
             edited |-> detail.edited, base |-> <<>>])
  /\ detail' = [detail EXCEPT !.clash = None, !.edited = FALSE]

PickAnother ==
  /\ detail.clash # None
  /\ detail' = [detail EXCEPT !.clash = None]
  /\ LetGo({Hook("move")}, "reset")
  /\ UNCHANGED calls

InDetail ==
  /\ detail # None
  /\ \/ Seen \/ ConfirmBooking \/ Ask \/ Reconsider \/ ConfirmAsked
     \/ EditMove \/ Move \/ PickAnother
  /\ UNCHANGED <<db, now, screen, page, holds, display, create, others, mine>>

\* The changes: one row's button, with a hook of its own, or all of them.
SeenRow ==
  /\ screen = "changes"
  /\ \E b \in DOMAIN display :
       /\ display[b].attention
       /\ Send(<<"row", b>>, "seen", b, Plain({b}))
  /\ UNCHANGED <<db, now, screen, page, holds, display, detail, create, others, mine>>

SeenAll ==
  /\ screen = "changes" /\ DOMAIN display # {}
  /\ Send(Hook("all"), "all", None, Plain(DOMAIN display))
  /\ UNCHANGED <<db, now, screen, page, holds, display, detail, create, others, mine>>

\* The sheet for a new booking.
OpenNew ==
  /\ screen = "day" /\ detail = None /\ ~create.open
  /\ create' = [create EXCEPT !.open = TRUE]
  /\ UNCHANGED <<busy, queue, calls>>

EditNew ==
  /\ create.open /\ ~create.saved
  /\ \E s \in Slots \ {create.slot} :
       create' = [create EXCEPT !.slot = s,
                                  !.edited = (create.clash # None \/ Out(Hook("create"), queue))]
  /\ UNCHANGED <<busy, queue, calls>>

SubmitNew ==
  /\ create.open /\ ~create.saved
  /\ \E b \in {x \in Bookings : ~db[x].made /\ \A i \in DOMAIN queue : queue[i].id # x},
        allow \in {FALSE} \cup (IF create.clash = None THEN {} ELSE {TRUE}) :
       Send(Hook("create"), "create", b,
            [slot |-> create.slot, allow |-> allow, read |-> create.clash,
             edited |-> create.edited, base |-> <<>>])
  /\ create' = [create EXCEPT !.clash = None, !.edited = FALSE]

\* resetForNext: the date and the time stay, and the hook is reset with its call
\* perhaps in flight.  closeAll does the same and closes; "pick another time" resets.
Reset ==
  /\ create.open
  /\ \E open \in BOOLEAN :
       /\ open => create.saved \/ create.clash # None
       /\ create' = [create EXCEPT !.open = open, !.clash = None, !.saved = FALSE]
  /\ LetGo({Hook("create")}, "reset")
  /\ UNCHANGED calls

InNew ==
  /\ OpenNew \/ EditNew \/ SubmitNew \/ Reset
  /\ UNCHANGED <<db, now, screen, page, holds, display, detail, others, mine>>

-----------------------------------------------------------------------------
(* The server and the network. *)

Refreshing ==
  [hook |-> Hook("router"), op |-> "refresh", id |-> None, slot |-> None, allow |-> FALSE,
   read |-> None, edited |-> FALSE, base |-> <<>>, mount |-> "here", at |-> "sent",
   result |-> None, page |-> None, where |-> screen]

\* The action's transaction, then refresh(): a success carries the page it was
\* called from as it is rendered then.
Commit ==
  /\ queue # <<>> /\ Head(queue).at = "sent" /\ Head(queue).op # "refresh"
  /\ LET c == Head(queue)
         ok == Answer(db, c) = "ok"
     IN /\ db' = IF ok THEN Write(db, c) ELSE db
        /\ mine' = IF ok THEN mine \cup Changed(c) ELSE mine
        /\ queue' = [queue EXCEPT ![1].at = "done", ![1].result = Answer(db, c),
                       ![1].page = IF ok THEN Rendered(db', c.where) ELSE None]
  /\ UNCHANGED <<now, screen, page, holds, display, detail, create, busy, calls, others>>

\* A field is refused, an appointment has not finished, or the database fails.
Refuse ==
  /\ queue # <<>> /\ Head(queue).at = "sent" /\ Head(queue).op # "refresh"
  /\ queue' = [queue EXCEPT ![1].at = "done", ![1].result = "refused"]
  /\ UNCHANGED <<db, now, screen, page, holds, display, detail, create, busy, calls,
                 others, mine>>

\* router.refresh() renders the screen that is open.
Render ==
  /\ queue # <<>> /\ Head(queue).at = "sent" /\ Head(queue).op = "refresh"
  /\ queue' = [queue EXCEPT ![1].at = "done", ![1].result = "ok", ![1].where = screen,
                 ![1].page = Rendered(db, screen)]
  /\ UNCHANGED <<db, now, screen, page, holds, display, detail, create, busy, calls,
                 others, mine>>

\* onSuccess lays its patch over the base of the tap; a page for the screen that is
\* open settles it, a page for another is dropped.
Settle(c) ==
  LET held == Apply(holds, c, now)
  IN IF c.page # None /\ c.where = screen
     THEN Show(held, c.page)
     ELSE /\ holds' = held
          /\ display' = IF held = holds /\ Changed(c) = {} THEN display
                        ELSE Resolve(held, page, now)
          /\ UNCHANGED page

\* A clash names the overlapped bookings: the time it is for, and whether it comes late,
\* of a call she has already reset or with another of this hook's behind it - the answer
\* of a reset call frees the button of the next one.
Clash(c) ==
  [slot |-> c.slot,
   late |-> c.mount = "reset" \/ Out(c.hook, Tail(queue))]

\* What the answer does to the sheet it was sent from, if that is still mounted.
SheetAfter(c) ==
  IF detail = None \/ c.mount = "gone" THEN detail
  ELSE [detail EXCEPT
          !.confirming = IF c.result = "ok" /\ c.op \in {"cancel", "no_show"} THEN None ELSE @,
          !.clash = IF c.op = "move" /\ c.result = "conflict" THEN Clash(c) ELSE @]

CreateAfter(c) ==
  IF c.op # "create" \/ c.mount = "gone" THEN create
  ELSE [create EXCEPT
          !.saved = @ \/ c.result = "ok",
          !.clash = IF c.result = "conflict" THEN Clash(c) ELSE @]

\* A success asks for a refresh.  A row that the page no longer lists unmounts, and
\* with the last of them the list.
Arrive ==
  /\ queue # <<>> /\ Head(queue).at = "done"
  /\ LET c == Head(queue)
         left == {<<"row", b>> : b \in Bookings \ DOMAIN page'}
                   \cup (IF DOMAIN page' = {} THEN {Hook("all")} ELSE {})
         more == IF c.result = "ok" /\ c.op # "refresh" THEN <<Refreshing>> ELSE <<>>
     IN /\ IF c.result = "ok" THEN Settle(c) ELSE UNCHANGED <<page, holds, display>>
        /\ detail' = SheetAfter(c)
        /\ create' = CreateAfter(c)
        /\ busy' = (IF c.mount = "gone" THEN busy ELSE busy \ {c.hook}) \ left
        /\ queue' = Without(Tail(queue), left, "gone") \o more
  /\ UNCHANGED <<db, now, screen, calls, others, mine>>

\* A request or an answer is lost: the hook shows it.
Lose ==
  /\ queue # <<>>
  /\ queue' = Tail(queue)
  /\ busy' = IF Head(queue).mount = "gone" THEN busy ELSE busy \ {Head(queue).hook}
  /\ UNCHANGED <<db, now, screen, page, holds, display, detail, create, calls, others, mine>>

-----------------------------------------------------------------------------
(* The rest of the world. *)

\* A customer cancels or moves her booking; the change asks for attention.
CustomerChanges ==
  /\ others < MaxOthers /\ others' = others + 1
  /\ \E b \in {x \in Bookings : db[x].made /\ db[x].status \in Live} :
       \/ /\ db' = [db EXCEPT ![b].status = "cancelled", ![b].attention = TRUE]
          /\ mine' = mine \ ({b} \X Fields)
       \/ /\ \E s \in Slots \ {db[b].slot} :
               /\ Overlapped(db, b, s) = {}
               /\ db' = [db EXCEPT ![b].slot = s, ![b].attention = TRUE]
          /\ mine' = mine \ {<<b, "attention">>}
  /\ UNCHANGED <<now, calls, tab>>

\* The owner's other device acknowledges or confirms.
OtherDevice ==
  /\ others < MaxOthers /\ others' = others + 1
  /\ \E b \in {x \in Bookings : db[x].made} :
       \/ /\ db[b].attention /\ db' = [db EXCEPT ![b].attention = FALSE]
          /\ mine' = mine \ {<<b, "attention">>}
       \/ /\ db[b].status = "pending" /\ db' = [db EXCEPT ![b].status = "confirmed"]
          /\ mine' = mine \ {<<b, "status">>}
  /\ UNCHANGED <<now, calls, tab>>

\* Time passes; nothing is rendered for it.
Tick ==
  /\ now < MaxNow /\ now' = now + 1
  /\ UNCHANGED <<db, calls, others, mine, tab>>

Init ==
  /\ db = First /\ now = 0
  /\ screen \in {"day", "changes"}
  /\ page = Rendered(db, screen)
  /\ holds = [b \in Bookings |-> [f \in Fields |-> None]]
  /\ display = Resolve(holds, page, now)
  /\ detail = None /\ create = NewSheet
  /\ busy = {} /\ queue = <<>>
  /\ calls = 0 /\ others = 0
  /\ mine = {}

Owner == Go \/ OpenDetail \/ CloseDetail \/ InDetail \/ SeenRow \/ SeenAll \/ InNew
System == Commit \/ Refuse \/ Render \/ Arrive \/ Lose
World == CustomerChanges \/ OtherDevice \/ Tick
Next == Owner \/ System \/ World
Spec == Init /\ [][Next]_vars

-----------------------------------------------------------------------------
(* Properties. *)

\* A call answered over another screen that was tapped over something the page on screen
\* does not report: its base is what was displayed, a hold's value perhaps, and not what
\* the server reported.
TappedElsewhere(c, b, f) ==
  /\ c.at = "done" /\ c.result = "ok" /\ c.where # screen
  /\ Patches(c, b, f) /\ c.base[b][f] # page[b][f]

\* "The owner's most-repeated daily action visually reverted every single time
\* despite having saved": what she did and sees done, and nobody has changed since,
\* stays done on screen through closing sheets, other screens and late pages - until
\* the hold that shows it, if one does, has outlived its time, or gives way to the answer
\* of a call that was tapped over something the page on screen does not report.
NoRevert ==
  [][\A b \in DOMAIN display \cap DOMAIN display', f \in Fields :
       /\ <<b, f>> \in mine /\ <<b, f>> \in mine'
       /\ display[b][f] = db[b][f] /\ db'[b][f] = db[b][f]
       => \/ display'[b][f] = display[b][f]
          \/ holds[b][f] # None /\ now - holds[b][f].at > TTL
          \/ queue # <<>> /\ TappedElsewhere(Head(queue), b, f)]_vars

\* "An overlap has to be read and then chosen": when this tab's own call puts a
\* booking over another, the owner had a clash on screen and tapped the button under
\* it, and the clash was for that time unless she has changed the time since the call
\* it answers, or had sent another or closed the sheet before that answer came.
OverlapIsChosen ==
  [][LET c == Head(queue)
     IN queue # <<>> /\ c.at = "sent" /\ c.op \in {"create", "move"} /\ db' # db
        /\ Overlapped(db, c.id, c.slot) # {} /\ Head(queue').at = "done"
        => /\ c.allow /\ c.read # None
           /\ c.read.slot = c.slot \/ c.edited \/ c.read.late]_vars
=============================================================================
