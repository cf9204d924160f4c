------------------------------ MODULE SetupPages ------------------------------
(***************************************************************************)
(* The owner's set-up screens - the service catalogue, the opening hours,  *)
(* the business settings and a customer's profile - with the statements    *)
(* they make on the database.  One browser tab of the owner is modelled in *)
(* full: its dialogs and sheets, the pending flag of every button, and the *)
(* calls it has in flight.  A second session of the business (a rival)     *)
(* makes the same calls with no screen, and its statements fall between    *)
(* the statements of this tab's transactions.                              *)
(*                                                                         *)
(* The framework dispatches the server actions and refreshes of one tab    *)
(* one at a time, in order: queue is that order, and only its head is at   *)
(* the server.                                                             *)
(***************************************************************************)
EXTENDS Naturals, FiniteSets, Sequences, SequencesExt

CONSTANTS
  Services,    \* the services there may ever be; numbers, in order of name
  FirstServices,  \* the services the catalogue starts with
  HoursKinds,  \* sequence: the kind of each row the hours page may list
  Texts,       \* what a typed field may hold once it is trimmed
  MaxCalls,    \* bound: calls this tab makes
  MaxRivals,   \* bound: calls the rival and bookings customers make
  None         \* null, as in nothing open, no such number

Screens == {"services", "hours", "settings", "customer"}
HoursRows == DOMAIN HoursKinds
Leads == {None, 0, 1}      \* reminder_lead_min: NULL, at the appointment, ahead
SeededLead == 1            \* what the box holds when the stored value is NULL

\* The rows of each screen, and what a page of one holds.
ServiceRow == [live : {"no", "yes", "gone"}, active : BOOLEAN, ord : Nat]
Business == [name : Texts, lead : Leads]
Profile == [name : Texts, notes : Texts, blocked : BOOLEAN]
Kinds == {"hours", "closure", "override"}
Database == [svc : [Services -> ServiceRow], hrs : [HoursRows -> {"no", "yes", "gone"}],
             biz : Business, cus : Profile]
Rendered == [svc : [Services -> ServiceRow]] \cup [hrs : [HoursRows -> {"no", "yes", "gone"}]]
            \cup [biz : Business] \cup [cus : Profile]

ASSUME SetupAssumption ==
  /\ Services \subseteq Nat \ {0} /\ IsFiniteSet(Services)
  /\ FirstServices \subseteq Services
  /\ HoursKinds \in Seq(Kinds)
  /\ None \notin Nat /\ None \notin Rendered
  /\ 1 \in Texts /\ Texts \subseteq Nat
  /\ MaxCalls \in Nat /\ MaxRivals \in Nat

VARIABLES
  screen,     \* the screen this tab is on
  db,         \* the rows in the database
  booked,     \* services some booking refers to
  shown,      \* the rows as the screen was last rendered
  form,       \* the sheet that is open: None, or what it edits
  dialog,     \* the row a confirmation names, or None
  typed,      \* the settings form's fields
  saved,      \* the "saved" banner of the settings and the profile
  busy,       \* <<hook, row>> of every button whose pending flag is set
  queue,      \* this tab's calls and refreshes, in the order dispatched
  rival,      \* the rival's transaction between its statements, or None
  calls,      \* how many calls this tab has made
  rivals,     \* how many the rival has made, and bookings
  unseen,     \* the database changed after what will be shown was read
  abandoned,  \* confirmations reset in mid-call, until none of their calls is in flight
  overtyped   \* the last save to succeed found the settings edited since it was sent

pageVars == <<shown, form, dialog, typed, saved, busy, queue, abandoned, overtyped>>
vars == <<screen, db, booked, rival, calls, rivals, unseen, pageVars>>

-----------------------------------------------------------------------------
(* The database. *)

Live(d) == {s \in Services : d.svc[s].live = "yes"}
Listed(d) == {r \in HoursRows : d.hrs[r] = "yes"}

\* ORDER BY sort_order, name.
Before(d, a, b) ==
  \/ d.svc[a].ord < d.svc[b].ord
  \/ d.svc[a].ord = d.svc[b].ord /\ a < b

Order(d) ==
  CHOOSE ids \in [1..Cardinality(Live(d)) -> Live(d)] :
    \A j, k \in DOMAIN ids : j < k => Before(d, ids[j], ids[k])

\* Faulty variant: a new service is numbered by how many there are.
NextByCount(d) == Cardinality(Live(d))

\* COALESCE((SELECT max(sort_order) + 1 FROM torim.services), 0)
NextOrd(d) ==
  IF Live(d) = {} THEN 0 ELSE Max({d.svc[s].ord : s \in Live(d)}) + 1

\* ids.splice(to, 0, ...ids.splice(from, 1)) for a neighbour: the two change places.
Exchange(ids, i, j) == [k \in DOMAIN ids |-> CASE k = i -> ids[j] [] k = j -> ids[i] [] OTHER -> ids[k]]

\* Where moveService would put the service: 0 when it is gone or at that end.
Target(ids, s, dir) ==
  LET from == {k \in DOMAIN ids : ids[k] = s}
      to == {IF dir = "up" THEN k - 1 ELSE k + 1 : k \in from}
  IN IF to \cap DOMAIN ids = {} THEN 0 ELSE CHOOSE k \in to : TRUE

PlaceOf(ids, s) == CHOOSE k \in DOMAIN ids : ids[k] = s

\* UPDATE ... FROM unnest(ids) WITH ORDINALITY: every service still there is numbered.
Renumber(d, ids) ==
  [d EXCEPT !.svc = [s \in Services |->
     IF s \in Live(d) /\ \E k \in DOMAIN ids : ids[k] = s
     THEN [d.svc[s] EXCEPT !.ord = PlaceOf(ids, s)] ELSE d.svc[s]]]

\* What the settings form stores: the switch says NULL, whatever the box holds.
Stored(f) == [name |-> f.name, lead |-> IF f.on THEN f.lead ELSE None]

\* Faulty variant: the box is seeded with the stored NULL.
SeededRaw(biz) == [name |-> biz.name, on |-> biz.lead # None, lead |-> biz.lead]

\* The settings form as the page seeds it, once, from the stored row.
Seeded(biz) ==
  [name |-> biz.name, on |-> biz.lead # None,
   lead |-> IF biz.lead = None THEN SeededLead ELSE biz.lead]

\* Calls whose transaction reads first and writes with what it read.
TwoStatements(c) == c.op \in {"create", "delete", "move"}

\* What the first statement finds.
Reads(d, c) ==
  CASE c.op = "create" -> <<NextOrd(d)>>
    [] c.op = "move"   -> Order(d)
    [] OTHER           -> IF c.id \in Live(d) THEN <<c.id>> ELSE <<>>

\* How the action answers, given what its transaction read.
Answer(d, c) ==
  LET found == CASE c.op = "move" -> Target(c.saw, c.id, c.arg) # 0
                 [] c.op = "delete" -> c.saw # <<>>
                 [] c.op \in {"save", "toggle"} -> c.id \in Live(d)
                 [] c.op = "drop" -> c.id \in Listed(d)
                 [] OTHER -> TRUE
  IN IF ~found THEN "not_found"
     ELSE IF c.op = "delete" /\ c.id \in booked THEN "in_use" ELSE "ok"

\* INSERT: a new service takes the number read for it.  Of the columns the form
\* writes only active is kept: the others go the same way.
CreateService(d, c) ==
  [d EXCEPT !.svc[c.id] = [live |-> "yes", active |-> c.arg, ord |-> c.saw[1]]]

\* UPDATE of the whole row, whatever it has become since the form was opened.
UpdateService(d, c) == [d EXCEPT !.svc[c.id].active = c.arg]

SetServiceActive(d, c) == [d EXCEPT !.svc[c.id].active = c.arg]

\* DELETE; the row may be gone by then.
DeleteService(d, c) == [d EXCEPT !.svc[c.id].live = IF @ = "yes" THEN "gone" ELSE @]

MoveService(d, c) ==
  Renumber(d, Exchange(c.saw, PlaceOf(c.saw, c.id), Target(c.saw, c.id, c.arg)))

\* The statements of a customer's profile: each writes a column of its own.
WriteCustomer(d, c) ==
  CASE c.op = "rename" -> [d EXCEPT !.cus.name = c.arg]
    [] c.op = "notes"  -> [d EXCEPT !.cus.notes = c.arg]
    [] c.op = "block"  -> [d EXCEPT !.cus.blocked = c.arg]

\* UPDATE of the whole business row.
UpdateBusinessSettings(d, c) == [d EXCEPT !.biz = Stored(c.arg)]

\* What a call that answers "ok" leaves in the database.
Write(d, c) ==
  CASE c.op = "create"   -> CreateService(d, c)
    [] c.op = "save"     -> UpdateService(d, c)
    [] c.op = "toggle"   -> SetServiceActive(d, c)
    [] c.op = "delete"   -> DeleteService(d, c)
    [] c.op = "move"     -> MoveService(d, c)
    [] c.op = "add"      -> [d EXCEPT !.hrs[c.id] = "yes"]
    [] c.op = "drop"     -> [d EXCEPT !.hrs[c.id] = "gone"]
    [] c.op = "settings" -> UpdateBusinessSettings(d, c)
    [] OTHER             -> WriteCustomer(d, c)

-----------------------------------------------------------------------------
(* The pages, as the server renders them. *)

ServicesPage(d) == [svc |-> d.svc]
HoursPage(d)    == [hrs |-> d.hrs]
SettingsPage(d) == [biz |-> d.biz]
CustomerPage(d) == [cus |-> d.cus]

Page(d) ==
  CASE screen = "services" -> ServicesPage(d)
    [] screen = "hours"    -> HoursPage(d)
    [] screen = "settings" -> SettingsPage(d)
    [] screen = "customer" -> CustomerPage(d)

\* The arrows of a row: the first cannot go up, nor the last down.
Movable(s, dir) ==
  LET list == Order(shown) IN IF dir = "up" THEN s # Head(list) ELSE s # Last(list)

-----------------------------------------------------------------------------
(* The calls of the two sessions.  The rival's moves are all upwards: one service *)
(* up is its neighbour down, and the toggle is the one that changes something.    *)

Call(hook, row, op, id, arg) ==
  [hook |-> hook, row |-> row, op |-> op, id |-> id, arg |-> arg, mine |-> TRUE,
   at |-> "sent", saw |-> <<>>, result |-> None, page |-> None]

Refreshing == Call("router", 0, "refresh", 0, None)

\* Rows nobody has used, nor has on its way: an id is never given twice.
Given == {queue[i].id : i \in DOMAIN queue} \cup (IF rival = None THEN {} ELSE {rival.id})
FreshServices == {s \in Services : db.svc[s].live = "no"} \ Given
FreshRows == {r \in HoursRows : db.hrs[r] = "no"} \ Given

RivalCalls ==
  CASE screen = "services" ->
         {Call(None, 0, "create", s, TRUE) : s \in FreshServices}
         \cup {Call(None, 0, "toggle", s, ~db.svc[s].active) : s \in Live(db)}
         \cup {Call(None, 0, "delete", s, None) : s \in Live(db)}
         \cup {Call(None, 0, "move", Order(db)[k], "up") : k \in 2..Cardinality(Live(db))}
    [] screen = "hours" ->
         {Call(None, 0, "add", r, None) : r \in FreshRows}
         \cup {Call(None, 0, "drop", r, None) : r \in Listed(db)}
    [] screen = "settings" ->
         {Call(None, 0, "settings", 0, Seeded([name |-> t, lead |-> l])) : t \in Texts, l \in Leads}
    [] screen = "customer" ->
         {Call(None, 0, "block", 1, a) : a \in BOOLEAN}
         \cup {Call(None, 0, op, 0, t) : op \in {"rename", "notes"}, t \in Texts}

-----------------------------------------------------------------------------
(* The tab's hooks (useAdminAction over useAsyncAction). *)

\* run(): ignored while the hook's pending flag is set.
Send(hook, row, op, id, arg) ==
  /\ <<hook, row>> \notin busy
  /\ calls < MaxCalls
  /\ calls' = calls + 1
  /\ busy' = busy \cup {<<hook, row>>}
  /\ queue' = Append(queue, Call(hook, row, op, id, arg))

\* The calls made from a sheet, and from a confirmation.
SheetOps  == {"create", "save", "add"}
DialogOps == {"delete", "drop", "block"}

\* The sheet or the confirmation that made these calls is no longer there.
Orphaned(q, ops) ==
  [i \in DOMAIN q |-> IF q[i].op \in ops THEN [q[i] EXCEPT !.mine = FALSE] ELSE q[i]]

\* reset(), or the unmounting of a sheet with its hook: the pending flag falls,
\* the call itself goes on.
LetGo(hook, ops) ==
  /\ busy' = busy \ {<<hook, 0>>}
  /\ queue' = Orphaned(queue, ops)

\* The hooks that still have a call in flight.
StillOut(hooks, q) == {h \in hooks : \E i \in DOMAIN q : q[i].hook = h}

\* Nothing modal covers the page.
Bare == form = None /\ dialog = None

\* The hook a confirmation runs.
DialogHook ==
  CASE screen = "services" -> "remove"
    [] screen = "hours"    -> HoursKinds[dialog]
    [] screen = "customer" -> "block"

\* The hook of the open sheet; a new sheet is a new mount with a hook of its own.
FormHook ==
  CASE form.what = "service"  -> "add service"
    [] form.what = "hours"    -> "add hours"
    [] form.what = "closure"  -> "add closure"
    [] form.what = "override" -> "add override"

-----------------------------------------------------------------------------
(* What the owner does. *)

\* The buttons that open a sheet: a service's edit button or "add", and on the
\* hours page one "add" for each kind of row.
ServiceSheets == {[what |-> "service", id |-> s] : s \in Live(shown) \cup {0}}
HoursSheets == {[what |-> k, id |-> 0] : k \in {HoursKinds[r] : r \in HoursRows}}

OpenSheet ==
  /\ Bare
  /\ \/ screen = "services" /\ form' \in ServiceSheets
     \/ screen = "hours" /\ form' \in HoursSheets
  /\ UNCHANGED <<screen, db, booked, rival, calls, rivals, unseen, shown, dialog,
                 typed, saved, busy, queue, abandoned, overtyped>>

\* ServiceForm's save, whatever was typed; seeded once, it is not told of changes.
SendService ==
  /\ form.what = "service"
  /\ \E active \in BOOLEAN :
       IF form.id = 0
       THEN \E s \in FreshServices : Send(FormHook, 0, "create", s, active)
       ELSE Send(FormHook, 0, "save", form.id, active)

\* A row is sent only when its two times passed the check on this side.
SendRow(kind) ==
  /\ form.what = kind
  /\ \E r \in FreshRows : HoursKinds[r] = kind /\ Send(FormHook, 0, "add", r, None)
AddHoursSheet    == SendRow("hours")
AddClosureSheet  == SendRow("closure")
AddOverrideSheet == SendRow("override")

SubmitSheet ==
  /\ form # None
  /\ SendService \/ AddHoursSheet \/ AddClosureSheet \/ AddOverrideSheet
  /\ UNCHANGED <<screen, db, booked, rival, rivals, unseen, shown, form, dialog,
                 typed, saved, abandoned, overtyped>>

\* Cancel, the close button or the backdrop: also while the save is in flight.
CloseSheet ==
  /\ form # None
  /\ form' = None
  /\ LetGo(FormHook, SheetOps)
  /\ UNCHANGED <<screen, db, booked, rival, calls, rivals, unseen, shown, dialog,
                 typed, saved, abandoned, overtyped>>

\* A row's delete button, or the profile's block button.
OpenDialog ==
  /\ Bare
  /\ \/ screen = "services" /\ dialog' \in Live(shown)
     \/ screen = "hours" /\ dialog' \in Listed(shown)
     \/ screen = "customer" /\ dialog' = 1
  /\ UNCHANGED <<screen, db, booked, rival, calls, rivals, unseen, shown, form,
                 typed, saved, busy, queue, abandoned, overtyped>>

\* The confirm button; the profile's sends the opposite of what it shows.
ConfirmDelete  == screen = "services" /\ Send(DialogHook, 0, "delete", dialog, None)
ConfirmRemoval == screen = "hours" /\ Send(DialogHook, 0, "drop", dialog, None)
ConfirmBlock   == screen = "customer" /\ Send(DialogHook, 0, "block", dialog, ~shown.cus.blocked)

Confirm ==
  /\ dialog # None
  /\ ConfirmDelete \/ ConfirmRemoval \/ ConfirmBlock
  /\ UNCHANGED <<screen, db, booked, rival, rivals, unseen, shown, form, dialog,
                 typed, saved, abandoned, overtyped>>

\* The close button or the backdrop, also while the call is in flight; the
\* cancel button, which is disabled then.
Dismiss ==
  /\ dialog # None
  /\ dialog' = None
  /\ LetGo(DialogHook, DialogOps)
  /\ abandoned' = StillOut(abandoned \cup {DialogHook}, queue)
  /\ UNCHANGED <<screen, db, booked, rival, calls, rivals, unseen, shown, form,
                 typed, saved, overtyped>>

\* The buttons of a service's row: retire or restore, up, down.  All rows
\* share one move hook; each has its own toggle.
TapRow ==
  /\ screen = "services" /\ Bare
  /\ \E s \in Live(shown) :
       \/ Send("toggle", s, "toggle", s, ~shown.svc[s].active)
       \/ \E dir \in {"up", "down"} : Movable(s, dir) /\ Send("move", 0, "move", s, dir)
  /\ UNCHANGED <<screen, db, booked, rival, rivals, unseen, shown, form, dialog,
                 typed, saved, abandoned, overtyped>>

\* What one touch of the settings form can make of its fields: the business
\* section, and the messaging section, whose box is there while the switch is on.
EditBusiness(f) == {[f EXCEPT !.name = t] : t \in Texts}
EditMessaging(f) == {[f EXCEPT !.on = ~@]}
                    \cup {[f EXCEPT !.lead = l] : l \in IF f.on THEN Leads \ {None} ELSE {}}

\* Faulty variant: typing leaves the banner up.
EditUnderBanner ==
  /\ screen = "settings"
  /\ typed' \in EditBusiness(typed) \cup EditMessaging(typed)
  /\ UNCHANGED <<screen, db, booked, rival, calls, rivals, unseen, shown, form,
                 dialog, saved, busy, queue, abandoned, overtyped>>

\* A field of the settings changes: the banner goes.
EditSettings ==
  /\ screen = "settings"
  /\ typed' \in EditBusiness(typed) \cup EditMessaging(typed)
  /\ saved' = FALSE
  /\ UNCHANGED <<screen, db, booked, rival, calls, rivals, unseen, shown, form,
                 dialog, busy, queue, abandoned, overtyped>>

\* The save button of the settings: the whole form is sent.
SaveSettings ==
  /\ screen = "settings"
  /\ Send("settings", 0, "settings", 0, typed)
  /\ UNCHANGED <<screen, db, booked, rival, rivals, unseen, shown, form, dialog,
                 typed, saved, abandoned, overtyped>>

\* The profile's two save buttons, each with its own hook and its own column.
SaveProfile ==
  /\ screen = "customer" /\ Bare
  /\ \E op \in {"rename", "notes"}, t \in Texts : Send(op, 0, op, 0, t)
  /\ UNCHANGED <<screen, db, booked, rival, rivals, unseen, shown, form, dialog,
                 typed, saved, abandoned, overtyped>>

-----------------------------------------------------------------------------
(* The server and the network. *)

SetHead(c) == queue' = [queue EXCEPT ![1] = c]

\* The first statement of a transaction that has two.
Read ==
  /\ queue # <<>>
  /\ LET c == Head(queue)
     IN /\ c.at = "sent" /\ TwoStatements(c)
        /\ SetHead([c EXCEPT !.at = "read", !.saw = Reads(db, c)])
  /\ UNCHANGED <<screen, db, booked, rival, calls, rivals, unseen, shown, form,
                 dialog, typed, saved, busy, abandoned, overtyped>>

\* The writing statement and, when it was "ok", refresh(): the answer carries
\* the page as it is rendered then.
Commit ==
  /\ queue # <<>>
  /\ LET c == Head(queue)
         ok == Answer(db, c) = "ok"
     IN /\ c.at = IF TwoStatements(c) THEN "read" ELSE "sent"
        /\ c.op # "refresh"
        /\ db' = IF ok THEN Write(db, c) ELSE db
        /\ SetHead([c EXCEPT !.at = "done", !.result = Answer(db, c),
                             !.page = IF ok THEN Page(db') ELSE None])
        /\ unseen' = (unseen /\ ~ok)
  /\ UNCHANGED <<screen, booked, rival, calls, rivals, shown, form, dialog, typed,
                 saved, busy, abandoned, overtyped>>

\* A field is refused, the row clashes with another, or the database fails: nothing
\* is written.  Every kind of call may be refused.
Refuse ==
  /\ queue # <<>>
  /\ Head(queue).at = "sent" /\ Head(queue).op # "refresh"
  /\ SetHead([Head(queue) EXCEPT !.at = "done", !.result = "refused"])
  /\ UNCHANGED <<screen, db, booked, rival, calls, rivals, unseen, shown, form,
                 dialog, typed, saved, busy, abandoned, overtyped>>

\* router.refresh() renders the page.
Render ==
  /\ queue # <<>>
  /\ Head(queue).at = "sent" /\ Head(queue).op = "refresh"
  /\ SetHead([Head(queue) EXCEPT !.at = "done", !.result = "ok", !.page = Page(db)])
  /\ unseen' = FALSE
  /\ UNCHANGED <<screen, db, booked, rival, calls, rivals, shown, form, dialog,
                 typed, saved, busy, abandoned, overtyped>>

\* Faulty variant: the action does not call refresh().
ShowsLater(c) == IF c.op = "refresh" THEN c.page ELSE shown

\* The server's own refresh(): the answer of a success carries the page.
Shows(c) == IF c.result = "ok" THEN c.page ELSE shown

\* Faulty variant: every action of the page closes the dialog.
ClosedByAny(c) ==
  [sheet  |-> form # None /\ c.op \in SheetOps /\ c.hook = FormHook,
   dialog |-> c.op # "refresh"]

\* The sheet or the dialog a successful call closes, whichever it now is.
ClosedBy(c) ==
  [sheet  |-> form # None /\ c.op \in SheetOps /\ c.hook = FormHook,
   dialog |-> c.op \in DialogOps]

\* An answer arrives.  "ok": onSuccess, then router.refresh(); a failure is shown
\* and changes nothing.  Either way the hook's pending flag falls - unless the
\* call belonged to a sheet that has gone, whose flag went with it.  A success
\* that closes the sheet or the dialog leaves what it had sent itself behind.
Arrive ==
  /\ queue # <<>> /\ Head(queue).at = "done"
  /\ LET c == Head(queue)
         ok == c.result = "ok"
         closed == [sheet |-> ok /\ ClosedBy(c).sheet, dialog |-> ok /\ ClosedBy(c).dialog]
         rest == Orphaned(Tail(queue), (IF closed.sheet THEN SheetOps ELSE {})
                                         \cup (IF closed.dialog THEN DialogOps ELSE {}))
     IN /\ shown' = Shows(c)
        /\ queue' = IF ok /\ c.op # "refresh" THEN Append(rest, Refreshing) ELSE rest
        /\ busy' = IF c.op \in SheetOps /\ ~c.mine /\ ~closed.sheet THEN busy
                   ELSE busy \ {<<c.hook, c.row>>}
        /\ form' = IF closed.sheet THEN None ELSE form
        /\ dialog' = IF closed.dialog THEN None ELSE dialog
        /\ saved' = (saved \/ (ok /\ c.op \in {"settings", "rename", "notes", "block"}))
        /\ overtyped' = IF ok /\ c.op = "settings" THEN c.arg # typed ELSE overtyped
        /\ abandoned' = StillOut(abandoned, rest)
  /\ UNCHANGED <<screen, db, booked, rival, calls, rivals, unseen, typed>>

\* The request or its answer is lost: the hook reports it and its flag falls.
Lose ==
  /\ queue # <<>> /\ Head(queue).at \in {"sent", "done"}
  /\ LET c == Head(queue)
     IN /\ queue' = Tail(queue)
        /\ busy' = IF c.op \in SheetOps /\ ~c.mine THEN busy
                   ELSE busy \ {<<c.hook, c.row>>}
        /\ unseen' = (unseen \/ c.page # None)
        /\ abandoned' = StillOut(abandoned, Tail(queue))
  /\ UNCHANGED <<screen, db, booked, rival, calls, rivals, shown, form, dialog,
                 typed, saved, overtyped>>

-----------------------------------------------------------------------------
(* The rest of the world. *)

\* The rival makes a call; one that reads first stops between its statements.
RivalCall ==
  /\ rival = None /\ rivals < MaxRivals
  /\ rivals' = rivals + 1
  /\ \E c \in RivalCalls :
       IF TwoStatements(c)
       THEN /\ rival' = [c EXCEPT !.at = "read", !.saw = Reads(db, c)]
            /\ UNCHANGED <<db, unseen>>
       ELSE /\ Answer(db, c) = "ok"
            /\ db' = Write(db, c)
            /\ unseen' = (unseen \/ db' # db)
            /\ UNCHANGED rival
  /\ UNCHANGED <<screen, booked, calls, pageVars>>

RivalCommits ==
  /\ rival # None
  /\ db' = IF Answer(db, rival) = "ok" THEN Write(db, rival) ELSE db
  /\ unseen' = (unseen \/ db' # db)
  /\ rival' = None
  /\ UNCHANGED <<screen, booked, calls, rivals, pageVars>>

\* A customer books: from now on the service cannot be deleted.
CustomerBooks ==
  /\ screen = "services" /\ rivals < MaxRivals
  /\ rivals' = rivals + 1
  /\ \E s \in Live(db) : db.svc[s].active /\ s \notin booked /\ booked' = booked \cup {s}
  /\ UNCHANGED <<screen, db, rival, calls, unseen, pageVars>>

\* Seeded catalogues may hold services that share an order number, or that
\* their names would put the other way round.
Init ==
  /\ screen \in Screens
  /\ \E ord \in [Services -> 0..1], lead \in Leads :
       /\ screen # "settings" => lead = None
       /\ \E s \in FirstServices : ord[s] = 0
       /\ \A s \in Services : s \notin FirstServices \/ screen # "services" => ord[s] = 0
       /\ db = [svc |-> [s \in Services |->
                           [live |-> IF screen = "services" /\ s \in FirstServices
                                     THEN "yes" ELSE "no",
                            active |-> TRUE, ord |-> ord[s]]],
                hrs |-> [r \in HoursRows |->
                           IF screen = "hours" /\ r # 1 THEN "yes" ELSE "no"],
                biz |-> [name |-> 1, lead |-> lead],
                cus |-> [name |-> 1, notes |-> 1, blocked |-> FALSE]]
  /\ booked = {} /\ shown = Page(db)
  /\ form = None /\ dialog = None /\ typed = Seeded(db.biz) /\ saved = FALSE
  /\ busy = {} /\ queue = <<>> /\ rival = None
  /\ calls = 0 /\ rivals = 0
  /\ unseen = FALSE /\ abandoned = {} /\ overtyped = FALSE

Owner == \/ OpenSheet \/ SubmitSheet \/ CloseSheet \/ OpenDialog \/ Confirm \/ Dismiss
         \/ TapRow \/ EditSettings \/ SaveSettings \/ SaveProfile
System == Read \/ Commit \/ Refuse \/ Render \/ Arrive \/ Lose
World == RivalCall \/ RivalCommits \/ CustomerBooks
Next == Owner \/ System \/ World
Spec == Init /\ [][Next]_vars

-----------------------------------------------------------------------------
(* Properties. *)

\* Types of the variables.
TypeOK ==
  /\ screen \in Screens /\ db \in Database /\ shown \in Rendered
  /\ booked \subseteq Services
  /\ form = None \/ form \in [what : {"service"} \cup Kinds, id : Nat]
  /\ dialog = None \/ dialog \in Nat
  /\ typed \in [name : Texts, on : BOOLEAN, lead : Leads \ {None}]
  /\ saved \in BOOLEAN /\ unseen \in BOOLEAN /\ overtyped \in BOOLEAN
  /\ calls \in 0..MaxCalls /\ rivals \in 0..MaxRivals
  /\ \A i \in DOMAIN queue : queue[i].at \in {"sent", "read", "done"}

\* Services that share their order number with another.
Tied(d) == {s \in Live(d) : \E t \in Live(d) \ {s} : d.svc[s].ord = d.svc[t].ord}

\* A transaction about to write from a list or a number that is no longer true.
Late(c) == c.at = "read" /\ c.op \in {"create", "move"} /\ c.saw # Reads(db, c)
Overtaken == (rival # None /\ Late(rival)) \/ \E i \in DOMAIN queue : Late(queue[i])

\* moveService and createService of data.ts: unless two transactions overlapped,
\* the catalogue changes by one service leaving, one arriving at the end, or two
\* neighbours changing places - never by a service jumping - and no two services
\* come to share an order number; and a move that answers "ok" moved something,
\* whatever numbers the rows were seeded with.
ArrangedOrder ==
  [][~Overtaken =>
       LET before == Order(db)  after == Order(db')
       IN /\ db' # db =>
               /\ \/ before = after
                  \/ \E s \in Services : after = Append(before, s)
                  \/ \E k \in 1..Len(before) : after = RemoveAt(before, k)
                  \/ \E k \in 1..Len(before) - 1 : after = Exchange(before, k, k + 1)
               /\ Tied(db') \subseteq Tied(db)
          /\ queue # <<>> /\ queue' # <<>> /\ Head(queue).op = "move"
             /\ Head(queue).at = "read" /\ Head(queue').at = "done"
             /\ Head(queue').result = "ok" => before # after]_vars

\* useAdminAction refreshes on success "because most of these screens have no
\* optimistic layer": with nothing in flight, the screen shows the database, unless
\* another session wrote since or an answer was lost.
OwnWritesAreShown == queue = <<>> /\ ~unseen => shown = Page(db)

\* A call no button shows as pending: its sheet has gone and the hook with it, or
\* its confirmation was closed in mid-call, which resets a hook the page keeps.
Untracked(c) ==
  \/ c.op \in SheetOps /\ ~c.mine
  \/ c.op \in DialogOps /\ c.hook \in abandoned

\* Two halves of one promise, that a button tells the truth: useAsyncAction's "a
\* second run() while one is already in flight is ignored", and the banner of the
\* settings.  A call of the owner's is out only behind a button that is pending,
\* and a button has one call out at most; except for the calls of a sheet or a
\* confirmation that was closed over them, which reset() "does not cancel".  And
\* while no other session writes, the "saved" banner of the settings stands over
\* exactly what is stored, unless the owner typed while the save was in flight.
ButtonsTellTheTruth ==
  /\ \A i \in DOMAIN queue :
       queue[i].op = "refresh" \/ Untracked(queue[i]) \/ <<queue[i].hook, queue[i].row>> \in busy
  /\ \A i, j \in DOMAIN queue :
       i # j /\ queue[i].hook = queue[j].hook /\ queue[i].row = queue[j].row
       => queue[i].op = "refresh" \/ Untracked(queue[i]) \/ Untracked(queue[j])
  /\ screen = "settings" /\ saved /\ ~overtyped /\ rivals = 0 => Stored(typed) = db.biz

\* The answer of the first call has just been applied.
Answered == queue # <<>> /\ Head(queue).at = "done"
            /\ (queue' = <<>> \/ Head(queue').at # "done")

\* A toggle or a move still in flight when a confirmation or a sheet opened, or the
\* refresh behind it, leaves it open: a confirmation closes only for a confirmed
\* call, and for the one that names its row if the call was made from it; a sheet
\* closes only for a call of the same kind of sheet, and for a save of the service
\* it edits, or the creation of a new one, if the call was made from it.  The calls
\* "made from it" are all but those whose own confirmation or sheet was closed over
\* them: the success of such a call closes whichever is open by then.
ClosesForItsOwnCall ==
  [][LET c == Head(queue)
     IN Answered =>
       /\ dialog # None /\ dialog' = None =>
            c.op \in DialogOps /\ (c.mine => c.hook = DialogHook /\ c.id = dialog)
       /\ form # None /\ form' = None =>
            c.op \in SheetOps /\ c.hook = FormHook
            /\ (c.mine => form.id = IF c.op = "save" THEN c.id ELSE 0)]_vars
=============================================================================
