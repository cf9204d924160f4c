--------------------------- MODULE SetupPagesProofs ---------------------------
(***************************************************************************)
(* Proofs about SetupPages, for any catalogue, any hours rows, any texts   *)
(* and any number of calls: types, the screen that shows what was written, *)
(* the buttons and the banner, the sheets and dialogs that close, and the  *)
(* order of the services.                                                  *)
(***************************************************************************)
EXTENDS SetupPages, TLAPS, FiniteSetTheorems, SequenceTheorems, WellFoundedInduction, NaturalsInduction

-----------------------------------------------------------------------------
(* The invariant.                                                          *)

Fields == [name : Texts, on : BOOLEAN, lead : Leads \ {None}]

\* The screen an operation belongs to.
OpsOf ==
  [services |-> {"create", "save", "toggle", "delete", "move"}, hours |-> {"add", "drop"},
   settings |-> {"settings"}, customer |-> {"rename", "notes", "block"}]

Operations == {"create", "save", "toggle", "delete", "move", "add", "drop", "settings",
               "rename", "notes", "block", "refresh"}

HookNames ==
  {None, "router", "remove", "block", "toggle", "move", "settings", "rename", "notes",
   "add service", "add hours", "add closure", "add override"} \cup Kinds

Arguments == BOOLEAN \cup Texts \cup Fields \cup {None, "up", "down"}

CallRec ==
  [hook : HookNames, row : Nat, op : Operations, id : Nat, arg : Arguments, mine : BOOLEAN,
   at : {"sent", "read", "done"}, saw : Seq(Nat),
   result : {None, "ok", "refused", "not_found", "in_use"}, page : {None} \cup Rendered]

\* A page of a screen.
Rendering(sc) ==
  CASE sc = "services" -> [svc : [Services -> ServiceRow]]
    [] sc = "hours"    -> [hrs : [HoursRows -> {"no", "yes", "gone"}]]
    [] sc = "settings" -> [biz : Business]
    [] sc = "customer" -> [cus : Profile]

\* What a call carries is what its statements write.
Fits(sc, c) ==
  /\ c \in CallRec
  /\ c.op # "refresh" => c.op \in OpsOf[sc]
  /\ c.op \in {"create", "save", "toggle"} => c.id \in Services /\ c.arg \in BOOLEAN
  /\ c.op \in {"delete", "move"} => c.id \in Services
  /\ c.op \in {"add", "drop"} => c.id \in HoursRows
  /\ c.op = "settings" => c.arg \in Fields
  /\ c.op \in {"rename", "notes"} => c.arg \in Texts
  /\ c.op = "block" => c.arg \in BOOLEAN
  /\ (c.op = "create" /\ c.at = "read") => Len(c.saw) = 1
  /\ c.page # None => c.page \in Rendering(sc)
  /\ c.at # "done" => c.page = None
  /\ c.at = "done" => (c.result = "ok" <=> c.page # None)

\* The types of the variables that hold no call.
Typed ==
  /\ screen \in Screens /\ db \in Database /\ shown \in Rendering(screen)
  /\ booked \subseteq Services
  /\ typed \in Fields
  /\ saved \in BOOLEAN /\ unseen \in BOOLEAN /\ overtyped \in BOOLEAN
  /\ calls \in 0..MaxCalls /\ rivals \in 0..MaxRivals

\* What is open belongs to the screen.
Opened ==
  /\ form # None => \/ screen = "services" /\ form \in [what : {"service"}, id : Services \cup {0}]
                    \/ screen = "hours" /\ form \in [what : Kinds, id : {0}]
  /\ dialog # None => \/ screen = "services" /\ dialog \in Services
                      \/ screen = "hours" /\ dialog \in HoursRows
                      \/ screen = "customer" /\ dialog = 1

\* The calls in flight: only the first is at the server.
Queued(sc, q) ==
  /\ q \in Seq(CallRec)
  /\ \A i \in 1 .. Len(q) : Fits(sc, q[i]) /\ (i > 1 => q[i].at = "sent")

\* The rival's call, between its statements.
Rival ==
  /\ rival # None => Fits(screen, rival) /\ rival.at = "read" /\ TwoStatements(rival)
  /\ rivals = 0 => rival = None

\* What the screen shows, or is about to show, is the database.
Current ==
  ~unseen => IF queue # <<>> /\ Head(queue).at = "done" /\ Head(queue).result = "ok"
             THEN Head(queue).page = Page(db) ELSE shown = Page(db)

\* The hooks of the sheets, and of the confirmations.
SheetHooks  == {"add service", "add hours", "add closure", "add override"}
DialogHooks == {"remove", "block"} \cup Kinds

\* A call and the hook it is run by.
Wired(c) ==
  /\ c.op = "refresh" <=> c.hook = "router"
  /\ c.op \in SheetOps <=> c.hook \in SheetHooks
  /\ c.op \in DialogOps <=> c.hook \in DialogHooks
  /\ c.op = "settings" => c.hook = "settings" /\ c.row = 0

\* A call that need not show as pending: a refresh, or one its sheet or its
\* confirmation was closed over.
Excused(c, left) ==
  \/ c.op = "refresh"
  \/ c.op \in SheetOps /\ ~c.mine
  \/ c.op \in DialogOps /\ c.hook \in left

\* A hook with a call in flight is pending, and has one call.
Hooked(c, pending, left) ==
  Wired(c) /\ (Excused(c, left) \/ <<c.hook, c.row>> \in pending)

Hooks(q, pending, left) == \A i \in 1 .. Len(q) : Hooked(q[i], pending, left)

OneEach(q, left) ==
  \A i, j \in 1 .. Len(q) :
    (i # j /\ q[i].hook = q[j].hook /\ q[i].row = q[j].row)
      => (Excused(q[i], left) \/ Excused(q[j], left))

\* The banner stands over what is stored.
Banner(q, biz, fields, stands) ==
  /\ stands => /\ Stored(fields) = biz
               /\ \A i \in 1 .. Len(q) : q[i].op = "settings" => q[i].arg = fields
  /\ \A i \in 1 .. Len(q) :
       (q[i].op = "settings" /\ q[i].at = "done" /\ q[i].result = "ok") => Stored(q[i].arg) = biz

\* The sheet or dialog a call was sent from is open, unless it was closed over the call.
FromDialog(c, box, hook) ==
  c.op \in DialogOps /\ c.mine =>
    box # None /\ c.hook = hook /\ c.row = 0 /\ c.id = box

FromForm(c, sheet, hook) ==
  c.op \in SheetOps /\ c.mine =>
    sheet # None /\ c.hook = hook /\ c.row = 0 /\ sheet.id = IF c.op = "save" THEN c.id ELSE 0

Sources(q, box, boxHook, sheet, sheetHook) ==
  \A i \in 1 .. Len(q) : FromDialog(q[i], box, boxHook) /\ FromForm(q[i], sheet, sheetHook)

IInv ==
  /\ Typed /\ Opened /\ Queued(screen, queue) /\ Rival /\ Current
  /\ Hooks(queue, busy, abandoned) /\ OneEach(queue, abandoned)
  /\ screen = "settings" /\ rivals = 0 => Banner(queue, db.biz, typed, saved /\ ~overtyped)
  /\ Sources(queue, dialog, DialogHook, form, FormHook)

-----------------------------------------------------------------------------
(* The list of the services, by their numbers and their names.             *)

Catalogue == [Services -> ServiceRow]
Arranged(d, ids, T) ==
  /\ ids \in [1 .. Cardinality(T) -> T]
  /\ \A j, k \in 1 .. Cardinality(T) : j < k => Before(d, ids[j], ids[k])

LEMMA FiniteLists ==
  ASSUME NEW T \in SUBSET Services
  PROVE  IsFiniteSet(T) /\ Cardinality(T) \in Nat /\ T \in FiniteSubsetsOf(Services)
  BY SetupAssumption, FS_Subset, FS_CardinalityType DEF FiniteSubsetsOf

LEMMA BeforeOrders ==
  ASSUME NEW d, d.svc \in Catalogue, NEW a \in Services, NEW b \in Services, NEW c \in Services
  PROVE  /\ ~Before(d, a, a)
         /\ a # b => Before(d, a, b) \/ Before(d, b, a)
         /\ Before(d, a, b) /\ Before(d, b, c) => Before(d, a, c)
  <1>1. \A s \in Services : s \in Nat /\ d.svc[s].ord \in Nat
    BY SetupAssumption DEF Catalogue, ServiceRow
  <1>2. QED
    BY <1>1 DEF Before

\* A family of finite lists of services that is not empty has a smallest list.
LEMMA SmallestList ==
  ASSUME NEW Bad \in SUBSET SUBSET Services, Bad # {}
  PROVE  \E T \in Bad : \A U \in Bad : ~(U \subseteq T /\ U # T)
  <1>1. Bad \subseteq FiniteSubsetsOf(Services)
    BY FiniteLists
  <1>2. \E T \in Bad : \A U \in Bad : ~(<<U, T>> \in StrictSubsetOrdering(Services))
    BY <1>1, FS_StrictSubsetOrderingWellFounded, WFMin, Zenon
  <1>3. PICK T \in Bad : \A U \in Bad : ~(<<U, T>> \in StrictSubsetOrdering(Services))
    BY <1>2
  <1>4. ASSUME NEW U \in Bad PROVE ~(U \subseteq T /\ U # T)
    BY <1>3 DEF StrictSubsetOrdering
  <1>5. QED
    BY <1>4

\* Some service comes after all the others.
LEMMA LastOfList ==
  ASSUME NEW d, d.svc \in Catalogue, NEW S \in SUBSET Services, S # {}
  PROVE  \E m \in S : \A x \in S : x = m \/ Before(d, x, m)
  <1> DEFINE HasLast(T) == \E m \in T : \A x \in T : x = m \/ Before(d, x, m)
             Bad == {T \in SUBSET Services : T # {} /\ ~HasLast(T)}
  <1> SUFFICES ASSUME Bad # {} PROVE FALSE
    OBVIOUS
  <1>1. PICK T \in Bad : \A U \in Bad : ~(U \subseteq T /\ U # T)
    <2>1. Bad \in SUBSET SUBSET Services
      OBVIOUS
    <2> HIDE DEF Bad
    <2>2. QED
      BY <2>1, SmallestList
  <1>2. PICK x \in T : TRUE
    OBVIOUS
  <1>3. x \in Services /\ T \subseteq Services /\ ~HasLast(T)
    OBVIOUS
  <1>4. CASE T \ {x} = {}
    <2>1. \A y \in T : y = x
      BY <1>4
    <2>2. QED
      BY <2>1, <1>3
  <1>5. CASE T \ {x} # {}
    <2>1. T \ {x} \notin Bad
      BY <1>1, <1>2
    <2>2. HasLast(T \ {x})
      BY <2>1, <1>3, <1>5
    <2>3. PICK m \in T \ {x} : \A y \in T \ {x} : y = m \/ Before(d, y, m)
      BY <2>2
    <2>4. m \in Services /\ m # x /\ m \in T
      BY <1>3
    <2>5. CASE Before(d, x, m)
      BY <2>3, <2>4, <2>5, <1>3
    <2>6. CASE Before(d, m, x)
      <3>1. ASSUME NEW y \in T PROVE y = x \/ Before(d, y, x)
        <4>1. y \in Services
          BY <1>3
        <4>2. CASE y = x \/ y = m
          BY <4>2, <2>6
        <4>3. CASE y # x /\ y # m
          BY <4>1, <4>3, <2>3, <2>4, <2>6, <1>3, BeforeOrders
        <4>4. QED
          BY <4>2, <4>3
      <3>2. QED
        BY <3>1, <1>3
    <2>7. QED
      BY <2>4, <2>5, <2>6, <1>3, BeforeOrders
  <1>6. QED
    BY <1>4, <1>5

\* Every list of services can be put in order.
LEMMA ListsCanBeArranged ==
  ASSUME NEW d, d.svc \in Catalogue, NEW S \in SUBSET Services
  PROVE  \E ids : Arranged(d, ids, S)
  <1> DEFINE Bad == {T \in SUBSET Services : ~\E ids : Arranged(d, ids, T)}
  <1> SUFFICES ASSUME Bad # {} PROVE FALSE
    OBVIOUS
  <1>1. PICK T \in Bad : \A U \in Bad : ~(U \subseteq T /\ U # T)
    <2>1. Bad \in SUBSET SUBSET Services
      OBVIOUS
    <2> HIDE DEF Bad
    <2>2. QED
      BY <2>1, SmallestList
  <1>2. T \in SUBSET Services /\ ~\E ids : Arranged(d, ids, T)
    OBVIOUS
  <1>3. T # {}
    <2>1. SUFFICES ASSUME T = {} PROVE FALSE
      OBVIOUS
    <2>2. Cardinality(T) = 0
      BY <2>1, FS_EmptySet
    <2>3. Arranged(d, [i \in 1 .. 0 |-> i], T)
      BY <2>1, <2>2 DEF Arranged
    <2>4. QED
      BY <2>3, <1>2
  <1>4. PICK m \in T : \A x \in T : x = m \/ Before(d, x, m)
    BY <1>2, <1>3, LastOfList
  <1> DEFINE U == T \ {m}
             n == Cardinality(U)
  <1>5. U \in SUBSET Services /\ U \subseteq T /\ U # T
    BY <1>2, <1>4
  <1>6. PICK ids : Arranged(d, ids, U)
    BY <1>1, <1>5
  <1>7. n \in Nat /\ Cardinality(T) = n + 1
    <2>1. IsFiniteSet(T) /\ Cardinality(U) \in Nat /\ Cardinality(T) \in Nat
      BY <1>2, <1>5, FiniteLists
    <2>2. Cardinality(T \ {m}) = Cardinality(T) - 1
      BY <2>1, FS_RemoveElement
    <2>3. QED
      BY <2>1, <2>2
  <1>12. ids \in [1 .. n -> U] /\ \A j, k \in 1 .. n : j < k => Before(d, ids[j], ids[k])
    BY <1>6 DEF Arranged
  <1> HIDE DEF U, n
  <1> DEFINE more == [k \in 1 .. n + 1 |-> IF k = n + 1 THEN m ELSE ids[k]]
  <1>8. more \in [1 .. n + 1 -> T]
    <2>1. ASSUME NEW k \in 1 .. n + 1 PROVE (IF k = n + 1 THEN m ELSE ids[k]) \in T
      <3>1. CASE k = n + 1
        BY <3>1
      <3>2. CASE k # n + 1
        <4>1. k \in 1 .. n
          BY <3>2, <1>7
        <4>2. QED
          BY <4>1, <3>2, <1>12, <1>5
      <3>3. QED
        BY <3>1, <3>2
    <2>2. QED
      BY <2>1
  <1>9. ASSUME NEW j \in 1 .. n + 1, NEW k \in 1 .. n + 1, j < k
        PROVE  Before(d, more[j], more[k])
    <2>1. j \in 1 .. n /\ ids[j] \in U
      BY <1>12, <1>7, <1>9
    <2>2. more[j] = ids[j]
      BY <2>1, <1>7
    <2>3. CASE k = n + 1
      BY <2>1, <2>2, <2>3, <1>4, <1>7 DEF U
    <2>4. CASE k # n + 1
      BY <2>1, <2>2, <2>4, <1>12, <1>7, <1>9
    <2>5. QED
      BY <2>3, <2>4
  <1>10. Arranged(d, more, T)
    BY <1>7, <1>8, <1>9 DEF Arranged
  <1>11. QED
    BY <1>10, <1>2

\* What the page lists, and every read of the catalogue finds.
LEMMA OrderArranges ==
  ASSUME NEW d, d.svc \in Catalogue
  PROVE  Arranged(d, Order(d), Live(d))
  <1>1. Live(d) \in SUBSET Services
    BY DEF Live
  <1>2. PICK ids : Arranged(d, ids, Live(d))
    BY <1>1, ListsCanBeArranged
  <1>3. \E i \in [1 .. Cardinality(Live(d)) -> Live(d)] :
          \A j, k \in DOMAIN i : j < k => Before(d, i[j], i[k])
    BY <1>2 DEF Arranged
  <1>4. QED
    BY <1>3 DEF Order, Arranged

LEMMA OrderType ==
  ASSUME NEW d, d.svc \in Catalogue
  PROVE  /\ Order(d) \in Seq(Live(d)) /\ Order(d) \in Seq(Nat)
         /\ Len(Order(d)) = Cardinality(Live(d)) /\ Cardinality(Live(d)) \in Nat
  <1>1. Live(d) \in SUBSET Services /\ Live(d) \subseteq Nat
    BY SetupAssumption DEF Live
  <1>2. Cardinality(Live(d)) \in Nat
    BY <1>1, FiniteLists
  <1>3. Order(d) \in [1 .. Cardinality(Live(d)) -> Live(d)]
    BY OrderArranges DEF Arranged
  <1>4. QED
    BY <1>1, <1>2, <1>3

\* The number a new service is given is larger than every other.
LEMMA NextOrdType ==
  ASSUME NEW d, d.svc \in Catalogue
  PROVE  NextOrd(d) \in Nat /\ \A s \in Live(d) : d.svc[s].ord < NextOrd(d)
  <1>1. CASE Live(d) = {}
    BY <1>1 DEF NextOrd
  <1>2. CASE Live(d) # {}
    <2>1. Live(d) \in SUBSET Services /\ \A s \in Live(d) : d.svc[s].ord \in Nat
      BY DEF Live, Catalogue, ServiceRow
    <2>2. PICK m \in Live(d) : \A x \in Live(d) : x = m \/ Before(d, x, m)
      BY <1>2, <2>1, LastOfList
    <2> DEFINE O == {d.svc[s].ord : s \in Live(d)}
    <2>3. d.svc[m].ord \in O /\ \A y \in O : d.svc[m].ord >= y
      BY <2>1, <2>2 DEF Before
    <2>4. NextOrd(d) = Max(O) + 1 /\ O \subseteq Nat
      BY <1>2, <2>1 DEF NextOrd
    <2>5. \A s \in Live(d) : d.svc[s].ord \in O
      OBVIOUS
    <2> HIDE DEF O
    <2>6. Max(O) \in O /\ \A y \in O : Max(O) >= y
      BY <2>3 DEF Max
    <2>7. Max(O) \in Nat
      BY <2>4, <2>6
    <2>8. ASSUME NEW s \in Live(d) PROVE d.svc[s].ord < Max(O) + 1
      BY <2>1, <2>5, <2>6, <2>7
    <2>9. QED
      BY <2>4, <2>7, <2>8
  <1>3. QED
    BY <1>1, <1>2
-----------------------------------------------------------------------------
(* What is written, read and rendered.                                     *)

LEMMA PageType ==
  ASSUME NEW d \in Database, screen \in Screens
  PROVE  Page(d) \in Rendering(screen) /\ Page(d) \in Rendered /\ Page(d) # None
  <1>1. Page(d) \in Rendering(screen) /\ Page(d) \in Rendered
    BY DEF Page, ServicesPage, HoursPage, SettingsPage, CustomerPage, Rendering, Rendered,
           Database, Screens
  <1>2. QED
    BY <1>1, SetupAssumption

LEMMA SeededType ==
  ASSUME NEW b \in Business
  PROVE  Seeded(b) \in Fields
  <1>1. b.lead \in Leads /\ b.name \in Texts
    BY DEF Business
  <1>2. SeededLead \in Leads \ {None}
    BY SetupAssumption DEF Leads, SeededLead
  <1>3. QED
    BY <1>1, <1>2 DEF Seeded, Fields

LEMMA StoredType ==
  ASSUME NEW f \in Fields
  PROVE  Stored(f) \in Business
  BY DEF Stored, Fields, Business, Leads

LEMMA RenumberType ==
  ASSUME NEW d \in Database, NEW ids, DOMAIN ids \subseteq Nat
  PROVE  Renumber(d, ids) \in Database
  <1>1. ASSUME NEW s \in Services
        PROVE  (IF s \in Live(d) /\ \E k \in DOMAIN ids : ids[k] = s
                THEN [d.svc[s] EXCEPT !.ord = PlaceOf(ids, s)] ELSE d.svc[s]) \in ServiceRow
    <2>1. d.svc[s] \in ServiceRow
      BY DEF Database
    <2>2. (\E k \in DOMAIN ids : ids[k] = s) => PlaceOf(ids, s) \in Nat
      BY DEF PlaceOf
    <2>3. QED
      BY <2>1, <2>2 DEF ServiceRow
  <1>2. QED
    BY <1>1 DEF Renumber, Database

\* Whatever a call that fits the screen writes, the rows stay rows.
LEMMA WriteType ==
  ASSUME NEW d \in Database, NEW sc, NEW c, Fits(sc, c), c.op # "refresh",
         c.op = "create" => Len(c.saw) = 1
  PROVE  Write(d, c) \in Database
  <1>1. c.op \in Operations /\ c.saw \in Seq(Nat)
    BY DEF Fits, CallRec
  <1>2. CASE c.op = "create"
    <2>1. c.id \in Services /\ c.arg \in BOOLEAN /\ c.saw[1] \in Nat
      BY <1>1, <1>2 DEF Fits
    <2>2. [live |-> "yes", active |-> c.arg, ord |-> c.saw[1]] \in ServiceRow
      BY <2>1 DEF ServiceRow
    <2>3. CreateService(d, c) \in Database
      BY <2>1, <2>2 DEF CreateService, Database
    <2>4. QED
      BY <2>3, <1>2 DEF Write
  <1>3. CASE c.op \in {"save", "toggle"}
    <2>1. c.id \in Services /\ c.arg \in BOOLEAN
      BY <1>3 DEF Fits
    <2>2. [d EXCEPT !.svc[c.id].active = c.arg] \in Database
      BY <2>1 DEF Database, ServiceRow
    <2>3. QED
      BY <2>2, <1>3 DEF Write, UpdateService, SetServiceActive
  <1>4. CASE c.op = "delete"
    <2>1. c.id \in Services
      BY <1>4 DEF Fits
    <2>2. DeleteService(d, c) \in Database
      BY <2>1 DEF Database, ServiceRow, DeleteService
    <2>3. QED
      BY <2>2, <1>4 DEF Write
  <1>5. CASE c.op = "move"
    <2>1. DOMAIN c.saw \subseteq Nat
      BY <1>1
    <2>2. MoveService(d, c) \in Database
      BY <2>1, RenumberType DEF MoveService, Exchange
    <2>3. QED
      BY <2>2, <1>5 DEF Write
  <1>6. CASE c.op \in {"add", "drop"}
    <2>1. c.id \in HoursRows
      BY <1>6 DEF Fits
    <2>2. /\ [d EXCEPT !.hrs[c.id] = "yes"] \in Database
          /\ [d EXCEPT !.hrs[c.id] = "gone"] \in Database
      BY <2>1 DEF Database
    <2>3. QED
      BY <2>2, <1>6 DEF Write
  <1>7. CASE c.op = "settings"
    <2>1. Stored(c.arg) \in Business
      BY <1>7, StoredType DEF Fits
    <2>2. UpdateBusinessSettings(d, c) \in Database
      BY <2>1 DEF Database, UpdateBusinessSettings
    <2>3. QED
      BY <2>2, <1>7 DEF Write
  <1>8. CASE c.op \in {"rename", "notes"}
    <2>1. c.arg \in Texts
      BY <1>8 DEF Fits
    <2>2. /\ [d EXCEPT !.cus.name = c.arg] \in Database
          /\ [d EXCEPT !.cus.notes = c.arg] \in Database
      BY <2>1 DEF Database, Profile
    <2>3. QED
      BY <2>2, <1>8 DEF Write, WriteCustomer
  <1>9. CASE c.op = "block"
    <2>1. c.arg \in BOOLEAN
      BY <1>9 DEF Fits
    <2>2. [d EXCEPT !.cus.blocked = c.arg] \in Database
      BY <2>1 DEF Database, Profile
    <2>3. QED
      BY <2>2, <1>9 DEF Write, WriteCustomer
  <1>10. QED
    BY <1>1, <1>2, <1>3, <1>4, <1>5, <1>6, <1>7, <1>8, <1>9 DEF Operations

LEMMA ReadsType ==
  ASSUME NEW d \in Database, NEW sc, NEW c, Fits(sc, c), TwoStatements(c)
  PROVE  Reads(d, c) \in Seq(Nat) /\ (c.op = "create" => Len(Reads(d, c)) = 1)
  <1>1. d.svc \in Catalogue
    BY DEF Database, Catalogue
  <1>2. c.op \in {"create", "delete", "move"} /\ c.id \in Nat
    BY DEF TwoStatements, Fits, CallRec
  <1>3. <<NextOrd(d)>> \in Seq(Nat) /\ Len(<<NextOrd(d)>>) = 1 /\ Order(d) \in Seq(Nat)
    BY <1>1, NextOrdType, OrderType
  <1>4. <<c.id>> \in Seq(Nat) /\ <<>> \in Seq(Nat)
    BY <1>2
  <1>5. QED
    BY <1>2, <1>3, <1>4 DEF Reads

\* What a transaction may answer.
LEMMA AnswerType ==
  ASSUME NEW d, NEW c
  PROVE  Answer(d, c) \in {"ok", "not_found", "in_use"}
  BY DEF Answer
-----------------------------------------------------------------------------
(* What a step does to the calls in flight: one is added behind, the first *)
(* is rewritten or leaves, or the calls of a hook are let go.              *)

LEMMA AppendFacts ==
  ASSUME NEW S, NEW q \in Seq(S), NEW c \in S
  PROVE  /\ Append(q, c) \in Seq(S)
         /\ Len(q) \in Nat /\ Len(Append(q, c)) = Len(q) + 1
         /\ \A i \in 1 .. Len(Append(q, c)) :
               \/ i \in 1 .. Len(q) /\ Append(q, c)[i] = q[i]
               \/ i = Len(q) + 1 /\ Append(q, c)[i] = c
  OBVIOUS

LEMMA TailFacts ==
  ASSUME NEW S, NEW q \in Seq(S), q # <<>>
  PROVE  /\ Tail(q) \in Seq(S) /\ Len(q) \in Nat /\ Len(Tail(q)) = Len(q) - 1
         /\ 1 \in 1 .. Len(q) /\ Head(q) = q[1] /\ q[1] \in S
         /\ \A i \in 1 .. Len(Tail(q)) : i + 1 \in 1 .. Len(q) /\ Tail(q)[i] = q[i + 1]
  <1>1. Tail(q) \in Seq(S) /\ Len(Tail(q)) = Len(q) - 1
    BY HeadTailProperties
  <1>2. \A i \in 1 .. Len(Tail(q)) : Tail(q)[i] = q[i + 1]
    BY HeadTailProperties
  <1>3. Len(q) \in Nat /\ 1 \in 1 .. Len(q) /\ Head(q) = q[1] /\ q[1] \in S
    OBVIOUS
  <1>4. QED
    BY <1>1, <1>2, <1>3

LEMMA FirstFacts ==
  ASSUME NEW S, NEW q \in Seq(S), q # <<>>, NEW c \in S
  PROVE  /\ [q EXCEPT ![1] = c] \in Seq(S) /\ Len([q EXCEPT ![1] = c]) = Len(q)
         /\ [q EXCEPT ![1] = c] # <<>> /\ Head([q EXCEPT ![1] = c]) = c
         /\ \A i \in 1 .. Len(q) : [q EXCEPT ![1] = c][i] = IF i = 1 THEN c ELSE q[i]
  OBVIOUS

\* Two records of one call, after and before it was handled or let go.
Same(a, b) ==
  /\ a.hook = b.hook /\ a.row = b.row /\ a.op = b.op /\ a.id = b.id /\ a.arg = b.arg
  /\ a.mine => b.mine

LEMMA SameExcused ==
  ASSUME NEW a, NEW b, NEW left, Same(a, b)
  PROVE  /\ Wired(b) => Wired(a)
         /\ Excused(b, left) => Excused(a, left)
  BY DEF Same, Wired, Excused

\* Every call of the one queue is one of the other, in the same order.
Follows(p, q) ==
  \E k \in {0, 1} : \A i \in 1 .. Len(p) : i + k \in 1 .. Len(q) /\ Same(p[i], q[i + k])

LEMMA FollowsOneEach ==
  ASSUME NEW p, NEW q, NEW left, Follows(p, q), OneEach(q, left), Len(p) \in Nat
  PROVE  OneEach(p, left)
  <1>1. PICK k \in {0, 1} :
          \A i \in 1 .. Len(p) : i + k \in 1 .. Len(q) /\ Same(p[i], q[i + k])
    BY DEF Follows
  <1>2. ASSUME NEW i \in 1 .. Len(p), NEW j \in 1 .. Len(p), i # j,
               p[i].hook = p[j].hook, p[i].row = p[j].row
        PROVE  Excused(p[i], left) \/ Excused(p[j], left)
    <2>1. i + k # j + k
      BY <1>2
    <2>2. /\ i + k \in 1 .. Len(q) /\ Same(p[i], q[i + k])
          /\ j + k \in 1 .. Len(q) /\ Same(p[j], q[j + k])
      BY <1>1
    <2>3. Excused(q[i + k], left) \/ Excused(q[j + k], left)
      BY <2>1, <2>2, <1>2 DEF Same, OneEach
    <2>4. QED
      BY <2>2, <2>3, SameExcused
  <1>3. QED
    BY <1>2 DEF OneEach

LEMMA FollowsHooks ==
  ASSUME NEW p, NEW q, NEW pending, NEW left, Follows(p, q), Hooks(q, pending, left)
  PROVE  Hooks(p, pending, left)
  <1>1. PICK k \in {0, 1} :
          \A i \in 1 .. Len(p) : i + k \in 1 .. Len(q) /\ Same(p[i], q[i + k])
    BY DEF Follows
  <1>2. ASSUME NEW i \in 1 .. Len(p) PROVE Hooked(p[i], pending, left)
    <2>1. Same(p[i], q[i + k]) /\ Hooked(q[i + k], pending, left)
      BY <1>1 DEF Hooks
    <2>2. QED
      BY <2>1, SameExcused DEF Same, Hooked
  <1>3. QED
    BY <1>2 DEF Hooks

LEMMA FollowsSources ==
  ASSUME NEW p, NEW q, NEW box, NEW boxHook, NEW sheet, NEW sheetHook,
         Follows(p, q), Sources(q, box, boxHook, sheet, sheetHook)
  PROVE  Sources(p, box, boxHook, sheet, sheetHook)
  <1>1. PICK k \in {0, 1} :
          \A i \in 1 .. Len(p) : i + k \in 1 .. Len(q) /\ Same(p[i], q[i + k])
    BY DEF Follows
  <1>2. ASSUME NEW i \in 1 .. Len(p)
        PROVE  FromDialog(p[i], box, boxHook) /\ FromForm(p[i], sheet, sheetHook)
    <2>1. /\ Same(p[i], q[i + k])
          /\ FromDialog(q[i + k], box, boxHook) /\ FromForm(q[i + k], sheet, sheetHook)
      BY <1>1 DEF Sources
    <2>2. QED
      BY <2>1 DEF Same, FromDialog, FromForm
  <1>3. QED
    BY <1>2 DEF Sources

\* The first call is rewritten.
LEMMA FirstFollows ==
  ASSUME NEW q \in Seq(CallRec), q # <<>>, NEW c \in CallRec, Same(c, Head(q))
  PROVE  Follows([q EXCEPT ![1] = c], q)
  <1> DEFINE p == [q EXCEPT ![1] = c]
  <1>1. Len(p) = Len(q) /\ Len(q) \in Nat /\ \A i \in 1 .. Len(q) : p[i] = IF i = 1 THEN c ELSE q[i]
    BY FirstFacts
  <1>2. ASSUME NEW i \in 1 .. Len(p) PROVE i + 0 \in 1 .. Len(q) /\ Same(p[i], q[i + 0])
    <2>1. i + 0 = i /\ i \in 1 .. Len(q)
      BY <1>1
    <2>2. CASE i = 1
      BY <1>1, <2>1, <2>2 DEF Same
    <2>3. CASE i # 1
      BY <1>1, <2>1, <2>3 DEF Same
    <2>4. QED
      BY <2>1, <2>2, <2>3
  <1> HIDE DEF p
  <1>3. Follows(p, q)
    BY <1>2 DEF Follows
  <1>4. QED
    BY <1>3 DEF p

\* The first call leaves.
LEMMA TailFollows ==
  ASSUME NEW q \in Seq(CallRec), q # <<>>
  PROVE  Follows(Tail(q), q) /\ Tail(q) \in Seq(CallRec) /\ Len(Tail(q)) \in Nat
  <1>1. ASSUME NEW i \in 1 .. Len(Tail(q))
        PROVE  i + 1 \in 1 .. Len(q) /\ Same(Tail(q)[i], q[i + 1])
    BY TailFacts DEF Same
  <1>2. QED
    BY <1>1, TailFacts DEF Follows

\* The calls whose sheet or confirmation closes.
LEMMA LooseCall ==
  ASSUME NEW c \in CallRec
  PROVE  /\ [c EXCEPT !.mine = FALSE] \in CallRec /\ Same([c EXCEPT !.mine = FALSE], c)
         /\ [c EXCEPT !.mine = FALSE].at = c.at /\ [c EXCEPT !.mine = FALSE].page = c.page
         /\ [c EXCEPT !.mine = FALSE].saw = c.saw /\ [c EXCEPT !.mine = FALSE].result = c.result
         /\ [c EXCEPT !.mine = FALSE].mine = FALSE
  BY DEF CallRec, Same

LEMMA LooseFacts ==
  ASSUME NEW q \in Seq(CallRec), NEW ops
  PROVE  /\ Orphaned(q, ops) \in Seq(CallRec) /\ Len(Orphaned(q, ops)) = Len(q)
         /\ Len(q) \in Nat
         /\ \A i \in 1 .. Len(q) :
              /\ \/ Orphaned(q, ops)[i] = q[i]
                 \/ Orphaned(q, ops)[i] = [q[i] EXCEPT !.mine = FALSE]
              /\ Orphaned(q, ops)[i].op \in ops => ~Orphaned(q, ops)[i].mine
  <1> DEFINE p == Orphaned(q, ops)
  <1>1. DOMAIN q = 1 .. Len(q) /\ Len(q) \in Nat /\ DOMAIN p = 1 .. Len(q)
    BY DEF Orphaned
  <1>2. ASSUME NEW i \in 1 .. Len(q)
        PROVE  /\ p[i] \in CallRec /\ (p[i] = q[i] \/ p[i] = [q[i] EXCEPT !.mine = FALSE])
               /\ p[i].op \in ops => ~p[i].mine
    <2>1. q[i] \in CallRec /\ i \in DOMAIN q
      BY <1>1
    <2>2. CASE q[i].op \in ops
      <3>1. p[i] = [q[i] EXCEPT !.mine = FALSE]
        BY <2>1, <2>2 DEF Orphaned
      <3>2. QED
        BY <2>1, <3>1, LooseCall
    <2>3. CASE q[i].op \notin ops
      <3>1. p[i] = q[i]
        BY <2>1, <2>3 DEF Orphaned
      <3>2. QED
        BY <2>1, <2>3, <3>1
    <2>4. QED
      BY <2>2, <2>3
  <1>3. p = [i \in 1 .. Len(q) |-> p[i]]
    BY <1>1 DEF Orphaned
  <1> HIDE DEF p
  <1>4. p \in Seq(CallRec) /\ Len(p) = Len(q)
    BY <1>1, <1>2, <1>3
  <1>5. QED
    BY <1>1, <1>2, <1>4 DEF p

LEMMA LooseFollows ==
  ASSUME NEW q \in Seq(CallRec), NEW ops
  PROVE  Follows(Orphaned(q, ops), q)
  <1>1. ASSUME NEW i \in 1 .. Len(Orphaned(q, ops))
        PROVE  i + 0 \in 1 .. Len(q) /\ Same(Orphaned(q, ops)[i], q[i + 0])
    <2>1. i + 0 = i /\ i \in 1 .. Len(q) /\ q[i] \in CallRec
      BY LooseFacts
    <2>2. Same(Orphaned(q, ops)[i], q[i])
      <3>1. CASE Orphaned(q, ops)[i] = q[i]
        BY <3>1 DEF Same
      <3>2. CASE Orphaned(q, ops)[i] = [q[i] EXCEPT !.mine = FALSE]
        BY <3>2, <2>1, LooseCall
      <3>3. QED
        BY <3>1, <3>2, <2>1, LooseFacts
    <2>3. QED
      BY <2>1, <2>2
  <1>2. QED
    BY <1>1 DEF Follows
-----------------------------------------------------------------------------
(* The calls a tap sends.                                                  *)

Fresh(c) ==
  /\ Fits(screen, c) /\ c.at = "sent" /\ c.op # "refresh" /\ Wired(c)
  /\ c.op = "settings" => c.hook = "settings" /\ c.row = 0 /\ c.arg = typed
  /\ c.op = "create" => c.id \in FreshServices
  /\ FromDialog(c, dialog, DialogHook) /\ FromForm(c, form, FormHook)

Sent(c) ==
  /\ <<c.hook, c.row>> \notin busy
  /\ calls < MaxCalls /\ calls' = calls + 1
  /\ busy' = busy \cup {<<c.hook, c.row>>}
  /\ queue' = Append(queue, c)
  /\ UNCHANGED <<screen, db, booked, rival, rivals, unseen, shown, form, dialog, typed, saved,
                 abandoned, overtyped>>

LEMMA CallType ==
  ASSUME NEW hook \in HookNames, NEW row \in Nat, NEW op \in Operations, NEW id \in Nat,
         NEW arg \in Arguments
  PROVE  /\ Call(hook, row, op, id, arg) \in CallRec
         /\ Call(hook, row, op, id, arg).hook = hook /\ Call(hook, row, op, id, arg).row = row
         /\ Call(hook, row, op, id, arg).op = op /\ Call(hook, row, op, id, arg).id = id
         /\ Call(hook, row, op, id, arg).arg = arg /\ Call(hook, row, op, id, arg).at = "sent"
         /\ Call(hook, row, op, id, arg).page = None
  <1>1. <<>> \in Seq(Nat)
    OBVIOUS
  <1>2. QED
    BY <1>1 DEF Call, CallRec

LEMMA Names ==
  /\ "remove" \in HookNames /\ "block" \in HookNames /\ "toggle" \in HookNames
  /\ "move" \in HookNames /\ "settings" \in HookNames /\ "rename" \in HookNames
  /\ "notes" \in HookNames /\ "add service" \in HookNames /\ "add hours" \in HookNames
  /\ "add closure" \in HookNames /\ "add override" \in HookNames /\ "router" \in HookNames
  /\ "create" \in Operations /\ "save" \in Operations /\ "toggle" \in Operations
  /\ "delete" \in Operations /\ "move" \in Operations /\ "add" \in Operations
  /\ "drop" \in Operations /\ "settings" \in Operations /\ "rename" \in Operations
  /\ "notes" \in Operations /\ "block" \in Operations /\ "refresh" \in Operations
  /\ Kinds \subseteq HookNames /\ "router" \notin Kinds /\ 0 \in Nat
  /\ None \in HookNames /\ None \in Arguments /\ "up" \in Arguments /\ "down" \in Arguments
  /\ BOOLEAN \subseteq Arguments /\ Texts \subseteq Arguments /\ Fields \subseteq Arguments
  BY DEF HookNames, Arguments, Operations, Kinds

LEMMA SendSent ==
  ASSUME NEW hook, NEW row, NEW op, NEW id, NEW arg, Send(hook, row, op, id, arg),
         Call(hook, row, op, id, arg).hook = hook, Call(hook, row, op, id, arg).row = row,
         Fresh(Call(hook, row, op, id, arg)),
         UNCHANGED <<screen, db, booked, rival, rivals, unseen, shown, form, dialog, typed, saved,
                     abandoned, overtyped>>
  PROVE  \E c : Fresh(c) /\ Sent(c)
  <1>1. Sent(Call(hook, row, op, id, arg))
    BY DEF Send, Sent
  <1>2. QED
    BY <1>1

\* The sheets.
LEMMA SheetSends ==
  ASSUME Typed, Opened, SubmitSheet
  PROVE  \E c : Fresh(c) /\ Sent(c)
  <1> USE DEF SubmitSheet
  <1>1. form # None /\ HoursRows \subseteq Nat /\ Services \subseteq Nat
    BY SetupAssumption DEF HoursRows
  <1>2. ASSUME NEW active \in BOOLEAN, NEW s \in FreshServices, form.what = "service", form.id = 0,
               Send(FormHook, 0, "create", s, active)
        PROVE  \E c : Fresh(c) /\ Sent(c)
    <2>1. screen = "services" /\ s \in Services /\ FormHook = "add service"
      BY <1>1, <1>2 DEF Opened, FreshServices, FormHook, Kinds
    <2>2. Call(FormHook, 0, "create", s, active) \in CallRec
      <3>1. active \in Arguments /\ s \in Nat
        BY <2>1, <1>1, Names
      <3>2. QED
        BY <3>1, <2>1, Names, CallType
    <2>3. Fresh(Call(FormHook, 0, "create", s, active))
      BY <2>1, <2>2, <1>1, <1>2 DEF Fresh, Fits, Call, OpsOf, FromDialog, FromForm, Wired, SheetOps,
         DialogOps, SheetHooks, DialogHooks, Kinds
    <2>4. QED
      BY <2>3, <1>2, SendSent DEF Call
  <1>3. ASSUME NEW active \in BOOLEAN, form.what = "service", form.id # 0,
               Send(FormHook, 0, "save", form.id, active)
        PROVE  \E c : Fresh(c) /\ Sent(c)
    <2>1. screen = "services" /\ form.id \in Services /\ FormHook = "add service"
      BY <1>1, <1>3 DEF Opened, FormHook, Kinds
    <2>2. Call(FormHook, 0, "save", form.id, active) \in CallRec
      <3>1. active \in Arguments /\ form.id \in Nat
        BY <2>1, <1>1, Names
      <3>2. QED
        BY <3>1, <2>1, Names, CallType
    <2>3. Fresh(Call(FormHook, 0, "save", form.id, active))
      BY <2>1, <2>2, <1>1, <1>3 DEF Fresh, Fits, Call, OpsOf, FromDialog, FromForm, Wired, SheetOps,
         DialogOps, SheetHooks, DialogHooks, Kinds
    <2>4. QED
      BY <2>3, <1>3, SendSent DEF Call
  <1>4. ASSUME NEW kind \in Kinds, NEW r \in FreshRows, form.what = kind,
               Send(FormHook, 0, "add", r, None)
        PROVE  \E c : Fresh(c) /\ Sent(c)
    <2>1. screen = "hours" /\ r \in HoursRows /\ form.id = 0 /\ form.what \in Kinds
      BY <1>1, <1>4 DEF Opened, FreshRows, Kinds
    <2>2. FormHook \in HookNames /\ FormHook \in SheetHooks
      BY <2>1, Names DEF FormHook, Kinds, SheetHooks
    <2>3. Call(FormHook, 0, "add", r, None) \in CallRec
      BY <2>1, <2>2, <1>1, Names, CallType
    <2>4. Fresh(Call(FormHook, 0, "add", r, None))
      BY <2>1, <2>2, <2>3, <1>1 DEF Fresh, Fits, Call, OpsOf, FromDialog, FromForm, Wired, SheetOps,
         DialogOps, SheetHooks, DialogHooks, Kinds
    <2>5. QED
      BY <2>4, <1>4, SendSent DEF Call
  <1>5. QED
    BY <1>2, <1>3, <1>4 DEF SendService, AddHoursSheet, AddClosureSheet, AddOverrideSheet, SendRow,
       Kinds

\* The confirmations.
LEMMA DialogSends ==
  ASSUME Typed, Opened, Confirm
  PROVE  \E c : Fresh(c) /\ Sent(c)
  <1> USE DEF Confirm
  <1>1. dialog # None /\ HoursRows \subseteq Nat /\ Services \subseteq Nat
    BY SetupAssumption DEF HoursRows
  <1>2. CASE ConfirmDelete
    <2>1. screen = "services" /\ dialog \in Services /\ DialogHook = "remove"
      BY <1>1, <1>2 DEF Opened, ConfirmDelete, DialogHook
    <2>2. Call(DialogHook, 0, "delete", dialog, None) \in CallRec
      BY <2>1, <1>1, Names, CallType
    <2>3. Fresh(Call(DialogHook, 0, "delete", dialog, None))
      BY <2>1, <2>2, <1>1 DEF Fresh, Fits, Call, OpsOf, FromDialog, FromForm, Wired, SheetOps,
         DialogOps, SheetHooks, DialogHooks, Kinds
    <2>4. QED
      BY <2>3, <1>2, SendSent DEF Call, ConfirmDelete
  <1>3. CASE ConfirmRemoval
    <2>1. screen = "hours" /\ dialog \in HoursRows
      BY <1>1, <1>3 DEF Opened, ConfirmRemoval
    <2>2. DialogHook = HoursKinds[dialog] /\ HoursKinds[dialog] \in Kinds
      BY <2>1, SetupAssumption DEF DialogHook, HoursRows
    <2>3. DialogHook \in HookNames /\ DialogHook \in Kinds
      BY <2>2 DEF HookNames
    <2>4. Call(DialogHook, 0, "drop", dialog, None) \in CallRec
      BY <2>1, <2>3, <1>1, Names, CallType
    <2>5. Fresh(Call(DialogHook, 0, "drop", dialog, None))
      BY <2>1, <2>3, <2>4, <1>1 DEF Fresh, Fits, Call, OpsOf, FromDialog, FromForm, Wired, SheetOps,
         DialogOps, SheetHooks, DialogHooks, Kinds
    <2>6. QED
      BY <2>5, <1>3, SendSent DEF Call, ConfirmRemoval
  <1>4. CASE ConfirmBlock
    <2>1. screen = "customer" /\ dialog = 1 /\ DialogHook = "block"
      BY <1>1, <1>4 DEF Opened, ConfirmBlock, DialogHook
    <2>2. (~shown.cus.blocked) \in BOOLEAN
      <3>1. shown.cus \in Profile
        BY <2>1 DEF Typed, Rendering
      <3>2. QED
        BY <3>1 DEF Profile
    <2>3. Call(DialogHook, 0, "block", dialog, ~shown.cus.blocked) \in CallRec
      BY <2>1, <2>2, <1>1, Names, CallType
    <2>4. Fresh(Call(DialogHook, 0, "block", dialog, ~shown.cus.blocked))
      BY <2>1, <2>2, <2>3, <1>1 DEF Fresh, Fits, Call, OpsOf, FromDialog, FromForm, Wired, SheetOps,
         DialogOps, SheetHooks, DialogHooks, Kinds
    <2>5. QED
      BY <2>4, <1>4, SendSent DEF Call, ConfirmBlock
  <1>5. QED
    BY <1>2, <1>3, <1>4

\* The buttons of a row, and the forms that stay open.
LEMMA RowSends ==
  ASSUME Typed, TapRow
  PROVE  \E c : Fresh(c) /\ Sent(c)
  <1> USE DEF TapRow
  <1>1. screen = "services" /\ shown.svc \in [Services -> ServiceRow]
    BY DEF Typed, Rendering
  <1>2. ASSUME NEW s \in Live(shown)
        PROVE  s \in Services /\ s \in Nat /\ (~shown.svc[s].active) \in BOOLEAN
    <2>1. s \in Services /\ s \in Nat
      BY SetupAssumption DEF Live
    <2>2. QED
      BY <1>1, <2>1 DEF ServiceRow
  <1>3. ASSUME NEW s \in Live(shown), Send("toggle", s, "toggle", s, ~shown.svc[s].active)
        PROVE  \E c : Fresh(c) /\ Sent(c)
    <2>1. Call("toggle", s, "toggle", s, ~shown.svc[s].active) \in CallRec
      BY <1>2, Names, CallType
    <2>2. Fresh(Call("toggle", s, "toggle", s, ~shown.svc[s].active))
      BY <1>1, <1>2, <2>1 DEF Fresh, Fits, Call, OpsOf, FromDialog, FromForm, Wired, SheetOps,
         DialogOps, SheetHooks, DialogHooks, Kinds
    <2>3. QED
      BY <2>2, <1>3, SendSent DEF Call
  <1>4. ASSUME NEW s \in Live(shown), NEW dir \in {"up", "down"}, Send("move", 0, "move", s, dir)
        PROVE  \E c : Fresh(c) /\ Sent(c)
    <2>1. Call("move", 0, "move", s, dir) \in CallRec
      <3>1. /\ dir \in Arguments /\ s \in Nat /\ 0 \in Nat
            /\ "move" \in HookNames /\ "move" \in Operations
        BY <1>2, Names
      <3>2. QED
        BY <3>1, CallType
    <2>2. Fresh(Call("move", 0, "move", s, dir))
      BY <1>1, <1>2, <2>1 DEF Fresh, Fits, Call, OpsOf, FromDialog, FromForm, Wired, SheetOps,
         DialogOps, SheetHooks, DialogHooks, Kinds
    <2>3. QED
      BY <2>2, <1>4, SendSent DEF Call
  <1>5. QED
    BY <1>3, <1>4

LEMMA SettingsSends ==
  ASSUME Typed, SaveSettings
  PROVE  \E c : Fresh(c) /\ Sent(c)
  <1>1. screen = "settings" /\ typed \in Fields
    BY DEF SaveSettings, Typed
  <1>2. Call("settings", 0, "settings", 0, typed) \in CallRec
    BY <1>1, Names, CallType
  <1>3. Fresh(Call("settings", 0, "settings", 0, typed))
    BY <1>1, <1>2 DEF Fresh, Fits, Call, OpsOf, FromDialog, FromForm, Wired, SheetOps,
         DialogOps, SheetHooks, DialogHooks, Kinds
  <1>4. QED
    BY <1>3, SendSent DEF Call, SaveSettings

LEMMA ProfileSends ==
  ASSUME Typed, SaveProfile
  PROVE  \E c : Fresh(c) /\ Sent(c)
  <1>1. PICK op \in {"rename", "notes"}, t \in Texts : Send(op, 0, op, 0, t)
    BY DEF SaveProfile
  <1>2. screen = "customer"
    BY DEF SaveProfile
  <1>3. op \in HookNames /\ op \in Operations /\ t \in Arguments
    BY Names
  <1>6. Call(op, 0, op, 0, t) \in CallRec
    BY <1>3, Names, CallType
  <1>4. Fresh(Call(op, 0, op, 0, t))
    BY <1>2, <1>6 DEF Fresh, Fits, Call, OpsOf, FromDialog, FromForm, Wired, SheetOps,
         DialogOps, SheetHooks, DialogHooks, Kinds
  <1>5. QED
    BY <1>1, <1>4, SendSent DEF Call, SaveProfile

\* The steps there are.
LEMMA NextSteps ==
  ASSUME Typed, Opened, [Next]_vars
  PROVE  \/ \E c : Fresh(c) /\ Sent(c)
         \/ OpenSheet \/ OpenDialog \/ EditSettings \/ CloseSheet \/ Dismiss
         \/ Read \/ Commit \/ Refuse \/ Render \/ Arrive \/ Lose
         \/ RivalCall \/ RivalCommits \/ CustomerBooks
         \/ UNCHANGED vars
  BY SheetSends, DialogSends, RowSends, SettingsSends, ProfileSends
     DEF Next, Owner, System, World
-----------------------------------------------------------------------------
(* The calls as the server handles them.                                   *)

LEMMA HeadCall ==
  ASSUME NEW sc, NEW q, Queued(sc, q), q # <<>>
  PROVE  /\ q \in Seq(CallRec) /\ 1 \in 1 .. Len(q) /\ Head(q) = q[1]
         /\ Fits(sc, Head(q)) /\ Head(q) \in CallRec
  <1>1. q \in Seq(CallRec)
    BY DEF Queued
  <1>2. 1 \in 1 .. Len(q) /\ Head(q) = q[1]
    BY <1>1, TailFacts
  <1>3. Fits(sc, q[1])
    BY <1>2 DEF Queued
  <1>4. QED
    BY <1>1, <1>2, <1>3 DEF Fits

LEMMA ReadFits ==
  ASSUME NEW d \in Database, NEW sc, NEW c, Fits(sc, c), c.at = "sent", TwoStatements(c)
  PROVE  /\ Fits(sc, [c EXCEPT !.at = "read", !.saw = Reads(d, c)])
         /\ Same([c EXCEPT !.at = "read", !.saw = Reads(d, c)], c)
         /\ [c EXCEPT !.at = "read", !.saw = Reads(d, c)].at = "read"
         /\ TwoStatements([c EXCEPT !.at = "read", !.saw = Reads(d, c)])
  <1> DEFINE e == [c EXCEPT !.at = "read", !.saw = Reads(d, c)]
  <1>1. Reads(d, c) \in Seq(Nat) /\ (c.op = "create" => Len(Reads(d, c)) = 1)
    BY ReadsType
  <1>2. c \in CallRec
    BY DEF Fits
  <1>3. /\ e \in CallRec /\ e.at = "read" /\ e.saw = Reads(d, c)
        /\ e.hook = c.hook /\ e.row = c.row /\ e.op = c.op /\ e.id = c.id /\ e.arg = c.arg
        /\ e.mine = c.mine
        /\ e.page = c.page /\ e.result = c.result
    BY <1>1, <1>2 DEF CallRec
  <1> HIDE DEF e
  <1>4. Fits(sc, e)
    BY <1>1, <1>3 DEF Fits
  <1>5. Same(e, c) /\ TwoStatements(e)
    BY <1>3 DEF Same, TwoStatements
  <1>6. QED
    BY <1>3, <1>4, <1>5 DEF e

Done(c, answer, p) == [c EXCEPT !.at = "done", !.result = answer, !.page = p]

LEMMA AnswerFits ==
  ASSUME NEW sc, NEW c, Fits(sc, c), c.at # "done", NEW answer, NEW p,
         answer \in {"ok", "refused", "not_found", "in_use"},
         answer = "ok" => p \in Rendering(sc) /\ p \in Rendered /\ p # None,
         answer # "ok" => p = None
  PROVE  /\ Fits(sc, Done(c, answer, p)) /\ Same(Done(c, answer, p), c)
         /\ Done(c, answer, p).at = "done" /\ Done(c, answer, p).result = answer
         /\ Done(c, answer, p).page = p
  <1> DEFINE e == Done(c, answer, p)
  <1>1. c \in CallRec /\ p \in {None} \cup Rendered
    BY DEF Fits
  <1>2. /\ e \in CallRec /\ e.at = "done" /\ e.saw = c.saw
        /\ e.hook = c.hook /\ e.row = c.row /\ e.op = c.op /\ e.id = c.id /\ e.arg = c.arg
        /\ e.mine = c.mine
        /\ e.page = p /\ e.result = answer
    BY <1>1 DEF CallRec, Done
  <1> HIDE DEF e
  <1>3. Fits(sc, e)
    BY <1>2 DEF Fits
  <1>4. QED
    BY <1>2, <1>3 DEF e, Same

LEMMA RefusedIsAnswer ==
  ASSUME NEW sc, NEW c, Fits(sc, c), c.at = "sent"
  PROVE  /\ Fits(sc, [c EXCEPT !.at = "done", !.result = "refused"])
         /\ Same([c EXCEPT !.at = "done", !.result = "refused"], c)
         /\ [c EXCEPT !.at = "done", !.result = "refused"].at = "done"
         /\ [c EXCEPT !.at = "done", !.result = "refused"].result = "refused"
  <1> DEFINE e == [c EXCEPT !.at = "done", !.result = "refused"]
  <1>1. c \in CallRec /\ c.page = None
    BY DEF Fits
  <1>2. /\ e \in CallRec /\ e.at = "done" /\ e.saw = c.saw
        /\ e.hook = c.hook /\ e.row = c.row /\ e.op = c.op /\ e.id = c.id /\ e.arg = c.arg
        /\ e.mine = c.mine
        /\ e.page = None /\ e.result = "refused"
    BY <1>1 DEF CallRec
  <1> HIDE DEF e
  <1>3. Fits(sc, e)
    BY <1>2 DEF Fits
  <1>4. QED
    BY <1>2, <1>3 DEF e, Same

\* The steps at the server, as what they make of the first call.
Handled(c) ==
  /\ queue # <<>> /\ queue' = [queue EXCEPT ![1] = c]
  /\ Head(queue).at # "done" /\ Same(c, Head(queue)) /\ Fits(screen, c)
  /\ UNCHANGED <<screen, booked, rival, calls, rivals, shown, form, dialog, typed, saved, busy,
                 abandoned, overtyped>>

LEMMA ReadHandles ==
  ASSUME Typed, Queued(screen, queue), Read
  PROVE  \E c : Handled(c) /\ c.at = "read" /\ UNCHANGED <<db, unseen>>
  <1> DEFINE h == Head(queue)
             e == [h EXCEPT !.at = "read", !.saw = Reads(db, h)]
  <1>1. Fits(screen, h) /\ h.at = "sent" /\ TwoStatements(h) /\ db \in Database
    BY HeadCall DEF Read, Typed
  <1>2. Fits(screen, e) /\ Same(e, h) /\ e.at = "read"
    BY <1>1, ReadFits
  <1>3. Handled(e)
    BY <1>1, <1>2 DEF Handled, Read, SetHead
  <1>4. UNCHANGED <<db, unseen>>
    BY DEF Read
  <1>5. QED
    BY <1>2, <1>3, <1>4

LEMMA RefuseHandles ==
  ASSUME Typed, Queued(screen, queue), Refuse
  PROVE  \E c : /\ Handled(c) /\ c.at = "done" /\ c.result = "refused"
                /\ UNCHANGED <<db, unseen>>
  <1> DEFINE h == Head(queue)
             e == [h EXCEPT !.at = "done", !.result = "refused"]
  <1>1. Fits(screen, h) /\ h.at = "sent"
    BY HeadCall DEF Refuse
  <1>2. Fits(screen, e) /\ Same(e, h) /\ e.at = "done" /\ e.result = "refused"
    BY <1>1, RefusedIsAnswer
  <1>3. Handled(e)
    BY <1>1, <1>2 DEF Handled, Refuse, SetHead
  <1>4. UNCHANGED <<db, unseen>>
    BY DEF Refuse
  <1>5. QED
    BY <1>2, <1>3, <1>4

LEMMA RenderHandles ==
  ASSUME Typed, Queued(screen, queue), Render
  PROVE  \E c : /\ Handled(c) /\ c.at = "done" /\ c.result = "ok" /\ c.op = "refresh"
                /\ c.page = Page(db) /\ UNCHANGED db /\ unseen' = FALSE
  <1> DEFINE h == Head(queue)
             e == Done(h, "ok", Page(db))
  <1>1. Fits(screen, h) /\ h.at = "sent" /\ h.op = "refresh" /\ h \in CallRec
    BY HeadCall DEF Render
  <1>2. Page(db) \in Rendering(screen) /\ Page(db) \in Rendered /\ Page(db) # None
    BY PageType DEF Typed
  <1>3. Fits(screen, e) /\ Same(e, h) /\ e.at = "done" /\ e.result = "ok" /\ e.page = Page(db)
    <2>1. h.at # "done" /\ "ok" \in {"ok", "refused", "not_found", "in_use"}
      BY <1>1
    <2> HIDE DEF h
    <2>2. QED
      BY <1>1, <1>2, <2>1, AnswerFits
  <1>4. Handled(e) /\ UNCHANGED db /\ unseen' = FALSE
    BY <1>1, <1>3 DEF Handled, Render, SetHead, Done
  <1>5. e.op = "refresh"
    BY <1>1, <1>3 DEF Same
  <1>6. QED
    BY <1>3, <1>4, <1>5

\* What a transaction that commits leaves: rows, and a page of them for the answer.
LEMMA CommitHandles ==
  ASSUME Typed, Queued(screen, queue), Commit
  PROVE  /\ db' \in Database
         /\ db' = IF Answer(db, Head(queue)) = "ok" THEN Write(db, Head(queue)) ELSE db
         /\ \E c : /\ Handled(c) /\ c.at = "done" /\ c.result = Answer(db, Head(queue))
                   /\ c.op # "refresh"
                   /\ c.result = "ok" => c.page = Page(db')
                   /\ unseen' = (unseen /\ c.result # "ok")
  <1> DEFINE h == Head(queue)
             a == Answer(db, h)
             e == Done(h, a, IF a = "ok" THEN Page(db') ELSE None)
  <1>1. Fits(screen, h) /\ h \in CallRec
    BY HeadCall DEF Commit
  <1>2. /\ h.at = (IF TwoStatements(h) THEN "read" ELSE "sent") /\ h.op # "refresh"
        /\ db' = IF a = "ok" THEN Write(db, h) ELSE db
        /\ queue # <<>> /\ queue' = [queue EXCEPT ![1] = e]
        /\ unseen' = (unseen /\ ~(a = "ok"))
    BY DEF Commit, SetHead, Done
  <1>3. db' \in Database
    <2>1. h.op = "create" => Len(h.saw) = 1
      BY <1>1, <1>2 DEF Fits, TwoStatements
    <2>2. db \in Database
      BY DEF Typed
    <2>3. Write(db, h) \in Database
      BY <1>1, <1>2, <2>1, <2>2, WriteType
    <2>4. QED
      BY <1>2, <2>2, <2>3
  <1>4. Page(db') \in Rendering(screen) /\ Page(db') \in Rendered /\ Page(db') # None
    BY <1>3, PageType DEF Typed
  <1>5. a \in {"ok", "not_found", "in_use"}
    BY AnswerType
  <1>6. /\ Fits(screen, e) /\ Same(e, h) /\ e.at = "done" /\ e.result = a
        /\ e.page = IF a = "ok" THEN Page(db') ELSE None
    <2> DEFINE p == IF a = "ok" THEN Page(db') ELSE None
    <2>1. h.at # "done" /\ a \in {"ok", "refused", "not_found", "in_use"}
      BY <1>2, <1>5
    <2>2. /\ a = "ok" => p \in Rendering(screen) /\ p \in Rendered /\ p # None
          /\ a # "ok" => p = None
      BY <1>4
    <2> HIDE DEF h, a, p
    <2>3. /\ Fits(screen, Done(h, a, p)) /\ Same(Done(h, a, p), h)
          /\ Done(h, a, p).at = "done" /\ Done(h, a, p).result = a /\ Done(h, a, p).page = p
      BY <1>1, <2>1, <2>2, AnswerFits
    <2>4. QED
      BY <2>3 DEF p
  <1>7. Handled(e)
    BY <1>2, <1>6 DEF Handled, Commit
  <1>8. e.op # "refresh"
    BY <1>2, <1>6 DEF Same
  <1>9. QED
    BY <1>2, <1>3, <1>6, <1>7, <1>8
-----------------------------------------------------------------------------
(* The queue.                                                              *)

LEMMA RefreshFits ==
  ASSUME NEW sc
  PROVE  /\ Fits(sc, Refreshing) /\ Refreshing \in CallRec /\ Refreshing.at = "sent"
         /\ Refreshing.op = "refresh" /\ Refreshing.hook = "router"
  <1>1. /\ Refreshing \in CallRec /\ Refreshing.at = "sent" /\ Refreshing.op = "refresh"
        /\ Refreshing.hook = "router" /\ Refreshing.page = None
    <2>1. /\ "router" \in HookNames /\ "refresh" \in Operations /\ 0 \in Nat
          /\ None \in Arguments
      BY Names
    <2>2. QED
      BY <2>1, CallType DEF Refreshing
  <1>2. QED
    BY <1>1 DEF Fits

LEMMA AppendQueued ==
  ASSUME NEW sc, NEW q, Queued(sc, q), NEW c, Fits(sc, c), c.at = "sent"
  PROVE  Queued(sc, Append(q, c))
  <1>1. q \in Seq(CallRec) /\ c \in CallRec
    BY DEF Queued, Fits
  <1>2. ASSUME NEW i \in 1 .. Len(Append(q, c))
        PROVE  Fits(sc, Append(q, c)[i]) /\ (i > 1 => Append(q, c)[i].at = "sent")
    <2>1. CASE i \in 1 .. Len(q) /\ Append(q, c)[i] = q[i]
      BY <2>1 DEF Queued
    <2>2. CASE i = Len(q) + 1 /\ Append(q, c)[i] = c
      BY <2>2
    <2>3. QED
      BY <1>1, <2>1, <2>2, AppendFacts
  <1>3. QED
    BY <1>1, <1>2, AppendFacts DEF Queued

LEMMA TailQueued ==
  ASSUME NEW sc, NEW q, Queued(sc, q), q # <<>>
  PROVE  Queued(sc, Tail(q)) /\ \A i \in 1 .. Len(Tail(q)) : Tail(q)[i].at = "sent"
  <1>1. q \in Seq(CallRec)
    BY DEF Queued
  <1>2. ASSUME NEW i \in 1 .. Len(Tail(q))
        PROVE  Fits(sc, Tail(q)[i]) /\ Tail(q)[i].at = "sent"
    <2>1. i + 1 \in 1 .. Len(q) /\ Tail(q)[i] = q[i + 1] /\ i + 1 > 1
      BY <1>1, TailFacts
    <2>2. QED
      BY <2>1 DEF Queued
  <1>3. QED
    BY <1>1, <1>2, TailFacts DEF Queued

LEMMA FirstQueued ==
  ASSUME NEW sc, NEW q, Queued(sc, q), q # <<>>, NEW c, Fits(sc, c)
  PROVE  Queued(sc, [q EXCEPT ![1] = c])
  <1> DEFINE p == [q EXCEPT ![1] = c]
  <1>1. q \in Seq(CallRec) /\ c \in CallRec
    BY DEF Queued, Fits
  <1>2. p \in Seq(CallRec) /\ Len(p) = Len(q)
        /\ \A i \in 1 .. Len(q) : p[i] = IF i = 1 THEN c ELSE q[i]
    BY <1>1, FirstFacts
  <1> HIDE DEF p
  <1>3. ASSUME NEW i \in 1 .. Len(p) PROVE Fits(sc, p[i]) /\ (i > 1 => p[i].at = "sent")
    <2>1. CASE i = 1
      BY <1>2, <2>1
    <2>2. CASE i # 1
      BY <1>2, <2>2 DEF Queued
    <2>3. QED
      BY <2>1, <2>2
  <1>4. Queued(sc, p)
    BY <1>2, <1>3 DEF Queued
  <1>5. QED
    BY <1>4 DEF p

LEMMA LooseQueued ==
  ASSUME NEW sc, NEW q, Queued(sc, q), NEW ops
  PROVE  Queued(sc, Orphaned(q, ops))
  <1> DEFINE p == Orphaned(q, ops)
  <1>1. q \in Seq(CallRec)
    BY DEF Queued
  <1>2. p \in Seq(CallRec) /\ Len(p) = Len(q)
        /\ \A i \in 1 .. Len(q) : p[i] = q[i] \/ p[i] = [q[i] EXCEPT !.mine = FALSE]
    BY <1>1, LooseFacts
  <1> HIDE DEF p
  <1>3. ASSUME NEW i \in 1 .. Len(p) PROVE Fits(sc, p[i]) /\ (i > 1 => p[i].at = "sent")
    <2>1. Fits(sc, q[i]) /\ (i > 1 => q[i].at = "sent") /\ q[i] \in CallRec
      BY <1>2 DEF Queued, Fits
    <2>2. CASE p[i] = q[i]
      BY <2>1, <2>2
    <2>3. CASE p[i] = [q[i] EXCEPT !.mine = FALSE]
      <3>1. /\ p[i] \in CallRec /\ Same(p[i], q[i]) /\ p[i].at = q[i].at
            /\ p[i].page = q[i].page /\ p[i].saw = q[i].saw /\ p[i].result = q[i].result
        BY <2>1, <2>3, LooseCall
      <3>2. QED
        BY <2>1, <3>1 DEF Fits, Same
    <2>4. QED
      BY <1>2, <2>2, <2>3
  <1>4. Queued(sc, p)
    BY <1>2, <1>3 DEF Queued
  <1>5. QED
    BY <1>4 DEF p

LEMMA LetGoFacts ==
  ASSUME NEW hook, NEW ops, LetGo(hook, ops)
  PROVE  queue' = Orphaned(queue, ops) /\ busy' = busy \ {<<hook, 0>>}
  BY DEF LetGo

\* The calls that are left when the first has gone, some of them let go with it.
LEMMA RestFacts ==
  ASSUME NEW sc, NEW q, Queued(sc, q), q # <<>>, NEW ops
  PROVE  LET p == Orphaned(Tail(q), ops)
         IN /\ p \in Seq(CallRec) /\ Len(p) \in Nat /\ Queued(sc, p)
            /\ Follows(p, Tail(q)) /\ Follows(p, q)
            /\ \A i \in 1 .. Len(p) :
                 p[i].at = "sent" /\ (p[i].op \in ops => ~p[i].mine)
  <1> DEFINE t == Tail(q)
             p == Orphaned(t, ops)
  <1>1. q \in Seq(CallRec) /\ t \in Seq(CallRec) /\ Queued(sc, t)
        /\ \A i \in 1 .. Len(t) : t[i].at = "sent"
    BY TailQueued, TailFacts DEF Queued
  <1>2. \A i \in 1 .. Len(t) : i + 1 \in 1 .. Len(q) /\ t[i] = q[i + 1]
    BY <1>1, TailFacts
  <1> HIDE DEF t
  <1>3. /\ p \in Seq(CallRec) /\ Len(p) = Len(t) /\ Len(t) \in Nat
        /\ \A i \in 1 .. Len(t) :
             /\ p[i] = t[i] \/ p[i] = [t[i] EXCEPT !.mine = FALSE]
             /\ p[i].op \in ops => ~p[i].mine
    BY <1>1, LooseFacts
  <1>4. Queued(sc, p) /\ Follows(p, t)
    BY <1>1, LooseQueued, LooseFollows
  <1> HIDE DEF p
  <1>5. ASSUME NEW i \in 1 .. Len(p) PROVE p[i].at = "sent" /\ Same(p[i], t[i])
    <2>1. t[i] \in CallRec /\ t[i].at = "sent"
      BY <1>1, <1>3
    <2>2. CASE p[i] = t[i]
      BY <2>1, <2>2 DEF Same
    <2>3. CASE p[i] = [t[i] EXCEPT !.mine = FALSE]
      BY <2>1, <2>3, LooseCall
    <2>4. QED
      BY <1>3, <2>2, <2>3
  <1>6. ASSUME NEW i \in 1 .. Len(p) PROVE i + 1 \in 1 .. Len(q) /\ Same(p[i], q[i + 1])
    BY <1>2, <1>3, <1>5
  <1>7. Follows(p, q)
    BY <1>6 DEF Follows
  <1>8. QED
    BY <1>3, <1>4, <1>5, <1>7 DEF p, t

\* An answer that arrives: the call leaves, a sheet or a dialog it closes lets go of its
\* calls, and a success has the page rendered again.
Arrived(ops) ==
  LET rest == Orphaned(Tail(queue), ops)
  IN /\ queue' = rest \/ queue' = Append(rest, Refreshing)
     /\ abandoned' = StillOut(abandoned, rest)
     /\ \/ busy' = busy
        \/ /\ busy' = busy \ {<<Head(queue).hook, Head(queue).row>>}
           /\ Head(queue).op \in SheetOps /\ ~Head(queue).mine => SheetOps \subseteq ops
     /\ dialog' # dialog => Head(queue).op \in DialogOps /\ DialogOps \subseteq ops
     /\ form' # form => Head(queue).op \in SheetOps /\ SheetOps \subseteq ops

LEMMA ArriveQueue ==
  ASSUME Arrive
  PROVE  \E ops : Arrived(ops)
  <1> DEFINE c == Head(queue)
             ok == c.result = "ok"
             sheet == ok /\ ClosedBy(c).sheet
             box == ok /\ ClosedBy(c).dialog
             ops == (IF sheet THEN SheetOps ELSE {}) \cup (IF box THEN DialogOps ELSE {})
             rest == Orphaned(Tail(queue), ops)
  <1>1. /\ queue' = IF ok /\ c.op # "refresh" THEN Append(rest, Refreshing) ELSE rest
        /\ abandoned' = StillOut(abandoned, rest)
        /\ busy' = IF c.op \in SheetOps /\ ~c.mine /\ ~sheet THEN busy
                   ELSE busy \ {<<c.hook, c.row>>}
        /\ form' = IF sheet THEN None ELSE form
        /\ dialog' = IF box THEN None ELSE dialog
    BY DEF Arrive
  <1>2. sheet => c.op \in SheetOps /\ SheetOps \subseteq ops
    BY DEF ClosedBy
  <1>3. box => c.op \in DialogOps /\ DialogOps \subseteq ops
    BY DEF ClosedBy
  <1> HIDE DEF ok, sheet, box, ops
  <1>4. Arrived(ops)
    BY <1>1, <1>2, <1>3 DEF Arrived
  <1>5. QED
    BY <1>4

LEMMA QueuedStep ==
  ASSUME Typed, Opened, Queued(screen, queue), [Next]_vars
  PROVE  Queued(screen', queue')
  <1>1. CASE UNCHANGED <<screen, queue>>
    BY <1>1
  <1>2. ASSUME NEW c, Fresh(c), Sent(c) PROVE Queued(screen', queue')
    <2>1. queue' = Append(queue, c) /\ screen' = screen /\ Fits(screen, c) /\ c.at = "sent"
      BY <1>2 DEF Fresh, Sent
    <2>2. QED
      BY <2>1, AppendQueued
  <1>3. ASSUME NEW hook, NEW ops, LetGo(hook, ops), screen' = screen
        PROVE  Queued(screen', queue')
    BY <1>3, LetGoFacts, LooseQueued
  <1>4. CASE CloseSheet \/ Dismiss
    BY <1>3, <1>4 DEF CloseSheet, Dismiss
  <1>5. ASSUME NEW c, Handled(c) PROVE Queued(screen', queue')
    BY <1>5, FirstQueued DEF Handled
  <1>6. CASE Read \/ Commit \/ Refuse \/ Render
    BY <1>5, <1>6, ReadHandles, CommitHandles, RefuseHandles, RenderHandles
  <1>7. CASE Arrive
    <2>1. queue # <<>> /\ screen' = screen
      BY <1>7 DEF Arrive
    <2>2. PICK ops : Arrived(ops)
      BY <1>7, ArriveQueue
    <2> DEFINE rest == Orphaned(Tail(queue), ops)
    <2>3. queue' = rest \/ queue' = Append(rest, Refreshing)
      BY <2>2 DEF Arrived
    <2>4. Queued(screen, rest)
      BY <2>1, RestFacts
    <2> HIDE DEF rest
    <2>5. Queued(screen, Append(rest, Refreshing))
      BY <2>4, RefreshFits, AppendQueued
    <2>6. QED
      BY <2>1, <2>3, <2>4, <2>5
  <1>8. CASE Lose
    BY <1>8, TailQueued DEF Lose
  <1>9. OpenSheet \/ OpenDialog \/ EditSettings \/ RivalCall \/ RivalCommits \/ CustomerBooks
          \/ UNCHANGED vars
        => UNCHANGED <<screen, queue>>
    BY DEF OpenSheet, OpenDialog, EditSettings, RivalCall, RivalCommits, CustomerBooks, vars, pageVars
  <1>10. QED
    BY <1>1, <1>2, <1>4, <1>6, <1>7, <1>8, <1>9, NextSteps
-----------------------------------------------------------------------------
(* The rival's calls, and the types.                                       *)

LEMMA RivalFits ==
  ASSUME Typed, NEW c \in RivalCalls
  PROVE  /\ Fits(screen, c) /\ c.at = "sent" /\ c.op # "refresh"
         /\ c.op = "create" => c.id \in FreshServices
  <1> DEFINE Made(op, id, arg) == c = Call(None, 0, op, id, arg)
  <1>1. ASSUME NEW op, NEW id \in Nat, NEW arg \in Arguments, Made(op, id, arg),
               op \in Operations
        PROVE  /\ c \in CallRec /\ c.op = op /\ c.id = id /\ c.arg = arg /\ c.at = "sent"
               /\ c.page = None
    <2>1. None \in HookNames /\ 0 \in Nat
      BY Names
    <2>2. QED
      BY <1>1, <2>1, CallType
  <1> HIDE DEF Made
  <1>2. CASE screen = "services"
    <2>1. db.svc \in Catalogue
      BY DEF Typed, Database, Catalogue
    <2>2. /\ Live(db) \subseteq Services /\ FreshServices \subseteq Services /\ Services \subseteq Nat
          /\ \A k \in 2 .. Cardinality(Live(db)) : Order(db)[k] \in Services
      <3>1. Order(db) \in [1 .. Cardinality(Live(db)) -> Live(db)] /\ Cardinality(Live(db)) \in Nat
        BY <2>1, OrderArranges, OrderType DEF Arranged
      <3>2. Live(db) \subseteq Services /\ FreshServices \subseteq Services /\ Services \subseteq Nat
        BY SetupAssumption DEF Live, FreshServices
      <3>3. ASSUME NEW k \in 2 .. Cardinality(Live(db)) PROVE Order(db)[k] \in Services
        <4>1. k \in 1 .. Cardinality(Live(db))
          BY <3>1
        <4>2. QED
          BY <3>1, <3>2, <4>1
      <3>4. QED
        BY <3>2, <3>3
    <2>3. \A s \in Services : (~db.svc[s].active) \in Arguments
      BY <2>1, Names DEF Catalogue, ServiceRow
    <2>4. \/ \E s \in FreshServices : Made("create", s, TRUE)
          \/ \E s \in Services : Made("toggle", s, ~db.svc[s].active)
          \/ \E s \in Services : Made("delete", s, None)
          \/ \E s \in Services : Made("move", s, "up")
      <3>1. \/ c \in {Call(None, 0, "create", s, TRUE) : s \in FreshServices}
            \/ c \in {Call(None, 0, "toggle", s, ~db.svc[s].active) : s \in Live(db)}
            \/ c \in {Call(None, 0, "delete", s, None) : s \in Live(db)}
            \/ c \in {Call(None, 0, "move", Order(db)[k], "up") : k \in 2..Cardinality(Live(db))}
        <4> DEFINE A == {Call(None, 0, "create", s, TRUE) : s \in FreshServices}
                   B == {Call(None, 0, "toggle", s, ~db.svc[s].active) : s \in Live(db)}
                   C == {Call(None, 0, "delete", s, None) : s \in Live(db)}
                   D == {Call(None, 0, "move", Order(db)[k], "up") : k \in 2..Cardinality(Live(db))}
        <4>1. RivalCalls = A \cup B \cup C \cup D
          BY <1>2 DEF RivalCalls
        <4> HIDE DEF A, B, C, D
        <4>2. c \in A \/ c \in B \/ c \in C \/ c \in D
          BY <4>1
        <4>3. QED
          BY <4>2 DEF A, B, C, D
      <3>2. QED
        BY <2>2, <3>1 DEF Made
    <2>5. TRUE \in Arguments /\ None \in Arguments /\ "up" \in Arguments
      BY Names
    <2>6. \A s \in Services : (~db.svc[s].active) \in BOOLEAN
      BY <2>1 DEF Catalogue, ServiceRow
    <2>7. CASE \E s \in FreshServices : Made("create", s, TRUE)
      <3>1. PICK s \in FreshServices : Made("create", s, TRUE)
        BY <2>7
      <3>2. /\ c \in CallRec /\ c.op = "create" /\ c.id = s /\ c.arg = TRUE /\ c.at = "sent"
            /\ c.page = None
        BY <3>1, <2>2, <2>5, <1>1, Names
      <3>3. QED
        BY <2>2, <3>2, <1>2 DEF Fits, OpsOf
    <2>8. CASE \E s \in Services : Made("toggle", s, ~db.svc[s].active)
      <3>1. PICK s \in Services : Made("toggle", s, ~db.svc[s].active)
        BY <2>8
      <3>2. /\ c \in CallRec /\ c.op = "toggle" /\ c.id = s /\ c.arg = ~db.svc[s].active
            /\ c.at = "sent" /\ c.page = None
        BY <3>1, <2>2, <2>3, <1>1, Names
      <3>3. c.arg \in BOOLEAN
        BY <3>2, <2>6
      <3>4. QED
        BY <3>2, <3>3, <1>2 DEF Fits, OpsOf
    <2>9. CASE \E s \in Services : Made("delete", s, None)
      <3>1. PICK s \in Services : Made("delete", s, None)
        BY <2>9
      <3>2. /\ c \in CallRec /\ c.op = "delete" /\ c.id = s /\ c.at = "sent" /\ c.page = None
        BY <3>1, <2>2, <2>5, <1>1, Names
      <3>3. QED
        BY <3>2, <1>2 DEF Fits, OpsOf
    <2>10. CASE \E s \in Services : Made("move", s, "up")
      <3>1. PICK s \in Services : Made("move", s, "up")
        BY <2>10
      <3>2. /\ c \in CallRec /\ c.op = "move" /\ c.id = s /\ c.at = "sent" /\ c.page = None
        BY <3>1, <2>2, <2>5, <1>1, Names
      <3>3. QED
        BY <3>2, <1>2 DEF Fits, OpsOf
    <2>11. QED
      BY <2>4, <2>7, <2>8, <2>9, <2>10
  <1>3. CASE screen = "hours"
    <2>1. HoursRows \subseteq Nat
      BY SetupAssumption DEF HoursRows
    <2>2. PICK op \in {"add", "drop"}, r \in HoursRows : Made(op, r, None)
      BY <1>3 DEF RivalCalls, FreshRows, Listed, Made
    <2>3. op \in Operations /\ None \in Arguments /\ r \in Nat
      BY <2>1, Names
    <2>4. c \in CallRec /\ c.op = op /\ c.id = r /\ c.at = "sent" /\ c.page = None
      BY <2>2, <2>3, <1>1
    <2>5. QED
      BY <2>4, <1>3 DEF Fits, OpsOf
  <1>4. CASE screen = "settings"
    <2>1. PICK t \in Texts, l \in Leads : Made("settings", 0, Seeded([name |-> t, lead |-> l]))
      BY <1>4 DEF RivalCalls, Made
    <2>2. Seeded([name |-> t, lead |-> l]) \in Fields
      BY SeededType DEF Business
    <2>3. Seeded([name |-> t, lead |-> l]) \in Arguments
      BY <2>2, Names
    <2>4. /\ c \in CallRec /\ c.op = "settings" /\ c.at = "sent" /\ c.page = None
          /\ c.arg = Seeded([name |-> t, lead |-> l])
      BY <2>1, <2>3, <1>1, Names
    <2>5. QED
      BY <2>2, <2>4, <1>4 DEF Fits, OpsOf
  <1>5. CASE screen = "customer"
    <2>1. \/ \E a \in BOOLEAN : Made("block", 1, a)
          \/ \E op \in {"rename", "notes"}, t \in Texts : Made(op, 0, t)
      BY <1>5 DEF RivalCalls, Made
    <2>2. CASE \E a \in BOOLEAN : Made("block", 1, a)
      <3>1. PICK a \in BOOLEAN : Made("block", 1, a)
        BY <2>2
      <3>2. a \in Arguments /\ 1 \in Nat
        BY Names
      <3>3. c \in CallRec /\ c.op = "block" /\ c.arg = a /\ c.at = "sent" /\ c.page = None
        BY <3>1, <3>2, <1>1, Names
      <3>4. QED
        BY <3>3, <1>5 DEF Fits, OpsOf
    <2>3. CASE \E op \in {"rename", "notes"}, t \in Texts : Made(op, 0, t)
      <3>1. PICK op \in {"rename", "notes"}, t \in Texts : Made(op, 0, t)
        BY <2>3
      <3>2. t \in Arguments /\ op \in Operations
        BY Names
      <3>3. c \in CallRec /\ c.op = op /\ c.arg = t /\ c.at = "sent" /\ c.page = None
        BY <3>1, <3>2, <1>1, Names
      <3>4. QED
        BY <3>3, <1>5 DEF Fits, OpsOf
    <2>4. QED
      BY <2>1, <2>2, <2>3
  <1>6. QED
    BY <1>2, <1>3, <1>4, <1>5 DEF Typed, Screens

LEMMA RivalStep ==
  ASSUME Typed, Opened, Queued(screen, queue), Rival, [Next]_vars
  PROVE  Rival'
  <1>1. CASE RivalCall
    <2>1. rivals' > 0 /\ screen' = screen
      BY <1>1 DEF RivalCall, Typed
    <2>2. PICK c \in RivalCalls :
            \/ TwoStatements(c) /\ rival' = [c EXCEPT !.at = "read", !.saw = Reads(db, c)]
            \/ rival' = rival
      BY <1>1 DEF RivalCall
    <2>3. CASE TwoStatements(c) /\ rival' = [c EXCEPT !.at = "read", !.saw = Reads(db, c)]
      <3>1. Fits(screen, c) /\ c.at = "sent" /\ db \in Database
        BY RivalFits DEF Typed
      <3>2. Fits(screen, rival') /\ rival'.at = "read" /\ TwoStatements(rival')
        BY <3>1, <2>3, ReadFits
      <3>3. TwoStatements(rival)'
        BY <3>2 DEF TwoStatements
      <3>4. QED
        BY <3>2, <3>3, <2>1 DEF Rival, Typed
    <2>4. CASE rival' = rival
      BY <2>1, <2>4, <1>1 DEF Rival, RivalCall, Typed
    <2>5. QED
      BY <2>2, <2>3, <2>4
  <1>2. CASE RivalCommits
    BY <1>2 DEF Rival, RivalCommits
  <1>3. CASE CustomerBooks
    <2>1. rivals' > 0 /\ UNCHANGED <<screen, rival>>
      BY <1>3 DEF CustomerBooks, Typed
    <2>2. QED
      BY <2>1 DEF Rival, TwoStatements
  <1>4. CASE UNCHANGED <<screen, rival, rivals>>
    BY <1>4 DEF Rival, TwoStatements
  <1>5. ASSUME NEW c, Sent(c) PROVE UNCHANGED <<screen, rival, rivals>>
    BY <1>5 DEF Sent
  <1>6. OpenSheet \/ OpenDialog \/ EditSettings \/ CloseSheet \/ Dismiss \/ Read \/ Commit \/ Refuse
          \/ Render \/ Arrive \/ Lose \/ UNCHANGED vars
        => UNCHANGED <<screen, rival, rivals>>
    BY DEF OpenSheet, OpenDialog, EditSettings, CloseSheet, Dismiss, Read, Commit, Refuse, Render,
           Arrive, Lose, vars
  <1>7. QED
    BY <1>1, <1>2, <1>3, <1>4, <1>5, <1>6, NextSteps

LEMMA EditsType ==
  ASSUME NEW f \in Fields, NEW g \in EditBusiness(f) \cup EditMessaging(f)
  PROVE  g \in Fields
  <1>1. CASE g \in EditBusiness(f)
    BY <1>1 DEF EditBusiness, Fields
  <1>2. CASE g = [f EXCEPT !.on = ~@]
    BY <1>2 DEF Fields
  <1>3. CASE \E l \in Leads \ {None} : g = [f EXCEPT !.lead = l]
    BY <1>3 DEF Fields
  <1>4. QED
    BY <1>1, <1>2, <1>3 DEF EditMessaging

\* The rows in the database and on the screen.
LEMMA RowsStep ==
  ASSUME Typed, Opened, Queued(screen, queue), Rival, [Next]_vars
  PROVE  screen' = screen /\ db' \in Database /\ shown' \in Rendering(screen)
  <1> USE DEF Typed
  <1>1. CASE UNCHANGED <<screen, db, shown>>
    BY <1>1
  <1>2. CASE Commit
    BY <1>2, CommitHandles DEF Commit
  <1>3. CASE Arrive
    <2>1. /\ queue # <<>> /\ Head(queue).at = "done" /\ UNCHANGED <<screen, db>>
          /\ shown' = Shows(Head(queue))
      BY <1>3 DEF Arrive
    <2>2. Fits(screen, Head(queue))
      BY <2>1, HeadCall
    <2>3. QED
      BY <2>1, <2>2 DEF Fits, Shows
  <1>4. CASE RivalCall
    <2>1. PICK c \in RivalCalls :
            \/ db' = db
            \/ ~TwoStatements(c) /\ db' = Write(db, c)
      BY <1>4 DEF RivalCall
    <2>2. ~TwoStatements(c) => c.op # "create"
      BY DEF TwoStatements
    <2>3. db' \in Database
      BY <2>1, <2>2, RivalFits, WriteType
    <2>4. QED
      BY <2>3, <1>4 DEF RivalCall, pageVars
  <1>5. CASE RivalCommits
    <2>1. Fits(screen, rival) /\ rival.at = "read" /\ TwoStatements(rival)
      BY <1>5 DEF RivalCommits, Rival
    <2>2. rival.op # "refresh" /\ (rival.op = "create" => Len(rival.saw) = 1)
      BY <2>1 DEF Fits, TwoStatements
    <2>3. Write(db, rival) \in Database
      BY <2>1, <2>2, WriteType
    <2>4. QED
      BY <2>3, <1>5 DEF RivalCommits, pageVars
  <1>6. ASSUME NEW c, Sent(c) PROVE UNCHANGED <<screen, db, shown>>
    BY <1>6 DEF Sent
  <1>7. OpenSheet \/ OpenDialog \/ EditSettings \/ CloseSheet \/ Dismiss \/ Read \/ Refuse \/ Render
          \/ Lose \/ CustomerBooks \/ UNCHANGED vars
        => UNCHANGED <<screen, db, shown>>
    BY DEF OpenSheet, OpenDialog, EditSettings, CloseSheet, Dismiss, Read, Refuse, Render,
           Lose, CustomerBooks, vars, pageVars
  <1>8. QED
    BY <1>1, <1>2, <1>3, <1>4, <1>5, <1>6, <1>7, NextSteps

\* The counters and the flags.
LEMMA FlagsStep ==
  ASSUME Typed, Opened, Queued(screen, queue), [Next]_vars
  PROVE  /\ booked' \subseteq Services /\ typed' \in Fields
         /\ saved' \in BOOLEAN /\ unseen' \in BOOLEAN /\ overtyped' \in BOOLEAN
         /\ calls' \in 0..MaxCalls /\ rivals' \in 0..MaxRivals
  <1> USE DEF Typed
  <1>1. CASE UNCHANGED <<booked, typed, saved, unseen, overtyped, calls, rivals>>
    BY <1>1
  <1>2. ASSUME NEW c, Sent(c)
        PROVE  /\ calls' \in 0..MaxCalls
               /\ UNCHANGED <<booked, typed, saved, unseen, overtyped, rivals>>
    BY <1>2, SetupAssumption DEF Sent
  <1>3. CASE EditSettings
    BY <1>3, EditsType DEF EditSettings
  <1>4. CASE Commit
    <2>1. unseen' \in BOOLEAN
      BY <1>4 DEF Commit
    <2>2. QED
      BY <2>1, <1>4 DEF Commit
  <1>5. CASE Render
    BY <1>5 DEF Render
  <1>6. CASE Arrive
    <2>1. saved' \in BOOLEAN /\ overtyped' \in BOOLEAN
      BY <1>6 DEF Arrive
    <2>2. QED
      BY <2>1, <1>6 DEF Arrive
  <1>7. CASE Lose
    BY <1>7 DEF Lose
  <1>8. CASE RivalCall
    <2>1. rivals' \in 0..MaxRivals /\ UNCHANGED <<booked, typed, saved, overtyped, calls>>
      BY <1>8, SetupAssumption DEF RivalCall, pageVars
    <2>2. unseen' \in BOOLEAN
      BY <1>8 DEF RivalCall
    <2>3. QED
      BY <2>1, <2>2
  <1>9. CASE RivalCommits
    BY <1>9 DEF RivalCommits, pageVars
  <1>10. CASE CustomerBooks
    <2>1. rivals' \in 0..MaxRivals
      BY <1>10, SetupAssumption DEF CustomerBooks
    <2>2. booked' \subseteq Services
      BY <1>10 DEF CustomerBooks, Live
    <2>3. QED
      BY <2>1, <2>2, <1>10 DEF CustomerBooks, pageVars
  <1>11. OpenSheet \/ OpenDialog \/ CloseSheet \/ Dismiss \/ Read \/ Refuse \/ UNCHANGED vars
        => UNCHANGED <<booked, typed, saved, unseen, overtyped, calls, rivals>>
    BY DEF OpenSheet, OpenDialog, CloseSheet, Dismiss, Read, Refuse, vars, pageVars
  <1>12. QED
    BY <1>1, <1>2, <1>3, <1>4, <1>5, <1>6, <1>7, <1>8, <1>9, <1>10, <1>11, NextSteps

LEMMA TypedStep ==
  ASSUME Typed, Opened, Queued(screen, queue), Rival, [Next]_vars
  PROVE  Typed'
  <1>1. /\ screen' = screen /\ db' \in Database /\ shown' \in Rendering(screen)
    BY RowsStep
  <1>2. QED
    BY <1>1, FlagsStep DEF Typed
-----------------------------------------------------------------------------
(* What is open, and what is shown.                                        *)

LEMMA OpenedStep ==
  ASSUME Typed, Opened, Queued(screen, queue), [Next]_vars
  PROVE  Opened'
  <1>1. CASE UNCHANGED <<screen, form, dialog>>
    BY <1>1 DEF Opened
  <1>2. CASE OpenSheet
    <2>1. CASE screen = "services" /\ form' \in ServiceSheets
      <3>1. Live(shown) \subseteq Services
        BY DEF Live
      <3>2. form' \in [what : {"service"}, id : Services \cup {0}]
        BY <2>1, <3>1 DEF ServiceSheets
      <3>3. QED
        BY <3>2, <2>1, <1>2 DEF OpenSheet, Opened
    <2>2. CASE screen = "hours" /\ form' \in HoursSheets
      <3>1. \A r \in HoursRows : HoursKinds[r] \in Kinds
        BY SetupAssumption DEF HoursRows
      <3>2. form' \in [what : Kinds, id : {0}]
        BY <2>2, <3>1 DEF HoursSheets
      <3>3. QED
        BY <3>2, <2>2, <1>2 DEF OpenSheet, Opened
    <2>3. QED
      BY <1>2, <2>1, <2>2 DEF OpenSheet
  <1>3. CASE OpenDialog
    <2>1. Live(shown) \subseteq Services /\ Listed(shown) \subseteq HoursRows
      BY DEF Live, Listed
    <2>2. QED
      BY <2>1, <1>3 DEF OpenDialog, Opened
  <1>4. CASE CloseSheet \/ Dismiss
    <2>1. screen' = screen
      BY <1>4 DEF CloseSheet, Dismiss
    <2>2. /\ form' = None \/ form' = form
          /\ dialog' = None \/ dialog' = dialog
      BY <1>4 DEF CloseSheet, Dismiss
    <2>3. QED
      BY <2>1, <2>2 DEF Opened
  <1>5. CASE Arrive
    <2>1. /\ form' = None \/ form' = form
          /\ dialog' = None \/ dialog' = dialog
          /\ UNCHANGED screen
      BY <1>5 DEF Arrive
    <2>2. QED
      BY <2>1 DEF Opened
  <1>6. ASSUME NEW c, Sent(c) PROVE UNCHANGED <<screen, form, dialog>>
    BY <1>6 DEF Sent
  <1>7. EditSettings \/ Read \/ Commit \/ Refuse \/ Render \/ Lose \/ RivalCall \/ RivalCommits
          \/ CustomerBooks \/ UNCHANGED vars
        => UNCHANGED <<screen, form, dialog>>
    BY DEF EditSettings, Read, Commit, Refuse, Render, Lose, RivalCall, RivalCommits, CustomerBooks,
           vars, pageVars
  <1>8. QED
    BY <1>1, <1>2, <1>3, <1>4, <1>5, <1>6, <1>7, NextSteps

\* A call that is not answered yet stays unanswered behind the ones before it.
Answering(q) == q # <<>> /\ Head(q).at = "done" /\ Head(q).result = "ok"

LEMMA StillCurrent ==
  ASSUME Current, UNCHANGED <<screen, db, shown, unseen>>, Answering(queue)' = Answering(queue),
         Answering(queue) => Head(queue).page = (Head(queue).page)'
  PROVE  Current'
  BY DEF Current, Answering, Page

LEMMA AppendAnswering ==
  ASSUME NEW q \in Seq(CallRec), NEW c \in CallRec, c.at = "sent"
  PROVE  /\ Answering(Append(q, c)) = Answering(q)
         /\ Answering(q) => Head(Append(q, c)) = Head(q)
  <1>1. Append(q, c) # <<>> /\ Head(Append(q, c)) = IF q = <<>> THEN c ELSE Head(q)
    <2>1. Len(Append(q, c)) = Len(q) + 1 /\ Len(q) \in Nat
      BY AppendFacts
    <2>2. Append(q, c) # <<>>
      BY <2>1
    <2>3. QED
      BY <2>2, HeadTailAppend
  <1>2. QED
    BY <1>1 DEF Answering

LEMMA LooseAnswering ==
  ASSUME NEW q \in Seq(CallRec), NEW ops
  PROVE  /\ Answering(Orphaned(q, ops)) = Answering(q)
         /\ Answering(q) => Head(Orphaned(q, ops)).page = Head(q).page
  <1> DEFINE p == Orphaned(q, ops)
  <1>1. p \in Seq(CallRec) /\ Len(p) = Len(q) /\ Len(q) \in Nat
    BY LooseFacts
  <1>2. ASSUME NEW i \in 1 .. Len(q)
        PROVE  p[i].at = q[i].at /\ p[i].result = q[i].result /\ p[i].page = q[i].page
    <2>1. q[i] \in CallRec
      OBVIOUS
    <2>2. CASE p[i] = q[i]
      BY <2>2
    <2>3. CASE p[i] = [q[i] EXCEPT !.mine = FALSE]
      BY <2>1, <2>3, LooseCall
    <2>4. QED
      BY <2>2, <2>3, LooseFacts
  <1> HIDE DEF p
  <1>3. CASE q = <<>>
    <2>1. p = <<>>
      BY <1>1, <1>3
    <2>2. QED
      BY <2>1, <1>3 DEF Answering, p
  <1>4. CASE q # <<>>
    <2>1. 1 \in 1 .. Len(q) /\ Head(q) = q[1] /\ Head(p) = p[1] /\ p # <<>>
      BY <1>1, <1>4
    <2>2. QED
      BY <2>1, <1>2, <1>4 DEF Answering, p
  <1>5. QED
    BY <1>3, <1>4

\* A call that has been rewritten at the server, with what it found there.
LEMMA HandledCurrent ==
  ASSUME Queued(screen, queue), NEW c, Handled(c)
  PROVE  queue' # <<>> /\ Head(queue') = c /\ ~Answering(queue)
  <1>1. queue \in Seq(CallRec) /\ c \in CallRec
    BY DEF Queued, Handled, Fits
  <1>2. QED
    BY <1>1, FirstFacts DEF Handled, Answering

LEMMA CurrentStep ==
  ASSUME Typed, Opened, Queued(screen, queue), Current, [Next]_vars
  PROVE  Current'
  <1>0. queue \in Seq(CallRec)
    BY DEF Queued
  <1>1. CASE UNCHANGED <<screen, db, shown, unseen, queue>>
    BY <1>1, StillCurrent DEF Answering
  <1>2. ASSUME NEW c, Fresh(c), Sent(c) PROVE Current'
    <2>1. c \in CallRec /\ c.at = "sent" /\ queue' = Append(queue, c)
          /\ UNCHANGED <<screen, db, shown, unseen>>
      BY <1>2 DEF Fresh, Fits, Sent
    <2>2. /\ Answering(queue') = Answering(queue)
          /\ Answering(queue) => Head(queue') = Head(queue)
      BY <2>1, <1>0, AppendAnswering
    <2>3. QED
      BY <2>1, <2>2, StillCurrent DEF Answering
  <1>3. ASSUME NEW hook, NEW ops, LetGo(hook, ops), UNCHANGED <<screen, db, shown, unseen>>
        PROVE  Current'
    <2>1. queue' = Orphaned(queue, ops)
      BY <1>3, LetGoFacts
    <2>2. /\ Answering(queue') = Answering(queue)
          /\ Answering(queue) => Head(queue').page = Head(queue).page
      BY <2>1, <1>0, LooseAnswering
    <2>3. QED
      BY <1>3, <2>2, StillCurrent DEF Answering
  <1>4. CASE CloseSheet \/ Dismiss
    BY <1>3, <1>4 DEF CloseSheet, Dismiss
  <1>5. CASE Read
    <2>1. PICK c : Handled(c) /\ c.at = "read" /\ UNCHANGED <<db, unseen>>
      BY <1>5, ReadHandles
    <2>2. queue' # <<>> /\ Head(queue') = c /\ ~Answering(queue)
      BY <2>1, HandledCurrent
    <2>3. UNCHANGED <<screen, shown>>
      BY <2>1 DEF Handled
    <2>4. QED
      BY <2>1, <2>2, <2>3 DEF Current, Answering, Page
  <1>6. CASE Refuse
    <2>1. PICK c : Handled(c) /\ c.result = "refused" /\ UNCHANGED <<db, unseen>>
      BY <1>6, RefuseHandles
    <2>2. queue' # <<>> /\ Head(queue') = c /\ ~Answering(queue)
      BY <2>1, HandledCurrent
    <2>3. UNCHANGED <<screen, shown>>
      BY <2>1 DEF Handled
    <2>4. QED
      BY <2>1, <2>2, <2>3 DEF Current, Answering, Page
  <1>7. CASE Render
    <2>1. PICK c : /\ Handled(c) /\ c.at = "done" /\ c.result = "ok" /\ c.page = Page(db)
                   /\ UNCHANGED db
      BY <1>7, RenderHandles
    <2>2. queue' # <<>> /\ Head(queue') = c
      BY <2>1, HandledCurrent
    <2>3. UNCHANGED screen
      BY <2>1 DEF Handled
    <2>4. QED
      BY <2>1, <2>2, <2>3 DEF Current, Page
  <1>8. CASE Commit
    <2>1. PICK c : /\ Handled(c) /\ c.at = "done" /\ c.result = Answer(db, Head(queue))
                   /\ c.result = "ok" => c.page = Page(db')
                   /\ unseen' = (unseen /\ c.result # "ok")
      BY <1>8, CommitHandles
    <2>2. queue' # <<>> /\ Head(queue') = c /\ ~Answering(queue)
      BY <2>1, HandledCurrent
    <2>3. UNCHANGED <<screen, shown>>
      BY <2>1 DEF Handled
    <2>4. CASE c.result = "ok"
      BY <2>1, <2>2, <2>3, <2>4 DEF Current, Page
    <2>5. CASE c.result # "ok"
      <3>1. db' = db /\ unseen' = unseen
        BY <2>1, <2>5, <1>8, CommitHandles DEF Typed
      <3>2. QED
        BY <2>1, <2>2, <2>3, <2>5, <3>1 DEF Current, Answering, Page
    <2>6. QED
      BY <2>4, <2>5
  <1>9. ASSUME NEW q \in Seq(CallRec), \A i \in 1 .. Len(q) : q[i].at = "sent"
        PROVE  ~Answering(q) /\ ~Answering(Append(q, Refreshing))
    <2>1. q # <<>> => Head(q).at = "sent"
      <3>1. SUFFICES ASSUME q # <<>> PROVE Head(q).at = "sent"
        OBVIOUS
      <3>2. 1 \in 1 .. Len(q) /\ Head(q) = q[1]
        BY <3>1, TailFacts
      <3>3. QED
        BY <1>9, <3>2
    <2>2. ~Answering(q)
      BY <2>1 DEF Answering
    <2>3. QED
      BY <2>2, RefreshFits, AppendAnswering
  <1>10. CASE Arrive
    <2>1. /\ queue # <<>> /\ Head(queue).at = "done" /\ shown' = Shows(Head(queue))
          /\ UNCHANGED <<screen, db, unseen>>
      BY <1>10 DEF Arrive
    <2>2. ~Answering(queue')
      <3>1. PICK ops : Arrived(ops)
        BY <1>10, ArriveQueue
      <3> DEFINE rest == Orphaned(Tail(queue), ops)
      <3>2. queue' = rest \/ queue' = Append(rest, Refreshing)
        BY <3>1 DEF Arrived
      <3>3. rest \in Seq(CallRec) /\ \A i \in 1 .. Len(rest) : rest[i].at = "sent"
        BY <2>1, RestFacts
      <3> HIDE DEF rest
      <3>4. QED
        BY <3>2, <3>3, <1>9
    <2>3. QED
      BY <2>1, <2>2 DEF Current, Answering, Shows, Page
  <1>11. CASE Lose
    <2>1. /\ queue # <<>> /\ queue' = Tail(queue) /\ UNCHANGED <<screen, db, shown>>
          /\ unseen' = (unseen \/ Head(queue).page # None)
      BY <1>11 DEF Lose
    <2>2. ~Answering(queue')
      BY <1>0, <1>9, <2>1, TailQueued, TailFollows
    <2>3. Fits(screen, Head(queue))
      BY <2>1, HeadCall
    <2>4. QED
      BY <2>1, <2>2, <2>3 DEF Current, Answering, Page, Fits
  <1>12. CASE RivalCall \/ RivalCommits
    <2>1. /\ UNCHANGED <<screen, shown, queue>>
          /\ \/ UNCHANGED <<db, unseen>>
             \/ unseen' = (unseen \/ db' # db)
      BY <1>12 DEF RivalCall, RivalCommits, pageVars
    <2>2. QED
      BY <2>1 DEF Current, Page
  <1>13. OpenSheet \/ OpenDialog \/ EditSettings \/ CustomerBooks \/ UNCHANGED vars
        => UNCHANGED <<screen, db, shown, unseen, queue>>
    BY DEF OpenSheet, OpenDialog, EditSettings, CustomerBooks, vars, pageVars
  <1>14. QED
    BY <1>1, <1>2, <1>4, <1>5, <1>6, <1>7, <1>8, <1>10, <1>11, <1>12, <1>13, NextSteps
-----------------------------------------------------------------------------
(* The buttons.                                                            *)

LEMMA SelfFollows ==
  ASSUME NEW q \in Seq(CallRec)
  PROVE  Follows(q, q)
  <1>1. ASSUME NEW i \in 1 .. Len(q) PROVE i + 0 \in 1 .. Len(q) /\ Same(q[i], q[i + 0])
    BY DEF Same
  <1>2. QED
    BY <1>1 DEF Follows

\* The queue after a step that sends nothing, answers nothing and closes nothing.
LEMMA OtherSteps ==
  ASSUME Typed, Opened, Queued(screen, queue), [Next]_vars
  PROVE  \/ \E c : Fresh(c) /\ Sent(c)
         \/ CloseSheet \/ Dismiss \/ Arrive \/ Lose
         \/ Follows(queue', queue) /\ UNCHANGED <<screen, abandoned, busy>>
  <1>0. queue \in Seq(CallRec)
    BY DEF Queued
  <1>1. UNCHANGED queue => Follows(queue', queue)
    BY <1>0, SelfFollows
  <1>2. ASSUME NEW c, Handled(c)
        PROVE  Follows(queue', queue) /\ UNCHANGED <<screen, abandoned, busy>>
    BY <1>0, <1>2, FirstFollows DEF Handled, Fits
  <1>3. CASE Read \/ Commit \/ Refuse \/ Render
    BY <1>2, <1>3, ReadHandles, CommitHandles, RefuseHandles, RenderHandles
  <1>4. OpenSheet \/ OpenDialog \/ EditSettings \/ RivalCall \/ RivalCommits \/ CustomerBooks
          \/ UNCHANGED vars
        => UNCHANGED <<screen, abandoned, busy, queue>>
    BY DEF OpenSheet, OpenDialog, EditSettings, RivalCall, RivalCommits, CustomerBooks, vars, pageVars
  <1>5. QED
    BY <1>1, <1>3, <1>4, NextSteps

\* The calls that are left once the first has gone: its hook has no other, unless one
\* of the two is excused.
LEMMA FirstWasAlone ==
  ASSUME NEW q \in Seq(CallRec), q # <<>>, NEW left, OneEach(q, left),
         NEW i \in 1 .. Len(Tail(q)),
         Tail(q)[i].hook = Head(q).hook, Tail(q)[i].row = Head(q).row
  PROVE  Excused(Tail(q)[i], left) \/ Excused(Head(q), left)
  <1>1. /\ i + 1 \in 1 .. Len(q) /\ Tail(q)[i] = q[i + 1] /\ 1 \in 1 .. Len(q)
        /\ Head(q) = q[1] /\ i + 1 # 1
    BY TailFacts
  <1>2. QED
    BY <1>1 DEF OneEach

\* The pending flag falls with the first call, whose sheet is there or has let go of
\* all it sent.
LEMMA TailHooks ==
  ASSUME NEW q \in Seq(CallRec), q # <<>>, NEW pending, NEW left, OneEach(q, left),
         Hooks(q, pending, left), NEW p, Follows(p, Tail(q)),
         Head(q).op \in SheetOps /\ ~Head(q).mine
           => \A i \in 1 .. Len(p) : p[i].op \in SheetOps => ~p[i].mine
  PROVE  Hooks(p, pending \ {<<Head(q).hook, Head(q).row>>}, left)
  <1>1. /\ Hooks(Tail(q), pending, left)
        /\ 1 \in 1 .. Len(q) /\ Head(q) = q[1]
    BY TailFollows, TailFacts, FollowsHooks
  <1>2. PICK k \in {0, 1} :
          \A i \in 1 .. Len(p) : i + k \in 1 .. Len(Tail(q)) /\ Same(p[i], Tail(q)[i + k])
    BY DEF Follows
  <1>3. ASSUME NEW i \in 1 .. Len(p)
        PROVE  Hooked(p[i], pending \ {<<Head(q).hook, Head(q).row>>}, left)
    <2> DEFINE t == Tail(q)[i + k]
    <2>1. /\ Same(p[i], t) /\ Wired(t) /\ Wired(p[i]) /\ Wired(Head(q))
          /\ Excused(t, left) \/ <<t.hook, t.row>> \in pending
      BY <1>1, <1>2, SameExcused DEF Hooks, Hooked
    <2>2. CASE t.hook = Head(q).hook /\ t.row = Head(q).row
      <3>1. Excused(t, left) \/ Excused(Head(q), left)
        BY <1>2, <2>2, FirstWasAlone
      <3> HIDE DEF t
      <3>2. CASE Excused(t, left)
        BY <2>1, <3>2, SameExcused DEF Hooked
      <3>3. CASE Excused(Head(q), left)
        <4>1. p[i].hook = Head(q).hook
          BY <2>1, <2>2 DEF Same
        <4>2. CASE Head(q).op = "refresh" \/ (Head(q).op \in DialogOps /\ Head(q).hook \in left)
          BY <2>1, <4>1, <4>2 DEF Wired, Excused, Hooked
        <4>3. CASE Head(q).op \in SheetOps /\ ~Head(q).mine
          BY <2>1, <4>1, <4>3 DEF Wired, Excused, Hooked
        <4>4. QED
          BY <3>3, <4>2, <4>3 DEF Excused
      <3>4. QED
        BY <3>1, <3>2, <3>3
    <2>3. CASE ~(t.hook = Head(q).hook /\ t.row = Head(q).row)
      <3> HIDE DEF t
      <3>1. CASE Excused(t, left)
        BY <2>1, <3>1, SameExcused DEF Hooked
      <3>2. CASE <<t.hook, t.row>> \in pending
        BY <2>1, <2>3, <3>2 DEF Hooked, Same
      <3>3. QED
        BY <2>1, <3>1, <3>2
    <2>4. QED
      BY <2>2, <2>3
  <1>4. QED
    BY <1>3 DEF Hooks

LEMMA AppendHooks ==
  ASSUME NEW q \in Seq(CallRec), NEW c \in CallRec, NEW pending, NEW left,
         Hooks(q, pending, left), Hooked(c, pending, left)
  PROVE  Hooks(Append(q, c), pending, left)
  <1>1. ASSUME NEW i \in 1 .. Len(Append(q, c)) PROVE Hooked(Append(q, c)[i], pending, left)
    <2>1. CASE i \in 1 .. Len(q) /\ Append(q, c)[i] = q[i]
      BY <2>1 DEF Hooks
    <2>2. CASE i = Len(q) + 1 /\ Append(q, c)[i] = c
      BY <2>2
    <2>3. QED
      BY <2>1, <2>2, AppendFacts
  <1>2. QED
    BY <1>1 DEF Hooks

LEMMA MorePending ==
  ASSUME NEW q, NEW pending, NEW more, NEW left, Hooks(q, pending, left)
  PROVE  Hooks(q, pending \cup more, left)
  BY DEF Hooks, Hooked

LEMMA MoreLeft ==
  ASSUME NEW q, NEW pending, NEW left, NEW more, left \subseteq more
  PROVE  /\ Hooks(q, pending, left) => Hooks(q, pending, more)
         /\ OneEach(q, left) => OneEach(q, more)
  BY DEF Hooks, Hooked, OneEach, Excused

\* Forgetting the hooks that have no call in flight excuses no call less.
LEMMA StillExcused ==
  ASSUME NEW q \in Seq(CallRec), NEW pending, NEW left
  PROVE  /\ Hooks(q, pending, left) => Hooks(q, pending, StillOut(left, q))
         /\ OneEach(q, left) => OneEach(q, StillOut(left, q))
  <1>1. ASSUME NEW i \in 1 .. Len(q), Excused(q[i], left) PROVE Excused(q[i], StillOut(left, q))
    <2>1. i \in DOMAIN q
      OBVIOUS
    <2>2. q[i].hook \in left => q[i].hook \in StillOut(left, q)
      BY <2>1 DEF StillOut
    <2>3. QED
      BY <1>1, <2>2 DEF Excused
  <1>2. Hooks(q, pending, left) => Hooks(q, pending, StillOut(left, q))
    BY <1>1 DEF Hooks, Hooked
  <1>3. OneEach(q, left) => OneEach(q, StillOut(left, q))
    BY <1>1 DEF OneEach
  <1>4. QED
    BY <1>2, <1>3

LEMMA RefreshHooked ==
  ASSUME NEW pending, NEW left
  PROVE  Hooked(Refreshing, pending, left)
  BY RefreshFits DEF Hooked, Wired, Excused, SheetOps, DialogOps, SheetHooks, DialogHooks, Kinds

LEMMA BoxHooks ==
  ASSUME Opened
  PROVE  /\ form # None => FormHook \in SheetHooks
         /\ dialog # None => DialogHook \in DialogHooks
  <1>1. form # None => FormHook \in SheetHooks
    BY DEF Opened, FormHook, SheetHooks, Kinds
  <1>2. \A r \in HoursRows : HoursKinds[r] \in Kinds
    BY SetupAssumption DEF HoursRows
  <1>3. dialog # None => DialogHook \in DialogHooks
    BY <1>2 DEF Opened, DialogHook, DialogHooks
  <1>4. QED
    BY <1>1, <1>3

LEMMA HooksStep ==
  ASSUME Typed, Opened, Queued(screen, queue), Hooks(queue, busy, abandoned),
         OneEach(queue, abandoned), [Next]_vars
  PROVE  Hooks(queue', busy', abandoned')
  <1>0. queue \in Seq(CallRec)
    BY DEF Queued
  <1>1. ASSUME NEW c, Fresh(c), Sent(c) PROVE Hooks(queue', busy', abandoned')
    <2>1. /\ busy' = busy \cup {<<c.hook, c.row>>} /\ queue' = Append(queue, c)
          /\ abandoned' = abandoned
      BY <1>1 DEF Sent
    <2>2. c \in CallRec /\ Hooked(c, busy', abandoned)
      BY <1>1, <2>1 DEF Fresh, Fits, Hooked
    <2>3. Hooks(queue, busy', abandoned)
      BY <2>1, MorePending
    <2>4. QED
      BY <1>0, <2>1, <2>2, <2>3, AppendHooks
  <1>2. CASE CloseSheet
    <2> DEFINE p == Orphaned(queue, SheetOps)
    <2>1. /\ queue' = p /\ busy' = busy \ {<<FormHook, 0>>} /\ abandoned' = abandoned
          /\ FormHook \in SheetHooks
      BY <1>2, LetGoFacts, BoxHooks DEF CloseSheet
    <2>2. Hooks(p, busy, abandoned) /\ Len(p) = Len(queue)
          /\ \A i \in 1 .. Len(queue) : p[i].op \in SheetOps => ~p[i].mine
      BY <1>0, LooseFollows, LooseFacts, FollowsHooks
    <2> HIDE DEF p
    <2>3. ASSUME NEW i \in 1 .. Len(p) PROVE Hooked(p[i], busy', abandoned)
      <3>1. Hooked(p[i], busy, abandoned) /\ (p[i].op \in SheetOps => ~p[i].mine)
        BY <2>2 DEF Hooks
      <3>2. CASE p[i].op \in SheetOps
        BY <3>1, <3>2 DEF Hooked, Excused
      <3>3. CASE p[i].op \notin SheetOps
        <4>1. p[i].hook # FormHook
          BY <2>1, <3>1, <3>3 DEF Hooked, Wired
        <4>2. QED
          BY <2>1, <3>1, <4>1 DEF Hooked
      <3>4. QED
        BY <3>2, <3>3
    <2>4. QED
      BY <2>1, <2>3 DEF Hooks
  <1>3. CASE Dismiss
    <2> DEFINE left == abandoned \cup {DialogHook}
    <2>1. /\ queue' = Orphaned(queue, DialogOps) /\ busy' = busy \ {<<DialogHook, 0>>}
          /\ abandoned' = StillOut(left, queue) /\ DialogHook \in DialogHooks
      BY <1>3, LetGoFacts, BoxHooks DEF Dismiss
    <2>2. Hooks(queue, busy, left)
      BY MoreLeft
    <2>3. ASSUME NEW i \in 1 .. Len(queue) PROVE Hooked(queue[i], busy', left)
      <3>1. Hooked(queue[i], busy, left)
        BY <2>2 DEF Hooks
      <3>2. CASE queue[i].hook = DialogHook
        BY <2>1, <3>1, <3>2 DEF Hooked, Wired, Excused
      <3>3. CASE queue[i].hook # DialogHook
        BY <2>1, <3>1, <3>3 DEF Hooked
      <3>4. QED
        BY <3>2, <3>3
    <2> HIDE DEF left
    <2>4. Hooks(queue, busy', abandoned')
      <3>1. Hooks(queue, busy', left)
        BY <2>3 DEF Hooks
      <3>2. QED
        BY <1>0, <2>1, <3>1, StillExcused
    <2>5. QED
      BY <1>0, <2>1, <2>4, LooseFollows, FollowsHooks
  <1>4. CASE Arrive
    <2>1. queue # <<>>
      BY <1>4 DEF Arrive
    <2>2. PICK ops : Arrived(ops)
      BY <1>4, ArriveQueue
    <2> DEFINE rest == Orphaned(Tail(queue), ops)
    <2>3. /\ rest \in Seq(CallRec) /\ Follows(rest, Tail(queue)) /\ Follows(rest, queue)
          /\ \A i \in 1 .. Len(rest) : rest[i].op \in ops => ~rest[i].mine
      BY <2>1, RestFacts
    <2>4. /\ queue' = rest \/ queue' = Append(rest, Refreshing)
          /\ abandoned' = StillOut(abandoned, rest)
          /\ \/ busy' = busy
             \/ /\ busy' = busy \ {<<Head(queue).hook, Head(queue).row>>}
                /\ Head(queue).op \in SheetOps /\ ~Head(queue).mine => SheetOps \subseteq ops
      BY <2>2 DEF Arrived
    <2> HIDE DEF rest
    <2>5. Hooks(rest, busy', abandoned)
      <3>1. CASE busy' = busy
        BY <2>3, <3>1, FollowsHooks
      <3>2. CASE /\ busy' = busy \ {<<Head(queue).hook, Head(queue).row>>}
                 /\ Head(queue).op \in SheetOps /\ ~Head(queue).mine => SheetOps \subseteq ops
        <4>1. Head(queue).op \in SheetOps /\ ~Head(queue).mine
                => \A i \in 1 .. Len(rest) : rest[i].op \in SheetOps => ~rest[i].mine
          BY <2>3, <3>2
        <4>2. Hooks(rest, busy \ {<<Head(queue).hook, Head(queue).row>>}, abandoned)
          BY <1>0, <2>1, <2>3, <4>1, TailHooks
        <4>3. QED
          BY <3>2, <4>2
      <3>3. QED
        BY <2>4, <3>1, <3>2
    <2>6. Hooks(rest, busy', abandoned')
      BY <2>3, <2>4, <2>5, StillExcused
    <2>7. Hooks(Append(rest, Refreshing), busy', abandoned')
      BY <2>3, <2>6, RefreshFits, RefreshHooked, AppendHooks
    <2>8. QED
      BY <2>4, <2>6, <2>7
  <1>5. CASE Lose
    <2>1. /\ queue # <<>> /\ abandoned' = StillOut(abandoned, Tail(queue)) /\ queue' = Tail(queue)
          /\ busy' = IF Head(queue).op \in SheetOps /\ ~Head(queue).mine THEN busy
                     ELSE busy \ {<<Head(queue).hook, Head(queue).row>>}
      BY <1>5 DEF Lose
    <2>2. /\ Tail(queue) \in Seq(CallRec) /\ Follows(Tail(queue), queue)
          /\ Follows(Tail(queue), Tail(queue))
      BY <1>0, <2>1, TailFollows, SelfFollows
    <2>3. Hooks(Tail(queue), busy', abandoned)
      <3>1. CASE Head(queue).op \in SheetOps /\ ~Head(queue).mine
        BY <2>1, <2>2, <3>1, FollowsHooks
      <3>2. CASE ~(Head(queue).op \in SheetOps /\ ~Head(queue).mine)
        BY <1>0, <2>1, <2>2, <3>2, TailHooks
      <3>3. QED
        BY <3>1, <3>2
    <2>4. QED
      BY <2>1, <2>2, <2>3, StillExcused
  <1>6. CASE Follows(queue', queue) /\ UNCHANGED <<abandoned, busy>>
    BY <1>6, FollowsHooks
  <1>7. QED
    BY <1>1, <1>2, <1>3, <1>4, <1>5, <1>6, OtherSteps

LEMMA AppendOneEach ==
  ASSUME NEW q \in Seq(CallRec), NEW c \in CallRec, NEW left, OneEach(q, left),
         \A i \in 1 .. Len(q) :
           (q[i].hook = c.hook /\ q[i].row = c.row) => (Excused(q[i], left) \/ Excused(c, left))
  PROVE  OneEach(Append(q, c), left)
  <1> DEFINE p == Append(q, c)
  <1>1. \A i \in 1 .. Len(p) : \/ i \in 1 .. Len(q) /\ p[i] = q[i]
                               \/ i = Len(q) + 1 /\ p[i] = c
    BY AppendFacts
  <1> HIDE DEF p
  <1>2. ASSUME NEW i \in 1 .. Len(p), NEW j \in 1 .. Len(p), i # j,
               p[i].hook = p[j].hook, p[i].row = p[j].row
        PROVE  Excused(p[i], left) \/ Excused(p[j], left)
    <2>1. CASE i \in 1 .. Len(q) /\ p[i] = q[i] /\ j \in 1 .. Len(q) /\ p[j] = q[j]
      BY <1>2, <2>1 DEF OneEach
    <2>2. CASE i \in 1 .. Len(q) /\ p[i] = q[i] /\ p[j] = c
      BY <1>2, <2>2
    <2>3. CASE p[i] = c /\ j \in 1 .. Len(q) /\ p[j] = q[j]
      BY <1>2, <2>3
    <2>4. QED
      BY <1>1, <1>2, <2>1, <2>2, <2>3
  <1>3. OneEach(p, left)
    BY <1>2 DEF OneEach
  <1>4. QED
    BY <1>3 DEF p

LEMMA OneEachStep ==
  ASSUME Typed, Opened, Queued(screen, queue), Hooks(queue, busy, abandoned),
         OneEach(queue, abandoned), [Next]_vars
  PROVE  OneEach(queue', abandoned')
  <1>0. queue \in Seq(CallRec) /\ Len(queue) \in Nat
    BY DEF Queued
  <1>1. ASSUME NEW c, Fresh(c), Sent(c) PROVE OneEach(queue', abandoned')
    <2>1. /\ <<c.hook, c.row>> \notin busy /\ queue' = Append(queue, c)
          /\ abandoned' = abandoned /\ c \in CallRec
      BY <1>1 DEF Sent, Fresh, Fits
    <2>2. ASSUME NEW i \in 1 .. Len(queue), queue[i].hook = c.hook, queue[i].row = c.row
          PROVE  Excused(queue[i], abandoned)
      <3>1. Hooked(queue[i], busy, abandoned)
        BY DEF Hooks
      <3>2. QED
        BY <2>1, <2>2, <3>1 DEF Hooked
    <2>3. QED
      BY <1>0, <2>1, <2>2, AppendOneEach
  <1>2. ASSUME NEW ops PROVE Follows(Orphaned(queue, ops), queue) /\ Len(Orphaned(queue, ops)) \in Nat
    BY <1>0, LooseFollows, LooseFacts
  <1>3. CASE CloseSheet
    <2>1. queue' = Orphaned(queue, SheetOps) /\ abandoned' = abandoned
      BY <1>3, LetGoFacts DEF CloseSheet
    <2>2. QED
      BY <1>2, <2>1, FollowsOneEach
  <1>4. CASE Dismiss
    <2> DEFINE left == abandoned \cup {DialogHook}
    <2>1. queue' = Orphaned(queue, DialogOps) /\ abandoned' = StillOut(left, queue)
      BY <1>4, LetGoFacts DEF Dismiss
    <2>2. OneEach(queue, left)
      BY MoreLeft
    <2> HIDE DEF left
    <2>3. OneEach(queue, abandoned')
      BY <1>0, <2>1, <2>2, StillExcused
    <2>4. QED
      BY <1>2, <2>1, <2>3, FollowsOneEach
  <1>5. CASE Arrive
    <2>1. queue # <<>>
      BY <1>5 DEF Arrive
    <2>2. PICK ops : Arrived(ops)
      BY <1>5, ArriveQueue
    <2> DEFINE rest == Orphaned(Tail(queue), ops)
    <2>3. rest \in Seq(CallRec) /\ Len(rest) \in Nat /\ Follows(rest, queue)
      BY <2>1, RestFacts
    <2>4. /\ queue' = rest \/ queue' = Append(rest, Refreshing)
          /\ abandoned' = StillOut(abandoned, rest)
      BY <2>2 DEF Arrived
    <2> HIDE DEF rest
    <2>5. OneEach(rest, abandoned')
      BY <2>3, <2>4, FollowsOneEach, StillExcused
    <2>6. OneEach(Append(rest, Refreshing), abandoned')
      <3>1. Refreshing \in CallRec /\ Excused(Refreshing, abandoned')
        BY RefreshFits DEF Excused
      <3>2. QED
        BY <2>3, <2>5, <3>1, AppendOneEach
    <2>7. QED
      BY <2>4, <2>5, <2>6
  <1>6. CASE Lose
    <2>1. queue # <<>> /\ abandoned' = StillOut(abandoned, Tail(queue)) /\ queue' = Tail(queue)
      BY <1>6 DEF Lose
    <2>2. Tail(queue) \in Seq(CallRec) /\ OneEach(Tail(queue), abandoned)
      BY <1>0, <2>1, TailFollows, FollowsOneEach
    <2>3. QED
      BY <2>1, <2>2, StillExcused
  <1>7. CASE Follows(queue', queue) /\ UNCHANGED <<screen, abandoned>>
    <2>1. Len(queue') \in Nat
      BY QueuedStep DEF Queued
    <2>2. QED
      BY <1>7, <2>1, FollowsOneEach
  <1>8. QED
    BY <1>1, <1>3, <1>4, <1>5, <1>6, <1>7, OtherSteps
-----------------------------------------------------------------------------
(* The banner.                                                             *)

LEMMA FollowsArgs ==
  ASSUME NEW p, NEW q, NEW fields, Follows(p, q),
         \A i \in 1 .. Len(q) : q[i].op = "settings" => q[i].arg = fields
  PROVE  \A i \in 1 .. Len(p) : p[i].op = "settings" => p[i].arg = fields
  <1>1. PICK k \in {0, 1} :
          \A i \in 1 .. Len(p) : i + k \in 1 .. Len(q) /\ Same(p[i], q[i + k])
    BY DEF Follows
  <1>2. ASSUME NEW i \in 1 .. Len(p), p[i].op = "settings" PROVE p[i].arg = fields
    <2>1. i + k \in 1 .. Len(q) /\ Same(p[i], q[i + k])
      BY <1>1
    <2>2. QED
      BY <1>2, <2>1 DEF Same
  <1>3. QED
    BY <1>2

\* While only this tab writes, there is no rival between its statements.
LEMMA NoRivalYet ==
  ASSUME Typed, Opened, Rival, [Next]_vars, rivals' = 0
  PROVE  rivals = 0 /\ rival = None /\ ~RivalCall /\ ~RivalCommits /\ ~CustomerBooks
  <1>1. rivals \in Nat
    BY SetupAssumption DEF Typed
  <1>2. ~RivalCall /\ ~CustomerBooks
    <2>1. RivalCall \/ CustomerBooks => rivals' = rivals + 1
      BY DEF RivalCall, CustomerBooks
    <2>2. QED
      BY <1>1, <2>1
  <1>3. ASSUME NEW c, Sent(c) PROVE rivals' = rivals
    BY <1>3 DEF Sent
  <1>4. OpenSheet \/ OpenDialog \/ EditSettings \/ CloseSheet \/ Dismiss \/ Read \/ Commit \/ Refuse
          \/ Render \/ Arrive \/ Lose \/ RivalCommits \/ UNCHANGED vars
        => rivals' = rivals
    BY DEF OpenSheet, OpenDialog, EditSettings, CloseSheet, Dismiss, Read, Commit, Refuse, Render,
           Arrive, Lose, RivalCommits, vars, pageVars
  <1>5. rivals' = rivals
    BY <1>2, <1>3, <1>4, NextSteps
  <1>6. QED
    BY <1>2, <1>5 DEF Rival, RivalCommits

\* A call the server rewrote: the banner's two facts hold of it when either nothing was
\* stored, or what it carries was.
LEMMA HandledBanner ==
  ASSUME Queued(screen, queue), NEW biz, NEW fields, NEW stands, NEW now, NEW c, Handled(c),
         Banner(queue, biz, fields, stands),
         \/ now = biz /\ ~(c.op = "settings" /\ c.at = "done" /\ c.result = "ok")
         \/ c.op = "settings" /\ now = Stored(c.arg)
  PROVE  Banner(queue', now, fields, stands)
  <1>1. queue \in Seq(CallRec) /\ queue # <<>> /\ c \in CallRec
    BY DEF Queued, Handled, Fits
  <1>2. /\ Len(queue') = Len(queue) /\ Len(queue) \in Nat
        /\ \A i \in 1 .. Len(queue) : queue'[i] = IF i = 1 THEN c ELSE queue[i]
    BY <1>1, FirstFacts DEF Handled
  <1>3. 1 \in 1 .. Len(queue) /\ Same(c, queue[1])
    BY <1>1, TailFacts DEF Handled
  <1>4. ASSUME stands
        PROVE  /\ Stored(fields) = now
               /\ \A i \in 1 .. Len(queue') : queue'[i].op = "settings" => queue'[i].arg = fields
    <2>1. /\ Stored(fields) = biz
          /\ \A i \in 1 .. Len(queue) : queue[i].op = "settings" => queue[i].arg = fields
      BY <1>4 DEF Banner
    <2>2. c.op = "settings" => c.arg = fields
      BY <1>3, <2>1 DEF Same
    <2>3. QED
      BY <1>2, <2>1, <2>2
  <1>5. ASSUME NEW i \in 1 .. Len(queue'), queue'[i].op = "settings", queue'[i].at = "done",
               queue'[i].result = "ok"
        PROVE  Stored(queue'[i].arg) = now
    <2>1. CASE i = 1
      <3>1. queue'[i] = c /\ queue[1].at # "done"
        BY <1>1, <1>2, <2>1, TailFacts DEF Handled
      <3>2. QED
        BY <3>1, <1>5
    <2>2. CASE i # 1
      <3>1. queue'[i] = queue[i] /\ i \in 1 .. Len(queue) /\ i > 1
        BY <1>2, <2>2
      <3>2. queue[i].at = "sent"
        BY <3>1 DEF Queued
      <3>3. QED
        BY <3>1, <3>2, <1>5
    <2>3. QED
      BY <2>1, <2>2
  <1>6. QED
    BY <1>4, <1>5 DEF Banner

LEMMA AppendBanner ==
  ASSUME NEW q \in Seq(CallRec), NEW c \in CallRec, NEW biz, NEW fields, NEW stands,
         Banner(q, biz, fields, stands), c.at = "sent", c.op = "settings" => c.arg = fields
  PROVE  Banner(Append(q, c), biz, fields, stands)
  <1> DEFINE p == Append(q, c)
  <1>1. \A i \in 1 .. Len(p) : \/ i \in 1 .. Len(q) /\ p[i] = q[i]
                               \/ i = Len(q) + 1 /\ p[i] = c
    BY AppendFacts
  <1> HIDE DEF p
  <1>2. Banner(p, biz, fields, stands)
    BY <1>1 DEF Banner
  <1>3. QED
    BY <1>2 DEF p

\* The first call leaves; the others are not at the server yet.
LEMMA SentBanner ==
  ASSUME NEW q, \A i \in 1 .. Len(q) : q[i].at = "sent", NEW biz, NEW fields, NEW stands,
         stands => /\ Stored(fields) = biz
                   /\ \A i \in 1 .. Len(q) : q[i].op = "settings" => q[i].arg = fields
  PROVE  Banner(q, biz, fields, stands)
  BY DEF Banner

LEMMA BannerStep ==
  ASSUME Typed, Opened, Queued(screen, queue), Rival, Hooks(queue, busy, abandoned),
         OneEach(queue, abandoned), [Next]_vars, screen = "settings", rivals' = 0,
         rivals = 0 => Banner(queue, db.biz, typed, saved /\ ~overtyped)
  PROVE  Banner(queue', db'.biz, typed', saved' /\ ~overtyped')
  <1>0. /\ Banner(queue, db.biz, typed, saved /\ ~overtyped)
        /\ ~RivalCall /\ ~RivalCommits /\ ~CustomerBooks
        /\ queue \in Seq(CallRec) /\ form = None /\ dialog = None
    BY NoRivalYet DEF Queued, Opened
  <1>1. CASE UNCHANGED <<queue, db, typed, saved, overtyped>>
    BY <1>0, <1>1
  <1>2. ASSUME NEW c, Fresh(c), Sent(c)
        PROVE  Banner(queue', db'.biz, typed', saved' /\ ~overtyped')
    <2>1. /\ c \in CallRec /\ c.at = "sent"
          /\ c.op = "settings" => c.arg = typed
          /\ queue' = Append(queue, c) /\ UNCHANGED <<db, typed, saved, overtyped>>
      BY <1>2 DEF Fresh, Fits, Sent
    <2>2. Banner(queue', db.biz, typed, saved /\ ~overtyped)
      BY <1>0, <2>1, AppendBanner
    <2>3. QED
      BY <2>1, <2>2
  <1>3. CASE EditSettings
    <2>1. UNCHANGED <<queue, db, overtyped>> /\ saved' = FALSE
      BY <1>3 DEF EditSettings
    <2>2. QED
      BY <1>0, <2>1 DEF Banner
  <1>4. ASSUME NEW c, Handled(c),
               \/ db' = db /\ ~(c.op = "settings" /\ c.at = "done" /\ c.result = "ok")
               \/ c.op = "settings" /\ db'.biz = Stored(c.arg)
        PROVE  Banner(queue', db'.biz, typed', saved' /\ ~overtyped')
    <2>1. UNCHANGED <<typed, saved, overtyped>>
      BY <1>4 DEF Handled
    <2>2. Banner(queue', db'.biz, typed, saved /\ ~overtyped)
      BY <1>0, <1>4, HandledBanner
    <2>3. QED
      BY <2>1, <2>2
  <1>5. CASE Read
    <2>1. PICK c : Handled(c) /\ c.at = "read" /\ UNCHANGED <<db, unseen>>
      BY <1>5, ReadHandles
    <2>2. QED
      BY <2>1, <1>4
  <1>6. CASE Refuse
    <2>1. PICK c : Handled(c) /\ c.at = "done" /\ c.result = "refused" /\ UNCHANGED <<db, unseen>>
      BY <1>6, RefuseHandles
    <2>2. QED
      BY <2>1, <1>4
  <1>7. CASE Render
    <2>1. PICK c : Handled(c) /\ c.op = "refresh" /\ UNCHANGED db
      BY <1>7, RenderHandles
    <2>2. QED
      BY <2>1, <1>4
  <1>8. CASE Commit
    <2>1. PICK c : Handled(c) /\ c.result = Answer(db, Head(queue)) /\ c.op # "refresh"
      BY <1>8, CommitHandles
    <2>2. db' = IF Answer(db, Head(queue)) = "ok" THEN Write(db, Head(queue)) ELSE db
      BY <1>8, CommitHandles
    <2>3. c.op = "settings" /\ Head(queue).op = "settings" /\ Head(queue).arg = c.arg
      BY <2>1 DEF Handled, Fits, OpsOf, Same
    <2>4. CASE c.result = "ok"
      <3>1. db' = UpdateBusinessSettings(db, Head(queue))
        BY <2>1, <2>2, <2>3, <2>4 DEF Write
      <3>2. db'.biz = Stored(c.arg)
        BY <2>3, <3>1 DEF UpdateBusinessSettings, Typed, Database
      <3>3. QED
        BY <2>1, <2>3, <3>2, <1>4
    <2>5. CASE c.result # "ok"
      BY <2>1, <2>2, <2>5, <1>4
    <2>6. QED
      BY <2>4, <2>5
  <1>9. ASSUME NEW q, Follows(q, queue), \A i \in 1 .. Len(q) : q[i].at = "sent"
        PROVE  Banner(q, db.biz, typed, saved /\ ~overtyped)
    <2>1. ASSUME saved /\ ~overtyped
          PROVE  /\ Stored(typed) = db.biz
                 /\ \A i \in 1 .. Len(q) : q[i].op = "settings" => q[i].arg = typed
      BY <1>0, <1>9, <2>1, FollowsArgs DEF Banner
    <2>2. QED
      BY <2>1, <1>9, SentBanner
  <1>10. ASSUME queue # <<>>
         PROVE  /\ Tail(queue) \in Seq(CallRec) /\ Follows(Tail(queue), queue)
                /\ \A i \in 1 .. Len(Tail(queue)) : Tail(queue)[i].at = "sent"
                /\ Head(queue) = queue[1] /\ 1 \in 1 .. Len(queue) /\ Fits(screen, Head(queue))
    BY <1>0, <1>10, TailFollows, TailQueued, HeadCall
  <1>11. CASE Arrive
    <2>1. /\ queue # <<>> /\ Head(queue).at = "done" /\ UNCHANGED <<db, typed>>
          /\ saved' = (saved \/ (Head(queue).result = "ok"
                                 /\ Head(queue).op \in {"settings", "rename", "notes", "block"}))
          /\ overtyped' = IF Head(queue).result = "ok" /\ Head(queue).op = "settings"
                          THEN Head(queue).arg # typed ELSE overtyped
      BY <1>11 DEF Arrive
    <2>2. PICK ops : Arrived(ops)
      BY <1>11, ArriveQueue
    <2> DEFINE rest == Orphaned(Tail(queue), ops)
    <2>3. /\ rest \in Seq(CallRec) /\ Follows(rest, queue) /\ Follows(rest, Tail(queue))
          /\ \A i \in 1 .. Len(rest) : rest[i].at = "sent"
      BY <2>1, RestFacts
    <2>4. queue' = rest \/ queue' = Append(rest, Refreshing)
      BY <2>2 DEF Arrived
    <2> HIDE DEF rest
    <2>5. CASE Head(queue).result = "ok" /\ Head(queue).op = "settings"
      <3>1. Stored(Head(queue).arg) = db.biz
        BY <1>0, <1>10, <2>1, <2>5 DEF Banner
      <3>2. ASSUME NEW i \in 1 .. Len(Tail(queue)) PROVE Tail(queue)[i].op # "settings"
        <4>1. SUFFICES ASSUME Tail(queue)[i].op = "settings" PROVE FALSE
          OBVIOUS
        <4>2. Hooks(Tail(queue), busy, abandoned)
          BY <1>10, <2>1, FollowsHooks
        <4>3. Tail(queue)[i].hook = "settings" /\ Tail(queue)[i].row = 0
          BY <4>1, <4>2 DEF Hooks, Hooked, Wired
        <4>4. Head(queue).hook = "settings" /\ Head(queue).row = 0
          BY <1>10, <2>1, <2>5 DEF Hooks, Hooked, Wired
        <4>5. Excused(Tail(queue)[i], abandoned) \/ Excused(Head(queue), abandoned)
          BY <1>0, <2>1, <4>3, <4>4, FirstWasAlone
        <4>6. QED
          BY <4>1, <4>5, <2>5 DEF Excused, SheetOps, DialogOps
      <3>3. ASSUME NEW i \in 1 .. Len(rest) PROVE rest[i].op # "settings"
        <4>1. PICK k \in {0, 1} : \A j \in 1 .. Len(rest) :
                j + k \in 1 .. Len(Tail(queue)) /\ Same(rest[j], Tail(queue)[j + k])
          BY <2>3 DEF Follows
        <4>2. QED
          BY <3>2, <4>1 DEF Same
      <3>4. ASSUME saved' /\ ~overtyped'
            PROVE  Stored(typed) = db.biz
        BY <2>1, <2>5, <3>1, <3>4
      <3>5. Banner(rest, db.biz, typed, saved' /\ ~overtyped')
        BY <2>3, <3>3, <3>4, SentBanner
      <3>6. Banner(Append(rest, Refreshing), db.biz, typed, saved' /\ ~overtyped')
        BY <2>3, <3>5, RefreshFits, AppendBanner
      <3>7. QED
        BY <2>1, <2>4, <3>5, <3>6
    <2>6. CASE ~(Head(queue).result = "ok" /\ Head(queue).op = "settings")
      <3>1. Head(queue).op \in {"settings", "refresh"}
        BY <1>10, <2>1 DEF Fits, OpsOf
      <3>2. saved' = saved /\ overtyped' = overtyped
        BY <2>1, <2>6, <3>1 DEF Typed
      <3>3. Banner(rest, db.biz, typed, saved /\ ~overtyped)
        BY <1>9, <2>3
      <3>4. Banner(Append(rest, Refreshing), db.biz, typed, saved /\ ~overtyped)
        BY <2>3, <3>3, RefreshFits, AppendBanner
      <3>5. Banner(queue', db.biz, typed, saved /\ ~overtyped)
        BY <2>4, <3>3, <3>4
      <3>6. QED
        BY <2>1, <3>2, <3>5
    <2>7. QED
      BY <2>5, <2>6
  <1>12. CASE Lose
    <2>1. queue # <<>> /\ queue' = Tail(queue) /\ UNCHANGED <<db, typed, saved, overtyped>>
      BY <1>12 DEF Lose
    <2>2. Banner(Tail(queue), db.biz, typed, saved /\ ~overtyped)
      BY <1>9, <1>10, <2>1
    <2>3. QED
      BY <2>1, <2>2
  <1>13. OpenSheet \/ OpenDialog \/ UNCHANGED vars => UNCHANGED <<queue, db, typed, saved, overtyped>>
    BY DEF OpenSheet, OpenDialog, vars, pageVars
  <1>14. ~CloseSheet /\ ~Dismiss
    BY <1>0 DEF CloseSheet, Dismiss
  <1>15. QED
    BY <1>0, <1>1, <1>2, <1>3, <1>5, <1>6, <1>7, <1>8, <1>11, <1>12, <1>13, <1>14, NextSteps
-----------------------------------------------------------------------------
(* The sheets and the dialogs.                                             *)

LEMMA AppendSources ==
  ASSUME NEW q \in Seq(CallRec), NEW c \in CallRec, NEW box, NEW boxHook, NEW sheet, NEW sheetHook,
         Sources(q, box, boxHook, sheet, sheetHook),
         FromDialog(c, box, boxHook), FromForm(c, sheet, sheetHook)
  PROVE  Sources(Append(q, c), box, boxHook, sheet, sheetHook)
  <1> DEFINE p == Append(q, c)
  <1>1. \A i \in 1 .. Len(p) : \/ i \in 1 .. Len(q) /\ p[i] = q[i]
                               \/ i = Len(q) + 1 /\ p[i] = c
    BY AppendFacts
  <1> HIDE DEF p
  <1>2. Sources(p, box, boxHook, sheet, sheetHook)
    BY <1>1 DEF Sources
  <1>3. QED
    BY <1>2 DEF p

\* A box that is opened, or shut, when no call in flight is its own.
LEMMA OtherBox ==
  ASSUME NEW q, NEW box, NEW boxHook, NEW sheet, NEW sheetHook, NEW other, NEW otherHook,
         Sources(q, box, boxHook, sheet, sheetHook),
         \A i \in 1 .. Len(q) : q[i].op \in DialogOps => ~q[i].mine
  PROVE  Sources(q, other, otherHook, sheet, sheetHook)
  BY DEF Sources, FromDialog

LEMMA OtherSheet ==
  ASSUME NEW q, NEW box, NEW boxHook, NEW sheet, NEW sheetHook, NEW other, NEW otherHook,
         Sources(q, box, boxHook, sheet, sheetHook),
         \A i \in 1 .. Len(q) : q[i].op \in SheetOps => ~q[i].mine
  PROVE  Sources(q, box, boxHook, other, otherHook)
  BY DEF Sources, FromForm

LEMMA SameHooks ==
  ASSUME UNCHANGED screen
  PROVE  /\ dialog' = dialog => DialogHook' = DialogHook
         /\ form' = form => FormHook' = FormHook
  BY DEF DialogHook, FormHook

\* Every call of a sheet or a dialog that is not let go was sent from the one open now.
LEMMA SourcesStep ==
  ASSUME Typed, Opened, Queued(screen, queue), Rival, [Next]_vars,
         Sources(queue, dialog, DialogHook, form, FormHook)
  PROVE  Sources(queue', dialog', DialogHook', form', FormHook')
  <1>1. UNCHANGED screen
    BY RowsStep
  <1>2. queue \in Seq(CallRec)
    BY DEF Queued
  <1>3. CASE Follows(queue', queue) /\ UNCHANGED <<dialog, form>>
    BY <1>1, <1>2, <1>3, FollowsSources, SameHooks
  <1>4. ASSUME NEW c, Fresh(c), Sent(c)
        PROVE  Sources(queue', dialog', DialogHook', form', FormHook')
    <2>1. /\ c \in CallRec /\ queue' = Append(queue, c) /\ UNCHANGED <<dialog, form>>
          /\ FromDialog(c, dialog, DialogHook) /\ FromForm(c, form, FormHook)
      BY <1>4 DEF Fresh, Fits, Sent
    <2>2. Sources(queue', dialog, DialogHook, form, FormHook)
      BY <1>2, <2>1, AppendSources
    <2>3. QED
      BY <1>1, <2>1, <2>2, SameHooks
  <1>5. ASSUME Bare
        PROVE  \A i \in 1 .. Len(queue) :
                 queue[i].op \in SheetOps \/ queue[i].op \in DialogOps => ~queue[i].mine
    BY <1>5 DEF Bare, Sources, FromDialog, FromForm
  <1>6. CASE OpenSheet
    <2>1. UNCHANGED <<queue, dialog>> /\ Bare
      BY <1>6 DEF OpenSheet
    <2>2. Sources(queue, dialog, DialogHook, form', FormHook')
      BY <1>5, <2>1, OtherSheet
    <2>3. QED
      BY <1>1, <2>1, <2>2, SameHooks
  <1>7. CASE OpenDialog
    <2>1. UNCHANGED <<queue, form>> /\ Bare
      BY <1>7 DEF OpenDialog
    <2>2. Sources(queue, dialog', DialogHook', form, FormHook)
      BY <1>5, <2>1, OtherBox
    <2>3. QED
      BY <1>1, <2>1, <2>2, SameHooks
  <1>8. ASSUME NEW ops
        PROVE  /\ Sources(Orphaned(queue, ops), dialog, DialogHook, form, FormHook)
               /\ \A i \in 1 .. Len(Orphaned(queue, ops)) :
                    Orphaned(queue, ops)[i].op \in ops => ~Orphaned(queue, ops)[i].mine
    BY <1>2, LooseFollows, LooseFacts, FollowsSources
  <1>9. CASE CloseSheet
    <2>1. queue' = Orphaned(queue, SheetOps) /\ dialog' = dialog
      BY <1>9, LetGoFacts DEF CloseSheet
    <2>2. Sources(queue', dialog, DialogHook, form', FormHook')
      BY <1>8, <2>1, OtherSheet
    <2>3. QED
      BY <1>1, <2>1, <2>2, SameHooks
  <1>10. CASE Dismiss
    <2>1. queue' = Orphaned(queue, DialogOps) /\ form' = form
      BY <1>10, LetGoFacts DEF Dismiss
    <2>2. Sources(queue', dialog', DialogHook', form, FormHook)
      BY <1>8, <2>1, OtherBox
    <2>3. QED
      BY <1>1, <2>1, <2>2, SameHooks
  <1>11. CASE Arrive
    <2>1. queue # <<>>
      BY <1>11 DEF Arrive
    <2>2. PICK ops : Arrived(ops)
      BY <1>11, ArriveQueue
    <2> DEFINE rest == Orphaned(Tail(queue), ops)
    <2>3. /\ rest \in Seq(CallRec) /\ Follows(rest, queue)
          /\ \A i \in 1 .. Len(rest) : rest[i].op \in ops => ~rest[i].mine
      BY <2>1, RestFacts
    <2>4. /\ queue' = rest \/ queue' = Append(rest, Refreshing)
          /\ dialog' # dialog => DialogOps \subseteq ops
          /\ form' # form => SheetOps \subseteq ops
      BY <2>2 DEF Arrived
    <2> HIDE DEF rest
    <2>5. Sources(rest, dialog, DialogHook, form, FormHook)
      BY <2>3, FollowsSources
    <2>6. Sources(rest, dialog', DialogHook', form, FormHook)
      <3>1. CASE dialog' = dialog
        BY <1>1, <2>5, <3>1, SameHooks
      <3>2. CASE dialog' # dialog
        <4>1. \A i \in 1 .. Len(rest) : rest[i].op \in DialogOps => ~rest[i].mine
          BY <2>3, <2>4, <3>2
        <4>2. QED
          BY <2>5, <4>1, OtherBox
      <3>3. QED
        BY <3>1, <3>2
    <2>7. Sources(rest, dialog', DialogHook', form', FormHook')
      <3>1. CASE form' = form
        BY <1>1, <2>6, <3>1, SameHooks
      <3>2. CASE form' # form
        <4>1. \A i \in 1 .. Len(rest) : rest[i].op \in SheetOps => ~rest[i].mine
          BY <2>3, <2>4, <3>2
        <4>2. QED
          BY <2>6, <4>1, OtherSheet
      <3>3. QED
        BY <3>1, <3>2
    <2>8. Sources(Append(rest, Refreshing), dialog', DialogHook', form', FormHook')
      <3>1. Refreshing \in CallRec /\ Refreshing.op = "refresh"
        BY RefreshFits
      <3>2. /\ FromDialog(Refreshing, dialog', DialogHook')
            /\ FromForm(Refreshing, form', FormHook')
        BY <3>1 DEF FromDialog, FromForm, SheetOps, DialogOps
      <3>3. QED
        BY <2>3, <2>7, <3>1, <3>2, AppendSources
    <2>9. QED
      BY <2>4, <2>7, <2>8
  <1>12. ASSUME NEW c, Handled(c) PROVE Follows(queue', queue) /\ UNCHANGED <<dialog, form>>
    BY <1>2, <1>12, FirstFollows DEF Handled, Fits
  <1>13. CASE Read \/ Commit \/ Refuse \/ Render
    BY <1>3, <1>12, <1>13, ReadHandles, CommitHandles, RefuseHandles, RenderHandles
  <1>14. CASE Lose
    BY <1>2, <1>3, <1>14, TailFollows DEF Lose
  <1>15. UNCHANGED queue => Follows(queue', queue)
    BY <1>2, SelfFollows
  <1>16. EditSettings \/ RivalCall \/ RivalCommits \/ CustomerBooks \/ UNCHANGED vars
        => UNCHANGED <<queue, dialog, form>>
    BY DEF EditSettings, RivalCall, RivalCommits, CustomerBooks, vars, pageVars
  <1>17. QED
    BY <1>3, <1>4, <1>6, <1>7, <1>9, <1>10, <1>11, <1>13, <1>14, <1>15, <1>16, NextSteps
-----------------------------------------------------------------------------
(* The theorems.                                                           *)

LEMMA InitIInv ==
  ASSUME Init
  PROVE  IInv
  <1>1. PICK ord \in [Services -> 0..1], lead \in Leads :
          db = [svc |-> [s \in Services |->
                           [live |-> IF screen = "services" /\ s \in FirstServices
                                     THEN "yes" ELSE "no",
                            active |-> TRUE, ord |-> ord[s]]],
                hrs |-> [r \in HoursRows |->
                           IF screen = "hours" /\ r # 1 THEN "yes" ELSE "no"],
                biz |-> [name |-> 1, lead |-> lead],
                cus |-> [name |-> 1, notes |-> 1, blocked |-> FALSE]]
    BY DEF Init
  <1>2. db \in Database
    <2>1. [s \in Services |-> [live |-> IF screen = "services" /\ s \in FirstServices
                                        THEN "yes" ELSE "no",
                               active |-> TRUE, ord |-> ord[s]]] \in [Services -> ServiceRow]
      BY DEF ServiceRow
    <2>2. [name |-> 1, lead |-> lead] \in Business
      BY SetupAssumption DEF Business
    <2>3. [name |-> 1, notes |-> 1, blocked |-> FALSE] \in Profile
      BY SetupAssumption DEF Profile
    <2>4. [r \in HoursRows |-> IF screen = "hours" /\ r # 1 THEN "yes" ELSE "no"]
            \in [HoursRows -> {"no", "yes", "gone"}]
      OBVIOUS
    <2>5. QED
      BY <1>1, <2>1, <2>2, <2>3, <2>4 DEF Database
  <1>3. /\ screen \in Screens /\ booked = {} /\ shown = Page(db) /\ form = None /\ dialog = None
        /\ typed = Seeded(db.biz) /\ saved = FALSE /\ busy = {} /\ queue = <<>> /\ rival = None
        /\ calls = 0 /\ rivals = 0 /\ unseen = FALSE /\ abandoned = {} /\ overtyped = FALSE
    BY DEF Init
  <1>4. db.biz \in Business
    BY <1>2 DEF Database
  <1>5. shown \in Rendering(screen) /\ typed \in Fields
    BY <1>2, <1>3, <1>4, PageType, SeededType
  <1>6. Typed
    <2>1. calls \in 0..MaxCalls /\ rivals \in 0..MaxRivals
      BY <1>3, SetupAssumption
    <2>2. /\ booked \subseteq Services
          /\ saved \in BOOLEAN /\ unseen \in BOOLEAN /\ overtyped \in BOOLEAN
      BY <1>3
    <2>3. QED
      BY <1>2, <1>3, <1>5, <2>1, <2>2 DEF Typed
  <1>7. Opened /\ Rival /\ Current
    BY <1>3 DEF Opened, Rival, Current
  <1>8. queue \in Seq(CallRec) /\ Len(queue) = 0 /\ 1 .. Len(queue) = {}
    BY <1>3
  <1>9. /\ Queued(screen, queue) /\ Hooks(queue, busy, abandoned) /\ OneEach(queue, abandoned)
        /\ Banner(queue, db.biz, typed, saved /\ ~overtyped)
        /\ Sources(queue, dialog, DialogHook, form, FormHook)
    BY <1>3, <1>8 DEF Queued, Hooks, OneEach, Banner, Sources
  <1>10. QED
    BY <1>6, <1>7, <1>9 DEF IInv

LEMMA IInvStep ==
  ASSUME IInv, [Next]_vars
  PROVE  IInv'
  <1>1. /\ Typed /\ Opened /\ Queued(screen, queue) /\ Rival /\ Current
        /\ Hooks(queue, busy, abandoned) /\ OneEach(queue, abandoned)
    BY DEF IInv
  <1>2. screen' = screen
    BY <1>1, RowsStep
  <1>3. Typed' /\ Opened' /\ Rival' /\ Current'
    BY <1>1, TypedStep, OpenedStep, RivalStep, CurrentStep
  <1>4. Queued(screen', queue')
    BY <1>1, QueuedStep
  <1>5. Hooks(queue', busy', abandoned') /\ OneEach(queue', abandoned')
    BY <1>1, HooksStep, OneEachStep
  <1>6. ASSUME screen' = "settings", rivals' = 0
        PROVE  Banner(queue', db'.biz, typed', saved' /\ ~overtyped')
    <2>1. rivals = 0 => Banner(queue, db.biz, typed, saved /\ ~overtyped)
      BY <1>2, <1>6 DEF IInv
    <2>2. QED
      BY <1>1, <1>2, <1>6, <2>1, BannerStep
  <1>7. Sources(queue', dialog', DialogHook', form', FormHook')
    BY <1>1, SourcesStep DEF IInv
  <1>8. QED
    BY <1>3, <1>4, <1>5, <1>6, <1>7 DEF IInv

\* The invariant of the screens: types, the queue behind one call at the server, the page
\* in hand or on its way, one call to a hook, the banner, and what each open box waits for.
THEOREM SetupInvariant == Spec => []IInv
  <1>1. Init => IInv
    BY InitIInv
  <1>2. IInv /\ [Next]_vars => IInv'
    BY IInvStep
  <1>3. QED
    BY <1>1, <1>2, PTL DEF Spec

\* The screens keep their types: rows, forms, dialogs, flags and calls of the set-up
\* pages (actions.ts, data.ts), whatever this tab and another session do.
THEOREM SetupTypes == Spec => []TypeOK
  <1>1. IInv => TypeOK
    <2> SUFFICES ASSUME IInv PROVE TypeOK
      OBVIOUS
    <2>2. Typed /\ Opened /\ Queued(screen, queue)
      BY DEF IInv
    <2>3. shown \in Rendered
      BY <2>2 DEF Typed, Rendering, Rendered, Screens
    <2>4. form = None \/ form \in [what : {"service"} \cup Kinds, id : Nat]
      <3>1. Services \cup {0} \subseteq Nat
        BY SetupAssumption
      <3>2. /\ form \in [what : {"service"}, id : Services \cup {0}]
                 => form \in [what : {"service"} \cup Kinds, id : Nat]
            /\ form \in [what : Kinds, id : {0}]
                 => form \in [what : {"service"} \cup Kinds, id : Nat]
        BY <3>1
      <3>3. form = None \/ form \in [what : {"service"}, id : Services \cup {0}]
            \/ form \in [what : Kinds, id : {0}]
        BY <2>2 DEF Opened
      <3>4. QED
        BY <3>2, <3>3
    <2>5. dialog = None \/ dialog \in Nat
      <3>1. dialog = None \/ dialog \in Services \/ dialog \in HoursRows \/ dialog = 1
        BY <2>2 DEF Opened
      <3>2. \A n \in Services : n \in Nat
        BY SetupAssumption
      <3>3. \A n \in HoursRows : n \in Nat
        BY SetupAssumption DEF HoursRows
      <3>4. QED
        BY <3>1, <3>2, <3>3
    <2>6. \A i \in DOMAIN queue : queue[i].at \in {"sent", "read", "done"}
      <3>1. ASSUME NEW i \in 1 .. Len(queue) PROVE queue[i].at \in {"sent", "read", "done"}
        <4>1. queue[i] \in CallRec
          BY <2>2 DEF Queued, Fits
        <4>2. QED
          BY <4>1 DEF CallRec
      <3>2. DOMAIN queue = 1 .. Len(queue)
        BY <2>2 DEF Queued
      <3>3. QED
        BY <3>1, <3>2
    <2>7. typed \in [name : Texts, on : BOOLEAN, lead : Leads \ {None}]
      BY <2>2 DEF Typed, Fields
    <2>8. QED
      BY <2>2, <2>3, <2>4, <2>5, <2>6, <2>7 DEF TypeOK, Typed
  <1>2. QED
    BY <1>1, SetupInvariant, PTL

\* A screen at rest shows the database, unless another session wrote since or an answer
\* was lost (useAdminAction.ts: every success is followed by a refresh).
THEOREM WritesAreShown == Spec => []OwnWritesAreShown
  <1>1. IInv => OwnWritesAreShown
    BY DEF IInv, Current, OwnWritesAreShown
  <1>2. QED
    BY <1>1, SetupInvariant, PTL

\* Every call of the owner's in flight is behind a button that shows it as pending and
\* has no other call out, but for the calls of a sheet or a confirmation closed over them
\* (useAsyncAction.ts); and, unless the owner typed over a save in flight or another
\* session wrote, the "saved" banner stands over what is stored (SettingsForm.tsx).
THEOREM ButtonsAreHonest == Spec => []ButtonsTellTheTruth
  <1>1. IInv => ButtonsTellTheTruth
    <2> SUFFICES ASSUME IInv PROVE ButtonsTellTheTruth
      OBVIOUS
    <2>1. /\ queue \in Seq(CallRec) /\ DOMAIN queue = 1 .. Len(queue)
          /\ Hooks(queue, busy, abandoned) /\ OneEach(queue, abandoned)
      BY DEF IInv, Queued
    <2>2. \A i \in DOMAIN queue :
            Excused(queue[i], abandoned) = (queue[i].op = "refresh" \/ Untracked(queue[i]))
      BY DEF Excused, Untracked
    <2>3. \A i \in DOMAIN queue :
            \/ queue[i].op = "refresh" \/ Untracked(queue[i])
            \/ <<queue[i].hook, queue[i].row>> \in busy
      BY <2>1, <2>2 DEF Hooks, Hooked
    <2>4. ASSUME NEW i \in DOMAIN queue, NEW j \in DOMAIN queue, i # j,
                 queue[i].hook = queue[j].hook, queue[i].row = queue[j].row
          PROVE  queue[i].op = "refresh" \/ Untracked(queue[i]) \/ Untracked(queue[j])
      <3>1. Excused(queue[i], abandoned) \/ Excused(queue[j], abandoned)
        BY <2>1, <2>4 DEF OneEach
      <3>2. queue[j].op = "refresh" => queue[i].op = "refresh"
        BY <2>1, <2>4 DEF Hooks, Hooked, Wired
      <3>3. QED
        BY <2>2, <3>1, <3>2
    <2>5. screen = "settings" /\ saved /\ ~overtyped /\ rivals = 0 => Stored(typed) = db.biz
      BY DEF IInv, Banner
    <2>6. QED
      BY <2>3, <2>4, <2>5 DEF ButtonsTellTheTruth
  <1>2. QED
    BY <1>1, SetupInvariant, PTL

\* A confirmation or a sheet is closed by no answer but one to a call of its kind, and by
\* its own row's alone among the calls whose own confirmation or sheet is still open: what
\* a call closed over may close is said and no more (ServicesScreen.tsx, HoursScreen.tsx,
\* ProfileScreen.tsx).
THEOREM ClosedByItsOwnCall == Spec => ClosesForItsOwnCall
  <1>1. IInv /\ [Next]_vars =>
          LET c == Head(queue)
          IN Answered =>
            /\ dialog # None /\ dialog' = None =>
                 c.op \in DialogOps /\ (c.mine => c.hook = DialogHook /\ c.id = dialog)
            /\ form # None /\ form' = None =>
                 c.op \in SheetOps /\ c.hook = FormHook
                 /\ (c.mine => form.id = IF c.op = "save" THEN c.id ELSE 0)
    <2> DEFINE c == Head(queue)
    <2>1. SUFFICES ASSUME IInv, [Next]_vars, Answered
                   PROVE  /\ dialog # None /\ dialog' = None =>
                               c.op \in DialogOps /\ (c.mine => c.hook = DialogHook /\ c.id = dialog)
                          /\ form # None /\ form' = None =>
                               c.op \in SheetOps /\ c.hook = FormHook
                               /\ (c.mine => form.id = IF c.op = "save" THEN c.id ELSE 0)
      OBVIOUS
    <2>2. /\ Typed /\ Opened /\ Queued(screen, queue) /\ queue \in Seq(CallRec) /\ queue # <<>>
          /\ Sources(queue, dialog, DialogHook, form, FormHook)
      BY <2>1 DEF IInv, Queued, Answered
    <2>3. ASSUME NEW hook, NEW ops, LetGo(hook, ops) PROVE FALSE
      <3>1. queue' = Orphaned(queue, ops)
        BY <2>3, LetGoFacts
      <3>2. queue' # <<>> /\ Head(queue').at = "done"
        <4>1. /\ queue' \in Seq(CallRec) /\ Len(queue') = Len(queue) /\ 1 \in 1 .. Len(queue)
              /\ queue'[1].at = queue[1].at /\ Head(queue) = queue[1]
          <5>1. /\ queue' \in Seq(CallRec) /\ Len(queue') = Len(queue) /\ 1 \in 1 .. Len(queue)
                /\ Head(queue) = queue[1] /\ queue[1] \in CallRec
            BY <2>2, <3>1, LooseFacts, TailFacts
          <5>2. queue'[1] = queue[1] \/ queue'[1] = [queue[1] EXCEPT !.mine = FALSE]
            BY <2>2, <3>1, <5>1, LooseFacts
          <5>3. QED
            BY <5>1, <5>2, LooseCall
        <4>2. queue' # <<>> /\ Head(queue') = queue'[1]
          BY <4>1
        <4>3. QED
          BY <2>1, <4>1, <4>2 DEF Answered
      <3>3. QED
        BY <2>1, <3>2 DEF Answered
    <2>4. ~CloseSheet /\ ~Dismiss
      BY <2>3 DEF CloseSheet, Dismiss
    <2>5. CASE Arrive
      <3>1. c = queue[1] /\ 1 \in 1 .. Len(queue)
        BY <2>2, TailFacts
      <3>2. FromDialog(c, dialog, DialogHook) /\ FromForm(c, form, FormHook)
        BY <2>2, <3>1 DEF Sources
      <3>3. /\ dialog' = dialog \/ c.op \in DialogOps
            /\ form' = form \/ (c.op \in SheetOps /\ c.hook = FormHook)
        BY <2>5 DEF Arrive, ClosedBy
      <3> HIDE DEF c
      <3>4. QED
        BY <3>2, <3>3 DEF FromDialog, FromForm
    <2>6. ASSUME NEW e, Sent(e) PROVE UNCHANGED <<form, dialog>>
      BY <2>6 DEF Sent
    <2>7. EditSettings \/ Read \/ Commit \/ Refuse \/ Render \/ Lose \/ RivalCall \/ RivalCommits
            \/ CustomerBooks \/ UNCHANGED vars
          => UNCHANGED <<form, dialog>>
      BY DEF EditSettings, Read, Commit, Refuse, Render, Lose, RivalCall, RivalCommits,
             CustomerBooks, vars, pageVars
    <2>8. OpenSheet \/ OpenDialog => form = None /\ dialog = None
      BY DEF OpenSheet, OpenDialog, Bare
    <2> HIDE DEF c
    <2>9. QED
      BY <2>1, <2>2, <2>4, <2>5, <2>6, <2>7, <2>8, NextSteps
  <1>2. QED
    BY <1>1, SetupInvariant, PTL DEF Spec, ClosesForItsOwnCall
-----------------------------------------------------------------------------
(* The order of the services.                                              *)

LEMMA SmallestNumber ==
  ASSUME NEW T, T \subseteq Nat, T # {}
  PROVE  \E k \in T : \A j \in T : k <= j
  <1>1. \E k \in T : \A j \in T : ~(<<j, k>> \in OpToRel(<, Nat))
    BY NatLessThanWellFounded, WFMin, Zenon
  <1>2. PICK k \in T : \A j \in T : ~(<<j, k>> \in OpToRel(<, Nat))
    BY <1>1
  <1>3. ASSUME NEW j \in T PROVE k <= j
    <2>1. j \in Nat /\ k \in Nat /\ ~(<<j, k>> \in OpToRel(<, Nat))
      BY <1>2
    <2>2. j < k => <<j, k>> \in OpToRel(<, Nat)
      BY <2>1 DEF OpToRel
    <2>3. ~(j < k)
      BY <2>1, <2>2, Zenon
    <2>4. j \in Nat /\ k \in Nat
      OBVIOUS
    <2>5. QED
      BY <2>3, <2>4
  <1>4. QED
    BY <1>3

\* An arranged list has every service once.
LEMMA ArrangedFacts ==
  ASSUME NEW d, d.svc \in Catalogue, NEW T \in SUBSET Services, NEW ids, Arranged(d, ids, T)
  PROVE  /\ Cardinality(T) \in Nat /\ ids \in [1 .. Cardinality(T) -> T] /\ ids \in Seq(T)
         /\ Len(ids) = Cardinality(T) /\ DOMAIN ids = 1 .. Cardinality(T)
         /\ \A j, k \in 1 .. Cardinality(T) : ids[j] = ids[k] => j = k
         /\ \A s \in T : \E k \in 1 .. Cardinality(T) : ids[k] = s
  <1> DEFINE n == Cardinality(T)
  <1>1. n \in Nat /\ IsFiniteSet(T) /\ ids \in [1 .. n -> T]
    BY FiniteLists DEF Arranged
  <1>2. \A j, k \in 1 .. n : j < k => Before(d, ids[j], ids[k])
    BY DEF Arranged
  <1> HIDE DEF n
  <1>3. ASSUME NEW j \in 1 .. n, NEW k \in 1 .. n, ids[j] = ids[k] PROVE j = k
    <2>1. ids[j] \in Services /\ ids[k] \in Services
      BY <1>1
    <2>2. ~Before(d, ids[j], ids[k]) /\ ~Before(d, ids[k], ids[j])
      BY <1>3, <2>1, BeforeOrders
    <2>3. QED
      BY <1>1, <1>2, <2>2
  <1>4. ids \in Injection(1 .. n, T)
    BY <1>1, <1>3 DEF Injection, IsInjective
  <1>5. Cardinality(1 .. n) = n
    BY <1>1, FS_Interval
  <1>6. ids \in Surjection(1 .. n, T)
    BY <1>1, <1>4, <1>5, FS_Injection DEF n
  <1>7. \A s \in T : \E k \in 1 .. n : ids[k] = s
    BY <1>6 DEF Surjection
  <1>8. QED
    BY <1>1, <1>3, <1>7 DEF n

\* There is one such list.
LEMMA ArrangedOnce ==
  ASSUME NEW d, d.svc \in Catalogue, NEW T \in SUBSET Services, NEW p, NEW q,
         Arranged(d, p, T), Arranged(d, q, T)
  PROVE  p = q
  <1> DEFINE n == Cardinality(T)
             D == {k \in 1 .. n : p[k] # q[k]}
  <1>1. /\ n \in Nat /\ p \in [1 .. n -> T] /\ q \in [1 .. n -> T]
        /\ \A s \in T : \E k \in 1 .. n : p[k] = s
        /\ \A s \in T : \E k \in 1 .. n : q[k] = s
    <2>1. n \in Nat /\ p \in [1 .. n -> T] /\ \A s \in T : \E k \in 1 .. n : p[k] = s
      BY ArrangedFacts
    <2>2. q \in [1 .. n -> T] /\ \A s \in T : \E k \in 1 .. n : q[k] = s
      BY ArrangedFacts
    <2>3. QED
      BY <2>1, <2>2
  <1>2. /\ \A j, k \in 1 .. n : j < k => Before(d, p[j], p[k])
        /\ \A j, k \in 1 .. n : j < k => Before(d, q[j], q[k])
    BY DEF Arranged
  <1> HIDE DEF n
  <1>3. SUFFICES ASSUME D # {} PROVE FALSE
    <2>1. D = {} => \A k \in 1 .. n : p[k] = q[k]
      OBVIOUS
    <2>2. (\A k \in 1 .. n : p[k] = q[k]) => p = q
      BY <1>1
    <2> HIDE DEF D
    <2>3. QED
      BY <2>1, <2>2
  <1>4. PICK k \in D : \A j \in D : k <= j
    <2>1. D \subseteq Nat
      BY <1>1
    <2> HIDE DEF D
    <2>2. QED
      BY <1>3, <2>1, SmallestNumber
  <1>5. /\ k \in 1 .. n /\ p[k] # q[k] /\ p[k] \in T /\ q[k] \in T
        /\ \A j \in 1 .. n : j < k => p[j] = q[j]
    BY <1>1, <1>4
  <1>6. \A s \in T : ~Before(d, s, s)
    BY BeforeOrders
  <1>7. Before(d, p[k], q[k])
    <2>1. PICK j \in 1 .. n : p[j] = q[k]
      BY <1>1, <1>5
    <2>2. ~(j < k)
      <3>1. SUFFICES ASSUME j < k PROVE FALSE
        OBVIOUS
      <3>2. Before(d, q[j], q[k]) /\ q[j] = q[k]
        BY <1>2, <1>5, <2>1, <3>1
      <3>3. QED
        BY <1>5, <1>6, <3>2
    <2>3. k < j
      BY <1>1, <1>5, <2>1, <2>2
    <2>4. QED
      BY <1>2, <1>5, <2>1, <2>3
  <1>8. Before(d, q[k], p[k])
    <2>1. PICK j \in 1 .. n : q[j] = p[k]
      BY <1>1, <1>5
    <2>2. ~(j < k)
      <3>1. SUFFICES ASSUME j < k PROVE FALSE
        OBVIOUS
      <3>2. Before(d, p[j], p[k]) /\ p[j] = p[k]
        BY <1>2, <1>5, <2>1, <3>1
      <3>3. QED
        BY <1>5, <1>6, <3>2
    <2>3. k < j
      BY <1>1, <1>5, <2>1, <2>2
    <2>4. QED
      BY <1>2, <1>5, <2>1, <2>3
  <1>9. p[k] \in Services /\ q[k] \in Services
    BY <1>5
  <1>10. QED
    BY <1>7, <1>8, <1>9, BeforeOrders

LEMMA OrderIs ==
  ASSUME NEW d, d.svc \in Catalogue, NEW ids, Arranged(d, ids, Live(d))
  PROVE  Order(d) = ids
  <1>1. Live(d) \in SUBSET Services
    BY DEF Live
  <1>2. QED
    BY <1>1, OrderArranges, ArrangedOnce

\* Services whose numbers and presence did not change are in the order they were in.
LEMMA SameNumbersSameOrder ==
  ASSUME NEW d, d.svc \in Catalogue, NEW e, e.svc \in Catalogue,
         \A s \in Services : (d.svc[s].live = "yes" <=> e.svc[s].live = "yes")
                             /\ d.svc[s].ord = e.svc[s].ord
  PROVE  Order(e) = Order(d) /\ Tied(e) = Tied(d) /\ Live(e) = Live(d)
  <1>1. Live(e) = Live(d) /\ Live(d) \subseteq Services
    BY DEF Live
  <1>2. Tied(e) = Tied(d)
    BY <1>1 DEF Tied
  <1>3. Arranged(d, Order(d), Live(d))
    BY OrderArranges
  <1>4. \A a, b \in Live(d) : Before(d, a, b) => Before(e, a, b)
    BY <1>1 DEF Before
  <1>5. Order(d) \in [1 .. Cardinality(Live(d)) -> Live(d)]
    BY <1>3 DEF Arranged
  <1>6. Arranged(e, Order(d), Live(e))
    BY <1>1, <1>3, <1>4, <1>5 DEF Arranged
  <1>7. QED
    BY <1>1, <1>2, <1>6, OrderIs
\* What the steps may make of the list: Gently says what moveService and createService do.
Gently(d, e) ==
  /\ \/ Order(d) = Order(e)
     \/ \E s \in Services : Order(e) = Append(Order(d), s)
     \/ \E k \in 1 .. Len(Order(d)) : Order(e) = RemoveAt(Order(d), k)
     \/ \E k \in 1 .. Len(Order(d)) - 1 : Order(e) = Exchange(Order(d), k, k + 1)
  /\ Tied(e) \subseteq Tied(d)

LEMMA RemoveAtFacts ==
  ASSUME NEW S, NEW q \in Seq(S), NEW k \in 1 .. Len(q)
  PROVE  /\ RemoveAt(q, k) \in Seq(S) /\ Len(RemoveAt(q, k)) = Len(q) - 1
         /\ \A j \in 1 .. Len(q) - 1 : RemoveAt(q, k)[j] = IF j < k THEN q[j] ELSE q[j + 1]
  <1> DEFINE a == SubSeq(q, 1, k - 1)
             b == SubSeq(q, k + 1, Len(q))
  <1>1. Len(q) \in Nat /\ k \in 1 .. Len(q)
    OBVIOUS
  <1>2. a \in Seq(S) /\ Len(a) = k - 1 /\ \A j \in 1 .. k - 1 : a[j] = q[j]
    BY <1>1
  <1>3. b \in Seq(S) /\ Len(b) = Len(q) - k /\ \A j \in 1 .. Len(q) - k : b[j] = q[k + j]
    BY <1>1
  <1>4. RemoveAt(q, k) = a \o b
    BY DEF RemoveAt
  <1> HIDE DEF a, b
  <1>5. /\ a \o b \in Seq(S) /\ Len(a \o b) = Len(q) - 1
        /\ \A i \in 1 .. Len(q) - 1 : (a \o b)[i] = IF i <= k - 1 THEN a[i] ELSE b[i - (k - 1)]
    <2>1. /\ a \o b \in Seq(S) /\ Len(a \o b) = Len(a) + Len(b)
          /\ \A i \in 1 .. Len(a) + Len(b) :
               (a \o b)[i] = IF i <= Len(a) THEN a[i] ELSE b[i - Len(a)]
      BY <1>2, <1>3, ConcatProperties
    <2>2. Len(a) + Len(b) = Len(q) - 1
      BY <1>1, <1>2, <1>3
    <2>3. QED
      BY <1>2, <2>1, <2>2
  <1>6. ASSUME NEW j \in 1 .. Len(q) - 1
        PROVE  (a \o b)[j] = IF j < k THEN q[j] ELSE q[j + 1]
    <2>1. CASE j < k
      <3>1. j <= k - 1 /\ j \in 1 .. k - 1
        BY <1>1, <2>1
      <3>2. QED
        BY <1>2, <1>5, <2>1, <3>1
    <2>2. CASE ~(j < k)
      <3>1. j - (k - 1) \in 1 .. Len(q) - k /\ k + (j - (k - 1)) = j + 1 /\ ~(j <= k - 1)
        BY <1>1, <2>2
      <3>2. (a \o b)[j] = b[j - (k - 1)]
        BY <1>5, <3>1
      <3>3. QED
        BY <1>3, <2>2, <3>1, <3>2
    <2>3. QED
      BY <2>1, <2>2
  <1>7. QED
    BY <1>4, <1>5, <1>6

\* A new service comes last, and shares its number with no other.
LEMMA NewServiceIsLast ==
  ASSUME NEW d, d.svc \in Catalogue, NEW e, e.svc \in Catalogue,
         NEW id \in Services, id \notin Live(d),
         e.svc[id].live = "yes", e.svc[id].ord = NextOrd(d),
         \A s \in Services \ {id} : e.svc[s] = d.svc[s]
  PROVE  Gently(d, e) /\ Order(d) # Order(e)
  <1> DEFINE n == Cardinality(Live(d))
             L == Live(d)
             p == Order(d)
             more == Append(p, id)
  <1>1. /\ n \in Nat /\ p \in [1 .. n -> L] /\ p \in Seq(L) /\ Len(p) = n /\ L \subseteq Services
        /\ \A j, k \in 1 .. n : j < k => Before(d, p[j], p[k])
    <2>1. L \in SUBSET Services /\ Arranged(d, p, L)
      BY OrderArranges DEF Live
    <2>2. \A j, k \in 1 .. n : j < k => Before(d, p[j], p[k])
      BY <2>1 DEF Arranged
    <2> HIDE DEF L, p
    <2>3. QED
      BY <2>1, <2>2, ArrangedFacts DEF n, L
  <1>2. Live(e) = L \cup {id} /\ Cardinality(Live(e)) = n + 1
    <2>1. Live(e) = L \cup {id}
      BY DEF Live
    <2>2. IsFiniteSet(L)
      BY FiniteLists, <1>1
    <2>3. QED
      BY <2>1, <2>2, FS_AddElement
  <1>3. \A s \in L : d.svc[s].ord < NextOrd(d) /\ d.svc[s].ord \in Nat /\ NextOrd(d) \in Nat
    BY <1>1, NextOrdType DEF Catalogue, ServiceRow
  <1>4. \A s \in L : s # id /\ e.svc[s] = d.svc[s]
    BY <1>1
  <1> HIDE DEF n, L, p
  <1>5. /\ more \in [1 .. n + 1 -> L \cup {id}] /\ Len(more) = n + 1
        /\ more[n + 1] = id /\ \A j \in 1 .. n : more[j] = p[j]
    <2>1. p \in Seq(L \cup {id}) /\ id \in L \cup {id}
      BY <1>1
    <2>2. /\ more \in Seq(L \cup {id}) /\ Len(more) = n + 1
          /\ more[n + 1] = id /\ \A j \in 1 .. n : more[j] = p[j]
      BY <1>1, <2>1, AppendProperties
    <2> HIDE DEF more
    <2>3. QED
      BY <1>1, <2>2
  <1> HIDE DEF more
  <1>6. ASSUME NEW j \in 1 .. n + 1, NEW k \in 1 .. n + 1, j < k
        PROVE  Before(e, more[j], more[k])
    <2>1. j \in 1 .. n /\ more[j] = p[j] /\ p[j] \in L
      BY <1>1, <1>5, <1>6
    <2>2. CASE k = n + 1
      <3>1. e.svc[p[j]].ord < e.svc[id].ord
        BY <1>3, <1>4, <2>1
      <3>2. QED
        BY <1>5, <2>1, <2>2, <3>1 DEF Before
    <2>3. CASE k # n + 1
      <3>1. k \in 1 .. n /\ more[k] = p[k] /\ p[k] \in L
        BY <1>1, <1>5, <2>3
      <3>2. Before(d, p[j], p[k])
        BY <1>1, <1>6, <2>1, <3>1
      <3>3. QED
        BY <1>4, <2>1, <3>1, <3>2 DEF Before
    <2>4. QED
      BY <2>2, <2>3
  <1>7. Arranged(e, more, Live(e))
    BY <1>2, <1>5, <1>6 DEF Arranged
  <1>8. Order(e) = more
    BY <1>7, OrderIs
  <1>9. Order(d) # Order(e)
    BY <1>1, <1>5, <1>8 DEF p
  <1>10. Tied(e) \subseteq Tied(d)
    <2>1. ASSUME NEW s \in Live(e), NEW t \in Live(e) \ {s}, e.svc[s].ord = e.svc[t].ord
          PROVE  s \in L /\ t \in L \ {s} /\ d.svc[s].ord = d.svc[t].ord
      <3>1. s # id /\ t # id
        BY <1>2, <1>3, <1>4, <2>1
      <3>2. QED
        BY <1>2, <1>4, <2>1, <3>1
    <2>2. QED
      BY <2>1 DEF Tied, L
  <1>11. QED
    BY <1>8, <1>9, <1>10 DEF Gently, more, p

\* A service that goes leaves the others as they were.
LEMMA GoneServiceLeaves ==
  ASSUME NEW d, d.svc \in Catalogue, NEW e, e.svc \in Catalogue,
         NEW id \in Services, id \in Live(d), e.svc[id].live # "yes",
         \A s \in Services \ {id} : e.svc[s] = d.svc[s]
  PROVE  Gently(d, e)
  <1> DEFINE n == Cardinality(Live(d))
             L == Live(d)
             p == Order(d)
  <1>1. /\ n \in Nat /\ p \in [1 .. n -> L] /\ p \in Seq(L) /\ Len(p) = n /\ L \subseteq Services
        /\ \A j, k \in 1 .. n : j < k => Before(d, p[j], p[k])
        /\ \A j, k \in 1 .. n : p[j] = p[k] => j = k
        /\ \A s \in L : \E k \in 1 .. n : p[k] = s
    <2>1. L \in SUBSET Services /\ Arranged(d, p, L)
      BY OrderArranges DEF Live
    <2>2. \A j, k \in 1 .. n : j < k => Before(d, p[j], p[k])
      BY <2>1 DEF Arranged
    <2>3. d.svc \in Catalogue
      OBVIOUS
    <2> HIDE DEF L, p
    <2>4. /\ Cardinality(L) \in Nat /\ p \in [1 .. Cardinality(L) -> L] /\ p \in Seq(L)
          /\ Len(p) = Cardinality(L)
          /\ \A j, k \in 1 .. Cardinality(L) : p[j] = p[k] => j = k
          /\ \A s \in L : \E k \in 1 .. Cardinality(L) : p[k] = s
      BY <2>1, <2>3, ArrangedFacts
    <2>5. n = Cardinality(L)
      BY DEF L
    <2> HIDE DEF n
    <2>6. QED
      BY <2>1, <2>2, <2>4, <2>5
  <1>2. Live(e) = L \ {id} /\ Cardinality(Live(e)) = n - 1
    <2>1. Live(e) = L \ {id}
      BY DEF Live
    <2>2. IsFiniteSet(L)
      BY FiniteLists, <1>1
    <2>3. QED
      BY <2>1, <2>2, FS_RemoveElement
  <1>3. id \in L /\ \A s \in L \ {id} : e.svc[s] = d.svc[s]
    BY <1>1
  <1> HIDE DEF n, L, p
  <1>4. PICK k \in 1 .. n : p[k] = id
    BY <1>1, <1>3
  <1> DEFINE less == RemoveAt(p, k)
  <1>5. /\ less \in Seq(L) /\ Len(less) = n - 1
        /\ \A j \in 1 .. n - 1 : less[j] = IF j < k THEN p[j] ELSE p[j + 1]
    <2>1. k \in 1 .. Len(p)
      BY <1>1
    <2>2. p \in Seq(L) /\ Len(p) = n
      BY <1>1
    <2>3. /\ less \in Seq(L) /\ Len(less) = Len(p) - 1
          /\ \A j \in 1 .. Len(p) - 1 : less[j] = IF j < k THEN p[j] ELSE p[j + 1]
      BY <2>1, <2>2, RemoveAtFacts
    <2> HIDE DEF less
    <2>4. QED
      BY <2>2, <2>3
  <1> HIDE DEF less
  <1> DEFINE at(j) == IF j < k THEN j ELSE j + 1
  <1>6. ASSUME NEW j \in 1 .. n - 1
        PROVE  at(j) \in 1 .. n /\ at(j) # k /\ less[j] = p[at(j)] /\ less[j] \in L \ {id}
    <2>1. at(j) \in 1 .. n /\ at(j) # k
      BY <1>1, <1>4
    <2>2. less[j] = p[at(j)]
      BY <1>5
    <2>3. p[at(j)] \in L /\ p[at(j)] # id
      BY <1>1, <1>4, <2>1
    <2>4. QED
      BY <2>1, <2>2, <2>3
  <1>7. ASSUME NEW i \in 1 .. n - 1, NEW j \in 1 .. n - 1, i < j
        PROVE  Before(e, less[i], less[j])
    <2>1. at(i) < at(j)
      BY <1>1, <1>4, <1>7
    <2>2. Before(d, less[i], less[j])
      BY <1>1, <1>6, <2>1
    <2>3. e.svc[less[i]] = d.svc[less[i]] /\ e.svc[less[j]] = d.svc[less[j]]
      BY <1>3, <1>6
    <2>4. QED
      BY <2>2, <2>3 DEF Before
  <1>8. less \in [1 .. n - 1 -> L \ {id}]
    <2>1. DOMAIN less = 1 .. n - 1 /\ less = [j \in 1 .. n - 1 |-> less[j]]
      BY <1>1, <1>5
    <2>2. QED
      BY <1>6, <2>1
  <1>9. Arranged(e, less, Live(e))
    BY <1>2, <1>7, <1>8 DEF Arranged
  <1>10. Order(e) = less
    BY <1>9, OrderIs
  <1>11. Tied(e) \subseteq Tied(d)
    BY <1>2, <1>3 DEF Tied, L
  <1>12. QED
    BY <1>1, <1>4, <1>10, <1>11 DEF Gently, less, p
\* Where a move that answers "ok" takes its service: the next place up or down.
LEMMA TargetFacts ==
  ASSUME NEW n \in Nat, NEW p, DOMAIN p = 1 .. n, \A j, k \in 1 .. n : p[j] = p[k] => j = k,
         NEW s, NEW dir, Target(p, s, dir) # 0
  PROVE  /\ PlaceOf(p, s) \in 1 .. n /\ p[PlaceOf(p, s)] = s /\ Target(p, s, dir) \in 1 .. n
         /\ Target(p, s, dir) = PlaceOf(p, s) + 1 \/ PlaceOf(p, s) = Target(p, s, dir) + 1
  <1> DEFINE from == {k \in DOMAIN p : p[k] = s}
             to == {IF dir = "up" THEN k - 1 ELSE k + 1 : k \in from}
  <1>1. Target(p, s, dir) = IF to \cap DOMAIN p = {} THEN 0 ELSE CHOOSE k \in to : TRUE
    BY DEF Target
  <1>2. to \cap DOMAIN p # {} /\ Target(p, s, dir) = CHOOSE k \in to : TRUE
    <2> HIDE DEF to
    <2>1. QED
      BY <1>1
  <1>3. PICK f \in 1 .. n : p[f] = s
    BY <1>2
  <1>4. from = {f}
    BY <1>3
  <1>5. to = {IF dir = "up" THEN f - 1 ELSE f + 1}
    <2> HIDE DEF from
    <2>1. QED
      BY <1>4
  <1>6. PlaceOf(p, s) = f
    BY <1>3 DEF PlaceOf
  <1>7. Target(p, s, dir) = (IF dir = "up" THEN f - 1 ELSE f + 1) /\ Target(p, s, dir) \in 1 .. n
    <2> HIDE DEF to
    <2>1. QED
      BY <1>2, <1>5
  <1>8. QED
    BY <1>3, <1>6, <1>7

\* Two neighbours change places, and every service has a number of its own.
LEMMA MovedServices ==
  ASSUME NEW d \in Database, NEW j \in 1 .. Len(Order(d)), NEW t \in 1 .. Len(Order(d)),
         t = j + 1 \/ j = t + 1
  PROVE  /\ Gently(d, Renumber(d, Exchange(Order(d), j, t)))
         /\ Order(d) # Order(Renumber(d, Exchange(Order(d), j, t)))
  <1> DEFINE n == Cardinality(Live(d))
             L == Live(d)
             p == Order(d)
             x == Exchange(p, j, t)
             e == Renumber(d, x)
  <1>1. /\ n \in Nat /\ p \in [1 .. n -> L] /\ Len(p) = n /\ L \subseteq Services
        /\ \A i, k \in 1 .. n : p[i] = p[k] => i = k
        /\ \A s \in L : \E k \in 1 .. n : p[k] = s
    <2>1. L \in SUBSET Services /\ Arranged(d, p, L) /\ d.svc \in Catalogue
      BY OrderArranges DEF Live, Database, Catalogue
    <2> HIDE DEF L, p
    <2>2. /\ Cardinality(L) \in Nat /\ p \in [1 .. Cardinality(L) -> L] /\ Len(p) = Cardinality(L)
          /\ \A i, k \in 1 .. Cardinality(L) : p[i] = p[k] => i = k
          /\ \A s \in L : \E k \in 1 .. Cardinality(L) : p[k] = s
      BY <2>1, ArrangedFacts
    <2>3. n = Cardinality(L)
      BY DEF L
    <2> HIDE DEF n
    <2>4. QED
      BY <2>1, <2>2, <2>3
  <1>2. j \in 1 .. n /\ t \in 1 .. n /\ j # t
    BY <1>1
  <1>3. /\ DOMAIN x = 1 .. n /\ x[j] = p[t] /\ x[t] = p[j]
        /\ \A k \in 1 .. n : k # j /\ k # t => x[k] = p[k]
    <2>1. x = [k \in 1 .. n |-> CASE k = j -> p[t] [] k = t -> p[j] [] OTHER -> p[k]]
      BY <1>1 DEF Exchange
    <2> HIDE DEF x
    <2>2. QED
      BY <1>2, <2>1
  <1> HIDE DEF n, L, p
  <1>4. x \in [1 .. n -> L]
    <2>1. ASSUME NEW k \in 1 .. n PROVE x[k] \in L
      BY <1>1, <1>2, <1>3, <2>1
    <2>2. x = [k \in 1 .. n |-> x[k]]
      BY <1>3 DEF Exchange
    <2> HIDE DEF x
    <2>3. QED
      BY <2>1, <2>2
  <1> HIDE DEF x
  <1>5. ASSUME NEW i \in 1 .. n, NEW k \in 1 .. n, x[i] = x[k] PROVE i = k
    BY <1>1, <1>2, <1>3, <1>5
  <1>6. ASSUME NEW s \in L PROVE \E k \in 1 .. n : x[k] = s
    <2>1. PICK k \in 1 .. n : p[k] = s
      BY <1>1
    <2>2. CASE k = j
      BY <1>2, <1>3, <2>1, <2>2
    <2>3. CASE k = t
      BY <1>2, <1>3, <2>1, <2>3
    <2>4. CASE k # j /\ k # t
      BY <1>2, <1>3, <2>1, <2>4
    <2>5. QED
      BY <2>2, <2>3, <2>4
  <1>7. ASSUME NEW k \in 1 .. n PROVE PlaceOf(x, x[k]) = k
    <2>1. \A i \in 1 .. n : x[i] = x[k] <=> i = k
      BY <1>5
    <2>2. QED
      BY <1>3, <2>1 DEF PlaceOf
  <1>8. e.svc = [s \in Services |->
                   IF s \in L /\ \E k \in DOMAIN x : x[k] = s
                   THEN [d.svc[s] EXCEPT !.ord = PlaceOf(x, s)] ELSE d.svc[s]]
        /\ d.svc \in Catalogue
    BY DEF Renumber, Database, L, Catalogue
  <1>9. e.svc \in Catalogue
    <2>1. DOMAIN x \subseteq Nat
      BY <1>3
    <2>2. e \in Database
      BY <2>1, RenumberType
    <2>3. QED
      BY <2>2 DEF Database, Catalogue
  <1> HIDE DEF e
  <1>10. ASSUME NEW k \in 1 .. n
         PROVE  e.svc[x[k]].ord = k /\ e.svc[x[k]].live = "yes"
    <2>1. x[k] \in L /\ x[k] \in Services /\ \E i \in DOMAIN x : x[i] = x[k]
      BY <1>1, <1>3, <1>4
    <2>2. e.svc[x[k]] = [d.svc[x[k]] EXCEPT !.ord = k]
      BY <1>7, <1>8, <2>1
    <2>3. d.svc[x[k]] \in ServiceRow /\ d.svc[x[k]].live = "yes"
      BY <1>8, <2>1 DEF Catalogue, L, Live
    <2>4. QED
      BY <2>2, <2>3 DEF ServiceRow
  <1>11. Live(e) = L
    <2>1. ASSUME NEW s \in Services PROVE e.svc[s].live = "yes" <=> s \in L
      <3>1. CASE s \in L
        BY <1>6, <1>10, <3>1
      <3>2. CASE s \notin L
        BY <1>8, <3>2 DEF L, Live
      <3>3. QED
        BY <3>1, <3>2
    <2>2. QED
      BY <1>1, <2>1 DEF Live
  <1>12. ASSUME NEW i \in 1 .. n, NEW k \in 1 .. n, i < k PROVE Before(e, x[i], x[k])
    BY <1>10, <1>12 DEF Before
  <1>13. Arranged(e, x, Live(e))
    BY <1>4, <1>11, <1>12 DEF Arranged, n, L
  <1>14. Order(e) = x
    BY <1>9, <1>13, OrderIs
  <1>15. Tied(e) = {}
    <2>1. ASSUME NEW s \in L, NEW u \in L \ {s} PROVE e.svc[s].ord # e.svc[u].ord
      <3>1. PICK i \in 1 .. n : x[i] = s
        BY <1>6
      <3>2. PICK k \in 1 .. n : x[k] = u
        BY <1>6
      <3>3. QED
        BY <1>10, <3>1, <3>2
    <2>2. QED
      BY <1>11, <2>1 DEF Tied
  <1>16. p # x
    BY <1>1, <1>2, <1>3
  <1>17. \E k \in 1 .. Len(p) - 1 : x = Exchange(p, k, k + 1)
    <2>1. CASE t = j + 1
      <3>1. j \in 1 .. Len(p) - 1
        BY <1>1, <1>2, <2>1
      <3>2. QED
        BY <3>1, <2>1 DEF x
    <2>2. CASE j = t + 1
      <3>1. t \in 1 .. Len(p) - 1 /\ DOMAIN p = 1 .. n
        BY <1>1, <1>2, <2>2
      <3>2. /\ Exchange(p, t, j) = [k \in 1 .. n |-> CASE k = t -> p[j] [] k = j -> p[t] [] OTHER -> p[k]]
            /\ x = [k \in 1 .. n |-> CASE k = j -> p[t] [] k = t -> p[j] [] OTHER -> p[k]]
        BY <3>1 DEF Exchange, x
      <3>3. x = Exchange(p, t, j)
        BY <1>2, <3>2
      <3>4. QED
        BY <3>1, <3>3, <2>2
    <2>3. QED
      BY <2>1, <2>2
  <1>18. QED
    BY <1>14, <1>15, <1>16, <1>17 DEF Gently, e, x, p
\* What a call that answers "ok" makes of the catalogue, when what its transaction read
\* is still true.
LEMMA WriteIsGentle ==
  ASSUME NEW d \in Database, NEW sc, NEW c, Fits(sc, c), c.op # "refresh", Answer(d, c) = "ok",
         Write(d, c) \in Database,
         c.op = "create" => d.svc[c.id].live = "no",
         c.op \in {"create", "move"} => c.saw = Reads(d, c)
  PROVE  Gently(d, Write(d, c)) /\ (c.op = "move" => Order(d) # Order(Write(d, c)))
  <1> DEFINE e == Write(d, c)
  <1>1. c \in CallRec /\ c.op \in Operations /\ d.svc \in Catalogue /\ e.svc \in Catalogue
    BY DEF Fits, CallRec, Database, Catalogue
  <1>2. ASSUME NEW f, f.svc \in Catalogue,
               \A s \in Services : (d.svc[s].live = "yes" <=> f.svc[s].live = "yes")
                                   /\ d.svc[s].ord = f.svc[s].ord
        PROVE  Gently(d, f)
    BY <1>1, <1>2, SameNumbersSameOrder DEF Gently
  <1>3. CASE c.op = "create"
    <2>1. c.id \in Services /\ c.id \notin Live(d) /\ c.saw[1] = NextOrd(d)
      BY <1>3 DEF Fits, Live, Reads
    <2>2. e.svc = [d.svc EXCEPT ![c.id] = [live |-> "yes", active |-> c.arg, ord |-> NextOrd(d)]]
      BY <1>3, <2>1 DEF Write, CreateService, Database
    <2>3. /\ e.svc[c.id].live = "yes" /\ e.svc[c.id].ord = NextOrd(d)
          /\ \A s \in Services \ {c.id} : e.svc[s] = d.svc[s]
      BY <1>1, <2>1, <2>2 DEF Catalogue
    <2> HIDE DEF e
    <2>4. QED
      BY <1>1, <1>3, <2>1, <2>3, NewServiceIsLast DEF e
  <1>4. CASE c.op \in {"save", "toggle"}
    <2>1. e.svc = [d.svc EXCEPT ![c.id].active = c.arg] /\ c.id \in Services
      BY <1>4 DEF Write, UpdateService, SetServiceActive, Database, Fits
    <2>2. \A s \in Services : e.svc[s].live = d.svc[s].live /\ e.svc[s].ord = d.svc[s].ord
      BY <1>1, <2>1 DEF Catalogue, ServiceRow
    <2> HIDE DEF e
    <2>3. Gently(d, e)
      BY <1>1, <1>2, <2>2
    <2>4. QED
      BY <1>4, <2>3 DEF e
  <1>5. CASE c.op = "delete"
    <2>1. /\ e.svc = [d.svc EXCEPT ![c.id].live = IF @ = "yes" THEN "gone" ELSE @]
          /\ c.id \in Services
      BY <1>5 DEF Write, DeleteService, Database, Fits
    <2>2. CASE c.id \in Live(d)
      <3>1. d.svc[c.id].live = "yes" /\ d.svc[c.id] \in ServiceRow
        BY <1>1, <2>1, <2>2 DEF Live, Catalogue
      <3>2. e.svc[c.id].live = "gone" /\ \A s \in Services \ {c.id} : e.svc[s] = d.svc[s]
        BY <1>1, <2>1, <3>1 DEF Catalogue, ServiceRow
      <3> HIDE DEF e
      <3>3. Gently(d, e)
        BY <1>1, <2>1, <2>2, <3>2, GoneServiceLeaves
      <3>4. QED
        BY <1>5, <3>3 DEF e
    <2>3. CASE c.id \notin Live(d)
      <3>1. d.svc[c.id].live # "yes" /\ d.svc[c.id] \in ServiceRow
        BY <1>1, <2>1, <2>3 DEF Live, Catalogue
      <3>2. \A s \in Services : e.svc[s].live = d.svc[s].live /\ e.svc[s].ord = d.svc[s].ord
        BY <1>1, <2>1, <3>1 DEF Catalogue, ServiceRow
      <3> HIDE DEF e
      <3>3. Gently(d, e)
        BY <1>1, <1>2, <3>2
      <3>4. QED
        BY <1>5, <3>3 DEF e
    <2>4. QED
      BY <2>2, <2>3
  <1>6. CASE c.op = "move"
    <2> DEFINE p == Order(d)
               n == Cardinality(Live(d))
               f == PlaceOf(p, c.id)
               t == Target(p, c.id, c.arg)
    <2>1. c.saw = p /\ t # 0
      BY <1>6 DEF Reads, Answer
    <2>2. e = Renumber(d, Exchange(p, f, t))
      BY <1>6, <2>1 DEF Write, MoveService
    <2>3. /\ n \in Nat /\ DOMAIN p = 1 .. n /\ Len(p) = n
          /\ \A j, k \in 1 .. n : p[j] = p[k] => j = k
      <3>1. Live(d) \in SUBSET Services /\ Arranged(d, p, Live(d))
        BY <1>1, OrderArranges DEF Live
      <3> HIDE DEF p
      <3>2. QED
        BY <1>1, <3>1, ArrangedFacts
    <2> HIDE DEF p, n
    <2>4. f \in 1 .. n /\ t \in 1 .. n /\ (t = f + 1 \/ f = t + 1)
      BY <2>1, <2>3, TargetFacts
    <2>5. f \in 1 .. Len(p) /\ t \in 1 .. Len(p)
      BY <2>3, <2>4
    <2> HIDE DEF f, t, e
    <2>6. Gently(d, e) /\ Order(d) # Order(e)
      BY <2>2, <2>4, <2>5, MovedServices DEF p
    <2>7. QED
      BY <2>6 DEF e
  <1>7. CASE c.op \in {"add", "drop", "settings", "rename", "notes", "block"}
    <2>1. e.svc = d.svc
      BY <1>7 DEF Write, UpdateBusinessSettings, WriteCustomer, Database
    <2> HIDE DEF e
    <2>2. Gently(d, e)
      BY <1>1, <1>2, <2>1
    <2>3. QED
      BY <1>7, <2>2 DEF e
  <1>8. QED
    BY <1>1, <1>3, <1>4, <1>5, <1>6, <1>7 DEF Operations
-----------------------------------------------------------------------------
(* A service that is being created is not there yet, and is created once.  *)

Unborn(q, d) ==
  \A i \in 1 .. Len(q) : (q[i].op = "create" /\ q[i].at # "done") => d.svc[q[i].id].live = "no"

OwnIds(q, r) ==
  /\ \A i, j \in 1 .. Len(q) :
       (i # j /\ q[i].op = "create" /\ q[j].op = "create") => q[i].id # q[j].id
  /\ (r # None /\ r.op = "create") =>
       \A i \in 1 .. Len(q) : q[i].op = "create" => q[i].id # r.id

Births ==
  /\ Unborn(queue, db) /\ OwnIds(queue, rival)
  /\ (rival # None /\ rival.op = "create") => db.svc[rival.id].live = "no"

LEMMA NotBornByOthers ==
  ASSUME NEW d \in Database, NEW sc, NEW c, Fits(sc, c), c.op # "refresh",
         NEW s \in Services, d.svc[s].live = "no", ~(c.op = "create" /\ c.id = s)
  PROVE  Write(d, c).svc[s].live = "no"
  <1>1. c.op \in Operations /\ d.svc \in Catalogue /\ d.svc[s] \in ServiceRow
    BY DEF Fits, CallRec, Database, Catalogue
  <1>2. CASE c.op = "create"
    <2>1. c.id # s /\ c.id \in Services
      BY <1>2 DEF Fits
    <2>2. CreateService(d, c).svc[s] = d.svc[s]
      BY <1>1, <2>1 DEF CreateService, Database, Catalogue
    <2>3. QED
      BY <1>2, <2>2 DEF Write
  <1>3. CASE c.op \in {"save", "toggle"}
    <2>1. [d EXCEPT !.svc[c.id].active = c.arg].svc[s].live = "no"
      BY <1>1 DEF Database, Catalogue, ServiceRow
    <2>2. QED
      BY <1>3, <2>1 DEF Write, UpdateService, SetServiceActive
  <1>4. CASE c.op = "delete"
    <2>1. DeleteService(d, c).svc[s].live = "no"
      BY <1>1 DEF Database, Catalogue, ServiceRow, DeleteService
    <2>2. QED
      BY <1>4, <2>1 DEF Write
  <1>5. CASE c.op = "move"
    <2>1. ASSUME NEW ids PROVE Renumber(d, ids).svc[s].live = "no"
      BY <1>1 DEF Database, ServiceRow, Renumber
    <2>2. QED
      BY <1>5, <2>1 DEF Write, MoveService
  <1>6. CASE c.op \in {"add", "drop", "settings", "rename", "notes", "block"}
    BY <1>6 DEF Write, UpdateBusinessSettings, WriteCustomer, Database
  <1>7. QED
    BY <1>1, <1>2, <1>3, <1>4, <1>5, <1>6 DEF Operations

LEMMA FollowsOwnIds ==
  ASSUME NEW p, NEW q, NEW r, Follows(p, q), OwnIds(q, r), Len(p) \in Nat
  PROVE  OwnIds(p, r)
  <1>1. PICK k \in {0, 1} :
          \A i \in 1 .. Len(p) : i + k \in 1 .. Len(q) /\ Same(p[i], q[i + k])
    BY DEF Follows
  <1>2. ASSUME NEW i \in 1 .. Len(p), NEW j \in 1 .. Len(p), i # j,
               p[i].op = "create", p[j].op = "create"
        PROVE  p[i].id # p[j].id
    <2>1. /\ i + k # j + k /\ i + k \in 1 .. Len(q) /\ j + k \in 1 .. Len(q)
          /\ Same(p[i], q[i + k]) /\ Same(p[j], q[j + k])
      BY <1>1, <1>2
    <2>2. QED
      BY <1>2, <2>1 DEF Same, OwnIds
  <1>3. ASSUME r # None, r.op = "create", NEW i \in 1 .. Len(p), p[i].op = "create"
        PROVE  p[i].id # r.id
    <2>1. i + k \in 1 .. Len(q) /\ Same(p[i], q[i + k])
      BY <1>1
    <2>2. QED
      BY <1>3, <2>1 DEF Same, OwnIds
  <1>4. QED
    BY <1>2, <1>3 DEF OwnIds

LEMMA AppendOwnIds ==
  ASSUME NEW q \in Seq(CallRec), NEW c \in CallRec, NEW r, OwnIds(q, r),
         c.op = "create" => /\ \A i \in 1 .. Len(q) : q[i].id # c.id
                            /\ r # None => r.id # c.id
  PROVE  OwnIds(Append(q, c), r)
  <1> DEFINE p == Append(q, c)
  <1>1. \A i \in 1 .. Len(p) : \/ i \in 1 .. Len(q) /\ p[i] = q[i]
                               \/ i = Len(q) + 1 /\ p[i] = c
    BY AppendFacts
  <1> HIDE DEF p
  <1>2. ASSUME NEW i \in 1 .. Len(p), NEW j \in 1 .. Len(p), i # j,
               p[i].op = "create", p[j].op = "create"
        PROVE  p[i].id # p[j].id
    <2>1. CASE i \in 1 .. Len(q) /\ p[i] = q[i] /\ j \in 1 .. Len(q) /\ p[j] = q[j]
      BY <1>2, <2>1 DEF OwnIds
    <2>2. CASE i \in 1 .. Len(q) /\ p[i] = q[i] /\ p[j] = c
      BY <1>2, <2>2
    <2>3. CASE p[i] = c /\ j \in 1 .. Len(q) /\ p[j] = q[j]
      BY <1>2, <2>3
    <2>4. QED
      BY <1>1, <1>2, <2>1, <2>2, <2>3
  <1>3. ASSUME r # None, r.op = "create", NEW i \in 1 .. Len(p), p[i].op = "create"
        PROVE  p[i].id # r.id
    BY <1>1, <1>3 DEF OwnIds
  <1>4. OwnIds(p, r)
    BY <1>2, <1>3 DEF OwnIds
  <1>5. QED
    BY <1>4 DEF p

LEMMA UnbornAppend ==
  ASSUME NEW q \in Seq(CallRec), NEW c \in CallRec, NEW d, Unborn(q, d),
         c.op = "create" => d.svc[c.id].live = "no"
  PROVE  Unborn(Append(q, c), d)
  <1> DEFINE p == Append(q, c)
  <1>1. \A i \in 1 .. Len(p) : \/ i \in 1 .. Len(q) /\ p[i] = q[i]
                               \/ i = Len(q) + 1 /\ p[i] = c
    BY AppendFacts
  <1> HIDE DEF p
  <1>2. Unborn(p, d)
    BY <1>1 DEF Unborn
  <1>3. QED
    BY <1>2 DEF p

LEMMA UnbornTail ==
  ASSUME NEW q \in Seq(CallRec), q # <<>>, NEW d, Unborn(q, d)
  PROVE  Unborn(Tail(q), d)
  <1>1. \A i \in 1 .. Len(Tail(q)) : i + 1 \in 1 .. Len(q) /\ Tail(q)[i] = q[i + 1]
    BY TailFacts
  <1>2. QED
    BY <1>1 DEF Unborn

LEMMA UnbornLoose ==
  ASSUME NEW q \in Seq(CallRec), NEW ops, NEW d, Unborn(q, d)
  PROVE  Unborn(Orphaned(q, ops), d)
  <1> DEFINE p == Orphaned(q, ops)
  <1>1. Len(p) = Len(q) /\ \A i \in 1 .. Len(q) : p[i] = q[i] \/ p[i] = [q[i] EXCEPT !.mine = FALSE]
    BY LooseFacts
  <1>2. ASSUME NEW i \in 1 .. Len(q) PROVE Same(p[i], q[i]) /\ p[i].at = q[i].at
    <2>1. q[i] \in CallRec
      OBVIOUS
    <2>2. CASE p[i] = q[i]
      BY <2>2 DEF Same
    <2>3. CASE p[i] = [q[i] EXCEPT !.mine = FALSE]
      BY <2>1, <2>3, LooseCall
    <2>4. QED
      BY <1>1, <2>2, <2>3
  <1> HIDE DEF p
  <1>3. Unborn(p, d)
    BY <1>1, <1>2 DEF Unborn, Same
  <1>4. QED
    BY <1>3 DEF p

\* The first call is rewritten at the server; no other call is for its service.
LEMMA UnbornHandled ==
  ASSUME Queued(screen, queue), NEW c, Handled(c), NEW d, NEW e, Unborn(queue, d),
         \A i \in 1 .. Len(queue) :
           (i > 1 \/ c.at # "done") /\ queue[i].op = "create"
             /\ d.svc[queue[i].id].live = "no" => e.svc[queue[i].id].live = "no"
  PROVE  Unborn(queue', e)
  <1>1. queue \in Seq(CallRec) /\ queue # <<>> /\ c \in CallRec
    BY DEF Queued, Handled, Fits
  <1>2. /\ Len(queue') = Len(queue) /\ Len(queue) \in Nat
        /\ \A i \in 1 .. Len(queue) : queue'[i] = IF i = 1 THEN c ELSE queue[i]
        /\ Head(queue) = queue[1]
    BY <1>1, FirstFacts DEF Handled
  <1>3. ASSUME NEW i \in 1 .. Len(queue), queue'[i].op = "create", queue'[i].at # "done"
        PROVE  e.svc[queue'[i].id].live = "no"
    <2>1. CASE i = 1
      <3>1. queue'[1] = c /\ Same(c, queue[1]) /\ queue[1].at # "done"
        BY <1>2, <2>1 DEF Handled
      <3>2. QED
        BY <1>3, <2>1, <3>1 DEF Same, Unborn
    <2>2. CASE i # 1
      <3>1. queue'[i] = queue[i] /\ i > 1
        BY <1>2, <2>2
      <3>2. QED
        BY <1>3, <3>1 DEF Unborn
    <2>3. QED
      BY <2>1, <2>2
  <1>4. QED
    BY <1>2, <1>3 DEF Unborn
LEMMA FreshIds ==
  ASSUME NEW s \in FreshServices, Queued(screen, queue)
  PROVE  /\ s \in Services /\ db.svc[s].live = "no"
         /\ \A i \in 1 .. Len(queue) : queue[i].id # s
         /\ rival # None => rival.id # s
  <1>1. DOMAIN queue = 1 .. Len(queue)
    BY DEF Queued
  <1>2. QED
    BY <1>1 DEF FreshServices, Given

\* The rival's step on the rows: one statement, or its second.
LEMMA RivalWrites ==
  ASSUME Typed, Queued(screen, queue), Rival, RivalCall \/ RivalCommits
  PROVE  /\ UNCHANGED <<screen, queue>>
         /\ \/ db' = db
            \/ \E c : /\ Fits(screen, c) /\ c.op # "refresh" /\ Answer(db, c) = "ok"
                      /\ db' = Write(db, c) /\ db' \in Database /\ rival' = None
                      /\ \/ c = rival /\ rival # None
                         \/ ~TwoStatements(c)
         /\ \/ rival' = rival \/ rival' = None
            \/ /\ rival' # None /\ rival'.op = "create" => rival'.id \in FreshServices
               /\ db' = db
  <1>1. UNCHANGED <<screen, queue>>
    BY DEF RivalCall, RivalCommits, pageVars
  <1>2. CASE RivalCommits
    <2>1. /\ Fits(screen, rival) /\ TwoStatements(rival) /\ rival # None /\ rival' = None
          /\ db' = IF Answer(db, rival) = "ok" THEN Write(db, rival) ELSE db
          /\ rival.op = "create" => Len(rival.saw) = 1
      BY <1>2 DEF RivalCommits, Rival, Fits
    <2>2. rival.op # "refresh" /\ db \in Database
      BY <2>1 DEF TwoStatements, Typed
    <2>3. Write(db, rival) \in Database
      BY <2>1, <2>2, WriteType
    <2>4. QED
      BY <1>1, <2>1, <2>2, <2>3
  <1>3. CASE RivalCall
    <2>1. rival = None
      BY <1>3 DEF RivalCall
    <2>2. PICK c \in RivalCalls :
            IF TwoStatements(c)
            THEN /\ rival' = [c EXCEPT !.at = "read", !.saw = Reads(db, c)]
                 /\ UNCHANGED <<db, unseen>>
            ELSE /\ Answer(db, c) = "ok"
                 /\ db' = Write(db, c)
                 /\ unseen' = (unseen \/ db' # db)
                 /\ UNCHANGED rival
      BY <1>3 DEF RivalCall
    <2>3. /\ Fits(screen, c) /\ c.op # "refresh"
          /\ c.op = "create" => c.id \in FreshServices
      BY RivalFits
    <2>4. CASE TwoStatements(c)
      <3>1. rival' = [c EXCEPT !.at = "read", !.saw = Reads(db, c)] /\ db' = db
        BY <2>2, <2>4
      <3>2. c \in CallRec
        BY <2>3 DEF Fits
      <3>3. rival'.op = c.op /\ rival'.id = c.id
        BY <3>1, <3>2 DEF CallRec
      <3>4. QED
        BY <1>1, <2>3, <3>1, <3>3
    <2>5. CASE ~TwoStatements(c)
      <3>1. Answer(db, c) = "ok" /\ db' = Write(db, c) /\ rival' = rival
        BY <2>2, <2>5
      <3>2. Write(db, c) \in Database
        BY <2>3, <2>5, WriteType DEF Typed, TwoStatements
      <3>3. QED
        BY <1>1, <2>1, <2>3, <2>5, <3>1, <3>2
    <2>6. QED
      BY <2>4, <2>5
  <1>4. QED
    BY <1>2, <1>3

LEMMA BirthsStep ==
  ASSUME IInv, Births, [Next]_vars
  PROVE  Births'
  <1>0. /\ Typed /\ Opened /\ Queued(screen, queue) /\ Rival /\ queue \in Seq(CallRec)
        /\ Unborn(queue, db) /\ OwnIds(queue, rival)
    BY DEF IInv, Births, Queued
  <1>1. Len(queue') \in Nat
    BY <1>0, QueuedStep DEF Queued
  <1>2. CASE UNCHANGED <<queue, db, rival>>
    BY <1>2 DEF Births
  <1>3. ASSUME NEW c, Fresh(c), Sent(c) PROVE Births'
    <2>1. /\ c \in CallRec /\ c.op = "create" => c.id \in FreshServices
      BY <1>3 DEF Fresh, Fits
    <2>2. queue' = Append(queue, c) /\ UNCHANGED <<db, rival>> /\ c \in CallRec
      BY <1>3 DEF Sent, Fresh, Fits
    <2>3. c.op = "create" => /\ db.svc[c.id].live = "no"
                             /\ \A i \in 1 .. Len(queue) : queue[i].id # c.id
                             /\ rival # None => rival.id # c.id
      BY <1>0, <1>3, FreshIds DEF Fresh
    <2>4. Unborn(queue', db) /\ OwnIds(queue', rival)
      BY <1>0, <2>2, <2>3, UnbornAppend, AppendOwnIds
    <2>5. QED
      BY <2>2, <2>4 DEF Births
  <1>4. ASSUME NEW hook, NEW ops, LetGo(hook, ops), UNCHANGED <<db, rival>> PROVE Births'
    <2>1. queue' = Orphaned(queue, ops)
      BY <1>0, <1>4, LetGoFacts
    <2>2. Unborn(queue', db) /\ OwnIds(queue', rival)
      BY <1>0, <1>1, <2>1, UnbornLoose, LooseFollows, FollowsOwnIds
    <2>3. QED
      BY <1>4, <2>2 DEF Births
  <1>5. CASE CloseSheet \/ Dismiss
    BY <1>4, <1>5 DEF CloseSheet, Dismiss
  <1>6. CASE Lose \/ Arrive
    <2>1. queue # <<>> /\ UNCHANGED <<db, rival>>
      BY <1>6 DEF Lose, Arrive
    <2>2. /\ Tail(queue) \in Seq(CallRec) /\ Unborn(Tail(queue), db) /\ OwnIds(Tail(queue), rival)
      BY <1>0, <2>1, UnbornTail, TailFollows, FollowsOwnIds
    <2>3. CASE Lose
      <3>1. queue' = Tail(queue)
        BY <2>3 DEF Lose
      <3>2. QED
        BY <1>0, <2>1, <2>2, <3>1 DEF Births
    <2>4. CASE Arrive
      <3>1. PICK ops : Arrived(ops)
        BY <2>4, ArriveQueue
      <3> DEFINE rest == Orphaned(Tail(queue), ops)
      <3>2. /\ rest \in Seq(CallRec) /\ Unborn(rest, db) /\ OwnIds(rest, rival)
        BY <1>0, <2>1, <2>2, RestFacts, UnbornLoose, FollowsOwnIds
      <3>3. queue' = rest \/ queue' = Append(rest, Refreshing)
        BY <3>1 DEF Arrived
      <3> HIDE DEF rest
      <3>4. Refreshing \in CallRec /\ Refreshing.op # "create"
        BY RefreshFits
      <3>5. Unborn(queue', db) /\ OwnIds(queue', rival)
        BY <3>2, <3>3, <3>4, UnbornAppend, AppendOwnIds
      <3>6. QED
        BY <2>1, <3>5 DEF Births
    <2>5. QED
      BY <1>6, <2>3, <2>4
  <1>7. ASSUME NEW c, Handled(c), rival' = rival,
               \/ db' = db
               \/ c.at = "done" /\ c.op # "refresh" /\ db' = Write(db, Head(queue))
        PROVE  Births'
    <2>1. /\ queue # <<>> /\ Head(queue) = queue[1] /\ 1 \in 1 .. Len(queue)
          /\ Fits(screen, Head(queue)) /\ Same(c, Head(queue))
      BY <1>0, <1>7, HeadCall DEF Handled
    <2>2. Follows(queue', queue)
      BY <1>0, <1>7, FirstFollows DEF Handled, Fits
    <2>3. OwnIds(queue', rival)
      BY <1>0, <1>1, <2>2, FollowsOwnIds
    <2>4. ASSUME NEW i \in 1 .. Len(queue), i > 1 \/ c.at # "done", queue[i].op = "create",
                 db.svc[queue[i].id].live = "no"
          PROVE  db'.svc[queue[i].id].live = "no"
      <3>1. CASE db' = db
        BY <2>4, <3>1
      <3>2. CASE c.at = "done" /\ c.op # "refresh" /\ db' = Write(db, Head(queue))
        <4>1. queue[i].id \in Services
          BY <1>0, <2>4 DEF Queued, Fits
        <4>2. ~(Head(queue).op = "create" /\ Head(queue).id = queue[i].id)
          BY <1>0, <2>1, <2>4, <3>2 DEF OwnIds
        <4>3. Head(queue).op # "refresh" /\ db \in Database
          BY <1>0, <2>1, <3>2 DEF Same, Typed
        <4>4. QED
          BY <2>1, <2>4, <3>2, <4>1, <4>2, <4>3, NotBornByOthers
      <3>3. QED
        BY <1>7, <3>1, <3>2
    <2>5. Unborn(queue', db')
      BY <1>0, <1>7, <2>4, UnbornHandled
    <2>6. (rival # None /\ rival.op = "create") => db'.svc[rival.id].live = "no"
      <3>1. SUFFICES ASSUME rival # None, rival.op = "create"
                     PROVE  db'.svc[rival.id].live = "no"
        OBVIOUS
      <3>2. db.svc[rival.id].live = "no" /\ rival.id \in Services
        BY <1>0, <3>1 DEF Births, Rival, Fits
      <3>3. CASE db' = db
        BY <3>2, <3>3
      <3>4. CASE c.at = "done" /\ c.op # "refresh" /\ db' = Write(db, Head(queue))
        <4>1. ~(Head(queue).op = "create" /\ Head(queue).id = rival.id)
          BY <1>0, <2>1, <3>1 DEF OwnIds
        <4>2. Head(queue).op # "refresh" /\ db \in Database
          BY <1>0, <2>1, <3>4 DEF Same, Typed
        <4>3. QED
          BY <2>1, <3>2, <3>4, <4>1, <4>2, NotBornByOthers
      <3>5. QED
        BY <1>7, <3>3, <3>4
    <2>7. QED
      BY <1>7, <2>3, <2>5, <2>6 DEF Births
  <1>8. CASE Read
    <2>1. rival' = rival
      BY <1>8 DEF Read
    <2>2. QED
      BY <1>0, <1>7, <1>8, <2>1, ReadHandles
  <1>9. CASE Refuse
    <2>1. rival' = rival
      BY <1>9 DEF Refuse
    <2>2. QED
      BY <1>0, <1>7, <1>9, <2>1, RefuseHandles
  <1>10. CASE Render
    <2>1. rival' = rival
      BY <1>10 DEF Render
    <2>2. QED
      BY <1>0, <1>7, <1>10, <2>1, RenderHandles
  <1>11. CASE Commit
    <2>1. rival' = rival
      BY <1>11 DEF Commit
    <2>2. PICK c : Handled(c) /\ c.at = "done" /\ c.op # "refresh"
      BY <1>0, <1>11, CommitHandles
    <2>3. db' = Write(db, Head(queue)) \/ db' = db
      BY <1>0, <1>11, CommitHandles
    <2>4. QED
      BY <1>7, <2>1, <2>2, <2>3
  <1>12. CASE RivalCall \/ RivalCommits
    <2>1. queue' = queue /\ screen' = screen
      BY <1>0, <1>12, RivalWrites
    <2>2. Unborn(queue, db')
      <3>1. ASSUME NEW i \in 1 .. Len(queue), queue[i].op = "create", queue[i].at # "done"
            PROVE  db'.svc[queue[i].id].live = "no"
        <4>1. db.svc[queue[i].id].live = "no" /\ queue[i].id \in Services
          BY <1>0, <3>1 DEF Unborn, Queued, Fits
        <4>2. ASSUME NEW c, Fits(screen, c), c.op # "refresh", db' = Write(db, c),
                     (c = rival /\ rival # None) \/ ~TwoStatements(c)
              PROVE  db'.svc[queue[i].id].live = "no"
          <5>1. ~(c.op = "create" /\ c.id = queue[i].id)
            BY <1>0, <3>1, <4>2 DEF OwnIds, TwoStatements
          <5>2. db \in Database
            BY <1>0 DEF Typed
          <5>3. QED
            BY <4>1, <4>2, <5>1, <5>2, NotBornByOthers
        <4>3. QED
          BY <1>0, <1>12, <4>1, <4>2, RivalWrites
      <3>2. QED
        BY <3>1 DEF Unborn
    <2>3. /\ OwnIds(queue, rival')
          /\ (rival' # None /\ rival'.op = "create") => db'.svc[rival'.id].live = "no"
      <3>1. CASE rival' = None
        BY <1>0, <3>1 DEF OwnIds
      <3>2. CASE rival' = rival /\ rival' # None
        <4>1. db' = db
          BY <1>0, <1>12, <3>2, RivalWrites
        <4>2. QED
          BY <1>0, <3>2, <4>1 DEF Births
      <3>3. CASE /\ rival' # None /\ rival'.op = "create" => rival'.id \in FreshServices
                 /\ db' = db
        <4>1. (rival' # None /\ rival'.op = "create") =>
                /\ db.svc[rival'.id].live = "no"
                /\ \A i \in 1 .. Len(queue) : queue[i].id # rival'.id
          BY <1>0, <3>3, FreshIds
        <4>2. QED
          BY <1>0, <3>3, <4>1 DEF OwnIds
      <3>4. QED
        BY <1>0, <1>12, <3>1, <3>2, <3>3, RivalWrites
    <2>4. QED
      BY <2>1, <2>2, <2>3 DEF Births
  <1>13. OpenSheet \/ OpenDialog \/ EditSettings \/ CustomerBooks \/ UNCHANGED vars
        => UNCHANGED <<queue, db, rival>>
    BY DEF OpenSheet, OpenDialog, EditSettings, CustomerBooks, vars, pageVars
  <1>14. QED
    BY <1>0, <1>2, <1>3, <1>5, <1>6, <1>8, <1>9, <1>10, <1>11, <1>12, <1>13, NextSteps

\* The ids the calls create are new, and no two are the same.
LEMMA BirthsHold == Spec => []Births
  <1>1. Init => Births
    BY DEF Init, Births, Unborn, OwnIds
  <1>2. IInv /\ Births /\ [Next]_vars => Births'
    BY BirthsStep
  <1>3. QED
    BY <1>1, <1>2, SetupInvariant, PTL DEF Spec

\* The steps that write in the catalogue.
LEMMA GentleStep ==
  ASSUME IInv, Births, [Next]_vars, ~Overtaken
  PROVE  /\ db' # db => Gently(db, db')
         /\ (Commit /\ Head(queue).op = "move" /\ Answer(db, Head(queue)) = "ok")
              => Order(db) # Order(db')
  <1>0. /\ Typed /\ Opened /\ Queued(screen, queue) /\ Rival /\ queue \in Seq(CallRec)
        /\ Unborn(queue, db) /\ db \in Database
    BY DEF IInv, Births, Queued, Typed
  <1>1. ASSUME NEW c, Fits(screen, c), c.op # "refresh", Answer(db, c) = "ok", db' = Write(db, c),
               db' \in Database, c.op = "create" => db.svc[c.id].live = "no",
               c.op \in {"create", "move"} => c.saw = Reads(db, c)
        PROVE  Gently(db, db') /\ (c.op = "move" => Order(db) # Order(db'))
    <2>1. Write(db, c) \in Database
      BY <1>1
    <2>2. Gently(db, Write(db, c)) /\ (c.op = "move" => Order(db) # Order(Write(db, c)))
      BY <1>0, <1>1, <2>1, WriteIsGentle
    <2>3. QED
      BY <1>1, <2>2
  <1>2. CASE Commit
    <2> DEFINE h == Head(queue)
    <2>1. /\ queue # <<>> /\ h = queue[1] /\ 1 \in 1 .. Len(queue) /\ Fits(screen, h)
      BY <1>0, <1>2, HeadCall DEF Commit
    <2>2. /\ h.at = IF TwoStatements(h) THEN "read" ELSE "sent"
          /\ h.op # "refresh"
      BY <1>2 DEF Commit
    <2>3. db' \in Database /\ db' = IF Answer(db, h) = "ok" THEN Write(db, h) ELSE db
      BY <1>0, <1>2, CommitHandles
    <2>4. h.op \in {"create", "move"} => h.saw = Reads(db, h)
      <3>1. 1 \in DOMAIN queue
        BY <1>0, <2>1
      <3>2. ~Late(h)
        BY <2>1, <3>1 DEF Overtaken
      <3>3. QED
        BY <2>2, <3>2 DEF Late, TwoStatements
    <2>5. h.op = "create" => db.svc[h.id].live = "no"
      BY <1>0, <2>1, <2>2 DEF Unborn, TwoStatements
    <2> HIDE DEF h
    <2>6. CASE Answer(db, h) = "ok"
      BY <1>1, <2>1, <2>2, <2>3, <2>4, <2>5, <2>6 DEF h
    <2>7. CASE Answer(db, h) # "ok"
      BY <2>3, <2>7 DEF h
    <2>8. QED
      BY <2>6, <2>7
  <1>3. CASE RivalCall \/ RivalCommits
    <2>2. ASSUME NEW c, Fits(screen, c), c.op # "refresh", Answer(db, c) = "ok", db' = Write(db, c),
                 db' \in Database, (c = rival /\ rival # None) \/ ~TwoStatements(c)
          PROVE  Gently(db, db')
      <3>1. c.op = "create" => db.svc[c.id].live = "no"
        BY <2>2 DEF Births, TwoStatements
      <3>2. c.op \in {"create", "move"} => c.saw = Reads(db, c)
        BY <1>0, <2>2 DEF Overtaken, Late, Rival, TwoStatements
      <3>3. QED
        BY <1>1, <2>2, <3>1, <3>2
    <2>3. db' # db => Gently(db, db')
      BY <1>0, <1>3, <2>2, RivalWrites
    <2>5. QED
      BY <1>2, <2>3
  <1>4. ASSUME NEW c, Sent(c) PROVE db' = db
    BY <1>4 DEF Sent
  <1>5. ASSUME ~Commit, ~RivalCall, ~RivalCommits PROVE db' = db
    <2>1. OpenSheet \/ OpenDialog \/ EditSettings \/ CloseSheet \/ Dismiss \/ Read \/ Refuse
            \/ Render \/ Arrive \/ Lose \/ CustomerBooks \/ UNCHANGED vars
          => db' = db
      BY DEF OpenSheet, OpenDialog, EditSettings, CloseSheet, Dismiss, Read, Refuse, Render, Arrive,
             Lose, CustomerBooks, vars
    <2>2. QED
      BY <1>0, <1>4, <1>5, <2>1, NextSteps
  <1>6. QED
    BY <1>2, <1>3, <1>5

\* The answer of a move comes from its second statement.
LEMMA MoveAnswers ==
  ASSUME IInv, [Next]_vars, queue # <<>>, queue' # <<>>, Head(queue).op = "move",
         Head(queue).at = "read", Head(queue').at = "done", Head(queue').result = "ok"
  PROVE  Commit /\ Answer(db, Head(queue)) = "ok"
  <1>0. /\ Typed /\ Opened /\ Queued(screen, queue) /\ queue \in Seq(CallRec)
    BY DEF IInv, Queued
  <1>1. CASE Commit
    <2>1. PICK c : Handled(c) /\ c.result = Answer(db, Head(queue))
      BY <1>0, <1>1, CommitHandles
    <2>2. Head(queue') = c
      BY <1>0, <2>1, HandledCurrent
    <2>3. QED
      BY <1>1, <2>1, <2>2
  <1>2. ASSUME NEW c, Fresh(c), Sent(c) PROVE FALSE
    <2>1. queue' = Append(queue, c) /\ c \in CallRec
      BY <1>2 DEF Fresh, Fits, Sent
    <2>2. Head(queue') = Head(queue)
      BY <1>0, <2>1, HeadTailAppend
    <2>3. QED
      BY <2>2
  <1>3. ASSUME NEW hook, NEW ops, LetGo(hook, ops) PROVE FALSE
    <2>1. queue' = Orphaned(queue, ops)
      BY <1>0, <1>3, LetGoFacts
    <2>2. /\ queue' \in Seq(CallRec) /\ Len(queue') = Len(queue) /\ 1 \in 1 .. Len(queue)
          /\ queue[1] \in CallRec /\ Head(queue) = queue[1]
      BY <1>0, <2>1, LooseFacts, TailFacts
    <2>3. queue'[1] = queue[1] \/ queue'[1] = [queue[1] EXCEPT !.mine = FALSE]
      BY <1>0, <2>1, <2>2, LooseFacts
    <2>4. queue'[1].at = queue[1].at
      BY <2>2, <2>3, LooseCall
    <2>5. Head(queue') = queue'[1]
      BY <2>2
    <2>6. QED
      BY <2>2, <2>4, <2>5
  <1>4. ~CloseSheet /\ ~Dismiss
    BY <1>3 DEF CloseSheet, Dismiss
  <1>5. ~Read /\ ~Refuse /\ ~Render /\ ~Arrive /\ ~Lose
    BY DEF Read, Refuse, Render, Arrive, Lose
  <1>6. OpenSheet \/ OpenDialog \/ EditSettings \/ RivalCall \/ RivalCommits \/ CustomerBooks
          \/ UNCHANGED vars
        => queue' = queue
    BY DEF OpenSheet, OpenDialog, EditSettings, RivalCall, RivalCommits, CustomerBooks, vars, pageVars
  <1>7. QED
    BY <1>0, <1>1, <1>2, <1>4, <1>5, <1>6, NextSteps

\* moveService and createService of data.ts keep the catalogue in an order: unless two
\* transactions overlapped, one service leaves, one arrives at the end, or two neighbours
\* change places; no two come to share a number; and a move that answers "ok" moved.
THEOREM OrderIsArranged == Spec => ArrangedOrder
  <1>1. IInv /\ Births /\ [Next]_vars =>
          (~Overtaken =>
             LET before == Order(db)  after == Order(db')
             IN /\ db' # db =>
                     /\ \/ before = after
                        \/ \E s \in Services : after = Append(before, s)
                        \/ \E k \in 1..Len(before) : after = RemoveAt(before, k)
                        \/ \E k \in 1..Len(before) - 1 : after = Exchange(before, k, k + 1)
                     /\ Tied(db') \subseteq Tied(db)
                /\ queue # <<>> /\ queue' # <<>> /\ Head(queue).op = "move"
                   /\ Head(queue).at = "read" /\ Head(queue').at = "done"
                   /\ Head(queue').result = "ok" => before # after)
    BY GentleStep, MoveAnswers DEF Gently
  <1>2. QED
    BY <1>1, SetupInvariant, BirthsHold, PTL DEF Spec, ArrangedOrder
=============================================================================
