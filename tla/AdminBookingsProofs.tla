------------------------- MODULE AdminBookingsProofs -------------------------
(***************************************************************************)
(* Proofs about AdminBookings, for any bookings, times of day, clock and   *)
(* number of calls: an overlap the owner makes is one she was shown and    *)
(* chose, and what she did does not revert on screen while its hold lives. *)
(***************************************************************************)
EXTENDS AdminBookings, TLAPS, SequenceTheorems

-----------------------------------------------------------------------------
(* The invariant.                                                          *)

Faces == [status : Statuses, attention : BOOLEAN]
Pages == UNION {[S -> Row] : S \in SUBSET Bookings}
Displays == UNION {[S -> Faces] : S \in SUBSET Bookings}
Forms == [open : BOOLEAN, slot : Slots, clash : {None} \cup ClashRec, edited : BOOLEAN,
          saved : BOOLEAN]

Hooks == {Hook(n) : n \in {"seen", "confirm", "cancel", "no_show", "move", "create", "all", "router"}}
           \cup ({"row"} \X Bookings)

CallRec ==
  [hook : Hooks, op : {"seen", "confirm", "cancel", "no_show", "all", "move", "create", "refresh"},
   id : Bookings \cup {None}, slot : Slots \cup {None}, allow : BOOLEAN,
   read : {None} \cup ClashRec, edited : BOOLEAN, base : Displays,
   mount : {"here", "reset", "gone"}, at : {"sent", "done"},
   result : {None, "ok", "conflict", "not_found", "refused"},
   page : {None} \cup Pages, where : {"day", "changes"}]

\* What each operation's call carries.
Carries(c) ==
  /\ c.op \in {"seen", "confirm", "cancel", "no_show"} => c.id \in Bookings
  /\ c.op \in {"move", "create"} => c.id \in Bookings /\ c.slot \in Slots
  /\ c.op \in {"move", "create", "refresh"} => c.base = <<>>
  /\ c.op \in {"seen", "confirm", "cancel", "no_show"} => DOMAIN c.base = {c.id}
  /\ (c.op = "move" <=> c.hook = Hook("move")) /\ (c.op = "create" <=> c.hook = Hook("create"))

\* A hold is of another value than it shows, and not of the future.
HoldOf(h, f, at) == h = None \/ (h \in Hold(f) /\ h.expected # h.base /\ h.at <= at)

Typed ==
  /\ db \in [Bookings -> Row] /\ now \in Nat
  /\ screen \in {"day", "changes"}
  /\ page \in Pages /\ display \in Displays /\ DOMAIN display = DOMAIN page
  /\ DOMAIN holds = Bookings
  /\ \A b \in Bookings : DOMAIN holds[b] = Fields /\ \A f \in Fields : HoldOf(holds[b][f], f, now)
  /\ create \in Forms
  /\ queue \in Seq(CallRec) /\ \A i \in DOMAIN queue : Carries(queue[i])

\* The sheet is of a booking on the day on screen.
SheetInPlace == detail = None \/ (detail \in Sheets /\ screen = "day" /\ detail.b \in DOMAIN page)

\* What is listed exists.
Made(d) == {b \in Bookings : d[b].made}
Listed == DOMAIN page \subseteq Made(db)

\* What is on screen is the page with the holds that had not expired when it was laid out.
Laid(h, v, face, at) ==
  /\ h = None => face = v
  /\ h # None /\ at - h.at <= TTL => face = IF v = h.base THEN h.expected ELSE v
Overlaid == \A b \in DOMAIN page, f \in Fields : Laid(holds[b][f], page[b][f], display[b][f], now)

\* Only the oldest call may have an answer.
InOrder(q) == \A i \in DOMAIN q : i # 1 => q[i].at = "sent"

\* A success carries the page of its transaction, and says of what nobody has changed
\* since what the row says.
Truthful(c, d, m) ==
  c.at = "done" /\ c.result = "ok" =>
    /\ c.page \in Pages
    /\ DOMAIN c.page \subseteq Made(d) /\ (c.where = "day" => DOMAIN c.page = Made(d))
    /\ \A b \in DOMAIN c.page, f \in Fields : <<b, f>> \in m => c.page[b][f] = d[b][f]
    /\ \A b \in Bookings, f \in Fields : Patches(c, b, f) /\ <<b, f>> \in m => d[b][f] = Patch(c)
Answered == queue # <<>> => Truthful(Head(queue), db, mine)

\* A clash on a sheet, the call a sheet waits for, and what a call was allowed to overlap.
ForTime(clash, slot, edited) == clash = None \/ clash.slot = slot \/ edited \/ clash.late
Waits(q, hook, slot, edited) ==
  \A i \in DOMAIN q :
    /\ q[i].hook = hook /\ q[i].mount = "here"
    /\ \A j \in DOMAIN q : j > i => ~(q[j].hook = hook /\ q[j].mount = "here")
    => q[i].slot = slot \/ edited
Chosen(c) == c.allow => c.read # None /\ ForTime(c.read, c.slot, c.edited)

SheetsRead ==
  /\ detail # None => ForTime(detail.clash, detail.slot, detail.edited)
                      /\ Waits(queue, Hook("move"), detail.slot, detail.edited)
  /\ detail = None => ~Out(Hook("move"), queue)
  /\ ForTime(create.clash, create.slot, create.edited)
  /\ Waits(queue, Hook("create"), create.slot, create.edited)
  /\ \A i \in DOMAIN queue : Chosen(queue[i])

IInv ==
  /\ Typed /\ SheetInPlace /\ Listed /\ Overlaid /\ InOrder(queue) /\ Answered /\ SheetsRead
-----------------------------------------------------------------------------
(* The optimistic store. *)

LEMMA RowField == ASSUME NEW r \in Row, NEW f \in Fields PROVE r[f] \in Values[f]
  BY DEF Row, Fields, Values, Statuses, Live

LEMMA FaceField == ASSUME NEW r \in Faces, NEW f \in Fields PROVE r[f] \in Values[f]
  BY DEF Faces, Fields, Values

LEMMA FaceOf ==
  ASSUME NEW g, DOMAIN g = Fields, g = [f \in Fields |-> g[f]],
         \A f \in Fields : g[f] \in Values[f]
  PROVE  g \in Faces
  <1>1. g["status"] \in Statuses /\ g["attention"] \in BOOLEAN
    BY DEF Fields, Values
  <1>2. g = [status |-> g["status"], attention |-> g["attention"]]
    BY DEF Fields
  <1>3. QED
    BY <1>1, <1>2 DEF Faces

LEMMA PageRow == ASSUME NEW p \in Pages, NEW b \in DOMAIN p PROVE b \in Bookings /\ p[b] \in Row
  BY DEF Pages

\* The holds of the store, well formed at a time.
Store(hs, at) ==
  /\ DOMAIN hs = Bookings
  /\ \A b \in Bookings : DOMAIN hs[b] = Fields /\ \A f \in Fields : HoldOf(hs[b][f], f, at)

\* A list is the page with what is alive of the holds over it.
LEMMA ResolveIs ==
  ASSUME NEW hs, NEW p \in Pages, NEW at \in Nat, Store(hs, at)
  PROVE  /\ DOMAIN Resolve(hs, p, at) = DOMAIN p
         /\ \A b \in DOMAIN p : \A f \in Fields :
              Resolve(hs, p, at)[b][f] =
                IF Alive(hs[b][f], p[b][f], at) THEN hs[b][f].expected ELSE p[b][f]
         /\ Resolve(hs, p, at) \in Displays
  <1>1. DOMAIN Resolve(hs, p, at) = DOMAIN p
    BY DEF Resolve
  <1>2. ASSUME NEW b \in DOMAIN p, NEW f \in Fields
        PROVE  Resolve(hs, p, at)[b][f] =
                 IF Alive(hs[b][f], p[b][f], at) THEN hs[b][f].expected ELSE p[b][f]
    BY DEF Resolve
  <1>3. ASSUME NEW b \in DOMAIN p PROVE Resolve(hs, p, at)[b] \in Faces
    <2> DEFINE g == Resolve(hs, p, at)[b]
    <2>1. DOMAIN g = Fields /\ g = [f \in Fields |-> g[f]]
      BY DEF Resolve
    <2>2. b \in Bookings /\ p[b] \in Row
      BY PageRow
    <2>3. ASSUME NEW f \in Fields PROVE g[f] \in Values[f]
      <3>1. p[b][f] \in Values[f]
        BY <2>2, RowField
      <3>2. CASE Alive(hs[b][f], p[b][f], at)
        <4>1. HoldOf(hs[b][f], f, at) /\ hs[b][f] # None
          BY <2>2, <3>2 DEF Store, Alive
        <4>2. hs[b][f].expected \in Values[f]
          BY <4>1 DEF HoldOf, Hold
        <4>3. QED
          BY <1>2, <3>2, <4>2
      <3>3. CASE ~Alive(hs[b][f], p[b][f], at)
        BY <1>2, <3>1, <3>3
      <3>4. QED
        BY <3>2, <3>3
    <2>4. QED
      <3> HIDE DEF g
      <3>1. g \in Faces
        BY <2>1, <2>3, FaceOf
      <3>2. QED
        BY <3>1 DEF g
  <1>4. Resolve(hs, p, at) \in Displays
    <2>1. Resolve(hs, p, at) = [b \in DOMAIN p |-> Resolve(hs, p, at)[b]]
      BY DEF Resolve
    <2>2. Resolve(hs, p, at) \in [DOMAIN p -> Faces]
      BY <1>3, <2>1
    <2>3. DOMAIN p \in SUBSET Bookings
      BY DEF Pages
    <2>4. QED
      BY <2>2, <2>3 DEF Displays
  <1>5. QED
    BY <1>1, <1>2, <1>4

\* Pruning keeps holds or drops them; of the rows of the page it keeps what is alive there.
LEMMA PruneIs ==
  ASSUME NEW hs, NEW p \in Pages, NEW at \in Nat, Store(hs, at)
  PROVE  /\ Store(Prune(hs, p, at), at)
         /\ \A b \in Bookings, f \in Fields :
              \/ Prune(hs, p, at)[b][f] = None /\ (b \in DOMAIN p => ~Alive(hs[b][f], p[b][f], at))
              \/ /\ Prune(hs, p, at)[b][f] = hs[b][f]
                 /\ b \in DOMAIN p => Alive(hs[b][f], p[b][f], at)
  <1>1. DOMAIN Prune(hs, p, at) = Bookings /\ \A b \in Bookings : DOMAIN Prune(hs, p, at)[b] = Fields
    BY DEF Prune
  <1>2. ASSUME NEW b \in Bookings, NEW f \in Fields
        PROVE  \/ /\ Prune(hs, p, at)[b][f] = None
                  /\ b \in DOMAIN p => ~Alive(hs[b][f], p[b][f], at)
               \/ /\ Prune(hs, p, at)[b][f] = hs[b][f]
                  /\ b \in DOMAIN p => Alive(hs[b][f], p[b][f], at)
    <2>1. Prune(hs, p, at)[b][f] =
            IF hs[b][f] = None \/ at - hs[b][f].at > TTL THEN None
            ELSE IF b \in DOMAIN p /\ ~Alive(hs[b][f], p[b][f], at) THEN None ELSE hs[b][f]
      BY DEF Prune
    <2>2. hs[b][f] # None => hs[b][f].at \in Nat
      BY DEF Store, HoldOf, Hold
    <2>3. TTL \in Nat
      BY AdminAssumption
    <2>4. (hs[b][f] = None \/ at - hs[b][f].at > TTL) => ~Alive(hs[b][f], p[b][f], at)
      BY <2>2, <2>3 DEF Alive
    <2>5. QED
      BY <2>1, <2>4
  <1>3. ASSUME NEW b \in Bookings, NEW f \in Fields PROVE HoldOf(Prune(hs, p, at)[b][f], f, at)
    <2>1. HoldOf(hs[b][f], f, at) /\ HoldOf(None, f, at)
      BY DEF Store, HoldOf
    <2>2. QED
      BY <1>2, <2>1
  <1>4. QED
    BY <1>1, <1>2, <1>3 DEF Store

LEMMA PatchValue ==
  ASSUME NEW c, c.op \in {"seen", "confirm", "cancel", "no_show", "all"}
  PROVE  Patch(c) \in Values[Field(c)]
  <1>1. CASE c.op \in {"seen", "all"}
    <2>1. Field(c) = "attention" /\ Patch(c) = FALSE
      BY <1>1 DEF Field, Patch
    <2>2. Values["attention"] = BOOLEAN
      BY DEF Values
    <2>3. QED
      BY <2>1, <2>2
  <1>2. CASE c.op \in {"confirm", "cancel", "no_show"}
    <2>1. Field(c) = "status"
      BY <1>2 DEF Field
    <2>2. Patch(c) \in {"confirmed", "cancelled", "no_show"}
      BY <1>2 DEF Patch
    <2>3. Values["status"] = Statuses
      BY DEF Values
    <2>4. QED
      BY <2>1, <2>2, <2>3 DEF Statuses, Live
  <1>3. QED
    BY <1>1, <1>2

\* What a success lays over: a value already on screen is not held.
LEMMA ApplyIs ==
  ASSUME NEW hs, NEW c \in CallRec, NEW at \in Nat, Store(hs, at), Carries(c)
  PROVE  /\ Store(Apply(hs, c, at), at)
         /\ \A b \in Bookings, f \in Fields :
              /\ ~Patches(c, b, f) => Apply(hs, c, at)[b][f] = hs[b][f]
              /\ Patches(c, b, f) /\ c.base[b][f] = Patch(c) => Apply(hs, c, at)[b][f] = None
              /\ Patches(c, b, f) /\ c.base[b][f] # Patch(c) =>
                   /\ Apply(hs, c, at)[b][f] # None
                   /\ Apply(hs, c, at)[b][f].expected = Patch(c)
                   /\ Apply(hs, c, at)[b][f].base = c.base[b][f]
                   /\ Apply(hs, c, at)[b][f].at = at
  <1>1. DOMAIN Apply(hs, c, at) = Bookings /\ \A b \in Bookings : DOMAIN Apply(hs, c, at)[b] = Fields
    BY DEF Apply
  <1>2. ASSUME NEW b \in Bookings, NEW f \in Fields
        PROVE  /\ HoldOf(Apply(hs, c, at)[b][f], f, at)
               /\ ~Patches(c, b, f) => Apply(hs, c, at)[b][f] = hs[b][f]
               /\ Patches(c, b, f) /\ c.base[b][f] = Patch(c) => Apply(hs, c, at)[b][f] = None
               /\ Patches(c, b, f) /\ c.base[b][f] # Patch(c) =>
                    /\ Apply(hs, c, at)[b][f] # None
                    /\ Apply(hs, c, at)[b][f].expected = Patch(c)
                    /\ Apply(hs, c, at)[b][f].base = c.base[b][f]
                    /\ Apply(hs, c, at)[b][f].at = at
    <2>1. Apply(hs, c, at)[b][f] =
            IF ~Patches(c, b, f) THEN hs[b][f]
            ELSE IF c.base[b][f] = Patch(c) THEN None
            ELSE [expected |-> Patch(c), base |-> c.base[b][f], at |-> at]
      BY DEF Apply
    <2>2. HoldOf(hs[b][f], f, at) /\ HoldOf(None, f, at)
      BY DEF Store, HoldOf
    <2>3. CASE Patches(c, b, f) /\ c.base[b][f] # Patch(c)
      <3> DEFINE h == [expected |-> Patch(c), base |-> c.base[b][f], at |-> at]
      <3>1. b \in DOMAIN c.base /\ f = Field(c)
        BY <2>3 DEF Patches
      <3>2. c.base \in Displays
        BY DEF CallRec
      <3>3. c.base[b] \in Faces
        BY <3>1, <3>2 DEF Displays
      <3>4. c.base[b][f] \in Values[f]
        BY <3>3, FaceField
      <3>5. c.op \notin {"move", "create", "refresh"}
        BY <3>1 DEF Carries
      <3>6. c.op \in {"seen", "confirm", "cancel", "no_show", "all"}
        BY <3>5 DEF CallRec
      <3>7. Patch(c) \in Values[f]
        BY <3>1, <3>6, PatchValue
      <3>8. h \in Hold(f)
        BY <3>4, <3>7 DEF Hold
      <3>9. h # None
        BY <3>8, AdminAssumption
      <3>10. h.expected # h.base /\ h.at = at /\ h.base = c.base[b][f] /\ h.expected = Patch(c)
        BY <2>3
      <3>11. Apply(hs, c, at)[b][f] = h
        BY <2>1, <2>3
      <3> HIDE DEF h
      <3>12. HoldOf(h, f, at)
        BY <3>8, <3>10 DEF HoldOf
      <3>13. QED
        BY <2>3, <3>9, <3>10, <3>11, <3>12
    <2>4. CASE Patches(c, b, f) /\ c.base[b][f] = Patch(c)
      BY <2>1, <2>2, <2>4
    <2>5. CASE ~Patches(c, b, f)
      BY <2>1, <2>2, <2>5
    <2>6. QED
      BY <2>3, <2>4, <2>5
  <1>3. QED
    BY <1>1, <1>2 DEF Store

\* Whatever the store holds, what is resolved is laid out as the invariant says.
LEMMA ResolvedIsLaid ==
  ASSUME NEW hs, NEW p \in Pages, NEW at \in Nat, Store(hs, at)
  PROVE  \A b \in DOMAIN p, f \in Fields : Laid(hs[b][f], p[b][f], Resolve(hs, p, at)[b][f], at)
  <1> SUFFICES ASSUME NEW b \in DOMAIN p, NEW f \in Fields
               PROVE  Laid(hs[b][f], p[b][f], Resolve(hs, p, at)[b][f], at)
    OBVIOUS
  <1>1. Resolve(hs, p, at)[b][f] =
          IF Alive(hs[b][f], p[b][f], at) THEN hs[b][f].expected ELSE p[b][f]
    BY ResolveIs
  <1>2. QED
    BY <1>1 DEF Laid, Alive

-----------------------------------------------------------------------------
(* The database. *)

LEMMA RenderedIs ==
  ASSUME NEW d \in [Bookings -> Row], NEW where
  PROVE  /\ Rendered(d, where) \in Pages
         /\ DOMAIN Rendered(d, where) \subseteq Made(d)
         /\ where = "day" => DOMAIN Rendered(d, where) = Made(d)
         /\ \A b \in DOMAIN Rendered(d, where) : Rendered(d, where)[b] = d[b]
  <1> DEFINE S == {x \in Bookings : d[x].made /\ (where = "changes" => d[x].attention)}
  <1>1. Rendered(d, where) = [b \in S |-> d[b]]
    BY DEF Rendered
  <1>2. S \in SUBSET Bookings /\ S \subseteq Made(d) /\ (where = "day" => S = Made(d))
    BY DEF Made
  <1>3. Rendered(d, where) \in [S -> Row]
    BY <1>1, <1>2
  <1>4. Rendered(d, where) \in Pages
    BY <1>2, <1>3 DEF Pages
  <1>5. QED
    BY <1>1, <1>2, <1>4

LEMMA RowStatus ==
  ASSUME NEW r \in Row, NEW v \in Statuses
  PROVE  /\ [r EXCEPT !.status = v] \in Row
         /\ [r EXCEPT !.status = v]["status"] = v
         /\ [r EXCEPT !.status = v].made = r.made
  BY DEF Row

LEMMA RowAttention ==
  ASSUME NEW r \in Row, NEW v \in BOOLEAN
  PROVE  /\ [r EXCEPT !.attention = v] \in Row
         /\ [r EXCEPT !.attention = v]["attention"] = v
         /\ [r EXCEPT !.attention = v].made = r.made
  BY DEF Row

LEMMA RowSlot ==
  ASSUME NEW r \in Row, NEW v \in Slots
  PROVE  /\ [r EXCEPT !.slot = v] \in Row
         /\ [r EXCEPT !.slot = v].made = r.made
         /\ [r EXCEPT !.made = TRUE, !.slot = v] \in Row
         /\ [r EXCEPT !.made = TRUE, !.slot = v].made
  BY DEF Row

\* A write leaves rows, unmakes none, and leaves in its fields what its patch says.
LEMMA WriteIs ==
  ASSUME NEW d \in [Bookings -> Row], NEW c \in CallRec, Carries(c), c.op # "refresh"
  PROVE  /\ Write(d, c) \in [Bookings -> Row]
         /\ Made(d) \subseteq Made(Write(d, c))
         /\ \A b \in Bookings, f \in Fields : Patches(c, b, f) => Write(d, c)[b][f] = Patch(c)
  <1> DEFINE w == Write(d, c)
  <1>0. \A b \in Bookings : d[b] \in Row
    OBVIOUS
  <1>1. CASE c.op \in {"confirm", "cancel", "no_show"}
    <2>1. c.id \in Bookings /\ DOMAIN c.base = {c.id}
      BY <1>1 DEF Carries
    <2>2. w = [d EXCEPT ![c.id] = [d[c.id] EXCEPT !.status = Patch(c)]] /\ Patch(c) \in Statuses
      <3>1. CASE c.op = "confirm"
        <4>1. Patch(c) = "confirmed"
          BY <3>1 DEF Patch
        <4>2. QED
          BY <3>1, <4>1 DEF Write, Statuses, Live
      <3>2. CASE c.op = "cancel"
        <4>1. Patch(c) = "cancelled"
          BY <3>2 DEF Patch
        <4>2. QED
          BY <3>2, <4>1 DEF Write, Statuses
      <3>3. CASE c.op = "no_show"
        <4>1. Patch(c) = "no_show"
          BY <3>3 DEF Patch
        <4>2. QED
          BY <3>3, <4>1 DEF Write, Statuses
      <3>4. QED
        BY <1>1, <3>1, <3>2, <3>3
    <2>3. Field(c) = "status"
      BY <1>1 DEF Field
    <2> DEFINE r == [d[c.id] EXCEPT !.status = Patch(c)]
    <2>4. r \in Row /\ r["status"] = Patch(c) /\ r.made = d[c.id].made
      BY <1>0, <2>1, <2>2, RowStatus
    <2>5. w = [d EXCEPT ![c.id] = r]
      BY <2>2
    <2> HIDE DEF r, w
    <2>6. w \in [Bookings -> Row] /\ Made(d) \subseteq Made(w)
      BY <2>1, <2>4, <2>5 DEF Made
    <2>7. \A b \in Bookings, f \in Fields : Patches(c, b, f) => w[b][f] = Patch(c)
      BY <2>1, <2>3, <2>4, <2>5 DEF Patches
    <2>8. QED
      BY <2>6, <2>7 DEF w
  <1>2. CASE c.op = "seen"
    <2>1. c.id \in Bookings /\ DOMAIN c.base = {c.id}
      BY <1>2 DEF Carries
    <2>2. w = [d EXCEPT ![c.id] = [d[c.id] EXCEPT !.attention = FALSE]] /\ Patch(c) = FALSE
      BY <1>2 DEF Write, Patch
    <2>3. Field(c) = "attention"
      BY <1>2 DEF Field
    <2> DEFINE r == [d[c.id] EXCEPT !.attention = FALSE]
    <2>4. r \in Row /\ r["attention"] = FALSE /\ r.made = d[c.id].made
      BY <1>0, <2>1, RowAttention
    <2>5. w = [d EXCEPT ![c.id] = r]
      BY <2>2
    <2> HIDE DEF r, w
    <2>6. w \in [Bookings -> Row] /\ Made(d) \subseteq Made(w)
      BY <2>1, <2>4, <2>5 DEF Made
    <2>7. \A b \in Bookings, f \in Fields : Patches(c, b, f) => w[b][f] = Patch(c)
      BY <2>1, <2>2, <2>3, <2>4, <2>5 DEF Patches
    <2>8. QED
      BY <2>6, <2>7 DEF w
  <1>3. CASE c.op = "all"
    <2>1. w = [b \in Bookings |-> [d[b] EXCEPT !.attention = FALSE]] /\ Patch(c) = FALSE
      BY <1>3 DEF Write, Patch
    <2>2. Field(c) = "attention"
      BY <1>3 DEF Field
    <2>3. \A b \in Bookings : w[b] \in Row /\ w[b]["attention"] = FALSE /\ w[b].made = d[b].made
      <3> SUFFICES ASSUME NEW b \in Bookings
                   PROVE  w[b] \in Row /\ w[b]["attention"] = FALSE /\ w[b].made = d[b].made
        OBVIOUS
      <3>1. w[b] = [d[b] EXCEPT !.attention = FALSE]
        BY <2>1
      <3> HIDE DEF w
      <3>2. d[b] \in Row
        OBVIOUS
      <3>3. QED
        BY <3>1, <3>2, RowAttention
    <2> HIDE DEF w
    <2>4. w \in [Bookings -> Row] /\ Made(d) \subseteq Made(w)
      BY <2>1, <2>3 DEF Made
    <2>5. \A b \in Bookings, f \in Fields : Patches(c, b, f) => w[b][f] = Patch(c)
      BY <2>1, <2>2, <2>3 DEF Patches
    <2>6. QED
      BY <2>4, <2>5 DEF w
  <1>4. CASE c.op \in {"move", "create"}
    <2>1. c.id \in Bookings /\ c.slot \in Slots /\ c.base = <<>>
      BY <1>4 DEF Carries
    <2> DEFINE r == IF c.op = "move" THEN [d[c.id] EXCEPT !.slot = c.slot]
                    ELSE [First[c.id] EXCEPT !.made = TRUE, !.slot = c.slot]
    <2>2. First[c.id] \in Row
      BY <2>1, AdminAssumption
    <2>3. r \in Row /\ (d[c.id].made => r.made)
      <3>1. CASE c.op = "move"
        <4>1. r = [d[c.id] EXCEPT !.slot = c.slot]
          BY <3>1
        <4>2. d[c.id] \in Row
          BY <2>1
        <4> HIDE DEF r
        <4>3. QED
          BY <2>1, <4>1, <4>2, RowSlot
      <3>2. CASE c.op = "create"
        <4>1. r = [First[c.id] EXCEPT !.made = TRUE, !.slot = c.slot]
          BY <3>2
        <4> HIDE DEF r
        <4>2. QED
          BY <2>1, <2>2, <4>1, RowSlot
      <3>3. QED
        BY <1>4, <3>1, <3>2
    <2>4. w = [d EXCEPT ![c.id] = r]
      BY <1>4 DEF Write
    <2> HIDE DEF r, w
    <2>5. w \in [Bookings -> Row] /\ Made(d) \subseteq Made(w)
      BY <2>1, <2>3, <2>4 DEF Made
    <2>6. \A b \in Bookings, f \in Fields : ~Patches(c, b, f)
      BY <2>1 DEF Patches
    <2>7. QED
      BY <2>5, <2>6 DEF w
  <1>5. QED
    BY <1>1, <1>2, <1>3, <1>4 DEF CallRec

-----------------------------------------------------------------------------
(* The queue. *)

\* Every call is well formed, and was allowed only what was chosen.
Calls(q) == q \in Seq(CallRec) /\ \A i \in DOMAIN q : Carries(q[i]) /\ Chosen(q[i])

\* Two calls that differ in their mount at most.
Alike(c, d) ==
  /\ d.hook = c.hook /\ d.op = c.op /\ d.id = c.id /\ d.slot = c.slot
  /\ d.allow = c.allow /\ d.read = c.read /\ d.edited = c.edited /\ d.base = c.base
  /\ d.at = c.at /\ d.result = c.result /\ d.page = c.page /\ d.where = c.where

\* What a reset or an unmounted component makes of a call.
LEMMA MountIs ==
  ASSUME NEW c \in CallRec, NEW how \in {"reset", "gone"}
  PROVE  /\ [c EXCEPT !.mount = how] \in CallRec
         /\ [c EXCEPT !.mount = how].mount = how
         /\ Alike(c, [c EXCEPT !.mount = how])
  BY DEF CallRec, Alike

LEMMA AlikeKeeps ==
  ASSUME NEW c, NEW d, Alike(c, d)
  PROVE  /\ Carries(c) => Carries(d)
         /\ Chosen(c) => Chosen(d)
         /\ \A e, m : Truthful(c, e, m) => Truthful(d, e, m)
  BY DEF Alike, Carries, Chosen, ForTime, Truthful, Patches, Patch, Field

LEMMA WithoutIs ==
  ASSUME NEW q \in Seq(CallRec), NEW hooks, NEW how \in {"reset", "gone"}
  PROVE  LET w == Without(q, hooks, how)
         IN /\ w \in Seq(CallRec) /\ DOMAIN w = DOMAIN q
            /\ \A i \in DOMAIN q :
                 /\ Alike(q[i], w[i])
                 /\ q[i].hook \notin hooks => w[i] = q[i]
                 /\ q[i].hook \in hooks => w[i].mount # "here"
  <1> DEFINE w == Without(q, hooks, how)
  <1>1. q \in [1 .. Len(q) -> CallRec] /\ Len(q) \in Nat /\ DOMAIN q = 1 .. Len(q)
    BY LenProperties
  <1>2. DOMAIN w = DOMAIN q
    BY DEF Without
  <1>3. \A i \in DOMAIN q : q[i] \in CallRec
    BY <1>1
  <1>4. ASSUME NEW i \in DOMAIN q
        PROVE  /\ w[i] \in CallRec /\ Alike(q[i], w[i])
               /\ q[i].hook \notin hooks => w[i] = q[i]
               /\ q[i].hook \in hooks => w[i].mount # "here"
    <2>1. q[i] \in CallRec
      BY <1>3
    <2>2. CASE q[i].hook \in hooks /\ q[i].mount # "gone"
      <3>1. w[i] = [q[i] EXCEPT !.mount = how]
        BY <2>2 DEF Without
      <3> HIDE DEF w
      <3>2. QED
        BY <2>1, <2>2, <3>1, MountIs
    <2>3. CASE ~(q[i].hook \in hooks /\ q[i].mount # "gone")
      <3>1. w[i] = q[i]
        BY <2>3 DEF Without
      <3> HIDE DEF w
      <3>2. QED
        BY <2>1, <2>3, <3>1 DEF Alike
    <2>4. QED
      BY <2>2, <2>3
  <1>5. w \in Seq(CallRec)
    <2>1. w = [i \in 1 .. Len(q) |-> w[i]]
      BY <1>1 DEF Without
    <2> HIDE DEF w
    <2>2. w \in [1 .. Len(q) -> CallRec]
      BY <1>1, <1>4, <2>1
    <2>3. QED
      BY <1>1, <2>2, SeqDef
  <1>6. QED
    BY <1>2, <1>4, <1>5

\* Calls let go of are the same calls.
LEMMA LetGoKeeps ==
  ASSUME NEW q, Calls(q), InOrder(q), NEW hooks, NEW how \in {"reset", "gone"}
  PROVE  LET w == Without(q, hooks, how)
         IN /\ Calls(w) /\ InOrder(w) /\ DOMAIN w = DOMAIN q /\ (w = <<>> <=> q = <<>>)
            /\ q # <<>> => Alike(Head(q), Head(w))
  <1> DEFINE w == Without(q, hooks, how)
  <1>1. q \in Seq(CallRec)
    BY DEF Calls
  <1>2. w \in Seq(CallRec) /\ DOMAIN w = DOMAIN q /\ \A i \in DOMAIN q : Alike(q[i], w[i])
    BY <1>1, WithoutIs
  <1> HIDE DEF w
  <1>3. Calls(w)
    BY <1>2, AlikeKeeps DEF Calls
  <1>4. InOrder(w)
    BY <1>2 DEF InOrder, Alike
  <1>5. Len(w) = Len(q) /\ Len(q) \in Nat /\ DOMAIN q = 1 .. Len(q)
    BY <1>1, <1>2
  <1>6. w = <<>> <=> q = <<>>
    BY <1>1, <1>2, <1>5, EmptySeq
  <1>7. q # <<>> => Alike(Head(q), Head(w))
    <2> SUFFICES ASSUME q # <<>> PROVE Alike(Head(q), Head(w))
      OBVIOUS
    <2>1. 1 \in DOMAIN q
      BY <1>1, <1>5, EmptySeq
    <2>2. Head(q) = q[1] /\ Head(w) = w[1]
      BY <1>1, <1>2, <1>6
    <2>3. QED
      BY <1>2, <2>1, <2>2
  <1>8. QED
    BY <1>2, <1>3, <1>4, <1>6, <1>7 DEF w

\* A sheet that lets go of its call waits for none; another's call is not touched.
LEMMA LetGoWaits ==
  ASSUME NEW q \in Seq(CallRec), NEW hooks, NEW how \in {"reset", "gone"}, NEW h, NEW s, NEW e
  PROVE  LET w == Without(q, hooks, how)
         IN /\ h \in hooks => ~Out(h, w)
            /\ Out(h, w) => Out(h, q)
            /\ Waits(q, h, s, e) => Waits(w, h, s, e)
  <1> DEFINE w == Without(q, hooks, how)
  <1>1. /\ DOMAIN w = DOMAIN q
        /\ \A i \in DOMAIN q : /\ Alike(q[i], w[i])
                               /\ q[i].hook \notin hooks => w[i] = q[i]
                               /\ q[i].hook \in hooks => w[i].mount # "here"
    BY WithoutIs
  <1> HIDE DEF w
  <1>2. h \in hooks => ~Out(h, w)
    BY <1>1 DEF Out, Alike
  <1>3. h \notin hooks => \A i \in DOMAIN q : (w[i].hook = h <=> q[i].hook = h) /\ (q[i].hook = h => w[i] = q[i])
    BY <1>1 DEF Alike
  <1>4. Out(h, w) => Out(h, q)
    BY <1>1, <1>2, <1>3 DEF Out
  <1>5. Waits(q, h, s, e) => Waits(w, h, s, e)
    <2>1. CASE h \in hooks
      BY <1>1, <1>2, <2>1 DEF Waits, Out
    <2>2. CASE h \notin hooks
      BY <1>1, <1>3, <2>2 DEF Waits
    <2>3. QED
      BY <2>1, <2>2
  <1>6. QED
    BY <1>2, <1>4, <1>5 DEF w

\* The oldest call leaves.
LEMMA TailKeeps ==
  ASSUME NEW q, Calls(q), InOrder(q), q # <<>>
  PROVE  /\ Calls(Tail(q)) /\ InOrder(Tail(q))
         /\ Tail(q) # <<>> => Head(Tail(q)).at = "sent"
         /\ \A h, s, e : /\ Waits(q, h, s, e) => Waits(Tail(q), h, s, e)
                         /\ Out(h, Tail(q)) => Out(h, q)
  <1> DEFINE t == Tail(q)
  <1>1. q \in Seq(CallRec) /\ Len(q) \in Nat /\ DOMAIN q = 1 .. Len(q)
    BY DEF Calls
  <1>2. t \in Seq(CallRec) /\ Len(t) = Len(q) - 1 /\ Len(q) > 0
    BY <1>1, HeadTailProperties
  <1>3. \A i \in 1 .. Len(t) : t[i] = q[i + 1]
    BY <1>1, <1>2
  <1>4. DOMAIN t = 1 .. Len(t) /\ \A i \in DOMAIN t : (i + 1) \in DOMAIN q /\ i + 1 # 1
    BY <1>1, <1>2
  <1> HIDE DEF t
  <1>5. Calls(t)
    BY <1>2, <1>3, <1>4 DEF Calls
  <1>6. \A i \in DOMAIN t : t[i].at = "sent"
    BY <1>3, <1>4 DEF InOrder
  <1>7. t # <<>> => Head(t).at = "sent"
    <2> SUFFICES ASSUME t # <<>> PROVE Head(t).at = "sent"
      OBVIOUS
    <2>1. Head(t) = t[1] /\ 1 \in DOMAIN t
      BY <1>2, <1>4, EmptySeq
    <2>2. QED
      BY <1>6, <2>1
  <1>8. ASSUME NEW h, NEW s, NEW e, Waits(q, h, s, e) PROVE Waits(t, h, s, e)
    <2> SUFFICES ASSUME NEW i \in DOMAIN t, t[i].hook = h, t[i].mount = "here",
                        \A j \in DOMAIN t : j > i => ~(t[j].hook = h /\ t[j].mount = "here")
                 PROVE  t[i].slot = s \/ e
      BY DEF Waits
    <2>1. i \in Nat /\ (i + 1) \in DOMAIN q /\ q[i + 1] = t[i]
      BY <1>2, <1>3, <1>4
    <2>2. ASSUME NEW j \in DOMAIN q, j > i + 1 PROVE ~(q[j].hook = h /\ q[j].mount = "here")
      <3>1. (j - 1) \in DOMAIN t /\ j - 1 > i /\ (j - 1) + 1 = j
        BY <1>1, <1>2, <1>4, <2>1, <2>2
      <3>2. t[j - 1] = q[j]
        BY <1>3, <1>4, <3>1
      <3>3. QED
        BY <3>1, <3>2
    <2>3. QED
      BY <1>8, <2>1, <2>2 DEF Waits
  <1>9. ASSUME NEW h, Out(h, t) PROVE Out(h, q)
    BY <1>3, <1>4, <1>9 DEF Out
  <1>10. QED
    BY <1>5, <1>6, <1>7, <1>8, <1>9 DEF InOrder, t

\* A call is sent.
LEMMA AppendKeeps ==
  ASSUME NEW q, Calls(q), InOrder(q), NEW c \in CallRec, Carries(c), Chosen(c), c.at = "sent"
  PROVE  /\ Calls(Append(q, c)) /\ InOrder(Append(q, c)) /\ Append(q, c) # <<>>
         /\ q # <<>> => Head(Append(q, c)) = Head(q)
         /\ q = <<>> => Head(Append(q, c)) = c
         /\ \A h, s, e :
              /\ c.hook # h /\ Waits(q, h, s, e) => Waits(Append(q, c), h, s, e)
              /\ c.hook # h /\ Out(h, Append(q, c)) => Out(h, q)
              /\ c.hook = h /\ c.mount = "here" /\ c.slot = s => Waits(Append(q, c), h, s, e)
  <1> DEFINE a == Append(q, c)
  <1>1. q \in Seq(CallRec) /\ Len(q) \in Nat /\ DOMAIN q = 1 .. Len(q)
    BY DEF Calls
  <1>2. /\ a \in Seq(CallRec) /\ Len(a) = Len(q) + 1 /\ DOMAIN a = 1 .. (Len(q) + 1)
        /\ \A i \in 1 .. Len(q) : a[i] = q[i]
        /\ a[Len(q) + 1] = c
    BY <1>1, AppendProperties
  <1>3. a # <<>>
    BY <1>1, <1>2, EmptySeq
  <1>4. Head(a) = a[1]
    BY <1>2, <1>3
  <1> HIDE DEF a
  <1>5. \A i \in DOMAIN a : (i \in DOMAIN q /\ a[i] = q[i]) \/ (i = Len(q) + 1 /\ a[i] = c)
    BY <1>1, <1>2
  <1>6. Calls(a)
    BY <1>2, <1>5 DEF Calls
  <1>7. InOrder(a)
    BY <1>5 DEF InOrder
  <1>8. /\ q # <<>> => Head(a) = Head(q)
        /\ q = <<>> => Head(a) = c
    <2>1. CASE q = <<>>
      <3>1. Len(q) = 0
        BY <2>1
      <3>2. QED
        BY <1>2, <1>4, <2>1, <3>1
    <2>2. CASE q # <<>>
      <3>1. 1 \in 1 .. Len(q) /\ Head(q) = q[1]
        BY <1>1, <2>2, EmptySeq
      <3>2. QED
        BY <1>2, <1>4, <2>2, <3>1
    <2>3. QED
      BY <2>1, <2>2
  <1>9. ASSUME NEW h, NEW s, NEW e
        PROVE  /\ c.hook # h /\ Waits(q, h, s, e) => Waits(a, h, s, e)
               /\ c.hook # h /\ Out(h, a) => Out(h, q)
               /\ c.hook = h /\ c.mount = "here" /\ c.slot = s => Waits(a, h, s, e)
    <2>1. c.hook # h /\ Waits(q, h, s, e) => Waits(a, h, s, e)
      <3>1. DOMAIN q \subseteq DOMAIN a /\ \A i \in DOMAIN q : a[i] = q[i]
        BY <1>1, <1>2
      <3>2. QED
        BY <1>5, <3>1 DEF Waits
    <2>2. c.hook # h /\ Out(h, a) => Out(h, q)
      BY <1>5 DEF Out
    <2>3. c.hook = h /\ c.mount = "here" /\ c.slot = s => Waits(a, h, s, e)
      <3> SUFFICES ASSUME c.hook = h, c.mount = "here", c.slot = s,
                          NEW i \in DOMAIN a,
                          \A j \in DOMAIN a : j > i => ~(a[j].hook = h /\ a[j].mount = "here")
                   PROVE  a[i].slot = s
        BY DEF Waits
      <3>1. (Len(q) + 1) \in DOMAIN a /\ i \in 1 .. (Len(q) + 1)
        BY <1>1, <1>2
      <3>2. i = Len(q) + 1
        BY <1>1, <1>2, <3>1
      <3>3. QED
        BY <1>2, <3>2
    <2>4. QED
      BY <2>1, <2>2, <2>3
  <1>10. QED
    BY <1>3, <1>6, <1>7, <1>8, <1>9 DEF a

\* The server answers the oldest call.
LEMMA AnswerKeeps ==
  ASSUME NEW q, Calls(q), InOrder(q), q # <<>>, NEW d \in CallRec,
         d.hook = Head(q).hook, d.op = Head(q).op, d.id = Head(q).id, d.slot = Head(q).slot,
         d.allow = Head(q).allow, d.read = Head(q).read, d.edited = Head(q).edited,
         d.base = Head(q).base, d.mount = Head(q).mount
  PROVE  LET r == [q EXCEPT ![1] = d]
         IN /\ Calls(r) /\ InOrder(r) /\ r # <<>> /\ Head(r) = d
            /\ \A h, s, e : /\ Waits(q, h, s, e) => Waits(r, h, s, e)
                            /\ Out(h, r) => Out(h, q)
  <1> DEFINE r == [q EXCEPT ![1] = d]
  <1>1. q \in Seq(CallRec) /\ Len(q) \in Nat /\ DOMAIN q = 1 .. Len(q)
    BY DEF Calls
  <1>2. 1 \in DOMAIN q /\ Head(q) = q[1]
    BY <1>1, EmptySeq
  <1>3. r \in Seq(CallRec) /\ Len(r) = Len(q) /\ DOMAIN r = DOMAIN q
    BY <1>1, <1>2
  <1>4. r[1] = d /\ \A i \in DOMAIN q : i # 1 => r[i] = q[i]
    BY <1>2
  <1> HIDE DEF r
  <1>5. r # <<>> /\ Head(r) = d
    BY <1>1, <1>2, <1>3, <1>4, EmptySeq
  <1>6. Carries(d) /\ Chosen(d)
    <2>1. Carries(q[1]) /\ Chosen(q[1])
      BY <1>2 DEF Calls
    <2>2. QED
      BY <1>2, <2>1 DEF Carries, Chosen, ForTime
  <1>7. \A i \in DOMAIN q : Carries(r[i]) /\ Chosen(r[i])
    BY <1>4, <1>6 DEF Calls
  <1>8. Calls(r)
    BY <1>3, <1>7 DEF Calls
  <1>9. InOrder(r)
    BY <1>3, <1>4 DEF InOrder
  <1>10. \A i \in DOMAIN q : r[i].hook = q[i].hook /\ r[i].mount = q[i].mount /\ r[i].slot = q[i].slot
    BY <1>2, <1>4
  <1>11. \A h, s, e : (Waits(q, h, s, e) => Waits(r, h, s, e)) /\ (Out(h, r) => Out(h, q))
    BY <1>3, <1>10 DEF Waits, Out
  <1>12. QED
    BY <1>5, <1>8, <1>9, <1>11 DEF r

-----------------------------------------------------------------------------
(* What the owner does: the page, the holds and the rows stay. *)

\* The sheets, apart from what was chosen for the calls already sent.
SheetsWait ==
  /\ detail # None => ForTime(detail.clash, detail.slot, detail.edited)
                      /\ Waits(queue, Hook("move"), detail.slot, detail.edited)
  /\ detail = None => ~Out(Hook("move"), queue)
  /\ ForTime(create.clash, create.slot, create.edited)
  /\ Waits(queue, Hook("create"), create.slot, create.edited)

LEMMA InvParts ==
  ASSUME IInv
  PROVE  Calls(queue) /\ InOrder(queue) /\ Store(holds, now) /\ SheetsWait
  BY DEF IInv, Typed, SheetsRead, Calls, Store, SheetsWait

LEMMA OwnerFrame ==
  ASSUME IInv, UNCHANGED <<db, now, screen, page, holds, display, mine>>,
         Calls(queue)', InOrder(queue)', Answered', SheetsWait',
         create' \in Forms, SheetInPlace'
  PROVE  IInv'
  <1>1. Typed'
    BY DEF IInv, Typed, Calls
  <1>2. Listed' /\ Overlaid'
    BY DEF IInv, Listed, Overlaid, Made
  <1>3. SheetsRead'
    BY DEF SheetsRead, SheetsWait, Calls
  <1>4. QED
    BY <1>1, <1>2, <1>3 DEF IInv

\* What a tap sends.
Sent(hook, op, id, more) ==
  [hook |-> hook, op |-> op, id |-> id, slot |-> more.slot, allow |-> more.allow,
   read |-> more.read, edited |-> more.edited, base |-> more.base,
   mount |-> "here", at |-> "sent", result |-> None, page |-> None, where |-> screen]

LEMMA SendKeeps ==
  ASSUME IInv, NEW hook, NEW op, NEW id, NEW more, Send(hook, op, id, more),
         UNCHANGED <<db, mine>>,
         Sent(hook, op, id, more) \in CallRec, Carries(Sent(hook, op, id, more)),
         Chosen(Sent(hook, op, id, more))
  PROVE  /\ Calls(queue)' /\ InOrder(queue)' /\ Answered'
         /\ \A h, s, e :
              /\ hook # h /\ Waits(queue, h, s, e) => Waits(queue', h, s, e)
              /\ hook # h /\ Out(h, queue') => Out(h, queue)
              /\ hook = h /\ more.slot = s => Waits(queue', h, s, e)
  <1> DEFINE c == Sent(hook, op, id, more)
  <1>1. queue' = Append(queue, c)
    BY DEF Send, Sent
  <1>2. c.at = "sent" /\ c.mount = "here" /\ c.hook = hook /\ c.slot = more.slot
    BY DEF Sent
  <1>3. Calls(queue) /\ InOrder(queue) /\ (queue # <<>> => Truthful(Head(queue), db, mine))
    BY InvParts DEF IInv, Answered
  <1> HIDE DEF c
  <1>4. c \in CallRec /\ Carries(c) /\ Chosen(c)
    BY DEF c
  <1>5. /\ Calls(queue') /\ InOrder(queue') /\ queue' # <<>>
        /\ queue # <<>> => Head(queue') = Head(queue)
        /\ queue = <<>> => Head(queue') = c
        /\ \A h, s, e :
             /\ c.hook # h /\ Waits(queue, h, s, e) => Waits(queue', h, s, e)
             /\ c.hook # h /\ Out(h, queue') => Out(h, queue)
             /\ c.hook = h /\ c.mount = "here" /\ c.slot = s => Waits(queue', h, s, e)
    BY <1>1, <1>2, <1>3, <1>4, AppendKeeps
  <1>6. Truthful(c, db, mine)
    BY <1>2 DEF Truthful
  <1>7. Truthful(Head(queue'), db, mine)
    BY <1>3, <1>5, <1>6
  <1>8. Answered'
    BY <1>7 DEF Answered
  <1>9. QED
    BY <1>2, <1>5, <1>8 DEF Calls, InOrder

\* The buttons that send only which booking they are of.
LEMMA PlainIs ==
  ASSUME IInv, NEW hook, NEW op, NEW id, NEW rows, rows \subseteq DOMAIN display,
         \/ /\ op \in {"seen", "confirm", "cancel", "no_show"} /\ rows = {id}
            /\ hook \in {Hook(op)} \cup {<<"row", b>> : b \in Bookings}
         \/ op = "all" /\ id = None /\ hook = Hook("all")
  PROVE  /\ Sent(hook, op, id, Plain(rows)) \in CallRec
         /\ Carries(Sent(hook, op, id, Plain(rows)))
         /\ Chosen(Sent(hook, op, id, Plain(rows)))
         /\ hook # Hook("move") /\ hook # Hook("create")
  <1> DEFINE c == Sent(hook, op, id, Plain(rows))
  <1>1. display \in Displays /\ screen \in {"day", "changes"}
    BY DEF IInv, Typed
  <1>2. /\ c.hook = hook /\ c.op = op /\ c.id = id /\ c.slot = None /\ c.allow = FALSE
        /\ c.read = None /\ c.edited = FALSE /\ c.base = [b \in rows |-> display[b]]
        /\ c.mount = "here" /\ c.at = "sent" /\ c.result = None /\ c.page = None /\ c.where = screen
    BY DEF Sent, Plain
  <1>3. c = [hook |-> c.hook, op |-> c.op, id |-> c.id, slot |-> c.slot, allow |-> c.allow,
             read |-> c.read, edited |-> c.edited, base |-> c.base, mount |-> c.mount,
             at |-> c.at, result |-> c.result, page |-> c.page, where |-> c.where]
    BY DEF Sent
  <1>4. DOMAIN display \subseteq Bookings /\ \A b \in DOMAIN display : display[b] \in Faces
    BY <1>1 DEF Displays
  <1>5. [b \in rows |-> display[b]] \in Displays
    <2>1. rows \in SUBSET Bookings
      BY <1>4
    <2>2. [b \in rows |-> display[b]] \in [rows -> Faces]
      BY <1>4
    <2>3. QED
      BY <2>1, <2>2 DEF Displays
  <1>6. hook # Hook("move") /\ hook # Hook("create") /\ hook \in Hooks
    BY DEF Hook, Hooks
  <1>7. id \in Bookings \cup {None} /\ (op # "all" => id \in Bookings)
    BY <1>4
  <1> HIDE DEF c
  <1>8. c \in CallRec
    BY <1>1, <1>2, <1>3, <1>5, <1>6, <1>7 DEF CallRec
  <1>9. Carries(c)
    <2>1. op \notin {"move", "create", "refresh"} /\ (op # "all" => DOMAIN c.base = {id})
      BY <1>2
    <2>2. QED
      BY <1>2, <1>6, <1>7, <2>1 DEF Carries
  <1>10. Chosen(c)
    BY <1>2 DEF Chosen
  <1>11. QED
    BY <1>6, <1>8, <1>9, <1>10 DEF c

\* A button of the sheet, of a row or of the list.
LEMMA PlainStep ==
  ASSUME IInv, NEW hook, NEW op, NEW id, NEW rows, rows \subseteq DOMAIN display,
         \/ /\ op \in {"seen", "confirm", "cancel", "no_show"} /\ rows = {id}
            /\ hook \in {Hook(op)} \cup {<<"row", b>> : b \in Bookings}
         \/ op = "all" /\ id = None /\ hook = Hook("all"),
         Send(hook, op, id, Plain(rows)),
         UNCHANGED <<db, now, screen, page, holds, display, detail, create, mine>>
  PROVE  IInv'
  <1>1. /\ Sent(hook, op, id, Plain(rows)) \in CallRec
        /\ Carries(Sent(hook, op, id, Plain(rows)))
        /\ Chosen(Sent(hook, op, id, Plain(rows)))
        /\ hook # Hook("move") /\ hook # Hook("create")
    BY PlainIs
  <1>2. /\ Calls(queue)' /\ InOrder(queue)' /\ Answered'
        /\ \A h, s, e :
             /\ hook # h /\ Waits(queue, h, s, e) => Waits(queue', h, s, e)
             /\ hook # h /\ Out(h, queue') => Out(h, queue)
    BY <1>1, SendKeeps
  <1>3. SheetsWait
    BY InvParts
  <1>4. SheetsWait'
    BY <1>1, <1>2, <1>3 DEF SheetsWait
  <1>5. create' \in Forms /\ SheetInPlace'
    BY DEF IInv, Typed, SheetInPlace
  <1>6. QED
    BY <1>2, <1>4, <1>5, OwnerFrame

LEMMA SheetRows ==
  ASSUME IInv, detail # None
  PROVE  /\ detail \in Sheets /\ screen = "day" /\ detail.b \in DOMAIN display
         /\ {detail.b} \subseteq DOMAIN display
  BY DEF IInv, SheetInPlace, Typed

LEMMA SeenStep ==
  ASSUME IInv, detail # None, Seen, UNCHANGED <<db, now, screen, page, holds, display, create, mine>>
  PROVE  IInv'
  BY SheetRows, PlainStep DEF Seen

LEMMA ConfirmStep ==
  ASSUME IInv, detail # None, ConfirmBooking,
         UNCHANGED <<db, now, screen, page, holds, display, create, mine>>
  PROVE  IInv'
  BY SheetRows, PlainStep DEF ConfirmBooking

LEMMA ConfirmAskedStep ==
  ASSUME IInv, detail # None, ConfirmAsked,
         UNCHANGED <<db, now, screen, page, holds, display, create, mine>>
  PROVE  IInv'
  <1>1. detail.confirming \in {"cancel", "no_show"}
    BY SheetRows DEF ConfirmAsked, Sheets
  <1>2. QED
    BY <1>1, SheetRows, PlainStep DEF ConfirmAsked

LEMMA SeenRowStep ==
  ASSUME IInv, SeenRow PROVE IInv'
  <1>1. PICK b \in DOMAIN display : Send(<<"row", b>>, "seen", b, Plain({b}))
    BY DEF SeenRow
  <1>2. b \in Bookings /\ {b} \subseteq DOMAIN display
    BY DEF IInv, Typed, Displays
  <1>3. UNCHANGED <<db, now, screen, page, holds, display, detail, create, mine>>
    BY DEF SeenRow
  <1>4. QED
    BY <1>1, <1>2, <1>3, PlainStep

LEMMA SeenAllStep ==
  ASSUME IInv, SeenAll PROVE IInv'
  BY PlainStep DEF SeenAll

\* The sheets change and no call does.
LEMMA SheetStep ==
  ASSUME IInv, UNCHANGED <<db, now, screen, page, holds, display, queue, mine>>,
         create' \in Forms, SheetInPlace', SheetsWait'
  PROVE  IInv'
  <1>1. Calls(queue)' /\ InOrder(queue)' /\ Answered'
    BY InvParts DEF IInv, Answered, Calls, InOrder
  <1>2. QED
    BY <1>1, OwnerFrame

LEMMA OpenDetailStep ==
  ASSUME IInv, OpenDetail PROVE IInv'
  <1>1. PICK b \in DOMAIN display :
          detail' = [b |-> b, slot |-> page[b].slot, clash |-> None,
                     edited |-> FALSE, confirming |-> None]
    BY DEF OpenDetail
  <1>2. b \in DOMAIN page /\ page \in Pages
    BY DEF IInv, Typed
  <1>3. b \in Bookings /\ page[b].slot \in Slots
    BY <1>2, PageRow DEF Row
  <1>4. detail' \in Sheets /\ detail'.b \in DOMAIN page
    BY <1>1, <1>2, <1>3 DEF Sheets
  <1>5. screen = "day" /\ UNCHANGED <<db, now, screen, page, holds, display, queue, mine, create>>
    BY DEF OpenDetail
  <1>6. SheetInPlace'
    BY <1>4, <1>5 DEF SheetInPlace
  <1>7. ~Out(Hook("move"), queue)
    BY InvParts DEF OpenDetail, SheetsWait
  <1>8. \A s, e : Waits(queue, Hook("move"), s, e)
    BY <1>7 DEF Out, Waits
  <1>9. SheetsWait'
    <2>1. detail'.clash = None
      BY <1>1
    <2>2. QED
      BY <1>5, <1>7, <1>8, <2>1, InvParts DEF SheetsWait, ForTime
  <1>10. create' \in Forms
    BY <1>5 DEF IInv, Typed
  <1>11. QED
    BY <1>5, <1>6, <1>9, <1>10, SheetStep

\* What a change of the sheet keeps.
LEMMA AskSteps ==
  ASSUME IInv, detail # None, Ask \/ Reconsider,
         UNCHANGED <<db, now, screen, page, holds, display, create, mine>>
  PROVE  IInv'
  <1>1. PICK q \in {None, "cancel", "no_show"} : detail' = [detail EXCEPT !.confirming = q]
    BY AdminAssumption DEF Ask, Reconsider
  <1>2. detail \in Sheets /\ screen = "day" /\ detail.b \in DOMAIN page
    BY SheetRows DEF IInv, Typed
  <1>3. /\ detail' \in Sheets /\ detail'.b = detail.b /\ detail'.slot = detail.slot
        /\ detail'.clash = detail.clash /\ detail'.edited = detail.edited
    BY <1>1, <1>2 DEF Sheets
  <1>4. SheetInPlace' /\ create' \in Forms
    BY <1>2, <1>3 DEF SheetInPlace, IInv, Typed
  <1>5. UNCHANGED queue
    BY DEF Ask, Reconsider
  <1>6. SheetsWait /\ (detail = None => ~Out(Hook("move"), queue))
    BY InvParts DEF SheetsWait
  <1>7. detail' # None
    BY <1>3, AdminAssumption
  <1>8. SheetsWait'
    BY <1>3, <1>5, <1>6, <1>7 DEF SheetsWait
  <1>9. QED
    BY <1>4, <1>5, <1>8, SheetStep

\* A sheet whose time is changed owns up to it, to the clash and to the call that is out.
LEMMA EditMoveStep ==
  ASSUME IInv, detail # None, EditMove,
         UNCHANGED <<db, now, screen, page, holds, display, create, mine>>
  PROVE  IInv'
  <1>1. PICK s \in Slots : detail' = [detail EXCEPT !.slot = s,
                             !.edited = (detail.clash # None \/ Out(Hook("move"), queue))]
    BY DEF EditMove
  <1>2. detail \in Sheets /\ screen = "day" /\ detail.b \in DOMAIN page
    BY SheetRows DEF IInv, Typed
  <1>3. (detail.clash # None \/ Out(Hook("move"), queue)) \in BOOLEAN
    BY DEF Out
  <1>4. /\ detail' \in Sheets /\ detail'.b = detail.b /\ detail'.clash = detail.clash
        /\ detail'.edited = (detail.clash # None \/ Out(Hook("move"), queue))
    BY <1>1, <1>2, <1>3 DEF Sheets
  <1>5. SheetInPlace' /\ create' \in Forms /\ UNCHANGED queue
    BY <1>2, <1>4 DEF SheetInPlace, IInv, Typed, EditMove
  <1>6. detail' # None
    BY <1>4, AdminAssumption
  <1>7. ForTime(detail'.clash, detail'.slot, detail'.edited)
    BY <1>4 DEF ForTime
  <1>8. Waits(queue, Hook("move"), detail'.slot, detail'.edited)
    <2>1. CASE Out(Hook("move"), queue)
      BY <1>4, <2>1 DEF Waits
    <2>2. CASE ~Out(Hook("move"), queue)
      BY <2>2 DEF Waits, Out
    <2>3. QED
      BY <2>1, <2>2
  <1>9. SheetsWait'
    BY <1>5, <1>6, <1>7, <1>8, InvParts DEF SheetsWait
  <1>10. QED
    BY <1>5, <1>9, SheetStep

LEMMA EditNewStep ==
  ASSUME IInv, EditNew, UNCHANGED <<db, now, screen, page, holds, display, detail, mine>>
  PROVE  IInv'
  <1>1. PICK s \in Slots : create' = [create EXCEPT !.slot = s,
                             !.edited = (create.clash # None \/ Out(Hook("create"), queue))]
    BY DEF EditNew
  <1>2. create \in Forms
    BY DEF IInv, Typed
  <1>3. (create.clash # None \/ Out(Hook("create"), queue)) \in BOOLEAN
    BY DEF Out
  <1>4. /\ create' \in Forms /\ create'.clash = create.clash
        /\ create'.edited = (create.clash # None \/ Out(Hook("create"), queue))
    BY <1>1, <1>2, <1>3 DEF Forms
  <1>5. SheetInPlace' /\ UNCHANGED queue
    BY DEF SheetInPlace, IInv, EditNew
  <1>6. ForTime(create'.clash, create'.slot, create'.edited)
    BY <1>4 DEF ForTime
  <1>7. Waits(queue, Hook("create"), create'.slot, create'.edited)
    <2>1. CASE Out(Hook("create"), queue)
      BY <1>4, <2>1 DEF Waits
    <2>2. CASE ~Out(Hook("create"), queue)
      BY <2>2 DEF Waits, Out
    <2>3. QED
      BY <2>1, <2>2
  <1>8. SheetsWait'
    BY <1>5, <1>6, <1>7, InvParts DEF SheetsWait
  <1>9. QED
    BY <1>4, <1>5, <1>8, SheetStep

LEMMA OpenNewStep ==
  ASSUME IInv, OpenNew, UNCHANGED <<db, now, screen, page, holds, display, detail, mine>>
  PROVE  IInv'
  <1>1. create \in Forms
    BY DEF IInv, Typed
  <1>2. /\ create' \in Forms /\ create'.clash = create.clash
        /\ create'.edited = create.edited /\ create'.slot = create.slot
    BY <1>1 DEF OpenNew, Forms
  <1>3. SheetInPlace' /\ UNCHANGED queue
    BY DEF SheetInPlace, IInv, OpenNew
  <1>4. SheetsWait'
    BY <1>2, <1>3, InvParts DEF SheetsWait
  <1>5. QED
    BY <1>2, <1>3, <1>4, SheetStep

\* The two calls that may overlap: what was read goes with the call.
LEMMA PlacingIs ==
  ASSUME IInv, NEW op \in {"move", "create"}, NEW id \in Bookings, NEW more,
         more.slot \in Slots, more.allow \in BOOLEAN, more.read \in {None} \cup ClashRec,
         more.edited \in BOOLEAN, more.base = <<>>,
         more.allow => more.read # None, ForTime(more.read, more.slot, more.edited)
  PROVE  LET c == Sent(Hook(op), op, id, more) IN c \in CallRec /\ Carries(c) /\ Chosen(c)
  <1> DEFINE c == Sent(Hook(op), op, id, more)
  <1>1. screen \in {"day", "changes"}
    BY DEF IInv, Typed
  <1>2. /\ c.hook = Hook(op) /\ c.op = op /\ c.id = id /\ c.slot = more.slot /\ c.allow = more.allow
        /\ c.read = more.read /\ c.edited = more.edited /\ c.base = more.base
        /\ c.mount = "here" /\ c.at = "sent" /\ c.result = None /\ c.page = None /\ c.where = screen
    BY DEF Sent
  <1>3. c = [hook |-> c.hook, op |-> c.op, id |-> c.id, slot |-> c.slot, allow |-> c.allow,
             read |-> c.read, edited |-> c.edited, base |-> c.base, mount |-> c.mount,
             at |-> c.at, result |-> c.result, page |-> c.page, where |-> c.where]
    BY DEF Sent
  <1>4. <<>> \in Displays
    <2>1. <<>> \in [{} -> Faces]
      OBVIOUS
    <2>2. {} \in SUBSET Bookings
      OBVIOUS
    <2>3. QED
      BY <2>1, <2>2 DEF Displays
  <1>5. /\ (op = "move" <=> Hook(op) = Hook("move")) /\ (op = "create" <=> Hook(op) = Hook("create"))
        /\ Hook(op) \in Hooks
    BY DEF Hook, Hooks
  <1> HIDE DEF c
  <1>6. c \in CallRec
    BY <1>1, <1>2, <1>3, <1>4, <1>5 DEF CallRec
  <1>7. Carries(c)
    BY <1>2, <1>5 DEF Carries
  <1>8. Chosen(c)
    BY <1>2 DEF Chosen
  <1>9. QED
    BY <1>6, <1>7, <1>8 DEF c

LEMMA MoveStep ==
  ASSUME IInv, detail # None, Move, UNCHANGED <<db, now, screen, page, holds, display, create, mine>>
  PROVE  IInv'
  <1>1. PICK allow \in {FALSE} \cup (IF detail.clash = None THEN {} ELSE {TRUE}) :
          Send(Hook("move"), "move", detail.b,
               [slot |-> detail.slot, allow |-> allow, read |-> detail.clash,
                edited |-> detail.edited, base |-> <<>>])
    BY DEF Move
  <1> DEFINE more == [slot |-> detail.slot, allow |-> allow, read |-> detail.clash,
                      edited |-> detail.edited, base |-> <<>>]
  <1>2. detail \in Sheets /\ screen = "day" /\ detail.b \in DOMAIN page /\ SheetsWait
    BY SheetRows, InvParts DEF IInv, Typed
  <1>3. ForTime(detail.clash, detail.slot, detail.edited)
    BY <1>2 DEF SheetsWait
  <1>4. /\ more.slot = detail.slot /\ more.allow = allow /\ more.read = detail.clash
        /\ more.edited = detail.edited /\ more.base = <<>>
    OBVIOUS
  <1>5. allow \in BOOLEAN /\ (allow => detail.clash # None)
    OBVIOUS
  <1>6. detail.b \in Bookings /\ detail.slot \in Slots /\ detail.clash \in {None} \cup ClashRec
        /\ detail.edited \in BOOLEAN
    BY <1>2 DEF Sheets
  <1>7. detail' = [detail EXCEPT !.clash = None, !.edited = FALSE]
    BY DEF Move
  <1>8. /\ detail' \in Sheets /\ detail'.b = detail.b /\ detail'.slot = detail.slot
        /\ detail'.clash = None
    BY <1>2, <1>7 DEF Sheets
  <1>9. detail' # None
    BY <1>8, AdminAssumption
  <1> HIDE DEF more
  <1>10. LET c == Sent(Hook("move"), "move", detail.b, more)
         IN c \in CallRec /\ Carries(c) /\ Chosen(c)
    BY <1>3, <1>4, <1>5, <1>6, PlacingIs
  <1>11. Send(Hook("move"), "move", detail.b, more)
    BY <1>1 DEF more
  <1>12. /\ Calls(queue)' /\ InOrder(queue)' /\ Answered'
         /\ \A h, s, e :
              /\ Hook("move") # h /\ Waits(queue, h, s, e) => Waits(queue', h, s, e)
              /\ Hook("move") = h /\ more.slot = s => Waits(queue', h, s, e)
    BY <1>10, <1>11, SendKeeps
  <1>13. Hook("move") # Hook("create")
    BY DEF Hook
  <1>14. SheetsWait'
    <2>1. Waits(queue', Hook("move"), detail'.slot, detail'.edited)
      BY <1>4, <1>8, <1>12
    <2>2. Waits(queue', Hook("create"), create.slot, create.edited)
      BY <1>2, <1>12, <1>13 DEF SheetsWait
    <2>3. QED
      BY <1>2, <1>8, <1>9, <2>1, <2>2 DEF SheetsWait, ForTime
  <1>15. SheetInPlace' /\ create' \in Forms
    BY <1>2, <1>8 DEF SheetInPlace, IInv, Typed
  <1>16. QED
    BY <1>12, <1>14, <1>15, OwnerFrame

LEMMA SubmitStep ==
  ASSUME IInv, SubmitNew, UNCHANGED <<db, now, screen, page, holds, display, detail, mine>>
  PROVE  IInv'
  <1>1. PICK b \in Bookings,
             allow \in {FALSE} \cup (IF create.clash = None THEN {} ELSE {TRUE}) :
          Send(Hook("create"), "create", b,
               [slot |-> create.slot, allow |-> allow, read |-> create.clash,
                edited |-> create.edited, base |-> <<>>])
    BY DEF SubmitNew
  <1> DEFINE more == [slot |-> create.slot, allow |-> allow, read |-> create.clash,
                      edited |-> create.edited, base |-> <<>>]
  <1>2. create \in Forms /\ SheetsWait
    BY InvParts DEF IInv, Typed
  <1>3. ForTime(create.clash, create.slot, create.edited)
    BY <1>2 DEF SheetsWait
  <1>4. /\ more.slot = create.slot /\ more.allow = allow /\ more.read = create.clash
        /\ more.edited = create.edited /\ more.base = <<>>
    OBVIOUS
  <1>5. allow \in BOOLEAN /\ (allow => create.clash # None)
    OBVIOUS
  <1>6. create.slot \in Slots /\ create.clash \in {None} \cup ClashRec /\ create.edited \in BOOLEAN
    BY <1>2 DEF Forms
  <1>7. create' = [create EXCEPT !.clash = None, !.edited = FALSE]
    BY DEF SubmitNew
  <1>8. create' \in Forms /\ create'.slot = create.slot /\ create'.clash = None
    BY <1>2, <1>7 DEF Forms
  <1> HIDE DEF more
  <1>9. LET c == Sent(Hook("create"), "create", b, more)
        IN c \in CallRec /\ Carries(c) /\ Chosen(c)
    BY <1>3, <1>4, <1>5, <1>6, PlacingIs
  <1>10. Send(Hook("create"), "create", b, more)
    BY <1>1 DEF more
  <1>11. /\ Calls(queue)' /\ InOrder(queue)' /\ Answered'
         /\ \A h, s, e :
              /\ Hook("create") # h /\ Waits(queue, h, s, e) => Waits(queue', h, s, e)
              /\ Hook("create") # h /\ Out(h, queue') => Out(h, queue)
              /\ Hook("create") = h /\ more.slot = s => Waits(queue', h, s, e)
    BY <1>9, <1>10, SendKeeps
  <1>12. Hook("move") # Hook("create")
    BY DEF Hook
  <1>13. SheetsWait'
    <2>1. Waits(queue', Hook("create"), create'.slot, create'.edited)
      BY <1>4, <1>8, <1>11
    <2>2. /\ detail # None => Waits(queue', Hook("move"), detail.slot, detail.edited)
          /\ detail = None => ~Out(Hook("move"), queue')
      BY <1>2, <1>11, <1>12 DEF SheetsWait
    <2>3. QED
      BY <1>2, <1>8, <2>1, <2>2 DEF SheetsWait, ForTime
  <1>14. SheetInPlace' /\ create' \in Forms
    BY <1>8 DEF SheetInPlace, IInv, Typed
  <1>15. QED
    BY <1>11, <1>13, <1>14, OwnerFrame

\* Hooks let go of their calls.
LEMMA LetGoIs ==
  ASSUME IInv, NEW hooks, NEW how \in {"reset", "gone"}, LetGo(hooks, how), UNCHANGED <<db, mine>>
  PROVE  /\ Calls(queue)' /\ InOrder(queue)' /\ Answered'
         /\ \A h, s, e : /\ h \in hooks => ~Out(h, queue')
                         /\ Out(h, queue') => Out(h, queue)
                         /\ Waits(queue, h, s, e) => Waits(queue', h, s, e)
  <1>1. Calls(queue) /\ InOrder(queue) /\ (queue # <<>> => Truthful(Head(queue), db, mine))
    BY InvParts DEF IInv, Answered
  <1>2. queue' = Without(queue, hooks, how)
    BY DEF LetGo
  <1>3. queue \in Seq(CallRec)
    BY <1>1 DEF Calls
  <1>4. /\ Calls(queue') /\ InOrder(queue') /\ (queue' = <<>> <=> queue = <<>>)
        /\ queue # <<>> => Alike(Head(queue), Head(queue'))
    BY <1>1, <1>2, LetGoKeeps
  <1>5. queue' # <<>> => Truthful(Head(queue'), db, mine)
    BY <1>1, <1>4, AlikeKeeps
  <1>6. \A h, s, e : /\ h \in hooks => ~Out(h, queue')
                     /\ Out(h, queue') => Out(h, queue)
                     /\ Waits(queue, h, s, e) => Waits(queue', h, s, e)
    BY <1>2, <1>3, LetGoWaits
  <1>7. QED
    BY <1>4, <1>5, <1>6 DEF Answered, Calls, InOrder

LEMMA CloseDetailStep ==
  ASSUME IInv, CloseDetail PROVE IInv'
  <1>1. /\ Calls(queue)' /\ InOrder(queue)' /\ Answered'
        /\ \A h, s, e : /\ h \in DetailHooks => ~Out(h, queue')
                        /\ Waits(queue, h, s, e) => Waits(queue', h, s, e)
    BY LetGoIs DEF CloseDetail
  <1>2. Hook("move") \in DetailHooks
    BY DEF DetailHooks
  <1>3. SheetsWait'
    BY <1>1, <1>2, InvParts DEF SheetsWait, CloseDetail
  <1>4. create' \in Forms /\ SheetInPlace'
    BY DEF IInv, Typed, SheetInPlace, CloseDetail
  <1>5. QED
    BY <1>1, <1>3, <1>4, OwnerFrame DEF CloseDetail

LEMMA PickAnotherStep ==
  ASSUME IInv, detail # None, PickAnother,
         UNCHANGED <<db, now, screen, page, holds, display, create, mine>>
  PROVE  IInv'
  <1>1. /\ Calls(queue)' /\ InOrder(queue)' /\ Answered'
        /\ \A h, s, e : Waits(queue, h, s, e) => Waits(queue', h, s, e)
    BY LetGoIs DEF PickAnother
  <1>2. detail \in Sheets /\ screen = "day" /\ detail.b \in DOMAIN page
    BY SheetRows DEF IInv, Typed
  <1>3. detail' = [detail EXCEPT !.clash = None]
    BY DEF PickAnother
  <1>4. /\ detail' \in Sheets /\ detail'.b = detail.b /\ detail'.slot = detail.slot
        /\ detail'.edited = detail.edited /\ detail'.clash = None
    BY <1>2, <1>3 DEF Sheets
  <1>5. detail' # None
    BY <1>4, AdminAssumption
  <1>6. SheetsWait'
    BY <1>1, <1>4, <1>5, InvParts DEF SheetsWait, ForTime
  <1>7. SheetInPlace' /\ create' \in Forms
    BY <1>2, <1>4 DEF SheetInPlace, IInv, Typed
  <1>8. QED
    BY <1>1, <1>6, <1>7, OwnerFrame

LEMMA ResetStep ==
  ASSUME IInv, Reset, UNCHANGED <<db, now, screen, page, holds, display, detail, mine>>
  PROVE  IInv'
  <1>1. /\ Calls(queue)' /\ InOrder(queue)' /\ Answered'
        /\ \A h, s, e : /\ Out(h, queue') => Out(h, queue)
                        /\ Waits(queue, h, s, e) => Waits(queue', h, s, e)
    BY LetGoIs DEF Reset
  <1>2. PICK open \in BOOLEAN :
          create' = [create EXCEPT !.open = open, !.clash = None, !.saved = FALSE]
    BY DEF Reset
  <1>3. create \in Forms
    BY DEF IInv, Typed
  <1>4. /\ create' \in Forms /\ create'.slot = create.slot /\ create'.edited = create.edited
        /\ create'.clash = None
    BY <1>2, <1>3 DEF Forms
  <1>5. SheetsWait'
    BY <1>1, <1>4, InvParts DEF SheetsWait, ForTime
  <1>6. SheetInPlace'
    BY DEF SheetInPlace, IInv
  <1>7. QED
    BY <1>1, <1>4, <1>5, <1>6, OwnerFrame

\* A page arrives.
LEMMA ShowIs ==
  ASSUME now \in Nat, NEW hs, Store(hs, now), NEW p \in Pages, Show(hs, p), now' = now
  PROVE  /\ page' \in Pages /\ display' \in Displays /\ DOMAIN display' = DOMAIN page'
         /\ Store(holds', now') /\ Overlaid'
  <1>1. page' = p /\ holds' = Prune(hs, p, now) /\ display' = Resolve(Prune(hs, p, now), p, now)
    BY DEF Show
  <1>2. Store(Prune(hs, p, now), now)
    BY PruneIs
  <1>3. /\ Store(holds', now) /\ display' = Resolve(holds', p, now)
    BY <1>1, <1>2
  <1>4. display' \in Displays /\ DOMAIN display' = DOMAIN p
    BY <1>3, ResolveIs
  <1>5. \A b \in DOMAIN p, f \in Fields : Laid(holds'[b][f], p[b][f], display'[b][f], now)
    BY <1>3, ResolvedIsLaid
  <1>6. QED
    BY <1>1, <1>3, <1>4, <1>5 DEF Overlaid

LEMMA LaidAnew ==
  ASSUME now \in Nat, NEW hs, Store(hs, now), page \in Pages, display' = Resolve(hs, page, now),
         now' = now, page' = page, holds' = hs
  PROVE  display' \in Displays /\ DOMAIN display' = DOMAIN page /\ Overlaid'
  <1>1. display' \in Displays /\ DOMAIN display' = DOMAIN page
    BY ResolveIs
  <1>2. \A b \in DOMAIN page, f \in Fields : Laid(hs[b][f], page[b][f], display'[b][f], now)
    BY ResolvedIsLaid
  <1>3. QED
    BY <1>1, <1>2 DEF Overlaid

LEMMA GoStep ==
  ASSUME IInv, Go PROVE IInv'
  <1>1. /\ Calls(queue)' /\ InOrder(queue)' /\ Answered'
        /\ \A h, s, e : h \in AllHooks => ~Out(h, queue')
    BY LetGoIs DEF Go
  <1>2. Hook("move") \in AllHooks /\ Hook("create") \in AllHooks
    BY DEF AllHooks, DetailHooks
  <1>3. db \in [Bookings -> Row] /\ now \in Nat /\ Store(holds, now)
    BY InvParts DEF IInv, Typed
  <1>4. /\ Rendered(db, screen') \in Pages /\ DOMAIN Rendered(db, screen') \subseteq Made(db)
    BY <1>3, RenderedIs
  <1>5. Show(holds, Rendered(db, screen')) /\ now' = now /\ db' = db /\ page' = Rendered(db, screen')
    BY DEF Go, Show
  <1>6. /\ page' \in Pages /\ display' \in Displays /\ DOMAIN display' = DOMAIN page'
        /\ Store(holds', now') /\ Overlaid'
    BY <1>3, <1>4, <1>5, ShowIs
  <1>7. create' \in Forms /\ create'.clash = None
    <2>1. (CHOOSE s \in Slots : TRUE) \in Slots
      BY AdminAssumption
    <2>2. QED
      BY <2>1 DEF Go, NewSheet, Forms
  <1>8. screen' \in {"day", "changes"} /\ detail' = None
    BY DEF Go
  <1>9. SheetsWait'
    <2>1. ~Out(Hook("move"), queue') /\ ~Out(Hook("create"), queue')
      BY <1>1, <1>2
    <2>2. \A s, e : Waits(queue', Hook("create"), s, e)
      BY <2>1 DEF Out, Waits
    <2>3. QED
      BY <1>7, <1>8, <2>1, <2>2 DEF SheetsWait, ForTime
  <1>10. Typed'
    BY <1>1, <1>3, <1>5, <1>6, <1>7, <1>8 DEF Typed, Calls, Store
  <1>11. Listed' /\ SheetInPlace'
    BY <1>4, <1>5, <1>8 DEF Listed, SheetInPlace
  <1>12. SheetsRead'
    BY <1>1, <1>9 DEF SheetsRead, SheetsWait, Calls
  <1>13. QED
    BY <1>1, <1>6, <1>10, <1>11, <1>12 DEF IInv

-----------------------------------------------------------------------------
(* The server, the network and the rest of the world. *)

\* The rows change, or the queue moves on, and the screen stays.
LEMMA ServerFrame ==
  ASSUME IInv, UNCHANGED <<screen, page, holds, display, detail, create>>,
         now' \in Nat, now' >= now, db' \in [Bookings -> Row], Made(db) \subseteq Made(db'),
         Calls(queue)', InOrder(queue)', Answered',
         \A h, s, e : /\ Waits(queue, h, s, e) => Waits(queue', h, s, e)
                      /\ Out(h, queue') => Out(h, queue)
  PROVE  IInv'
  <1>1. now \in Nat /\ Store(holds, now)
    BY InvParts DEF IInv, Typed
  <1>2. ASSUME NEW b \in Bookings, NEW f \in Fields PROVE HoldOf(holds[b][f], f, now')
    <2>1. HoldOf(holds[b][f], f, now)
      BY <1>1 DEF Store
    <2>2. holds[b][f] \in Hold(f) => holds[b][f].at \in Nat
      BY DEF Hold
    <2>3. QED
      BY <1>1, <2>1, <2>2 DEF HoldOf
  <1>3. Typed'
    BY <1>2 DEF IInv, Typed, Calls
  <1>4. Listed' /\ SheetInPlace'
    BY DEF IInv, Listed, SheetInPlace
  <1>5. Overlaid'
    <2> SUFFICES ASSUME NEW b \in DOMAIN page, NEW f \in Fields
                 PROVE  Laid(holds[b][f], page[b][f], display[b][f], now')
      BY DEF Overlaid
    <2>1. Laid(holds[b][f], page[b][f], display[b][f], now)
      BY DEF IInv, Overlaid
    <2>2. b \in Bookings
      BY PageRow DEF IInv, Typed
    <2>3. HoldOf(holds[b][f], f, now)
      BY <1>1, <2>2 DEF Store
    <2>4. holds[b][f] # None => holds[b][f].at \in Nat
      BY <2>3 DEF HoldOf, Hold
    <2>5. TTL \in Nat
      BY AdminAssumption
    <2>6. holds[b][f] # None /\ now' - holds[b][f].at <= TTL => now - holds[b][f].at <= TTL
      BY <1>1, <2>4, <2>5
    <2>7. QED
      BY <2>1, <2>6 DEF Laid
  <1>6. SheetsWait
    BY InvParts
  <1>7. SheetsRead'
    BY <1>6 DEF SheetsWait, SheetsRead, Calls
  <1>8. QED
    BY <1>3, <1>4, <1>5, <1>7 DEF IInv

LEMMA OldestIs ==
  ASSUME IInv, queue # <<>>
  PROVE  Head(queue) \in CallRec /\ Carries(Head(queue)) /\ Chosen(Head(queue))
  <1>1. queue \in Seq(CallRec) /\ \A i \in DOMAIN queue : Carries(queue[i]) /\ Chosen(queue[i])
    BY InvParts DEF Calls
  <1>2. Head(queue) = queue[1] /\ 1 \in DOMAIN queue
    BY <1>1, EmptySeq
  <1>3. QED
    BY <1>1, <1>2

\* A call and its answer.
AnsweredCall(c, result, p, where) ==
  [c EXCEPT !.at = "done", !.result = result, !.page = p, !.where = where]
Results == {"ok", "conflict", "not_found", "refused"}
SameCall(c, d) ==
  /\ d.hook = c.hook /\ d.op = c.op /\ d.id = c.id /\ d.slot = c.slot /\ d.allow = c.allow
  /\ d.read = c.read /\ d.edited = c.edited /\ d.base = c.base /\ d.mount = c.mount

LEMMA AnsweredIs ==
  ASSUME NEW c \in CallRec, NEW result \in Results, NEW p \in {None} \cup Pages,
         NEW where \in {"day", "changes"}
  PROVE  LET d == AnsweredCall(c, result, p, where)
         IN /\ d \in CallRec /\ SameCall(c, d)
            /\ d.at = "done" /\ d.result = result /\ d.page = p /\ d.where = where
  <1> DEFINE d1 == [c EXCEPT !.at = "done"]
             d2 == [d1 EXCEPT !.result = result]
             d3 == [d2 EXCEPT !.page = p]
             d4 == [d3 EXCEPT !.where = where]
  <1>1. d1 \in CallRec /\ SameCall(c, d1) /\ d1.at = "done"
    BY DEF CallRec, SameCall
  <1> HIDE DEF d1
  <1>2. d2 \in CallRec /\ SameCall(c, d2) /\ d2.at = "done" /\ d2.result = result
    BY <1>1 DEF CallRec, SameCall, Results
  <1> HIDE DEF d2
  <1>3. d3 \in CallRec /\ SameCall(c, d3) /\ d3.at = "done" /\ d3.result = result /\ d3.page = p
    BY <1>2 DEF CallRec, SameCall
  <1> HIDE DEF d3
  <1>4. /\ d4 \in CallRec /\ SameCall(c, d4) /\ d4.at = "done" /\ d4.result = result
        /\ d4.page = p /\ d4.where = where
    BY <1>3 DEF CallRec, SameCall
  <1>5. d4 = AnsweredCall(c, result, p, where)
    BY DEF d1, d2, d3, AnsweredCall
  <1>6. QED
    BY <1>4, <1>5

\* The oldest call gets an answer.
LEMMA AnswerStep ==
  ASSUME IInv, queue # <<>>, NEW d \in CallRec, SameCall(Head(queue), d),
         queue' = [queue EXCEPT ![1] = d], Truthful(d, db', mine'),
         UNCHANGED <<now, screen, page, holds, display, detail, create>>,
         db' \in [Bookings -> Row], Made(db) \subseteq Made(db')
  PROVE  IInv'
  <1>1. Calls(queue) /\ InOrder(queue)
    BY InvParts
  <1>2. LET r == [queue EXCEPT ![1] = d]
        IN /\ Calls(r) /\ InOrder(r) /\ r # <<>> /\ Head(r) = d
           /\ \A h, s, e : /\ Waits(queue, h, s, e) => Waits(r, h, s, e)
                           /\ Out(h, r) => Out(h, queue)
    BY <1>1, AnswerKeeps DEF SameCall
  <1>3. /\ Calls(queue') /\ InOrder(queue') /\ queue' # <<>> /\ Head(queue') = d
        /\ \A h, s, e : /\ Waits(queue, h, s, e) => Waits(queue', h, s, e)
                        /\ Out(h, queue') => Out(h, queue)
    BY <1>2
  <1>4. Answered'
    BY <1>3 DEF Answered
  <1>5. now' \in Nat /\ now' >= now
    BY DEF IInv, Typed
  <1>6. QED
    BY <1>3, <1>4, <1>5, ServerFrame DEF Calls, InOrder

LEMMA AnswerNames ==
  ASSUME NEW d, NEW c PROVE Answer(d, c) \in {"ok", "conflict", "not_found"}
  BY DEF Answer

LEMMA CommitStep ==
  ASSUME IInv, Commit PROVE IInv'
  <1> DEFINE c == Head(queue)
             ok == Answer(db, c) = "ok"
             p == IF ok THEN Rendered(db', c.where) ELSE None
             d == AnsweredCall(c, Answer(db, c), p, c.where)
  <1>1. c \in CallRec /\ Carries(c) /\ queue # <<>> /\ c.op # "refresh"
    BY OldestIs DEF Commit
  <1>2. /\ db' = IF ok THEN Write(db, c) ELSE db
        /\ queue' = [queue EXCEPT ![1].at = "done", ![1].result = Answer(db, c), ![1].page = p]
        /\ UNCHANGED <<now, screen, page, holds, display, detail, create>>
    BY DEF Commit
  <1>3. db \in [Bookings -> Row]
    BY DEF IInv, Typed
  <1>4. /\ Write(db, c) \in [Bookings -> Row] /\ Made(db) \subseteq Made(Write(db, c))
        /\ \A b \in Bookings, f \in Fields : Patches(c, b, f) => Write(db, c)[b][f] = Patch(c)
    BY <1>1, <1>3, WriteIs
  <1>5. db' \in [Bookings -> Row] /\ Made(db) \subseteq Made(db')
    BY <1>2, <1>3, <1>4
  <1>6. c.where \in {"day", "changes"} /\ Answer(db, c) \in Results
    BY <1>1, AnswerNames DEF CallRec, Results
  <1>7. /\ Rendered(db', c.where) \in Pages
        /\ DOMAIN Rendered(db', c.where) \subseteq Made(db')
        /\ c.where = "day" => DOMAIN Rendered(db', c.where) = Made(db')
        /\ \A b \in DOMAIN Rendered(db', c.where) : Rendered(db', c.where)[b] = db'[b]
    BY <1>5, RenderedIs
  <1>8. p \in {None} \cup Pages
    BY <1>7
  <1>9. 1 \in DOMAIN queue /\ queue[1] = c
    BY <1>1, InvParts, EmptySeq DEF Calls
  <1>10. /\ d \in CallRec /\ SameCall(c, d)
         /\ d.at = "done" /\ d.result = Answer(db, c) /\ d.page = p /\ d.where = c.where
    BY <1>1, <1>6, <1>8, AnsweredIs
  <1>11. queue' = [queue EXCEPT ![1] = d]
    <2>1. d = [c EXCEPT !.at = "done", !.result = Answer(db, c), !.page = p]
      BY <1>1 DEF CallRec, AnsweredCall
    <2>2. QED
      BY <1>2, <1>9, <2>1
  <1>12. Truthful(d, db', mine')
    <2> SUFFICES ASSUME d.result = "ok"
                 PROVE  /\ d.page \in Pages
                        /\ DOMAIN d.page \subseteq Made(db') /\ (d.where = "day" => DOMAIN d.page = Made(db'))
                        /\ \A b \in DOMAIN d.page, f \in Fields :
                             <<b, f>> \in mine' => d.page[b][f] = db'[b][f]
                        /\ \A b \in Bookings, f \in Fields :
                             Patches(d, b, f) /\ <<b, f>> \in mine' => db'[b][f] = Patch(d)
      BY DEF Truthful
    <2>1. ok /\ d.page = Rendered(db', c.where) /\ db' = Write(db, c)
      BY <1>2, <1>10
    <2>2. \A b, f : (Patches(d, b, f) <=> Patches(c, b, f)) /\ Patch(d) = Patch(c)
      BY <1>10 DEF Patches, Patch, Field, SameCall
    <2> HIDE DEF d
    <2>3. QED
      BY <1>4, <1>7, <1>10, <2>1, <2>2
  <1> HIDE DEF d
  <1>13. QED
    BY <1>1, <1>2, <1>5, <1>10, <1>11, <1>12, AnswerStep

LEMMA RefuseStep ==
  ASSUME IInv, Refuse PROVE IInv'
  <1> DEFINE c == Head(queue)
             d == AnsweredCall(c, "refused", c.page, c.where)
  <1>1. c \in CallRec /\ queue # <<>>
    BY OldestIs DEF Refuse
  <1>2. /\ queue' = [queue EXCEPT ![1].at = "done", ![1].result = "refused"]
        /\ UNCHANGED <<db, now, screen, page, holds, display, detail, create>>
    BY DEF Refuse
  <1>3. 1 \in DOMAIN queue /\ queue[1] = c
    BY <1>1, InvParts, EmptySeq DEF Calls
  <1>4. queue' = [queue EXCEPT ![1] = d]
    <2>1. d = [c EXCEPT !.at = "done", !.result = "refused"]
      BY <1>1 DEF CallRec, AnsweredCall
    <2>2. QED
      BY <1>2, <1>3, <2>1
  <1>5. c.page \in {None} \cup Pages /\ c.where \in {"day", "changes"} /\ "refused" \in Results
    BY <1>1 DEF CallRec, Results
  <1>6. d \in CallRec /\ SameCall(c, d) /\ d.result = "refused"
    BY <1>1, <1>5, AnsweredIs
  <1>7. db' \in [Bookings -> Row] /\ Made(db) \subseteq Made(db')
    BY <1>2 DEF IInv, Typed
  <1> HIDE DEF d
  <1>8. Truthful(d, db', mine')
    BY <1>6 DEF Truthful
  <1>9. QED
    BY <1>1, <1>2, <1>4, <1>6, <1>7, <1>8, AnswerStep

LEMMA RenderStep ==
  ASSUME IInv, Render PROVE IInv'
  <1> DEFINE c == Head(queue)
             p == Rendered(db, screen)
             d == AnsweredCall(c, "ok", p, screen)
  <1>1. c \in CallRec /\ Carries(c) /\ queue # <<>> /\ c.op = "refresh"
    BY OldestIs DEF Render
  <1>2. /\ queue' = [queue EXCEPT ![1].at = "done", ![1].result = "ok", ![1].where = screen,
                       ![1].page = p]
        /\ UNCHANGED <<db, now, screen, page, holds, display, detail, create>>
    BY DEF Render
  <1>3. 1 \in DOMAIN queue /\ queue[1] = c
    BY <1>1, InvParts, EmptySeq DEF Calls
  <1>4. db \in [Bookings -> Row] /\ screen \in {"day", "changes"}
    BY DEF IInv, Typed
  <1>5. /\ p \in Pages /\ DOMAIN p \subseteq Made(db) /\ (screen = "day" => DOMAIN p = Made(db))
        /\ \A b \in DOMAIN p : p[b] = db[b]
    BY <1>4, RenderedIs
  <1> HIDE DEF p
  <1>6. queue' = [queue EXCEPT ![1] = d]
    <2>1. d = [c EXCEPT !.at = "done", !.result = "ok", !.where = screen, !.page = p]
      BY <1>1 DEF CallRec, AnsweredCall
    <2>2. QED
      BY <1>2, <1>3, <2>1
  <1>7. d \in CallRec /\ SameCall(c, d) /\ d.page = p /\ d.where = screen /\ d.base = <<>>
    <2>1. "ok" \in Results /\ p \in {None} \cup Pages
      BY <1>5 DEF Results
    <2>2. d \in CallRec /\ SameCall(c, d) /\ d.page = p /\ d.where = screen
      BY <1>1, <1>4, <2>1, AnsweredIs
    <2>3. QED
      BY <1>1, <2>2 DEF SameCall, Carries
  <1>8. Truthful(d, db', mine')
    <2>1. \A b, f : ~Patches(d, b, f)
      BY <1>7 DEF Patches
    <2> HIDE DEF d
    <2>2. QED
      BY <1>2, <1>5, <1>7, <2>1 DEF Truthful
  <1>9. db' \in [Bookings -> Row] /\ Made(db) \subseteq Made(db')
    BY <1>2, <1>4
  <1> HIDE DEF d
  <1>10. QED
    BY <1>1, <1>2, <1>6, <1>7, <1>8, <1>9, AnswerStep

LEMMA LoseStep ==
  ASSUME IInv, Lose PROVE IInv'
  <1>1. queue # <<>> /\ queue' = Tail(queue)
        /\ UNCHANGED <<db, now, screen, page, holds, display, detail, create>>
    BY DEF Lose
  <1>2. /\ Calls(queue') /\ InOrder(queue') /\ (queue' # <<>> => Head(queue').at = "sent")
        /\ \A h, s, e : /\ Waits(queue, h, s, e) => Waits(queue', h, s, e)
                        /\ Out(h, queue') => Out(h, queue)
    BY <1>1, InvParts, TailKeeps
  <1>3. Answered'
    BY <1>2 DEF Answered, Truthful
  <1>4. now' \in Nat /\ now' >= now /\ db' \in [Bookings -> Row] /\ Made(db) \subseteq Made(db')
    BY <1>1 DEF IInv, Typed
  <1>5. QED
    BY <1>1, <1>2, <1>3, <1>4, ServerFrame DEF Calls, InOrder

\* A success is laid over the store and over the page that is on screen or comes with it.
LEMMA SettleIs ==
  ASSUME IInv, queue # <<>>, Head(queue).at = "done", Head(queue).result = "ok",
         Settle(Head(queue)), now' = now
  PROVE  /\ page' \in Pages /\ display' \in Displays /\ DOMAIN display' = DOMAIN page'
         /\ Store(holds', now') /\ Overlaid'
         /\ DOMAIN page' \subseteq Made(db) /\ (screen = "day" => DOMAIN page \subseteq DOMAIN page')
  <1> DEFINE c == Head(queue)
             held == Apply(holds, c, now)
  <1>1. c \in CallRec /\ Carries(c) /\ Truthful(c, db, mine)
    BY OldestIs DEF IInv, Answered
  <1>2. now \in Nat /\ Store(holds, now) /\ page \in Pages /\ DOMAIN page \subseteq Made(db)
        /\ display \in Displays /\ DOMAIN display = DOMAIN page
    BY InvParts DEF IInv, Typed, Listed
  <1>3. Store(held, now)
    BY <1>1, <1>2, ApplyIs
  <1>4. /\ c.page \in Pages /\ DOMAIN c.page \subseteq Made(db)
        /\ c.where = "day" => DOMAIN c.page = Made(db)
    BY <1>1 DEF Truthful
  <1>5. CASE c.page # None /\ c.where = screen
    <2>1. Show(held, c.page)
      BY <1>5 DEF Settle
    <2>2. page' = c.page
      BY <2>1 DEF Show
    <2> HIDE DEF held
    <2>3. /\ page' \in Pages /\ display' \in Displays /\ DOMAIN display' = DOMAIN page'
          /\ Store(holds', now') /\ Overlaid'
      BY <1>2, <1>3, <1>4, <2>1, ShowIs
    <2>4. DOMAIN page' \subseteq Made(db) /\ (screen = "day" => DOMAIN page \subseteq DOMAIN page')
      BY <1>2, <1>4, <1>5, <2>2
    <2>5. QED
      BY <2>3, <2>4
  <1>6. CASE ~(c.page # None /\ c.where = screen)
    <2>1. /\ holds' = held /\ page' = page
          /\ display' = IF held = holds /\ Changed(c) = {} THEN display ELSE Resolve(held, page, now)
      BY <1>6 DEF Settle
    <2> HIDE DEF held
    <2>2. CASE held = holds /\ Changed(c) = {}
      <3>1. holds' = holds /\ page' = page /\ display' = display
        BY <2>1, <2>2
      <3>2. Overlaid'
        BY <3>1 DEF IInv, Overlaid
      <3>3. QED
        BY <1>2, <3>1, <3>2
    <2>3. CASE ~(held = holds /\ Changed(c) = {})
      <3>1. display' = Resolve(held, page, now)
        BY <2>1, <2>3
      <3>2. holds' = held /\ page' = page
        BY <2>1
      <3>3. display' \in Displays /\ DOMAIN display' = DOMAIN page /\ Overlaid'
        BY <1>2, <1>3, <3>1, <3>2, LaidAnew
      <3>4. QED
        BY <1>2, <1>3, <3>2, <3>3
    <2>4. QED
      BY <2>2, <2>3
  <1>7. QED
    BY <1>5, <1>6

LEMMA RefreshingIs ==
  ASSUME IInv
  PROVE  /\ Refreshing \in CallRec /\ Carries(Refreshing) /\ Chosen(Refreshing)
         /\ Refreshing.at = "sent"
         /\ Refreshing.hook # Hook("move") /\ Refreshing.hook # Hook("create")
  <1>1. screen \in {"day", "changes"}
    BY DEF IInv, Typed
  <1>2. <<>> \in Displays
    <2>1. <<>> \in [{} -> Faces] /\ {} \in SUBSET Bookings
      OBVIOUS
    <2>2. QED
      BY <2>1 DEF Displays
  <1>3. Hook("router") \in Hooks /\ Hook("router") # Hook("move") /\ Hook("router") # Hook("create")
    BY DEF Hook, Hooks
  <1>4. Refreshing \in CallRec
    BY <1>1, <1>2, <1>3 DEF Refreshing, CallRec
  <1>5. Carries(Refreshing) /\ Chosen(Refreshing)
    BY <1>3 DEF Refreshing, Carries, Chosen
  <1>6. QED
    BY <1>3, <1>4, <1>5 DEF Refreshing

\* The queue behind an answer: hooks that left let go, and a success asks for a refresh.
LEMMA QueueAfter ==
  ASSUME IInv, queue # <<>>, NEW left,
         NEW more \in {<<>>, <<Refreshing>>},
         queue' = Without(Tail(queue), left, "gone") \o more
  PROVE  /\ Calls(queue)' /\ InOrder(queue)' /\ Answered'
         /\ \A s, e : /\ Waits(queue, Hook("move"), s, e) => Waits(queue', Hook("move"), s, e)
                      /\ Waits(queue, Hook("create"), s, e) => Waits(queue', Hook("create"), s, e)
         /\ Out(Hook("move"), queue') => Out(Hook("move"), queue)
  <1> DEFINE t == Tail(queue)
             w == Without(t, left, "gone")
  <1>1. /\ Calls(t) /\ InOrder(t) /\ (t # <<>> => Head(t).at = "sent")
        /\ \A h, s, e : /\ Waits(queue, h, s, e) => Waits(t, h, s, e)
                        /\ Out(h, t) => Out(h, queue)
    BY InvParts, TailKeeps
  <1> HIDE DEF t
  <1>2. t \in Seq(CallRec)
    BY <1>1 DEF Calls
  <1>3. /\ Calls(w) /\ InOrder(w) /\ (w = <<>> <=> t = <<>>)
        /\ t # <<>> => Alike(Head(t), Head(w))
    BY <1>1, LetGoKeeps
  <1>4. \A h, s, e : /\ Out(h, w) => Out(h, t)
                     /\ Waits(t, h, s, e) => Waits(w, h, s, e)
    BY <1>2, LetGoWaits
  <1>5. w # <<>> => Head(w).at = "sent"
    BY <1>1, <1>3 DEF Alike
  <1>6. queue' = w \o more
    BY DEF t
  <1> HIDE DEF w
  <1>7. w \in Seq(CallRec)
    BY <1>3 DEF Calls
  <1>8. CASE more = <<>>
    <2>1. queue' = w
      BY <1>6, <1>7, <1>8, ConcatEmptySeq
    <2>2. Answered'
      BY <1>5, <2>1 DEF Answered, Truthful
    <2>3. Calls(queue)' /\ InOrder(queue)'
      BY <1>3, <2>1 DEF Calls, InOrder
    <2>4. QED
      BY <1>1, <1>4, <2>1, <2>2, <2>3
  <1>9. CASE more = <<Refreshing>>
    <2>1. queue' = Append(w, Refreshing)
      BY <1>6, <1>7, <1>9, RefreshingIs, AppendIsConcat
    <2> DEFINE r == Refreshing
    <2>2. r \in CallRec /\ Carries(r) /\ Chosen(r) /\ r.at = "sent"
      BY RefreshingIs
    <2>3. queue' = Append(w, r)
      BY <2>1
    <2> HIDE DEF r
    <2>4. Calls(w) /\ InOrder(w)
      BY <1>3
    <2>5. /\ Calls(Append(w, r)) /\ InOrder(Append(w, r)) /\ Append(w, r) # <<>>
          /\ w # <<>> => Head(Append(w, r)) = Head(w)
          /\ w = <<>> => Head(Append(w, r)) = r
          /\ \A h, s, e :
               /\ r.hook # h /\ Waits(w, h, s, e) => Waits(Append(w, r), h, s, e)
               /\ r.hook # h /\ Out(h, Append(w, r)) => Out(h, w)
      BY <2>2, <2>4, AppendKeeps
    <2>6. /\ Calls(queue') /\ InOrder(queue') /\ queue' # <<>>
          /\ w # <<>> => Head(queue') = Head(w)
          /\ w = <<>> => Head(queue') = r
          /\ \A h, s, e :
               /\ r.hook # h /\ Waits(w, h, s, e) => Waits(queue', h, s, e)
               /\ r.hook # h /\ Out(h, queue') => Out(h, w)
      BY <2>3, <2>5
    <2>7. /\ Calls(queue') /\ InOrder(queue') /\ queue' # <<>>
          /\ w # <<>> => Head(queue') = Head(w)
          /\ w = <<>> => Head(queue') = Refreshing
          /\ \A h, s, e :
               /\ Refreshing.hook # h /\ Waits(w, h, s, e) => Waits(queue', h, s, e)
               /\ Refreshing.hook # h /\ Out(h, queue') => Out(h, w)
      BY <2>6 DEF r
    <2>8. Head(queue').at = "sent"
      BY <1>5, <2>7, RefreshingIs
    <2>9. Answered'
      BY <2>8 DEF Answered, Truthful
    <2>10. QED
      BY <1>1, <1>4, <2>7, <2>9, RefreshingIs DEF Calls, InOrder
  <1>10. QED
    BY <1>8, <1>9

\* What an answer leaves of the sheets: a clash is for the time they are set to, unless
\* that was changed, or the clash comes late.
LEMMA SheetsAfter ==
  ASSUME IInv, queue # <<>>
  PROVE  LET c == Head(queue)
             d == SheetAfter(c)
             n == CreateAfter(c)
         IN /\ detail = None => d = None
            /\ detail # None =>
                 /\ d \in Sheets /\ d.b = detail.b /\ d.slot = detail.slot /\ d.edited = detail.edited
                 /\ ForTime(d.clash, d.slot, d.edited)
            /\ n \in Forms /\ n.slot = create.slot /\ n.edited = create.edited
            /\ ForTime(n.clash, n.slot, n.edited)
  <1> DEFINE c == Head(queue)
             d == SheetAfter(c)
             n == CreateAfter(c)
  <1>1. c \in CallRec /\ Carries(c) /\ SheetsWait /\ create \in Forms
    BY OldestIs, InvParts DEF IInv, Typed
  <1>2. /\ queue \in Seq(CallRec) /\ 1 \in DOMAIN queue /\ c = queue[1]
        /\ Len(queue) \in Nat /\ DOMAIN queue = 1 .. Len(queue)
    BY InvParts, EmptySeq DEF Calls
  <1>3. ASSUME NEW h, NEW s, NEW e, Waits(queue, h, s, e), c.hook = h, c.mount = "here",
               ~Out(h, Tail(queue))
        PROVE  c.slot = s \/ e
    <2>1. ASSUME NEW j \in DOMAIN queue, j > 1 PROVE ~(queue[j].hook = h /\ queue[j].mount = "here")
      <3>1. (j - 1) \in DOMAIN Tail(queue) /\ Tail(queue)[j - 1] = queue[j]
        BY <1>2, <2>1
      <3>2. QED
        BY <1>3, <3>1 DEF Out
    <2>2. QED
      BY <1>2, <1>3, <2>1 DEF Waits
  <1>4. ASSUME c.op \in {"move", "create"} PROVE Clash(c) \in ClashRec
    <2>1. c.slot \in Slots
      BY <1>1, <1>4 DEF Carries
    <2>2. (c.mount = "reset" \/ Out(c.hook, Tail(queue))) \in BOOLEAN
      BY DEF Out
    <2>3. QED
      BY <2>1, <2>2 DEF Clash, ClashRec
  <1>5. ASSUME NEW s, NEW e, Waits(queue, c.hook, s, e), c.mount # "gone"
        PROVE  ForTime(Clash(c), s, e)
    <2>1. c.mount \in {"here", "reset"}
      BY <1>1, <1>5 DEF CallRec
    <2>2. CASE c.mount = "reset" \/ Out(c.hook, Tail(queue))
      BY <2>2 DEF Clash, ForTime
    <2>3. CASE ~(c.mount = "reset" \/ Out(c.hook, Tail(queue)))
      <3>1. c.slot = s \/ e
        BY <1>3, <1>5, <2>1, <2>3
      <3>2. QED
        BY <3>1 DEF Clash, ForTime
    <2>4. QED
      BY <2>2, <2>3
  <1>6. detail = None => d = None
    BY DEF SheetAfter
  <1>7. ASSUME detail # None
        PROVE  /\ d \in Sheets /\ d.b = detail.b /\ d.slot = detail.slot /\ d.edited = detail.edited
               /\ ForTime(d.clash, d.slot, d.edited)
    <2>1. /\ detail \in Sheets /\ ForTime(detail.clash, detail.slot, detail.edited)
          /\ Waits(queue, Hook("move"), detail.slot, detail.edited)
      BY <1>1, <1>7, SheetRows DEF SheetsWait
    <2>2. CASE c.mount = "gone"
      <3>1. d = detail
        BY <2>2 DEF SheetAfter
      <3>2. QED
        BY <2>1, <3>1
    <2>3. CASE c.mount # "gone"
      <3> DEFINE clash == IF c.op = "move" /\ c.result = "conflict" THEN Clash(c) ELSE detail.clash
                 asked == IF c.result = "ok" /\ c.op \in {"cancel", "no_show"} THEN None
                          ELSE detail.confirming
      <3>1. d = [detail EXCEPT !.confirming = asked, !.clash = clash]
        BY <1>7, <2>3 DEF SheetAfter
      <3>2. clash \in {None} \cup ClashRec /\ asked \in {None, "cancel", "no_show"}
        BY <1>4, <2>1 DEF Sheets
      <3>3. ForTime(clash, detail.slot, detail.edited)
        <4>1. CASE c.op = "move" /\ c.result = "conflict"
          <5>1. c.hook = Hook("move")
            BY <1>1, <4>1 DEF Carries
          <5>2. QED
            BY <1>5, <2>1, <2>3, <4>1, <5>1
        <4>2. CASE ~(c.op = "move" /\ c.result = "conflict")
          BY <2>1, <4>2
        <4>3. QED
          BY <4>1, <4>2
      <3> HIDE DEF clash, asked, d
      <3>4. /\ d \in Sheets /\ d.b = detail.b /\ d.slot = detail.slot /\ d.edited = detail.edited
            /\ d.clash = clash
        BY <2>1, <3>1, <3>2 DEF Sheets
      <3>5. QED
        BY <3>3, <3>4
    <2>4. QED
      BY <2>2, <2>3
  <1>8. n \in Forms /\ n.slot = create.slot /\ n.edited = create.edited
        /\ ForTime(n.clash, n.slot, n.edited)
    <2>1. /\ ForTime(create.clash, create.slot, create.edited)
          /\ Waits(queue, Hook("create"), create.slot, create.edited)
      BY <1>1 DEF SheetsWait
    <2>2. CASE c.op # "create" \/ c.mount = "gone"
      <3>1. n = create
        BY <2>2 DEF CreateAfter
      <3>2. QED
        BY <1>1, <2>1, <3>1
    <2>3. CASE ~(c.op # "create" \/ c.mount = "gone")
      <3> DEFINE clash == IF c.result = "conflict" THEN Clash(c) ELSE create.clash
                 saved == create.saved \/ c.result = "ok"
      <3>1. n = [create EXCEPT !.saved = saved, !.clash = clash]
        BY <2>3 DEF CreateAfter
      <3>2. clash \in {None} \cup ClashRec /\ saved \in BOOLEAN
        BY <1>1, <1>4, <2>3 DEF Forms
      <3>3. ForTime(clash, create.slot, create.edited)
        <4>1. c.hook = Hook("create")
          BY <1>1, <2>3 DEF Carries
        <4>2. ForTime(Clash(c), create.slot, create.edited)
          BY <1>5, <2>1, <2>3, <4>1
        <4>3. QED
          BY <2>1, <4>2
      <3> HIDE DEF clash, saved, n
      <3>4. n \in Forms /\ n.slot = create.slot /\ n.edited = create.edited /\ n.clash = clash
        BY <1>1, <3>1, <3>2 DEF Forms
      <3>5. QED
        BY <3>3, <3>4
    <2>4. QED
      BY <2>2, <2>3
  <1>9. QED
    BY <1>6, <1>7, <1>8

LEMMA ArriveStep ==
  ASSUME IInv, Arrive PROVE IInv'
  <1> DEFINE c == Head(queue)
             left == {<<"row", b>> : b \in Bookings \ DOMAIN page'}
                       \cup (IF DOMAIN page' = {} THEN {Hook("all")} ELSE {})
             more == IF c.result = "ok" /\ c.op # "refresh" THEN <<Refreshing>> ELSE <<>>
  <1>1. /\ queue # <<>> /\ c.at = "done"
        /\ IF c.result = "ok" THEN Settle(c) ELSE UNCHANGED <<page, holds, display>>
        /\ detail' = SheetAfter(c) /\ create' = CreateAfter(c)
        /\ queue' = Without(Tail(queue), left, "gone") \o more
        /\ UNCHANGED <<db, now, screen, mine>>
    BY DEF Arrive
  <1>2. more \in {<<>>, <<Refreshing>>}
    OBVIOUS
  <1> HIDE DEF left, more
  <1>3. /\ Calls(queue)' /\ InOrder(queue)' /\ Answered'
        /\ \A s, e : /\ Waits(queue, Hook("move"), s, e) => Waits(queue', Hook("move"), s, e)
                     /\ Waits(queue, Hook("create"), s, e) => Waits(queue', Hook("create"), s, e)
        /\ Out(Hook("move"), queue') => Out(Hook("move"), queue)
    BY <1>1, <1>2, QueueAfter
  <1>4. /\ page' \in Pages /\ display' \in Displays /\ DOMAIN display' = DOMAIN page'
        /\ Store(holds', now') /\ Overlaid'
        /\ DOMAIN page' \subseteq Made(db) /\ (screen = "day" => DOMAIN page \subseteq DOMAIN page')
    <2>1. CASE c.result = "ok"
      BY <1>1, <2>1, SettleIs
    <2>2. CASE c.result # "ok"
      <3>1. UNCHANGED <<page, holds, display, now>>
        BY <1>1, <2>2
      <3>2. Overlaid'
        BY <3>1 DEF IInv, Overlaid
      <3>3. QED
        BY <3>1, <3>2, InvParts DEF IInv, Typed, Listed
    <2>3. QED
      BY <2>1, <2>2
  <1>5. /\ detail = None => detail' = None
        /\ detail # None =>
             /\ detail' \in Sheets /\ detail'.b = detail.b /\ detail'.slot = detail.slot
             /\ detail'.edited = detail.edited /\ ForTime(detail'.clash, detail'.slot, detail'.edited)
        /\ create' \in Forms /\ create'.slot = create.slot /\ create'.edited = create.edited
        /\ ForTime(create'.clash, create'.slot, create'.edited)
    BY <1>1, SheetsAfter
  <1>6. detail # None => detail' # None
    BY <1>5, AdminAssumption
  <1>7. SheetsWait'
    BY <1>3, <1>5, <1>6, InvParts DEF SheetsWait
  <1>8. Typed'
    BY <1>1, <1>3, <1>4, <1>5 DEF IInv, Typed, Calls, Store
  <1>9. Listed'
    BY <1>1, <1>4 DEF Listed
  <1>10. SheetInPlace'
    BY <1>1, <1>4, <1>5 DEF IInv, SheetInPlace
  <1>11. SheetsRead'
    BY <1>3, <1>7 DEF SheetsRead, SheetsWait, Calls
  <1>12. QED
    BY <1>3, <1>4, <1>8, <1>9, <1>10, <1>11 DEF IInv
\* Somebody else changes a row: what of it this tab had changed and no longer stands
\* is no longer this tab's.
LEMMA OthersStep ==
  ASSUME IInv, NEW b \in Bookings, NEW r \in Row, r.made = db[b].made, db' = [db EXCEPT ![b] = r],
         mine' \subseteq mine, \A f \in Fields : <<b, f>> \in mine' => r[f] = db[b][f],
         UNCHANGED <<now, tab>>
  PROVE  IInv'
  <1>1. db \in [Bookings -> Row] /\ now \in Nat
    BY DEF IInv, Typed
  <1>2. db' \in [Bookings -> Row] /\ Made(db') = Made(db)
    BY <1>1 DEF Made
  <1>3. \A x \in Bookings, f \in Fields : <<x, f>> \in mine' => <<x, f>> \in mine /\ db'[x][f] = db[x][f]
    BY <1>1
  <1>4. Answered'
    <2> SUFFICES ASSUME queue # <<>>, Head(queue).at = "done", Head(queue).result = "ok"
                 PROVE  Truthful(Head(queue), db', mine')
      BY DEF Answered, Truthful, tab
    <2> DEFINE c == Head(queue)
    <2>1. Truthful(c, db, mine) /\ c.at = "done" /\ c.result = "ok"
      BY DEF IInv, Answered
    <2> HIDE DEF c
    <2>2. c.page \in Pages
      BY <2>1 DEF Truthful
    <2>3. \A x \in DOMAIN c.page : x \in Bookings
      BY <2>2, PageRow
    <2>4. Truthful(c, db', mine')
      BY <1>2, <1>3, <2>1, <2>3 DEF Truthful
    <2>5. QED
      BY <2>4 DEF c
  <1>5. Calls(queue)' /\ InOrder(queue)'
    BY InvParts DEF tab, Calls, InOrder
  <1>6. now' \in Nat /\ now' >= now
    BY <1>1
  <1>7. UNCHANGED <<screen, page, holds, display, detail, create, queue>>
    BY DEF tab
  <1>8. QED
    BY <1>2, <1>4, <1>5, <1>6, <1>7, ServerFrame

LEMMA CustomerChangesStep ==
  ASSUME IInv, CustomerChanges PROVE IInv'
  <1>1. PICK b \in {x \in Bookings : db[x].made /\ db[x].status \in Live} :
          \/ /\ db' = [db EXCEPT ![b].status = "cancelled", ![b].attention = TRUE]
             /\ mine' = mine \ ({b} \X Fields)
          \/ /\ \E s \in Slots \ {db[b].slot} :
                  /\ Overlapped(db, b, s) = {}
                  /\ db' = [db EXCEPT ![b].slot = s, ![b].attention = TRUE]
             /\ mine' = mine \ {<<b, "attention">>}
    BY DEF CustomerChanges
  <1>2. db \in [Bookings -> Row] /\ db[b] \in Row /\ b \in Bookings
    BY DEF IInv, Typed
  <1>3. UNCHANGED <<now, tab>>
    BY DEF CustomerChanges
  <1>4. CASE /\ db' = [db EXCEPT ![b].status = "cancelled", ![b].attention = TRUE]
             /\ mine' = mine \ ({b} \X Fields)
    <2> DEFINE r == [db[b] EXCEPT !.status = "cancelled", !.attention = TRUE]
    <2>1. r \in Row /\ r.made = db[b].made
      BY <1>2 DEF Row, Statuses
    <2>2. db' = [db EXCEPT ![b] = r]
      BY <1>2, <1>4
    <2> HIDE DEF r
    <2>3. mine' \subseteq mine /\ \A f \in Fields : <<b, f>> \notin mine'
      BY <1>4
    <2>4. QED
      BY <1>2, <1>3, <2>1, <2>2, <2>3, OthersStep
  <1>5. ASSUME NEW s \in Slots, db' = [db EXCEPT ![b].slot = s, ![b].attention = TRUE],
               mine' = mine \ {<<b, "attention">>}
        PROVE  IInv'
    <2> DEFINE r == [db[b] EXCEPT !.slot = s, !.attention = TRUE]
    <2>1. r \in Row /\ r.made = db[b].made /\ r["status"] = db[b]["status"]
      BY <1>2 DEF Row
    <2>2. db' = [db EXCEPT ![b] = r]
      BY <1>2, <1>5
    <2> HIDE DEF r
    <2>3. mine' \subseteq mine /\ \A f \in Fields : <<b, f>> \in mine' => r[f] = db[b][f]
      BY <1>5, <2>1 DEF Fields
    <2>4. QED
      BY <1>2, <1>3, <2>1, <2>2, <2>3, OthersStep
  <1>6. QED
    BY <1>1, <1>4, <1>5

LEMMA OtherDeviceStep ==
  ASSUME IInv, OtherDevice PROVE IInv'
  <1>1. PICK b \in {x \in Bookings : db[x].made} :
          \/ /\ db[b].attention /\ db' = [db EXCEPT ![b].attention = FALSE]
             /\ mine' = mine \ {<<b, "attention">>}
          \/ /\ db[b].status = "pending" /\ db' = [db EXCEPT ![b].status = "confirmed"]
             /\ mine' = mine \ {<<b, "status">>}
    BY DEF OtherDevice
  <1>2. db \in [Bookings -> Row] /\ db[b] \in Row /\ b \in Bookings
    BY DEF IInv, Typed
  <1>3. UNCHANGED <<now, tab>>
    BY DEF OtherDevice
  <1>4. ASSUME NEW f \in Fields, NEW r \in Row, r.made = db[b].made,
               \A g \in Fields \ {f} : r[g] = db[b][g],
               db' = [db EXCEPT ![b] = r], mine' = mine \ {<<b, f>>}
        PROVE  IInv'
    <2>1. mine' \subseteq mine /\ \A g \in Fields : <<b, g>> \in mine' => r[g] = db[b][g]
      BY <1>4
    <2>2. QED
      BY <1>2, <1>3, <1>4, <2>1, OthersStep
  <1>5. CASE db' = [db EXCEPT ![b].attention = FALSE] /\ mine' = mine \ {<<b, "attention">>}
    <2> DEFINE r == [db[b] EXCEPT !.attention = FALSE]
    <2>1. r \in Row /\ r.made = db[b].made /\ r["status"] = db[b]["status"]
      BY <1>2 DEF Row
    <2>2. db' = [db EXCEPT ![b] = r]
      BY <1>2, <1>5
    <2> HIDE DEF r
    <2>3. QED
      BY <1>4, <1>5, <2>1, <2>2 DEF Fields
  <1>6. CASE db' = [db EXCEPT ![b].status = "confirmed"] /\ mine' = mine \ {<<b, "status">>}
    <2> DEFINE r == [db[b] EXCEPT !.status = "confirmed"]
    <2>1. r \in Row /\ r.made = db[b].made /\ r["attention"] = db[b]["attention"]
      BY <1>2 DEF Row, Statuses, Live
    <2>2. db' = [db EXCEPT ![b] = r]
      BY <1>2, <1>6
    <2> HIDE DEF r
    <2>3. QED
      BY <1>4, <1>6, <2>1, <2>2 DEF Fields
  <1>7. QED
    BY <1>1, <1>5, <1>6

LEMMA TickStep ==
  ASSUME IInv, Tick PROVE IInv'
  <1>1. now \in Nat /\ db \in [Bookings -> Row] /\ Calls(queue) /\ InOrder(queue) /\ Answered
    BY InvParts DEF IInv, Typed
  <1>2. now' = now + 1 /\ UNCHANGED <<db, mine, screen, page, holds, display, detail, create, queue>>
    BY DEF Tick, tab
  <1>3. now' \in Nat /\ now' >= now /\ db' \in [Bookings -> Row] /\ Made(db) \subseteq Made(db')
    BY <1>1, <1>2
  <1>4. Calls(queue)' /\ InOrder(queue)' /\ Answered'
    BY <1>1, <1>2 DEF Calls, InOrder, Answered
  <1>5. QED
    BY <1>2, <1>3, <1>4, ServerFrame

-----------------------------------------------------------------------------
(* The invariant is inductive. *)

LEMMA InitIs ==
  ASSUME Init PROVE IInv
  <1>1. db \in [Bookings -> Row] /\ now = 0 /\ queue = <<>> /\ mine = {} /\ detail = None
        /\ screen \in {"day", "changes"} /\ create = NewSheet
        /\ page = Rendered(db, screen) /\ display = Resolve(holds, page, now)
        /\ holds = [b \in Bookings |-> [f \in Fields |-> None]]
    BY AdminAssumption DEF Init
  <1>2. page \in Pages /\ DOMAIN page \subseteq Made(db)
    BY <1>1, RenderedIs
  <1>3. Store(holds, now) /\ now \in Nat
    BY <1>1 DEF Store, HoldOf
  <1>4. display \in Displays /\ DOMAIN display = DOMAIN page
    BY <1>1, <1>2, <1>3, ResolveIs
  <1>5. Overlaid
    <2>1. \A b \in DOMAIN page, f \in Fields :
            Laid(holds[b][f], page[b][f], Resolve(holds, page, now)[b][f], now)
      BY <1>2, <1>3, ResolvedIsLaid
    <2>2. QED
      BY <1>1, <2>1 DEF Overlaid
  <1>6. create \in Forms /\ create.clash = None
    <2>1. (CHOOSE s \in Slots : TRUE) \in Slots
      BY AdminAssumption
    <2>2. QED
      BY <1>1, <2>1 DEF NewSheet, Forms
  <1>7. DOMAIN queue = {} /\ queue \in Seq(CallRec)
    BY <1>1
  <1>8. Typed
    BY <1>1, <1>2, <1>3, <1>4, <1>6, <1>7 DEF Typed, Store
  <1>9. SheetInPlace /\ Listed /\ InOrder(queue) /\ Answered
    BY <1>1, <1>2, <1>7 DEF SheetInPlace, Listed, InOrder, Answered
  <1>10. SheetsRead
    BY <1>1, <1>6, <1>7 DEF SheetsRead, ForTime, Waits, Out
  <1>11. QED
    BY <1>5, <1>8, <1>9, <1>10 DEF IInv

LEMMA InDetailStep ==
  ASSUME IInv, InDetail PROVE IInv'
  <1>1. detail # None /\ UNCHANGED <<db, now, screen, page, holds, display, create, mine>>
    BY DEF InDetail
  <1>2. \/ Seen \/ ConfirmBooking \/ Ask \/ Reconsider \/ ConfirmAsked
        \/ EditMove \/ Move \/ PickAnother
    BY DEF InDetail
  <1>3. QED
    BY <1>1, <1>2, SeenStep, ConfirmStep, AskSteps, ConfirmAskedStep, EditMoveStep, MoveStep,
       PickAnotherStep

LEMMA InNewStep ==
  ASSUME IInv, InNew PROVE IInv'
  <1>1. UNCHANGED <<db, now, screen, page, holds, display, detail, mine>>
    BY DEF InNew
  <1>2. OpenNew \/ EditNew \/ SubmitNew \/ Reset
    BY DEF InNew
  <1>3. QED
    BY <1>1, <1>2, OpenNewStep, EditNewStep, SubmitStep, ResetStep

LEMMA StutterStep ==
  ASSUME IInv, UNCHANGED vars PROVE IInv'
  <1>1. UNCHANGED <<db, now, screen, page, holds, display, detail, create, queue, mine>>
    BY DEF vars, tab
  <1>2. create' \in Forms /\ SheetInPlace' /\ SheetsWait'
    BY <1>1, InvParts DEF IInv, Typed, SheetInPlace, SheetsWait
  <1>3. QED
    BY <1>1, <1>2, SheetStep

LEMMA IInvStep ==
  ASSUME IInv, [Next]_vars PROVE IInv'
  <1>1. CASE Owner
    BY <1>1, GoStep, OpenDetailStep, CloseDetailStep, InDetailStep, SeenRowStep, SeenAllStep,
       InNewStep DEF Owner
  <1>2. CASE System
    BY <1>2, CommitStep, RefuseStep, RenderStep, ArriveStep, LoseStep DEF System
  <1>3. CASE World
    BY <1>3, CustomerChangesStep, OtherDeviceStep, TickStep DEF World
  <1>4. CASE UNCHANGED vars
    BY <1>4, StutterStep
  <1>5. QED
    BY <1>1, <1>2, <1>3, <1>4 DEF Next

\* In every reachable state: what is on screen is the page with the holds over it, an
\* answer on its way tells the truth of what nobody has changed since, and every clash
\* on a sheet is for the time the sheet shows, unless that was changed or the clash
\* came late (optimistic-store.ts, use-action-status.ts, BookingDetailSheet.tsx).
THEOREM AdminInvariant == Spec => []IInv
  <1>1. Init => IInv
    BY InitIs
  <1>2. IInv /\ [Next]_vars => IInv'
    BY IInvStep
  <1>3. QED
    BY <1>1, <1>2, PTL DEF Spec
-----------------------------------------------------------------------------
(* What the owner overlaps she has chosen to. *)

LEMMA QueueMoves ==
  ASSUME [Next]_vars, db' # db
  PROVE  Commit \/ queue' = queue
  <1>1. CASE Owner
    BY <1>1 DEF Owner, Go, OpenDetail, CloseDetail, InDetail, SeenRow, SeenAll, InNew
  <1>2. CASE System
    BY <1>2 DEF System, Refuse, Render, Arrive, Lose
  <1>3. CASE World
    BY <1>3 DEF World, CustomerChanges, OtherDevice, Tick, tab
  <1>4. CASE UNCHANGED vars
    BY <1>4 DEF vars
  <1>5. QED
    BY <1>1, <1>2, <1>3, <1>4 DEF Next

\* When this tab's own call puts a booking over another, she had a clash on screen and
\* tapped the button under it, for that time unless she changed it since or the clash
\* came late (use-action-status.ts, BookingDetailSheet.tsx, NewBookingSheet.tsx).
THEOREM OverlapIsChosenHolds == Spec => OverlapIsChosen
  <1>1. IInv /\ [Next]_vars =>
          [LET c == Head(queue)
           IN queue # <<>> /\ c.at = "sent" /\ c.op \in {"create", "move"} /\ db' # db
              /\ Overlapped(db, c.id, c.slot) # {} /\ Head(queue').at = "done"
              => /\ c.allow /\ c.read # None
                 /\ c.read.slot = c.slot \/ c.edited \/ c.read.late]_vars
    <2> SUFFICES ASSUME IInv, [Next]_vars, queue # <<>>, Head(queue).at = "sent",
                        Head(queue).op \in {"create", "move"}, db' # db,
                        Overlapped(db, Head(queue).id, Head(queue).slot) # {},
                        Head(queue').at = "done"
                 PROVE  /\ Head(queue).allow /\ Head(queue).read # None
                        /\ \/ Head(queue).read.slot = Head(queue).slot
                           \/ Head(queue).edited \/ Head(queue).read.late
      OBVIOUS
    <2> DEFINE c == Head(queue)
    <2>1. Commit
      BY QueueMoves
    <2>2. Answer(db, c) = "ok"
      BY <2>1 DEF Commit
    <2>3. c.allow
      BY <2>2 DEF Answer
    <2>4. Chosen(c)
      BY OldestIs
    <2>5. QED
      BY <2>3, <2>4 DEF Chosen, ForTime
  <1>2. QED
    BY <1>1, AdminInvariant, PTL DEF Spec, OverlapIsChosen

-----------------------------------------------------------------------------
(* What she did and sees done stays on screen. *)

\* A hold of another value than is on screen is not alive over that value.
LEMMA NotOver ==
  ASSUME NEW h, NEW v, NEW face, NEW at, Laid(h, v, face, at), h = None \/ h.expected # h.base
  PROVE  ~Alive(h, face, at)
  BY DEF Laid, Alive

\* The same hold over the same page shows the same.
LEMMA SameOver ==
  ASSUME NEW h, NEW v, NEW face, NEW at, Laid(h, v, face, at), h = None \/ at - h.at <= TTL
  PROVE  face = IF Alive(h, v, at) THEN h.expected ELSE v
  BY DEF Laid, Alive

\* A page that reports what is on screen leaves it there, whatever the store holds.
LEMMA ShownAnew ==
  ASSUME now \in Nat, NEW hs, Store(hs, now), NEW p \in Pages, Show(hs, p),
         NEW b \in DOMAIN p, NEW f \in Fields, ~Alive(hs[b][f], p[b][f], now)
  PROVE  display'[b][f] = p[b][f]
  <1>1. display' = Resolve(Prune(hs, p, now), p, now)
    BY DEF Show
  <1>2. b \in Bookings /\ Store(Prune(hs, p, now), now)
    BY PageRow, PruneIs
  <1>3. \/ Prune(hs, p, now)[b][f] = None
        \/ Prune(hs, p, now)[b][f] = hs[b][f] /\ Alive(hs[b][f], p[b][f], now)
    BY <1>2, PruneIs
  <1>4. Prune(hs, p, now)[b][f] = None
    BY <1>3
  <1>5. Resolve(Prune(hs, p, now), p, now)[b][f] =
          IF Alive(Prune(hs, p, now)[b][f], p[b][f], now)
          THEN Prune(hs, p, now)[b][f].expected ELSE p[b][f]
    BY <1>2, ResolveIs
  <1>6. ~Alive(Prune(hs, p, now)[b][f], p[b][f], now)
    BY <1>4 DEF Alive
  <1>7. QED
    BY <1>1, <1>5, <1>6

LEMMA CellIs ==
  ASSUME IInv, NEW b \in DOMAIN display, NEW f \in Fields
  PROVE  /\ b \in Bookings /\ b \in DOMAIN page /\ now \in Nat
         /\ HoldOf(holds[b][f], f, now)
         /\ holds[b][f] = None \/ holds[b][f].expected # holds[b][f].base
         /\ Laid(holds[b][f], page[b][f], display[b][f], now)
  <1>1. b \in DOMAIN page /\ page \in Pages /\ now \in Nat /\ Store(holds, now)
    BY InvParts DEF IInv, Typed
  <1>2. b \in Bookings
    BY <1>1, PageRow
  <1>3. HoldOf(holds[b][f], f, now)
    BY <1>1, <1>2 DEF Store
  <1>4. Laid(holds[b][f], page[b][f], display[b][f], now)
    BY <1>1 DEF IInv, Overlaid
  <1>5. QED
    BY <1>1, <1>2, <1>3, <1>4 DEF HoldOf

LEMMA GoShows ==
  ASSUME IInv, Go, NEW b \in DOMAIN display \cap DOMAIN display', NEW f \in Fields,
         display[b][f] = db[b][f]
  PROVE  display'[b][f] = display[b][f]
  <1> DEFINE p == Rendered(db, screen')
  <1>1. db \in [Bookings -> Row] /\ now \in Nat /\ Store(holds, now) /\ Show(holds, p) /\ now' = now
    BY InvParts DEF IInv, Typed, Go
  <1>2. p \in Pages /\ \A x \in DOMAIN p : p[x] = db[x]
    BY <1>1, RenderedIs
  <1> HIDE DEF p
  <1>3. DOMAIN display' = DOMAIN p
    BY <1>1, <1>2, ShowIs DEF Show
  <1>4. b \in DOMAIN p /\ p[b][f] = display[b][f]
    BY <1>2, <1>3
  <1>5. ~Alive(holds[b][f], p[b][f], now)
    BY <1>4, CellIs, NotOver
  <1>6. QED
    BY <1>1, <1>2, <1>4, <1>5, ShownAnew

LEMMA ArriveShows ==
  ASSUME IInv, Arrive, NEW b \in DOMAIN display \cap DOMAIN display', NEW f \in Fields,
         <<b, f>> \in mine, display[b][f] = db[b][f]
  PROVE  \/ display'[b][f] = display[b][f]
         \/ holds[b][f] # None /\ now - holds[b][f].at > TTL
         \/ queue # <<>> /\ TappedElsewhere(Head(queue), b, f)
  <1> DEFINE c == Head(queue)
             held == Apply(holds, c, now)
             h == holds[b][f]
             k == held[b][f]
             v == page[b][f]
  <1>1. /\ queue # <<>> /\ c.at = "done" /\ now' = now
        /\ IF c.result = "ok" THEN Settle(c) ELSE display' = display
    BY DEF Arrive
  <1>2. CASE c.result # "ok"
    BY <1>1, <1>2
  <1>3. CASE c.result = "ok"
    <2>1. c \in CallRec /\ Carries(c) /\ Truthful(c, db, mine)
      BY <1>1, OldestIs DEF IInv, Answered
    <2>2. /\ b \in Bookings /\ b \in DOMAIN page /\ now \in Nat
          /\ h = None \/ h.expected # h.base
          /\ Laid(h, v, display[b][f], now)
      BY CellIs
    <2>3. page \in Pages /\ Store(holds, now) /\ TTL \in Nat
      BY InvParts, AdminAssumption DEF IInv, Typed
    <2>4. /\ Store(held, now)
          /\ ~Patches(c, b, f) => k = h
          /\ Patches(c, b, f) /\ c.base[b][f] = Patch(c) => k = None
          /\ Patches(c, b, f) /\ c.base[b][f] # Patch(c) =>
               k # None /\ k.expected = Patch(c) /\ k.base = c.base[b][f] /\ k.at = now
      BY <2>1, <2>2, <2>3, ApplyIs
    <2>5. /\ c.page \in Pages
          /\ b \in DOMAIN c.page => c.page[b][f] = db[b][f]
          /\ Patches(c, b, f) => db[b][f] = Patch(c)
      BY <1>1, <1>3, <2>1, <2>2 DEF Truthful
    <2>6. c.page # None
      BY <2>5, AdminAssumption DEF Pages
    <2>7. CASE c.where = screen
      <3>1. Show(held, c.page)
        BY <1>1, <1>3, <2>6, <2>7 DEF Settle
      <3> HIDE DEF held
      <3>2. DOMAIN display' = DOMAIN c.page
        BY <1>1, <2>2, <2>4, <2>5, <3>1, ShowIs DEF Show
      <3>3. b \in DOMAIN c.page /\ c.page[b][f] = display[b][f]
        BY <2>5, <3>2
      <3>4. ~Alive(h, display[b][f], now)
        BY <2>2, NotOver
      <3>5. ~Alive(k, display[b][f], now)
        BY <2>4, <2>5, <3>4 DEF Alive
      <3>6. display'[b][f] = c.page[b][f]
        BY <2>2, <2>4, <2>5, <3>1, <3>3, <3>5, ShownAnew
      <3>7. QED
        BY <3>3, <3>6
    <2>8. CASE c.where # screen
      <3>1. display' = IF held = holds /\ Changed(c) = {} THEN display ELSE Resolve(held, page, now)
        BY <1>1, <1>3, <2>8 DEF Settle
      <3>2. CASE display' = display
        BY <3>2
      <3>3. CASE display' = Resolve(held, page, now)
        <4> HIDE DEF held
        <4>1. display'[b][f] = IF Alive(k, v, now) THEN k.expected ELSE v
          BY <2>2, <2>3, <2>4, <3>3, ResolveIs
        <4> HIDE DEF k, v, h
        <4>2. CASE ~Patches(c, b, f)
          <5>1. CASE h = None \/ now - h.at <= TTL
            <6>1. display[b][f] = IF Alive(h, v, now) THEN h.expected ELSE v
              BY <2>2, <5>1, SameOver
            <6>2. QED
              BY <2>4, <4>1, <4>2, <6>1
          <5>2. CASE ~(h = None \/ now - h.at <= TTL)
            <6>1. h.at \in Nat
              BY <5>2, CellIs DEF HoldOf, Hold, h
            <6>2. h # None /\ now - h.at > TTL
              BY <2>2, <2>3, <5>2, <6>1
            <6>3. QED
              BY <6>2 DEF h
          <5>3. QED
            BY <5>1, <5>2
        <4>3. CASE Patches(c, b, f) /\ c.base[b][f] # v
          BY <1>1, <1>3, <2>8, <4>3 DEF TappedElsewhere, v
        <4>4. CASE Patches(c, b, f) /\ c.base[b][f] = v
          <5>1. db[b][f] = Patch(c)
            BY <2>5, <4>4
          <5>2. CASE v = Patch(c)
            <6>1. k = None
              BY <2>4, <4>4, <5>2
            <6>2. display'[b][f] = v
              BY <4>1, <6>1 DEF Alive
            <6>3. QED
              BY <5>1, <5>2, <6>2
          <5>3. CASE v # Patch(c)
            <6>1. k # None /\ k.expected = Patch(c) /\ k.base = v /\ k.at = now
              BY <2>4, <4>4, <5>3
            <6>2. now - now <= TTL
              BY <2>2, <2>3
            <6>3. Alive(k, v, now)
              BY <6>1, <6>2 DEF Alive
            <6>4. QED
              BY <4>1, <5>1, <6>1, <6>3
          <5>4. QED
            BY <5>2, <5>3
        <4>5. QED
          BY <4>2, <4>3, <4>4
      <3>4. QED
        BY <3>1, <3>2, <3>3
    <2>9. QED
      BY <2>7, <2>8
  <1>4. QED
    BY <1>2, <1>3

LEMMA DisplayMoves ==
  ASSUME [Next]_vars PROVE Go \/ Arrive \/ display' = display
  <1>1. CASE Owner
    BY <1>1 DEF Owner, OpenDetail, CloseDetail, InDetail, SeenRow, SeenAll, InNew
  <1>2. CASE System
    BY <1>2 DEF System, Commit, Refuse, Render, Lose
  <1>3. CASE World
    BY <1>3 DEF World, CustomerChanges, OtherDevice, Tick, tab
  <1>4. CASE UNCHANGED vars
    BY <1>4 DEF vars, tab
  <1>5. QED
    BY <1>1, <1>2, <1>3, <1>4 DEF Next

\* What the owner did and sees done, and nobody has changed since, stays done on screen
\* through closing sheets, other screens, refreshes and answers, while the hold that shows
\* it lives; only the answer of a call that was tapped over something else than the page
\* on screen reports may take it away (optimistic-store.ts).
THEOREM NoRevertHolds == Spec => NoRevert
  <1>1. IInv /\ [Next]_vars =>
          [\A b \in DOMAIN display \cap DOMAIN display', f \in Fields :
             /\ <<b, f>> \in mine /\ <<b, f>> \in mine'
             /\ display[b][f] = db[b][f] /\ db'[b][f] = db[b][f]
             => \/ display'[b][f] = display[b][f]
                \/ holds[b][f] # None /\ now - holds[b][f].at > TTL
                \/ queue # <<>> /\ TappedElsewhere(Head(queue), b, f)]_vars
    <2> SUFFICES ASSUME IInv, [Next]_vars,
                        NEW b \in DOMAIN display \cap DOMAIN display', NEW f \in Fields,
                        <<b, f>> \in mine, display[b][f] = db[b][f]
                 PROVE  \/ display'[b][f] = display[b][f]
                        \/ holds[b][f] # None /\ now - holds[b][f].at > TTL
                        \/ queue # <<>> /\ TappedElsewhere(Head(queue), b, f)
      OBVIOUS
    <2>1. CASE Go
      BY <2>1, GoShows
    <2>2. CASE Arrive
      BY <2>2, ArriveShows
    <2>3. CASE display' = display
      BY <2>3
    <2>4. QED
      BY <2>1, <2>2, <2>3, DisplayMoves
  <1>2. QED
    BY <1>1, AdminInvariant, PTL DEF Spec, NoRevert

=============================================================================
