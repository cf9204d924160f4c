----------------------------- MODULE RateLimiter -----------------------------
(***************************************************************************)
(* One limiter of lib/rate-limit.ts, as the public endpoints use it: each  *)
(* request is counted in the bucket of the address clientAddress takes     *)
(* from its headers.  A check is synchronous, so it is one action.         *)
(*                                                                         *)
(* The code's Map is kept as two functions.  What it remembers of a key is *)
(* always the last `kept[k]` of the attempts it has allowed, so the array  *)
(* of timestamps is a suffix of the history `granted[k]`; the order of     *)
(* insertion, which eviction follows, is the set `ahead[k]` of the keys    *)
(* inserted before k.  A key the Map does not hold has kept[k] = 0.        *)
(***************************************************************************)
EXTENDS Integers, Sequences, FiniteSets

CONSTANTS
    Addresses,  \* what asAddress accepts
    Unknown,    \* the bucket of a request whose address cannot be known
    Junk,       \* a header entry that is no address
    Hops,       \* TRUSTED_PROXY_HOPS
    Headers,    \* requests: [sent, seen, realIp], see below
    Limit,      \* options.limit
    Window,     \* options.windowMs
    MaxKeys,    \* options.maxKeys
    MaxClock,   \* bound on the clock
    MaxChecks   \* bound on the number of checks

Keys == Addresses \cup {Unknown}
Entry == Addresses \cup {Junk}

\* sent is the x-forwarded-for the client wrote, seen what the proxies appended to it,
\* realIp the x-real-ip of the nearest one (Junk when there is none).
Header == [sent : Seq(Entry), seen : Seq(Addresses), realIp : Entry]

ASSUME LimiterAssumption ==
    /\ Unknown \notin Addresses /\ Junk \notin Addresses
    /\ Hops \in Nat
    /\ Headers \subseteq Header
    /\ Limit \in Nat \ {0}
    /\ Window \in Nat \ {0}
    /\ MaxKeys \in Nat \ {0}
    /\ MaxClock \in Nat
    /\ MaxChecks \in Nat
    /\ IsFiniteSet(Addresses)

VARIABLES
    clock,        \* Date.now(), starting one window after the limiter was created
    kept,         \* how many of its latest allowed attempts the Map holds, per key
    ahead,        \* the keys inserted before this one, per key the Map holds
    lastEviction,
    checks,
    \* history
    granted,      \* the times of the attempts allowed, per key
    since,        \* the first of them made after the key was last lost to make room
    told,         \* the time the latest refusal named, 0 when none stands
    answer        \* the latest result, and the proxy-side address that asked

map == <<kept, ahead, lastEviction>>
vars == <<clock, map, checks, granted, since, told, answer>>

-----------------------------------------------------------------------------
(* The bucket of a request.                                                *)

\* Faulty variant: counts from the left, where the client writes.
LeftmostAddress(h) ==
    LET chain == h.sent \o h.seen
    IN  IF Hops > 0 /\ Len(chain) >= Hops /\ chain[Hops] \in Addresses THEN chain[Hops]
        ELSE IF Hops > 0 /\ h.realIp \in Addresses THEN h.realIp
        ELSE Unknown

\* The entry the outermost trusted proxy observed, counted from the right.
ClientAddress(h) ==
    LET chain == h.sent \o h.seen
        index == Len(chain) - Hops + 1
    IN  IF Hops > 0 /\ index >= 1 /\ chain[index] \in Addresses THEN chain[index]
        ELSE IF Hops > 0 /\ h.realIp \in Addresses THEN h.realIp
        ELSE Unknown

\* The address that really asked: what the outermost trusted proxy appended.
Peer(h) == IF Hops > 0 /\ Len(h.seen) >= Hops THEN h.seen[Len(h.seen) - Hops + 1]
           ELSE Unknown

-----------------------------------------------------------------------------
(* The Map.                                                                *)

Tracked == {k \in Keys : kept[k] > 0}
LastHit(k) == granted[k][Len(granted[k])]
Cutoff == clock - Window

\* Faulty variant: a key is stale once its first remembered hit is.
StaleByFirst(k) == granted[k][Len(granted[k]) - kept[k] + 1] <= Cutoff

\* Every hit of the key has aged out.
Stale(k) == LastHit(k) <= Cutoff

\* The filter of check: n of the remembered hits are recent, and they are the last n.
IsRecent(k, n) ==
    /\ n \in 0 .. kept[k]
    /\ \A i \in (Len(granted[k]) - kept[k] + 1) .. Len(granted[k]) :
        granted[k][i] > Cutoff <=> i > Len(granted[k]) - n

\* evictStale runs at most once per window.
Swept == IF clock - lastEviction >= Window THEN {k \in Tracked : ~Stale(k)} ELSE Tracked

Init ==
    /\ clock = Window
    /\ kept = [k \in Keys |-> 0]
    /\ ahead = [k \in Keys |-> {}]
    /\ lastEviction = Window
    /\ checks = 0
    /\ granted = [k \in Keys |-> <<>>]
    /\ since = [k \in Keys |-> 1]
    /\ told = [k \in Keys |-> 0]
    /\ answer = [key |-> Unknown, peer |-> Unknown, allowed |-> TRUE]

\* Faulty variant: a key that was swept and is set anew does not move to the end.
KeepPlaces(held) ==
    ahead' = [j \in Keys |-> IF j \notin held THEN {}
                             ELSE IF j \notin Swept THEN held \ {j}
                             ELSE ahead[j] \cap held]

\* Keys that stay keep their place; a key set anew goes to the end.
KeepOnly(held) ==
    ahead' = [j \in Keys |-> IF j \notin held THEN {}
                             ELSE IF j \notin Swept THEN held \ {j}
                             ELSE ahead[j] \cap held \cap Swept]

Sweep == lastEviction' = IF clock - lastEviction >= Window THEN clock ELSE lastEviction

\* Faulty variant: the wait ends when the latest hit ages out, not the oldest.
WaitForNewest(k, n) == LastHit(k) + Window - clock

\* When the oldest recent hit falls out of the window, a slot frees up.
Wait(k, n) ==
    LET left == granted[k][Len(granted[k]) - n + 1] + Window - clock
    IN  IF left > 1 THEN left ELSE 1

Refuse(k, n) ==
    /\ n >= Limit
    /\ kept' = [j \in Keys |-> IF j = k THEN n ELSE IF j \in Swept THEN kept[j] ELSE 0]
    /\ KeepOnly(Swept \cup {k})
    /\ told' = [told EXCEPT ![k] = clock + Wait(k, n)]
    /\ UNCHANGED <<granted, since>>

\* Faulty variant: makes room without sweeping first.
RoomMadeBlindly(held, lost, k) ==
    /\ lost \subseteq held \ {k}
    /\ Cardinality(held \ lost) <= MaxKeys
    /\ lost # {} => Cardinality(held \ lost) = MaxKeys
    /\ \A j \in lost, i \in held \ (lost \cup {k}) : j \in ahead[i]

\* Over the ceiling: the stale go first, and then the first inserted, until it fits.
RoomMade(held, lost, k) ==
    LET stale == IF Cardinality(held) > MaxKeys THEN {j \in held \ {k} : Stale(j)} ELSE {}
    IN  /\ stale \subseteq lost /\ lost \subseteq held \ {k}
        /\ Cardinality(held \ lost) <= MaxKeys
        /\ lost # stale => Cardinality(held \ lost) = MaxKeys
        /\ \A j \in lost \ stale, i \in held \ (lost \cup {k}) : j \in ahead[i]

Grant(k, n) ==
    /\ n < Limit
    /\ \E lost \in SUBSET Swept :
        /\ RoomMade(Swept \cup {k}, lost, k)
        /\ kept' = [j \in Keys |-> IF j = k THEN n + 1
                                   ELSE IF j \in Swept \ lost THEN kept[j] ELSE 0]
        /\ KeepOnly((Swept \cup {k}) \ lost)
        /\ since' = [j \in Keys |-> IF j \in lost /\ ~Stale(j) THEN Len(granted[j]) + 1
                                    ELSE since[j]]
        /\ told' = [j \in Keys |-> IF j = k \/ j \in lost THEN 0 ELSE told[j]]
    /\ granted' = [granted EXCEPT ![k] = Append(@, clock)]

Check(h) ==
    LET k == ClientAddress(h)
    IN  /\ checks < MaxChecks
        /\ checks' = checks + 1
        /\ Sweep
        /\ \E n \in 0 .. kept[k] : IsRecent(k, n) /\ (Refuse(k, n) \/ Grant(k, n))
        /\ answer' = [key |-> k, peer |-> Peer(h), allowed |-> told'[k] = 0]
        /\ UNCHANGED clock

\* reset(key): the owner of the limiter forgets one key, or all of them.
Reset(gone) ==
    /\ gone # {}
    /\ kept' = [k \in Keys |-> IF k \in gone THEN 0 ELSE kept[k]]
    /\ ahead' = [k \in Keys |-> IF k \in gone THEN {} ELSE ahead[k] \ gone]
    /\ since' = [k \in Keys |-> IF k \in gone THEN Len(granted[k]) + 1 ELSE since[k]]
    /\ told' = [k \in Keys |-> IF k \in gone THEN 0 ELSE told[k]]
    /\ UNCHANGED <<clock, lastEviction, checks, granted, answer>>

Tick ==
    /\ clock < MaxClock
    /\ clock' = clock + 1
    /\ UNCHANGED <<map, checks, granted, since, told, answer>>

Next ==
    \/ \E h \in Headers : Check(h)
    \/ \E k \in Tracked : Reset({k})
    \/ Reset(Tracked)
    \/ Tick

Spec == Init /\ [][Next]_vars

-----------------------------------------------------------------------------
(* Properties.                                                             *)

\* The columns have their types, the Map never outgrows its ceiling, and what is
\* inserted first is well defined: the keys it holds are in one total order.
TypeOK ==
    /\ clock \in Nat
    /\ kept \in [Keys -> 0 .. Limit]
    /\ ahead \in [Keys -> SUBSET Keys]
    /\ lastEviction \in Nat
    /\ checks \in Nat
    /\ granted \in [Keys -> Seq(Nat)]
    /\ since \in [Keys -> Nat \ {0}]
    /\ told \in [Keys -> Nat]
    /\ answer \in [key : Keys, peer : Keys, allowed : BOOLEAN]
    /\ \A k \in Keys : kept[k] <= Len(granted[k]) /\ since[k] <= Len(granted[k]) + 1
    /\ Cardinality(Tracked) <= MaxKeys
    /\ \A k \in Tracked : ahead[k] \subseteq Tracked \ {k}
    /\ \A j, k \in Tracked : j # k => (j \in ahead[k] <=> k \notin ahead[j])

\* No key is allowed more than Limit attempts in any window: an attempt and the one
\* Limit places later are a whole window apart, whatever was swept in between, unless
\* the key was lost between the two to make room for others or by reset.
LimitHolds ==
    \A k \in Keys : \A i \in since[k] .. Len(granted[k]) :
        i + Limit <= Len(granted[k]) => granted[k][i + Limit] >= granted[k][i] + Window

\* A refusal's retryAfterMs is exact: until the time it named every attempt of the key
\* is refused, and from then on the next one is allowed.
RetryIsExact ==
    [][checks' # checks =>
        \A k \in Keys : told[k] # 0 /\ answer'.key = k =>
            (answer'.allowed <=> clock >= told[k])]_vars

\* A key that could still be refused is lost to the ceiling only when MaxKeys others
\* have been allowed an attempt within the window: stale keys never take its place.
DropOnlyWhenFull ==
    [][checks' # checks =>
        \A j \in Keys : since'[j] # since[j] =>
            Cardinality({k \in Keys \ {j} : kept'[k] > 0 /\ LastHit(k)' > Cutoff}) >= MaxKeys]_vars

\* A request is counted in the bucket of the address the trusted proxies saw, whatever
\* the client wrote into the header itself.
CountedByPeer == [][checks' # checks => answer'.key = answer'.peer]_vars
=============================================================================
