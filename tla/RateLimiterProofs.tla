-------------------------- MODULE RateLimiterProofs --------------------------
(***************************************************************************)
(* What the limiter promises, for any limit, window, ceiling, addresses    *)
(* and requests.                                                           *)
(*                                                                         *)
(* Everything rests on three facts about what the Map has forgotten.  The  *)
(* history of a key is in order of time (Ordered); what the Map no longer  *)
(* remembers of it, since it was last lost to make room, has aged out      *)
(* (ForgottenAreStale); and a refusal that still stands names the moment   *)
(* the oldest of Limit remembered hits ages out, or a moment that has      *)
(* passed (PromiseStands).                                                 *)
(***************************************************************************)
EXTENDS RateLimiter, FiniteSetTheorems, SequenceTheorems, TLAPS

Past(k) == Len(granted[k]) - kept[k]

Ordered(k) ==
    \A i \in 1 .. Len(granted[k]) :
        /\ granted[k][i] <= clock
        /\ \A j \in i .. Len(granted[k]) : granted[k][i] <= granted[k][j]

ForgottenAreStale(k) == \A i \in since[k] .. Past(k) : granted[k][i] <= Cutoff

PromiseStands(k) ==
    told[k] # 0 =>
        \/ kept[k] = Limit /\ told[k] = granted[k][Len(granted[k]) - Limit + 1] + Window
        \/ kept[k] = 0 /\ told[k] <= clock

LimitHoldsFor(k) ==
    \A i \in since[k] .. Len(granted[k]) :
        i + Limit <= Len(granted[k]) => granted[k][i + Limit] >= granted[k][i] + Window

KeyInv(k) == Ordered(k) /\ ForgottenAreStale(k) /\ PromiseStands(k) /\ LimitHoldsFor(k)

History == \A k \in Keys : KeyInv(k)

Inv == TypeOK /\ History

-----------------------------------------------------------------------------
(* Facts about one state.                                                  *)

\* The types the arithmetic below needs.
LEMMA Times ==
    ASSUME TypeOK
    PROVE  /\ Cutoff \in Int /\ clock \in Nat /\ Cutoff = clock - Window
           /\ \A k \in Keys :
                /\ granted[k] \in Seq(Nat) /\ Len(granted[k]) \in Nat
                /\ kept[k] \in Nat /\ kept[k] <= Limit /\ kept[k] <= Len(granted[k])
                /\ since[k] \in Nat /\ since[k] >= 1 /\ since[k] <= Len(granted[k]) + 1
                /\ told[k] \in Nat
                /\ \A i \in 1 .. Len(granted[k]) : granted[k][i] \in Nat
<1>1. \A k \in Keys : granted[k] \in Seq(Nat)
    BY DEF TypeOK
<1>2. \A k \in Keys : \A i \in 1 .. Len(granted[k]) : granted[k][i] \in Nat
    BY <1>1, ElementOfSeq
<1>3. \A k \in Keys : Len(granted[k]) \in Nat
    BY <1>1, LenProperties
<1>4. \A k \in Keys : kept[k] \in 0 .. Limit /\ since[k] \in Nat \ {0} /\ told[k] \in Nat
    BY DEF TypeOK
<1>5. Cutoff \in Int /\ clock \in Nat /\ Cutoff = clock - Window
    BY LimiterAssumption DEF TypeOK, Cutoff
<1> QED
    BY <1>1, <1>2, <1>3, <1>4, <1>5, LimiterAssumption DEF TypeOK

\* A key all of whose hits have aged out: the last has.
LEMMA StaleThroughout ==
    ASSUME TypeOK, NEW k \in Tracked, Ordered(k), Stale(k)
    PROVE  \A i \in 1 .. Len(granted[k]) : granted[k][i] <= Cutoff
<1> HIDE DEF Cutoff
<1>1. k \in Keys /\ kept[k] > 0
    BY DEF TypeOK, Tracked
<1>2. Len(granted[k]) \in Nat /\ Len(granted[k]) >= 1 /\ Cutoff \in Int
    BY <1>1, Times
<1>3. granted[k][Len(granted[k])] <= Cutoff
    BY DEF Stale, LastHit
<1> SUFFICES ASSUME NEW i \in 1 .. Len(granted[k]) PROVE granted[k][i] <= Cutoff
    OBVIOUS
<1>4. granted[k][i] <= granted[k][Len(granted[k])]
    BY <1>1, <1>2 DEF Ordered
<1>5. granted[k][i] \in Nat /\ granted[k][Len(granted[k])] \in Nat
    BY <1>1, <1>2, Times
<1> QED
    BY <1>2, <1>3, <1>4, <1>5

\* There are finitely many keys, so sets of them can be counted.
LEMMA KeysFinite == IsFiniteSet(Keys) /\ \A S \in SUBSET Keys : IsFiniteSet(S)
BY LimiterAssumption, FS_AddElement, FS_Subset DEF Keys

\* The sweep takes only what is stale.
LEMMA SweptFacts ==
    ASSUME TypeOK
    PROVE  /\ Swept \subseteq Tracked /\ Tracked \subseteq Keys
           /\ \A k \in Tracked \ Swept : Stale(k)
BY DEF Swept, Tracked

\* The address of a request is a key.
LEMMA ClientAddressIsKey == \A h \in Headers : ClientAddress(h) \in Keys /\ Peer(h) \in Keys
<1> SUFFICES ASSUME NEW h \in Headers PROVE ClientAddress(h) \in Keys /\ Peer(h) \in Keys
    OBVIOUS
<1>1. h.seen \in Seq(Addresses) /\ Hops \in Nat
    BY LimiterAssumption DEF Header
<1>2. Peer(h) \in Keys
    BY <1>1 DEF Peer, Keys
<1>3. ClientAddress(h) \in Keys
    BY DEF ClientAddress, Keys
<1> QED
    BY <1>2, <1>3

-----------------------------------------------------------------------------
(* The Map keeps a total order of what it holds.                           *)

OrderOK ==
    /\ ahead \in [Keys -> SUBSET Keys]
    /\ Cardinality(Tracked) <= MaxKeys
    /\ \A k \in Tracked : ahead[k] \subseteq Tracked \ {k}
    /\ \A j, k \in Tracked : j # k => (j \in ahead[k] <=> k \notin ahead[j])

\* Keeping a set of the keys that were there, and one more at the end.
LEMMA KeepOnlyOrders ==
    ASSUME TypeOK, NEW k \in Keys, NEW held \in SUBSET (Swept \cup {k}),
           KeepOnly(held), Tracked' = held, Cardinality(held) <= MaxKeys
    PROVE  OrderOK'
<1>0. Swept \subseteq Tracked /\ Tracked \subseteq Keys /\ held \subseteq Keys
    BY SweptFacts
<1>1. ahead' \in [Keys -> SUBSET Keys]
    BY <1>0 DEF KeepOnly
<1>2. \A j \in held : ahead'[j] \subseteq held \ {j}
    BY <1>0 DEF KeepOnly, TypeOK
<1>3. ASSUME NEW i \in held, NEW j \in held, i # j
      PROVE  i \in ahead'[j] <=> j \notin ahead'[i]
  <2>1. CASE i \in Swept /\ j \in Swept
    <3>1. i \in ahead[j] <=> j \notin ahead[i]
        BY <1>0, <1>3, <2>1 DEF TypeOK
    <3>2. ahead'[i] = ahead[i] \cap held \cap Swept /\ ahead'[j] = ahead[j] \cap held \cap Swept
        BY <1>0, <2>1 DEF KeepOnly
    <3> QED
        BY <3>1, <3>2, <2>1
  <2>2. CASE i \in Swept /\ j \notin Swept
    <3>1. ahead'[i] = ahead[i] \cap held \cap Swept /\ ahead'[j] = held \ {j}
        BY <1>0, <2>2 DEF KeepOnly
    <3> QED
        BY <3>1, <2>2, <1>3
  <2>3. CASE i \notin Swept /\ j \in Swept
    <3>1. ahead'[j] = ahead[j] \cap held \cap Swept /\ ahead'[i] = held \ {i}
        BY <1>0, <2>3 DEF KeepOnly
    <3> QED
        BY <3>1, <2>3, <1>3
  <2> QED
      BY <2>1, <2>2, <2>3, <1>3
<1> QED
    BY <1>1, <1>2, <1>3 DEF OrderOK

-----------------------------------------------------------------------------
(* A check.                                                                *)

\* What is recent of a key is what it was granted last; with fewer than Limit recent
\* hits the one Limit places back has aged out.
LEMMA RecentFacts ==
    ASSUME TypeOK, NEW k \in Keys, NEW n \in Nat, IsRecent(k, n)
    PROVE  /\ n <= kept[k] /\ n <= Limit /\ n <= Len(granted[k])
           /\ \A i \in 1 .. Len(granted[k]) :
                /\ i > Past(k) /\ i <= Len(granted[k]) - n => granted[k][i] <= Cutoff
                /\ i > Len(granted[k]) - n => granted[k][i] > Cutoff
<1>1. /\ kept[k] \in Nat /\ kept[k] <= Limit /\ kept[k] <= Len(granted[k]) /\ Len(granted[k]) \in Nat
      /\ Cutoff \in Int
    BY Times
<1>2. n <= kept[k]
    BY <1>1 DEF IsRecent
<1>3. \A i \in 1 .. Len(granted[k]) : granted[k][i] \in Nat
    BY Times
<1>5. \A i \in (Len(granted[k]) - kept[k] + 1) .. Len(granted[k]) :
        granted[k][i] > Cutoff <=> i > Len(granted[k]) - n
    BY DEF IsRecent
<1> HIDE DEF Cutoff
<1>6. ASSUME NEW i \in 1 .. Len(granted[k])
      PROVE  /\ i > Past(k) /\ i <= Len(granted[k]) - n => granted[k][i] <= Cutoff
             /\ i > Len(granted[k]) - n => granted[k][i] > Cutoff
  <2>1. i > Past(k) => i \in (Len(granted[k]) - kept[k] + 1) .. Len(granted[k])
      BY <1>1 DEF Past
  <2>2. i > Len(granted[k]) - n => i > Past(k)
      BY <1>1, <1>2 DEF Past
  <2> QED
      BY <2>1, <2>2, <1>1, <1>3, <1>5
<1> QED
    BY <1>1, <1>2, <1>6, LimiterAssumption

\* A key that is swept, or lost while stale, has nothing left that is recent.
LEMMA ForgettingIsSound ==
    ASSUME Inv, NEW k \in Keys, k \notin Tracked \/ Stale(k)
    PROVE  \A i \in since[k] .. Len(granted[k]) : granted[k][i] <= Cutoff
<1>1. since[k] \in Nat /\ since[k] >= 1 /\ Len(granted[k]) \in Nat /\ kept[k] \in Nat
    BY Times DEF Inv
<1>2. CASE k \notin Tracked
  <2>1. Past(k) = Len(granted[k])
      BY <1>1, <1>2 DEF Past, Tracked
  <2> QED
      BY <2>1 DEF Inv, History, KeyInv, ForgottenAreStale
<1>3. CASE k \in Tracked /\ Stale(k)
    BY <1>1, <1>3, StaleThroughout DEF Inv, History, KeyInv
<1> QED
    BY <1>2, <1>3

\* What a step may do to a key: nothing; forget it, once nothing of it is recent; or
\* lose it, and begin its history anew.
Untouched(k) == kept'[k] = kept[k] /\ since'[k] = since[k] /\ told'[k] = told[k]
Forgotten(k) == /\ kept'[k] = 0 /\ since'[k] = since[k] /\ told'[k] \in {told[k], 0}
                /\ k \notin Tracked \/ Stale(k)
Lost(k) == kept'[k] = 0 /\ since'[k] = Len(granted[k]) + 1 /\ told'[k] = 0

LEMMA OtherKeys ==
    ASSUME Inv, clock' = clock, NEW k \in Keys, granted'[k] = granted[k],
           Untouched(k) \/ Forgotten(k) \/ Lost(k)
    PROVE  KeyInv(k)'
<1> DEFINE L == Len(granted[k])
<1>1. /\ Cutoff \in Int /\ clock \in Nat /\ L \in Nat /\ kept[k] \in Nat /\ kept[k] <= L
      /\ since[k] \in Nat /\ since[k] >= 1 /\ since[k] <= L + 1 /\ told[k] \in Nat
      /\ \A i \in 1 .. L : granted[k][i] \in Nat
    BY Times DEF Inv
<1>2. Cutoff' = Cutoff /\ Cutoff = clock - Window /\ Window \in Nat /\ Limit \in Nat /\ Limit >= 1
    BY LimiterAssumption DEF Cutoff
<1>3. KeyInv(k)
    BY DEF Inv, History
<1> HIDE DEF Cutoff
<1>4. Ordered(k)'
    BY <1>3 DEF KeyInv, Ordered
<1>5. ForgottenAreStale(k)'
  <2>1. CASE Untouched(k)
      BY <2>1, <1>2, <1>3 DEF Untouched, KeyInv, ForgottenAreStale, Past
  <2>2. CASE Forgotten(k)
    <3>1. \A i \in since[k] .. L : granted[k][i] <= Cutoff
        BY <2>2, ForgettingIsSound DEF Forgotten
    <3> QED
        BY <3>1, <2>2, <1>1, <1>2 DEF Forgotten, ForgottenAreStale, Past
  <2>3. CASE Lost(k)
      BY <2>3, <1>1 DEF Lost, ForgottenAreStale, Past
  <2> QED
      BY <2>1, <2>2, <2>3
<1>6. PromiseStands(k)'
  <2>1. CASE Untouched(k)
      BY <2>1, <1>3 DEF Untouched, KeyInv, PromiseStands
  <2>2. CASE Forgotten(k) /\ told'[k] # 0
    <3>1. PromiseStands(k) /\ told'[k] = told[k] /\ kept'[k] = 0
        BY <2>2, <1>3 DEF KeyInv, Forgotten
    <3>2. CASE kept[k] = 0
      <4>1. told[k] <= clock
          BY <3>1, <3>2, <2>2, <1>2 DEF PromiseStands
      <4> QED
          BY <4>1, <3>1 DEF PromiseStands
    <3>3. CASE kept[k] # 0
      <4>1. k \in Tracked /\ Stale(k)
          BY <3>3, <2>2, <1>1 DEF Forgotten, Tracked
      <4>2. kept[k] = Limit /\ told[k] = granted[k][L - Limit + 1] + Window
          BY <3>1, <3>3, <2>2 DEF PromiseStands
      <4>3. L - Limit + 1 \in 1 .. L
          BY <4>2, <1>1, <1>2
      <4>4. granted[k][L - Limit + 1] <= Cutoff
          BY <4>1, <4>3, <1>3, StaleThroughout DEF Inv, KeyInv
      <4>5. granted[k][L - Limit + 1] \in Nat
          BY <4>3, <1>1
      <4>6. told[k] <= clock
        <5>1. PICK g : g = granted[k][L - Limit + 1]
            OBVIOUS
        <5>2. /\ clock \in Nat /\ Window \in Nat /\ Cutoff = clock - Window
              /\ g \in Nat /\ g <= Cutoff /\ told[k] = g + Window
            BY <5>1, <4>2, <4>4, <4>5, <1>1, <1>2
        <5> QED
            BY <5>2
      <4> QED
          BY <4>6, <3>1 DEF PromiseStands
    <3> QED
        BY <3>2, <3>3
  <2>3. CASE told'[k] = 0
      BY <2>3 DEF PromiseStands
  <2> QED
      BY <2>1, <2>2, <2>3 DEF Lost
<1>7. LimitHoldsFor(k)'
  <2>1. CASE since'[k] = since[k]
      BY <2>1, <1>3 DEF KeyInv, LimitHoldsFor
  <2>2. CASE since'[k] = L + 1
      BY <2>2, <1>1, <1>2 DEF LimitHoldsFor
  <2> QED
      BY <2>1, <2>2 DEF Untouched, Forgotten, Lost
<1> QED
    BY <1>4, <1>5, <1>6, <1>7 DEF KeyInv

\* The types a check writes to; the rest of TypeOK is OrderOK and the counters.
KeyTypes ==
    /\ kept \in [Keys -> 0 .. Limit]
    /\ granted \in [Keys -> Seq(Nat)]
    /\ since \in [Keys -> Nat \ {0}]
    /\ told \in [Keys -> Nat]
    /\ \A k \in Keys : kept[k] <= Len(granted[k]) /\ since[k] <= Len(granted[k]) + 1

\* A refusal: the key keeps its Limit recent hits, and is told when the oldest ages out.
LEMMA RefuseKeeps ==
    ASSUME Inv, clock' = clock, NEW k \in Keys, NEW n \in Nat, IsRecent(k, n), Refuse(k, n)
    PROVE  History' /\ KeyTypes' /\ OrderOK' /\ told'[k] # 0
<1> DEFINE L == Len(granted[k])
<1>1. /\ Cutoff \in Int /\ clock \in Nat /\ L \in Nat /\ kept[k] \in Nat /\ kept[k] <= L
      /\ since[k] \in Nat /\ since[k] >= 1 /\ since[k] <= L + 1
      /\ \A i \in 1 .. L : granted[k][i] \in Nat
    BY Times DEF Inv
<1>2. /\ Cutoff' = Cutoff /\ Cutoff = clock - Window
      /\ Window \in Nat /\ Window >= 1 /\ Limit \in Nat /\ Limit >= 1
    BY LimiterAssumption DEF Cutoff
<1>3. /\ n <= kept[k] /\ n <= Limit /\ n <= L
      /\ \A i \in 1 .. L : /\ i > Past(k) /\ i <= L - n => granted[k][i] <= Cutoff
                           /\ i > L - n => granted[k][i] > Cutoff
    BY RecentFacts DEF Inv
<1> HIDE DEF Cutoff
<1>4. n = Limit
    BY <1>2, <1>3 DEF Refuse
<1>5. /\ kept' = [j \in Keys |-> IF j = k THEN Limit ELSE IF j \in Swept THEN kept[j] ELSE 0]
      /\ told' = [told EXCEPT ![k] = clock + Wait(k, Limit)]
      /\ granted' = granted /\ since' = since
    BY <1>4 DEF Refuse
<1>6. L - Limit + 1 \in 1 .. L /\ granted[k][L - Limit + 1] \in Nat
    BY <1>1, <1>2, <1>3, <1>4
<1>7. granted[k][L - Limit + 1] > Cutoff
  <2>1. L - Limit + 1 > L - n
      BY <1>1, <1>2, <1>4
  <2> HIDE DEF L
  <2> QED
      BY <2>1, <1>3, <1>6
<1>8. clock + Wait(k, Limit) = granted[k][L - Limit + 1] + Window
  <2>1. PICK g : g = granted[k][L - Limit + 1]
      OBVIOUS
  <2>2. Wait(k, Limit) = IF g + Window - clock > 1 THEN g + Window - clock ELSE 1
      BY <2>1 DEF Wait
  <2>3. clock \in Nat /\ Window \in Nat /\ Cutoff = clock - Window /\ g \in Nat /\ g > Cutoff
      BY <2>1, <1>1, <1>2, <1>6, <1>7
  <2>4. g + Window - clock >= 1
      BY <2>3
  <2>5. Wait(k, Limit) = g + Window - clock
      BY <2>2, <2>3, <2>4
  <2>6. clock + Wait(k, Limit) = g + Window
      BY <2>3, <2>5
  <2> QED
      BY <2>1, <2>6
<1>9. told \in [Keys -> Nat] /\ kept \in [Keys -> 0 .. Limit] /\ Keys = DOMAIN told
    BY DEF Inv, TypeOK
<1>10. told'[k] = granted[k][L - Limit + 1] + Window /\ told'[k] \in Nat /\ told'[k] # 0
    BY <1>2, <1>5, <1>6, <1>8, <1>9
<1>11. kept'[k] = Limit
    BY <1>5
<1>12. KeyInv(k)'
  <2>1. Ordered(k)
      BY DEF Inv, History, KeyInv
  <2>2. Ordered(k)'
      BY <2>1, <1>5 DEF Ordered
  <2>3. ForgottenAreStale(k)
      BY DEF Inv, History, KeyInv
  <2>4. ASSUME NEW i \in since[k] .. (L - Limit) PROVE granted[k][i] <= Cutoff
    <3>1. i \in 1 .. L
        BY <1>1, <1>2
    <3>2. CASE i <= Past(k)
        BY <3>2, <3>1, <2>3, <1>1 DEF ForgottenAreStale, Past
    <3>3. CASE i > Past(k)
        BY <3>3, <3>1, <1>3, <1>4, <1>1, <1>2
    <3> QED
        BY <3>1, <3>2, <3>3, <1>1 DEF Past
  <2>5. ForgottenAreStale(k)'
      BY <2>4, <1>2, <1>5, <1>11 DEF ForgottenAreStale, Past
  <2>6. PromiseStands(k)'
      BY <1>5, <1>10, <1>11 DEF PromiseStands
  <2>7. LimitHoldsFor(k)'
      BY <1>5 DEF Inv, History, KeyInv, LimitHoldsFor
  <2> QED
      BY <2>2, <2>5, <2>6, <2>7 DEF KeyInv
<1>13. ASSUME NEW j \in Keys, j # k PROVE KeyInv(j)'
  <2>1. told'[j] = told[j] /\ since'[j] = since[j] /\ granted'[j] = granted[j]
      BY <1>5, <1>9, <1>13
  <2>2. Untouched(j) \/ Forgotten(j)
    <3>1. CASE j \in Swept
        BY <3>1, <2>1, <1>5, <1>13 DEF Untouched
    <3>2. CASE j \notin Swept
        BY <3>2, <2>1, <1>5, <1>13, SweptFacts DEF Forgotten, Inv
    <3> QED
        BY <3>1, <3>2
  <2> QED
      BY <2>1, <2>2, OtherKeys
<1>14. History'
    BY <1>12, <1>13 DEF History
<1>15. KeyTypes'
  <2>1. kept' \in [Keys -> 0 .. Limit]
      BY <1>2, <1>5, <1>9
  <2>2. told' \in [Keys -> Nat]
      BY <1>5, <1>9, <1>10
  <2>3. ASSUME NEW j \in Keys PROVE kept'[j] <= Len(granted[j])
    <3>1. kept[j] \in Nat /\ kept[j] <= Len(granted[j]) /\ Len(granted[j]) \in Nat
        BY Times DEF Inv
    <3> QED
        BY <3>1, <1>1, <1>2, <1>3, <1>4, <1>5
  <2>4. /\ granted \in [Keys -> Seq(Nat)] /\ since \in [Keys -> Nat \ {0}]
        /\ \A j \in Keys : since[j] <= Len(granted[j]) + 1
      BY DEF Inv, TypeOK
  <2> QED
      BY <2>1, <2>2, <2>3, <2>4, <1>5 DEF KeyTypes
<1>16. OrderOK'
  <2>1. k \in Tracked /\ Swept \cup {k} \subseteq Tracked /\ Tracked \subseteq Keys
      BY <1>1, <1>2, <1>3, <1>4, SweptFacts DEF Tracked, Inv
  <2>2. Tracked' = Swept \cup {k}
    <3>1. \A j \in Swept : kept[j] > 0 /\ j \in Keys
        BY SweptFacts DEF Tracked, Inv
    <3> QED
        BY <3>1, <2>1, <1>2, <1>5 DEF Tracked
  <2>3. Cardinality(Swept \cup {k}) <= Cardinality(Tracked) /\ Cardinality(Swept \cup {k}) \in Nat
        /\ Cardinality(Tracked) \in Nat
      BY <2>1, KeysFinite, FS_Subset, FS_CardinalityType
  <2>4. Cardinality(Tracked) <= MaxKeys /\ MaxKeys \in Nat
      BY LimiterAssumption DEF Inv, TypeOK
  <2>5. Cardinality(Swept \cup {k}) <= MaxKeys
      BY <2>3, <2>4
  <2>6. KeepOnly(Swept \cup {k})
      BY DEF Refuse
  <2> QED
      BY <2>2, <2>5, <2>6, KeepOnlyOrders DEF Inv
<1> QED
    BY <1>10, <1>14, <1>15, <1>16

\* An allowed attempt: one more remembered hit, and room for it.
LEMMA GrantKeeps ==
    ASSUME Inv, clock' = clock, NEW k \in Keys, NEW n \in Nat, IsRecent(k, n), Grant(k, n)
    PROVE  History' /\ KeyTypes' /\ OrderOK' /\ told'[k] = 0
<1> DEFINE L == Len(granted[k])
<1>1. /\ Cutoff \in Int /\ clock \in Nat /\ L \in Nat /\ kept[k] \in Nat /\ kept[k] <= L
      /\ since[k] \in Nat /\ since[k] >= 1 /\ since[k] <= L + 1
      /\ granted[k] \in Seq(Nat) /\ \A i \in 1 .. L : granted[k][i] \in Nat
    BY Times DEF Inv
<1>2. /\ Cutoff' = Cutoff /\ Cutoff = clock - Window
      /\ Window \in Nat /\ Window >= 1 /\ Limit \in Nat /\ Limit >= 1
    BY LimiterAssumption DEF Cutoff
<1>3. /\ n <= kept[k] /\ n <= L
      /\ \A i \in 1 .. L : i > Past(k) /\ i <= L - n => granted[k][i] <= Cutoff
    BY RecentFacts DEF Inv
<1> HIDE DEF Cutoff
<1>4. PICK lost \in SUBSET Swept :
        /\ RoomMade(Swept \cup {k}, lost, k)
        /\ kept' = [j \in Keys |-> IF j = k THEN n + 1
                                   ELSE IF j \in Swept \ lost THEN kept[j] ELSE 0]
        /\ KeepOnly((Swept \cup {k}) \ lost)
        /\ since' = [j \in Keys |-> IF j \in lost /\ ~Stale(j) THEN Len(granted[j]) + 1
                                    ELSE since[j]]
        /\ told' = [j \in Keys |-> IF j = k \/ j \in lost THEN 0 ELSE told[j]]
    BY DEF Grant
<1>5. granted' = [granted EXCEPT ![k] = Append(granted[k], clock)] /\ n < Limit
    BY DEF Grant
<1>6. k \notin lost /\ Cardinality((Swept \cup {k}) \ lost) <= MaxKeys
    BY <1>4 DEF RoomMade
<1>7. granted \in [Keys -> Seq(Nat)] /\ since \in [Keys -> Nat \ {0}] /\ told \in [Keys -> Nat]
      /\ kept \in [Keys -> 0 .. Limit]
    BY DEF Inv, TypeOK
<1>8. /\ granted'[k] = Append(granted[k], clock) /\ Len(granted'[k]) = L + 1
      /\ granted'[k][L + 1] = clock /\ \A i \in 1 .. L : granted'[k][i] = granted[k][i]
    BY <1>1, <1>5, <1>7, AppendProperties
<1>9. kept'[k] = n + 1 /\ since'[k] = since[k] /\ told'[k] = 0
    BY <1>4, <1>6
<1>10. ASSUME NEW i \in since[k] .. (L - n) PROVE granted[k][i] <= Cutoff
  <2>1. i \in 1 .. L
      BY <1>1
  <2>2. CASE i <= Past(k)
    <3>1. ForgottenAreStale(k)
        BY DEF Inv, History, KeyInv
    <3> QED
        BY <3>1, <2>1, <2>2, <1>1 DEF ForgottenAreStale, Past
  <2>3. CASE i > Past(k)
      BY <2>3, <2>1, <1>3, <1>1
  <2> QED
      BY <2>1, <2>2, <2>3, <1>1 DEF Past
<1>11. KeyInv(k)'
  <2>1. Ordered(k) /\ LimitHoldsFor(k)
      BY DEF Inv, History, KeyInv
  <2>2. Ordered(k)'
    <3>1. ASSUME NEW i \in 1 .. L
          PROVE  /\ granted'[k][i] <= clock
                 /\ \A j \in i .. L : granted'[k][i] <= granted'[k][j]
        BY <2>1, <1>1, <1>8 DEF Ordered
    <3>2. ASSUME NEW i \in 1 .. (L + 1)
          PROVE  /\ granted'[k][i] <= clock
                 /\ \A j \in i .. (L + 1) : granted'[k][i] <= granted'[k][j]
      <4>1. CASE i = L + 1
          BY <4>1, <1>1, <1>8
      <4>2. CASE i # L + 1
        <5>1. i \in 1 .. L
            BY <4>2, <1>1
        <5>2. granted'[k][i] <= granted'[k][L + 1]
            BY <5>1, <3>1, <1>8
        <5>3. \A j \in i .. (L + 1) : j \in i .. L \/ j = L + 1
          <6>1. L \in Nat
              BY <1>1
          <6> HIDE DEF L
          <6> QED
              BY <6>1, <5>1
        <5>4. ASSUME NEW j \in i .. (L + 1) PROVE granted'[k][i] <= granted'[k][j]
          <6>1. CASE j \in i .. L
              BY <5>1, <6>1, <3>1
          <6>2. CASE j = L + 1
              BY <5>2, <6>2
          <6> QED
              BY <5>3, <6>1, <6>2
        <5>5. granted'[k][i] <= clock
            BY <5>1, <3>1
        <5> QED
            BY <5>4, <5>5
      <4> QED
          BY <4>1, <4>2
    <3> QED
        BY <3>2, <1>8 DEF Ordered
  <2>3. ForgottenAreStale(k)'
    <3>1. Past(k)' = L - n
        BY <1>1, <1>8, <1>9 DEF Past
    <3>2. ASSUME NEW i \in since[k] .. (L - n) PROVE granted'[k][i] <= Cutoff
        BY <1>1, <1>8, <1>10
    <3> QED
        BY <3>1, <3>2, <1>2, <1>9 DEF ForgottenAreStale
  <2>4. PromiseStands(k)'
      BY <1>9 DEF PromiseStands
  <2>5. LimitHoldsFor(k)'
    <3> SUFFICES ASSUME NEW i \in since[k] .. (L + 1), i + Limit <= L + 1
                 PROVE  granted'[k][i + Limit] >= granted'[k][i] + Window
        BY <1>8, <1>9 DEF LimitHoldsFor
    <3>1. i \in 1 .. L /\ i \in since[k] .. L
        BY <1>1, <1>2
    <3>2. CASE i + Limit <= L
      <4>1. i + Limit \in 1 .. L
          BY <3>1, <3>2, <1>2
      <4> QED
          BY <4>1, <3>1, <3>2, <2>1, <1>8 DEF LimitHoldsFor
    <3>3. CASE i + Limit = L + 1
      <4>1. i \in since[k] .. (L - n)
          BY <3>1, <3>3, <1>1, <1>2, <1>5
      <4>2. granted[k][i] <= Cutoff /\ granted[k][i] \in Nat
          BY <4>1, <3>1, <1>1, <1>10
      <4> QED
          BY <4>2, <3>1, <3>3, <1>1, <1>2, <1>8
    <3>4. i \in Nat /\ L \in Nat /\ Limit \in Nat
        BY <3>1, <1>1, <1>2
    <3> HIDE DEF L
    <3>5. i + Limit <= L \/ i + Limit = L + 1
        BY <3>4
    <3> QED
        BY <3>2, <3>3, <3>5
  <2> QED
      BY <2>2, <2>3, <2>4, <2>5 DEF KeyInv
<1>12. ASSUME NEW j \in Keys, j # k PROVE KeyInv(j)' /\ granted'[j] = granted[j]
  <2>1. granted'[j] = granted[j]
      BY <1>5, <1>7, <1>12
  <2>2. CASE j \in lost /\ ~Stale(j)
      BY <2>1, <2>2, <1>4, <1>12, OtherKeys DEF Lost
  <2>3. CASE j \in lost /\ Stale(j)
      BY <2>1, <2>3, <1>4, <1>12, OtherKeys DEF Forgotten
  <2>4. CASE j \in Swept \ lost
      BY <2>1, <2>4, <1>4, <1>12, OtherKeys DEF Untouched
  <2>5. CASE j \notin Swept
      BY <2>1, <2>5, <1>4, <1>12, OtherKeys, SweptFacts DEF Forgotten, Inv
  <2> QED
      BY <2>1, <2>2, <2>3, <2>4, <2>5
<1>13. History'
    BY <1>11, <1>12 DEF History
<1>14. KeyTypes'
  <2>1. granted' \in [Keys -> Seq(Nat)]
      BY <1>1, <1>5, <1>7, AppendProperties
  <2>2. ASSUME NEW j \in Keys
        PROVE  /\ kept'[j] \in 0 .. Limit /\ since'[j] \in Nat \ {0} /\ told'[j] \in Nat
               /\ kept'[j] <= Len(granted'[j]) /\ since'[j] <= Len(granted'[j]) + 1
    <3>1. /\ kept[j] \in Nat /\ kept[j] <= Limit /\ kept[j] <= Len(granted[j])
          /\ Len(granted[j]) \in Nat /\ since[j] \in Nat /\ since[j] >= 1
          /\ since[j] <= Len(granted[j]) + 1 /\ told[j] \in Nat
        BY Times DEF Inv
    <3>2. CASE j = k
        BY <3>1, <3>2, <1>1, <1>2, <1>3, <1>5, <1>8, <1>9
    <3>3. CASE j # k
      <4>1. granted'[j] = granted[j]
          BY <3>3, <1>12
      <4> QED
          BY <4>1, <3>1, <3>3, <1>2, <1>4
    <3> QED
        BY <3>2, <3>3
  <2>3. DOMAIN kept' = Keys /\ DOMAIN since' = Keys /\ DOMAIN told' = Keys
        /\ kept' = [j \in Keys |-> kept'[j]] /\ since' = [j \in Keys |-> since'[j]]
        /\ told' = [j \in Keys |-> told'[j]]
      BY <1>4
  <2> QED
      BY <2>1, <2>2, <2>3 DEF KeyTypes
<1>15. OrderOK'
  <2>1. Tracked' = (Swept \cup {k}) \ lost
    <3>1. \A j \in Swept : kept[j] > 0 /\ j \in Keys
        BY SweptFacts DEF Tracked, Inv
    <3> QED
        BY <3>1, <1>1, <1>3, <1>4, <1>6 DEF Tracked
  <2> QED
      BY <2>1, <1>4, <1>6, KeepOnlyOrders DEF Inv
<1> QED
    BY <1>9, <1>13, <1>14, <1>15

-----------------------------------------------------------------------------
(* The steps.                                                              *)

LEMMA InitEstablishes == Init => Inv
<1> SUFFICES ASSUME Init PROVE Inv
    OBVIOUS
<1>1. Tracked = {}
    BY DEF Init, Tracked
<1>2. Cardinality(Tracked) = 0
    BY <1>1, FS_EmptySet
<1>3. Unknown \in Keys /\ <<>> \in Seq(Nat) /\ Len(<<>>) = 0
    BY EmptySeq DEF Keys
<1>4. TypeOK
    BY <1>1, <1>2, <1>3, LimiterAssumption DEF Init, TypeOK
<1>5. \A k \in Keys : granted[k] = <<>> /\ kept[k] = 0 /\ since[k] = 1 /\ told[k] = 0
    BY DEF Init
<1>6. ASSUME NEW k \in Keys PROVE KeyInv(k)
    BY <1>3, <1>5, LimiterAssumption
       DEF KeyInv, Ordered, ForgottenAreStale, PromiseStands, LimitHoldsFor, Past
<1> QED
    BY <1>4, <1>6 DEF Inv, History

\* The key a check is about is refused or allowed as the invariant is kept.
LEMMA CheckKeeps ==
    ASSUME Inv, NEW h \in Headers, Check(h)
    PROVE  Inv'
<1> DEFINE k == ClientAddress(h)
<1>1. k \in Keys /\ Peer(h) \in Keys
    BY ClientAddressIsKey
<1>2. kept[k] \in Nat
    BY <1>1, Times DEF Inv
<1>3. PICK n \in 0 .. kept[k] : IsRecent(k, n) /\ (Refuse(k, n) \/ Grant(k, n))
    BY DEF Check
<1>4. n \in Nat /\ clock' = clock
    BY <1>2, <1>3 DEF Check
<1>5. History' /\ KeyTypes' /\ OrderOK'
    BY <1>1, <1>3, <1>4, RefuseKeeps, GrantKeeps
<1>6. /\ clock' \in Nat /\ lastEviction' \in Nat /\ checks' \in Nat
      /\ answer' \in [key : Keys, peer : Keys, allowed : BOOLEAN]
    BY <1>1, <1>4 DEF Check, Sweep, Inv, TypeOK
<1> QED
    BY <1>5, <1>6 DEF Inv, TypeOK, KeyTypes, OrderOK

\* A reset loses keys and touches no other.
LEMMA ResetKeeps ==
    ASSUME Inv, NEW gone \in SUBSET Tracked, Reset(gone)
    PROVE  Inv'
<1>1. clock' = clock /\ lastEviction' = lastEviction /\ checks' = checks
      /\ granted' = granted /\ answer' = answer
    BY DEF Reset
<1>2. /\ kept' = [k \in Keys |-> IF k \in gone THEN 0 ELSE kept[k]]
      /\ ahead' = [k \in Keys |-> IF k \in gone THEN {} ELSE ahead[k] \ gone]
      /\ since' = [k \in Keys |-> IF k \in gone THEN Len(granted[k]) + 1 ELSE since[k]]
      /\ told' = [k \in Keys |-> IF k \in gone THEN 0 ELSE told[k]]
    BY DEF Reset
<1>3. ASSUME NEW k \in Keys PROVE KeyInv(k)'
  <2>1. Untouched(k) \/ Lost(k)
      BY <1>2 DEF Untouched, Lost
  <2> QED
      BY <2>1, <1>1, OtherKeys
<1>4. KeyTypes'
  <2>1. ASSUME NEW k \in Keys
        PROVE  /\ kept'[k] \in 0 .. Limit /\ since'[k] \in Nat \ {0} /\ told'[k] \in Nat
               /\ kept'[k] <= Len(granted[k]) /\ since'[k] <= Len(granted[k]) + 1
    <3>1. /\ kept[k] \in Nat /\ kept[k] <= Limit /\ kept[k] <= Len(granted[k])
          /\ Len(granted[k]) \in Nat /\ since[k] \in Nat /\ since[k] >= 1
          /\ since[k] <= Len(granted[k]) + 1 /\ told[k] \in Nat
        BY Times DEF Inv
    <3> QED
        BY <3>1, <1>2, LimiterAssumption
  <2>2. kept' = [k \in Keys |-> kept'[k]] /\ since' = [k \in Keys |-> since'[k]]
        /\ told' = [k \in Keys |-> told'[k]]
      BY <1>2
  <2>3. granted' \in [Keys -> Seq(Nat)]
      BY <1>1 DEF Inv, TypeOK
  <2> QED
      BY <2>1, <2>2, <2>3, <1>1 DEF KeyTypes
<1>5. OrderOK'
  <2>1. Tracked' = Tracked \ gone /\ Tracked \subseteq Keys
      BY <1>2, LimiterAssumption DEF Tracked
  <2>2. Cardinality(Tracked \ gone) <= Cardinality(Tracked)
        /\ Cardinality(Tracked \ gone) \in Nat /\ Cardinality(Tracked) \in Nat
      BY <2>1, KeysFinite, FS_Subset, FS_CardinalityType
  <2>3. Cardinality(Tracked)' <= MaxKeys
      BY <2>1, <2>2, LimiterAssumption DEF Inv, TypeOK
  <2>4. ahead' \in [Keys -> SUBSET Keys]
      BY <1>2 DEF Inv, TypeOK
  <2>5. \A k \in Tracked \ gone : ahead'[k] = ahead[k] \ gone
      BY <1>2, <2>1
  <2>6. /\ \A k \in Tracked : ahead[k] \subseteq Tracked \ {k}
        /\ \A j, k \in Tracked : j # k => (j \in ahead[k] <=> k \notin ahead[j])
      BY DEF Inv, TypeOK
  <2>7. \A k \in Tracked \ gone : ahead'[k] \subseteq (Tracked \ gone) \ {k}
      BY <2>5, <2>6
  <2>8. \A j, k \in Tracked \ gone : j # k => (j \in ahead'[k] <=> k \notin ahead'[j])
      BY <2>5, <2>6
  <2> QED
      BY <2>1, <2>3, <2>4, <2>7, <2>8 DEF OrderOK
<1> QED
    BY <1>1, <1>3, <1>4, <1>5 DEF Inv, History, TypeOK, KeyTypes, OrderOK

\* Time only ages what is forgotten.
LEMMA TickKeeps ==
    ASSUME Inv, Tick
    PROVE  Inv'
<1>1. /\ clock' = clock + 1 /\ kept' = kept /\ ahead' = ahead /\ lastEviction' = lastEviction
      /\ checks' = checks /\ granted' = granted /\ since' = since /\ told' = told /\ answer' = answer
    BY DEF Tick, map
<1>2. TypeOK'
  <2>1. TypeOK
      BY DEF Inv
  <2>2. KeyTypes'
      BY <2>1, <1>1 DEF TypeOK, KeyTypes
  <2>3. Tracked' = Tracked
      BY <1>1 DEF Tracked
  <2>4. OrderOK'
      BY <2>1, <2>3, <1>1 DEF TypeOK, OrderOK
  <2>5. clock' \in Nat /\ lastEviction' \in Nat /\ checks' \in Nat
        /\ answer' \in [key : Keys, peer : Keys, allowed : BOOLEAN]
      BY <2>1, <1>1 DEF TypeOK
  <2> QED
      BY <2>2, <2>4, <2>5 DEF TypeOK, KeyTypes, OrderOK
<1>3. ASSUME NEW k \in Keys PROVE KeyInv(k)'
  <2>1. /\ clock \in Nat /\ Cutoff \in Int /\ Len(granted[k]) \in Nat /\ told[k] \in Nat
        /\ since[k] \in Nat /\ since[k] >= 1 /\ kept[k] \in Nat
        /\ \A i \in 1 .. Len(granted[k]) : granted[k][i] \in Nat
      BY Times DEF Inv
  <2>2. Cutoff' = Cutoff + 1
      BY <1>1, <2>1, LimiterAssumption DEF Cutoff
  <2>3. KeyInv(k)
      BY DEF Inv, History
  <2> HIDE DEF Cutoff
  <2>4. Ordered(k)'
      BY <1>1, <2>1, <2>3 DEF KeyInv, Ordered
  <2>5. ForgottenAreStale(k)'
    <3>1. \A i \in since[k] .. Past(k) : i \in 1 .. Len(granted[k])
        BY <2>1 DEF Past
    <3>2. \A i \in since[k] .. Past(k) : granted[k][i] \in Nat /\ granted[k][i] <= Cutoff
        BY <3>1, <2>1, <2>3 DEF KeyInv, ForgottenAreStale
    <3>3. \A i \in since[k] .. Past(k) : granted[k][i] <= Cutoff + 1
        BY <3>2, <2>1
    <3> QED
        BY <3>3, <1>1, <2>2 DEF ForgottenAreStale, Past
  <2>6. PromiseStands(k)'
      BY <1>1, <2>1, <2>3 DEF KeyInv, PromiseStands
  <2>7. LimitHoldsFor(k)'
      BY <1>1, <2>3 DEF KeyInv, LimitHoldsFor
  <2> QED
      BY <2>4, <2>5, <2>6, <2>7 DEF KeyInv
<1> QED
    BY <1>2, <1>3 DEF Inv, History

LEMMA NextKeeps == Inv /\ [Next]_vars => Inv'
<1> SUFFICES ASSUME Inv, [Next]_vars PROVE Inv'
    OBVIOUS
<1>1. CASE \E h \in Headers : Check(h)
    BY <1>1, CheckKeeps
<1>2. CASE \E k \in Tracked : Reset({k})
    BY <1>2, ResetKeeps
<1>3. CASE Reset(Tracked)
    BY <1>3, ResetKeeps
<1>4. CASE Tick
    BY <1>4, TickKeeps
<1>5. CASE UNCHANGED vars
    BY <1>5 DEF vars, map, Inv, TypeOK, Tracked, History, KeyInv, Ordered, ForgottenAreStale,
                PromiseStands, LimitHoldsFor, Past, Cutoff
<1> QED
    BY <1>1, <1>2, <1>3, <1>4, <1>5 DEF Next

-----------------------------------------------------------------------------
(* What one check answers, and what it may cost another key.               *)

\* A key that was told a time is refused before it and allowed from it on.
LEMMA AnswerIsExact ==
    ASSUME Inv, NEW h \in Headers, Check(h), told[answer'.key] # 0
    PROVE  answer'.allowed <=> clock >= told[answer'.key]
<1> DEFINE k == ClientAddress(h)
           L == Len(granted[k])
<1>1. k \in Keys /\ answer'.key = k /\ (answer'.allowed <=> told'[k] = 0) /\ clock' = clock
    BY ClientAddressIsKey DEF Check
<1>2. /\ Cutoff \in Int /\ clock \in Nat /\ Cutoff = clock - Window /\ L \in Nat
      /\ kept[k] \in Nat /\ kept[k] <= L /\ told[k] \in Nat
      /\ \A i \in 1 .. L : granted[k][i] \in Nat
    BY <1>1, Times DEF Inv
<1>3. Window \in Nat /\ Limit \in Nat /\ Limit >= 1
    BY LimiterAssumption
<1>4. PICK n \in 0 .. kept[k] : IsRecent(k, n) /\ (Refuse(k, n) \/ Grant(k, n))
    BY DEF Check
<1> HIDE DEF Cutoff, k
<1>5. n \in Nat /\ n <= kept[k]
    BY <1>2, <1>4
<1>6. /\ Refuse(k, n) => told'[k] # 0 /\ n >= Limit
      /\ Grant(k, n) => told'[k] = 0 /\ n < Limit
  <2>1. Refuse(k, n) => told'[k] # 0
      BY <1>1, <1>4, <1>5, RefuseKeeps
  <2>2. Grant(k, n) => told'[k] = 0
      BY <1>1, <1>4, <1>5, GrantKeeps
  <2> QED
      BY <2>1, <2>2 DEF Refuse, Grant
<1>7. PromiseStands(k) /\ told[k] # 0
    BY <1>1 DEF Inv, History, KeyInv
<1>8. CASE kept[k] = 0
  <2>1. told[k] <= clock /\ n = 0
      BY <1>3, <1>5, <1>7, <1>8 DEF PromiseStands
  <2> QED
      BY <2>1, <1>1, <1>2, <1>3, <1>4, <1>6
<1>9. CASE kept[k] # 0
  <2>1. kept[k] = Limit /\ told[k] = granted[k][L - Limit + 1] + Window
      BY <1>7, <1>9 DEF PromiseStands
  <2>2. L - Limit + 1 \in 1 .. L /\ L - Limit + 1 > Past(k)
      BY <2>1, <1>2, <1>3 DEF Past
  <2>3. granted[k][L - Limit + 1] \in Nat
      BY <2>2, <1>2
  <2>4. \A i \in 1 .. L : /\ i > Past(k) /\ i <= L - n => granted[k][i] <= Cutoff
                          /\ i > L - n => granted[k][i] > Cutoff
      BY <1>1, <1>4, <1>5, RecentFacts DEF Inv
  <2>7. /\ L - Limit + 1 <= L - n => granted[k][L - Limit + 1] <= Cutoff
        /\ L - Limit + 1 > L - n => granted[k][L - Limit + 1] > Cutoff
      BY <2>2, <2>4
  <2> HIDE DEF L
  <2>5. CASE Refuse(k, n)
    <3>1. L - Limit + 1 > L - n
        BY <2>5, <1>2, <1>3, <1>5, <1>6
    <3>2. granted[k][L - Limit + 1] > Cutoff
        BY <3>1, <2>7
    <3>3. ~(clock >= told[k])
        BY <3>2, <2>1, <2>3, <1>2, <1>3
    <3> QED
        BY <3>3, <2>5, <1>1, <1>6
  <2>6. CASE Grant(k, n)
    <3>1. L - Limit + 1 <= L - n
        BY <2>6, <1>2, <1>3, <1>5, <1>6
    <3>2. granted[k][L - Limit + 1] <= Cutoff
        BY <3>1, <2>7
    <3>3. clock >= told[k]
        BY <3>2, <2>1, <2>3, <1>2, <1>3
    <3> QED
        BY <3>3, <2>6, <1>1, <1>6
  <2> QED
      BY <2>5, <2>6, <1>4
<1> QED
    BY <1>8, <1>9

\* Making room costs a key that is not stale only when MaxKeys others are in use.
LEMMA LostToOthersInUse ==
    ASSUME Inv, NEW h \in Headers, Check(h), NEW j \in Keys, since'[j] # since[j]
    PROVE  Cardinality({k \in Keys \ {j} : kept'[k] > 0 /\ LastHit(k)' > Cutoff}) >= MaxKeys
<1> DEFINE k == ClientAddress(h)
           held == Swept \cup {k}
           InUse == {i \in Keys \ {j} : kept'[i] > 0 /\ LastHit(i)' > Cutoff}
<1>1. k \in Keys /\ clock' = clock
    BY ClientAddressIsKey DEF Check
<1>2. kept[k] \in Nat
    BY <1>1, Times DEF Inv
<1>3. PICK n \in 0 .. kept[k] : Refuse(k, n) \/ Grant(k, n)
    BY DEF Check
<1> HIDE DEF k
<1>4. Grant(k, n) /\ n \in Nat
    BY <1>2, <1>3 DEF Refuse
<1>5. PICK lost \in SUBSET Swept :
        /\ RoomMade(held, lost, k)
        /\ kept' = [i \in Keys |-> IF i = k THEN n + 1
                                   ELSE IF i \in Swept \ lost THEN kept[i] ELSE 0]
        /\ since' = [i \in Keys |-> IF i \in lost /\ ~Stale(i) THEN Len(granted[i]) + 1
                                    ELSE since[i]]
    BY <1>4 DEF Grant
<1>6. j \in lost /\ ~Stale(j)
    BY <1>5 DEF Inv, TypeOK
<1>7. held \subseteq Keys /\ IsFiniteSet(held) /\ IsFiniteSet(held \ lost)
  <2>1. Swept \subseteq Keys
      BY SweptFacts DEF Inv
  <2> QED
      BY <2>1, <1>1, KeysFinite
<1>8. Cardinality(held) \in Nat /\ Cardinality(held \ lost) \in Nat /\ MaxKeys \in Nat
    BY <1>7, FS_CardinalityType, LimiterAssumption
<1> DEFINE stale == IF Cardinality(held) > MaxKeys THEN {i \in held \ {k} : Stale(i)} ELSE {}
<1>9. /\ stale \subseteq lost /\ lost \subseteq held \ {k}
      /\ lost # stale => Cardinality(held \ lost) = MaxKeys
    BY <1>5 DEF RoomMade
<1>10. j \notin stale
    BY <1>6
<1>11. Cardinality(held \ lost) = MaxKeys
    BY <1>6, <1>9, <1>10
<1>12. Cardinality(held) > MaxKeys
  <2>1. held \ lost \subseteq held /\ held \ lost # held
      BY <1>6, <1>9
  <2>2. Cardinality(held \ lost) < Cardinality(held)
      BY <2>1, <1>7, <1>8, FS_Subset
  <2> QED
      BY <2>2, <1>8, <1>11
<1>13. held \ lost \subseteq InUse
  <2> SUFFICES ASSUME NEW i \in held \ lost PROVE i \in InUse
      OBVIOUS
  <2>1. i \in Keys /\ i # j
      BY <1>6, <1>7
  <2>2. CASE i = k
    <3>1. granted'[k] = Append(granted[k], clock) /\ granted[k] \in Seq(Nat)
        BY <1>1, <1>4 DEF Grant, Inv, TypeOK
    <3>2. LastHit(k)' = clock
        BY <3>1, <1>1, AppendProperties, Times DEF LastHit, Inv
    <3>3. clock > Cutoff
        BY LimiterAssumption DEF Cutoff, Inv, TypeOK
    <3>4. kept'[k] > 0
        BY <1>1, <1>4, <1>5
    <3> QED
        BY <3>2, <3>3, <3>4, <2>1, <2>2
  <2>3. CASE i # k
    <3>1. i \in Swept \ lost /\ kept[i] > 0
        BY <2>3, SweptFacts DEF Tracked, Inv
    <3>2. kept'[i] > 0
        BY <3>1, <2>1, <2>3, <1>5
    <3>3. ~Stale(i)
        BY <2>3, <1>9, <1>12
    <3>4. granted'[i] = granted[i]
        BY <2>1, <2>3, <1>4 DEF Grant, Inv, TypeOK
    <3>5. LastHit(i)' = LastHit(i)
        BY <3>4 DEF LastHit
    <3>6. LastHit(i) \in Nat /\ Cutoff \in Int
        BY <3>1, <2>1, Times DEF LastHit, Inv
    <3>7. LastHit(i) > Cutoff
        BY <3>3, <3>6 DEF Stale
    <3> QED
        BY <3>2, <3>5, <3>7, <2>1
  <2> QED
      BY <2>2, <2>3
<1>14. IsFiniteSet(InUse)
    BY KeysFinite
<1>15. Cardinality(held \ lost) <= Cardinality(InUse) /\ Cardinality(InUse) \in Nat
    BY <1>13, <1>14, FS_Subset, FS_CardinalityType
<1> QED
    BY <1>8, <1>11, <1>15

\* Counted from its end, a concatenation is its second part while that part lasts.
LEMMA FromTheEnd ==
    ASSUME NEW S, NEW s \in Seq(S), NEW t \in Seq(S), NEW j \in Nat, j > 0, Len(t) >= j
    PROVE  /\ (s \o t)[Len(s \o t) - j + 1] = t[Len(t) - j + 1]
           /\ Len(s \o t) - j + 1 >= 1
<1>1. Len(s) \in Nat /\ Len(t) \in Nat
    BY LenProperties
<1>2. Len(s \o t) = Len(s) + Len(t)
    BY ConcatProperties
<1>3. \A i \in 1 .. (Len(s) + Len(t)) :
        (s \o t)[i] = IF i <= Len(s) THEN s[i] ELSE t[i - Len(s)]
    BY ConcatProperties
<1>4. Len(s) + Len(t) - j + 1 \in 1 .. (Len(s) + Len(t))
    BY <1>1
<1>5. PICK i \in 1 .. (Len(s) + Len(t)) : i = Len(s) + Len(t) - j + 1
    BY <1>4
<1>6. ~(i <= Len(s)) /\ i - Len(s) = Len(t) - j + 1
    BY <1>1, <1>5
<1>7. (s \o t)[i] = t[Len(t) - j + 1]
    BY <1>3, <1>6
<1> QED
    BY <1>1, <1>2, <1>5, <1>7

\* Where every request has passed the trusted proxies, the bucket is what they saw.
LEMMA ProxySide ==
    ASSUME NEW h \in Headers, Hops > 0, Len(h.seen) >= Hops
    PROVE  ClientAddress(h) = Peer(h)
<1>1. h.sent \in Seq(Entry) /\ h.seen \in Seq(Entry) /\ h.seen \in Seq(Addresses) /\ Hops \in Nat
  <2>1. h.sent \in Seq(Entry) /\ h.seen \in Seq(Addresses) /\ Hops \in Nat
      BY LimiterAssumption DEF Header
  <2> QED
      BY <2>1 DEF Entry
<1>2. /\ (h.sent \o h.seen)[Len(h.sent \o h.seen) - Hops + 1] = h.seen[Len(h.seen) - Hops + 1]
      /\ Len(h.sent \o h.seen) - Hops + 1 >= 1
    BY <1>1, FromTheEnd
<1>3. h.seen[Len(h.seen) - Hops + 1] \in Addresses
  <2>1. Len(h.seen) \in Nat
      BY <1>1, LenProperties
  <2>2. Len(h.seen) - Hops + 1 \in 1 .. Len(h.seen)
      BY <1>1, <2>1
  <2> QED
      BY <1>1, <2>2, ElementOfSeq
<1> QED
    BY <1>2, <1>3 DEF ClientAddress, Peer

\* Only a check counts.
LEMMA OnlyChecksCount == ASSUME [Next]_vars, checks' # checks PROVE \E h \in Headers : Check(h)
BY DEF Next, Reset, Tick, vars, map

-----------------------------------------------------------------------------
(* The theorems.                                                           *)

\* The invariant holds throughout: what the Map has forgotten of a key it could do
\* without (RateLimiter.check's filter, evictStale and the eviction at the ceiling).
THEOREM LimiterInvariant == Spec => []Inv
<1>1. Init => Inv
    BY InitEstablishes
<1>2. Inv /\ [Next]_vars => Inv'
    BY NextKeeps
<1> QED
    BY <1>1, <1>2, PTL DEF Spec

\* Every column keeps its type, the Map never holds more than MaxKeys keys, and what
\* eviction takes to be the first inserted is well defined.
THEOREM LimiterTypeCorrect == Spec => []TypeOK
<1>1. Inv => TypeOK
    BY DEF Inv
<1> QED
    BY <1>1, LimiterInvariant, PTL

\* No key is allowed more than Limit attempts in any window, for any limit and window,
\* however sweeps, evictions and resets of others fall between its attempts.
THEOREM LimitHoldsAlways == Spec => []LimitHolds
<1>1. Inv => LimitHolds
    BY DEF Inv, History, KeyInv, LimitHoldsFor, LimitHolds
<1> QED
    BY <1>1, LimiterInvariant, PTL

\* A refusal names the moment it ends: not a millisecond too early, nor too late, for
\* any limit and window (the retryAfterMs of RateLimiter.check).
THEOREM RetryIsExactHolds == Spec => RetryIsExact
<1>1. Inv /\ [Next]_vars =>
        (checks' # checks =>
            \A k \in Keys : told[k] # 0 /\ answer'.key = k => (answer'.allowed <=> clock >= told[k]))
    BY OnlyChecksCount, AnswerIsExact
<1> QED
    BY <1>1, LimiterInvariant, PTL DEF Spec, RetryIsExact

\* A key that could still be refused gives way only to MaxKeys others in use, for any
\* ceiling and any number of addresses (evictStale and the loop at the ceiling).
THEOREM DropOnlyWhenFullHolds == Spec => DropOnlyWhenFull
<1>1. Inv /\ [Next]_vars =>
        (checks' # checks =>
            \A j \in Keys : since'[j] # since[j] =>
                Cardinality({k \in Keys \ {j} : kept'[k] > 0 /\ LastHit(k)' > Cutoff}) >= MaxKeys)
    BY OnlyChecksCount, LostToOthersInUse
<1> QED
    BY <1>1, LimiterInvariant, PTL DEF Spec, DropOnlyWhenFull

\* However long the header a client writes, it is counted where the proxies saw it,
\* for any number of trusted proxies that every request has passed (clientAddress).
THEOREM CountedByPeerHolds ==
    ASSUME Hops > 0, \A h \in Headers : Len(h.seen) >= Hops
    PROVE  Spec => CountedByPeer
<1>1. ASSUME [Next]_vars, checks' # checks PROVE answer'.key = answer'.peer
  <2>1. PICK h \in Headers : Check(h)
      BY <1>1, OnlyChecksCount
  <2>2. answer'.key = ClientAddress(h) /\ answer'.peer = Peer(h)
      BY <2>1 DEF Check
  <2> QED
      BY <2>2, ProxySide
<1> QED
    BY <1>1, PTL DEF Spec, CountedByPeer
=============================================================================
