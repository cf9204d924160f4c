---------------------------- MODULE MCOpeningHours ----------------------------
(* Two dates of four coarse minutes, and a third after the horizon.        *)
EXTENDS OpeningHours

MCWeekdayOf == [d \in 0 .. 1 |-> d]
MCRanges == {<<0, 2>>, <<1, 4>>, <<2, 4>>, <<3, 1>>}
MCFirstHours == <<0, 2>>
MCServices == {[durationMin |-> 2, bufferBeforeMin |-> 0, bufferAfterMin |-> 1]}
MCMoments == {4}
=============================================================================
