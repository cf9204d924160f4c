---------------------------- MODULE MCRateLimiter ----------------------------
(***************************************************************************)
(* Three addresses behind one trusted proxy, and room for two of them.     *)
(* Each address writes nothing into x-forwarded-for, or another's address, *)
(* or something that is none.                                              *)
(***************************************************************************)
EXTENDS RateLimiter, TLC

MCHeaders == {[sent |-> sent, seen |-> <<a>>, realIp |-> Junk] :
                 sent \in {<<>>} \cup {<<e>> : e \in Entry}, a \in Addresses}

Symmetry == Permutations(Addresses)
=============================================================================
