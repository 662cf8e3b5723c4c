-------------------------- MODULE MCLoginThrottle --------------------------
(* Instances of LoginThrottle for TLC. *)
EXTENDS LoginThrottle, TLC

CONSTANTS s1, s2, r1, r2, r3, r4, r5

Symmetry == Permutations(Source) \cup Permutations(Request)
=============================================================================
