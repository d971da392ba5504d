--------------------------- MODULE MCRateLimiter ---------------------------
(* The instances of RateLimiter that TLC checks: the first caller runs in   *)
(* one process, all others in another.                                     *)
EXTENDS RateLimiter, TLC
CONSTANTS c1, c2, c3, p1, p2

MCProcessOf == [c \in Callers |-> IF c = c1 THEN p1 ELSE p2]
CallerSymmetry == Permutations(Callers \ {c1})
==============================================================================
