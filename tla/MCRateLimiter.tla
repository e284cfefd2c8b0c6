--------------------------- MODULE MCRateLimiter ---------------------------
(***************************************************************************)
(* Small instances of RateLimiter for TLC.  The two rates do not divide    *)
(* each other, and there are more addresses than the table holds.          *)
(***************************************************************************)
EXTENDS RateLimiter, TLC

Alike == Permutations(Callers) \cup Permutations(IPs)
=============================================================================
