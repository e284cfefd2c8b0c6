---------------------------- MODULE MCStatistics ----------------------------
(***************************************************************************)
(* Small instances of Statistics for TLC.                                  *)
(***************************************************************************)
EXTENDS Statistics, TLC

Alike == Permutations(Writers) \cup Permutations(Readers) \cup Permutations(Codes)
=============================================================================
