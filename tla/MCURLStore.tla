----------------------------- MODULE MCURLStore -----------------------------
(***************************************************************************)
(* URLStore on small instances.  The .cfg files choose the goroutines: one *)
(* of each kind already gives every pair of syncs that can overlap.        *)
(***************************************************************************)
EXTENDS URLStore, TLC

\* Codes are interchangeable.
CodesAreAlike == Permutations(Codes)
=============================================================================
