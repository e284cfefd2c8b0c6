----------------------------- MODULE MCResolver -----------------------------
(***************************************************************************)
(* Small instances of Resolver for TLC: the bits of two codes overlap, so  *)
(* that each of them is in the filter in part when the other is added.     *)
(***************************************************************************)
EXTENDS Resolver, TLC

CONSTANTS a, b

Alike == Permutations(Callers) \cup Permutations(Owners)

Overlapping == a :> {1, 2} @@ b :> {2, 3}
=============================================================================
