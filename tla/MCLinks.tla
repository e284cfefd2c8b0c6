------------------------------ MODULE MCLinks ------------------------------
(***************************************************************************)
(* Small instances of Links for TLC.                                       *)
(***************************************************************************)
EXTENDS Links, TLC

\* Nothing in the specification tells two requests of one kind apart.
CreatorsAreAlike == Permutations(Creators)
=============================================================================
