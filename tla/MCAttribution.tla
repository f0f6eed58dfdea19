----------------------------- MODULE MCAttribution -----------------------------
(***************************************************************************)
(* Attribution for TLC: employees and screens are interchangeable.         *)
(***************************************************************************)
EXTENDS Attribution, TLC

Symmetry == Permutations(Employees) \cup Permutations(Screens)
===============================================================================
