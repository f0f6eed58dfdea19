------------------------- MODULE MCEmployeeDirectory -------------------------
(***************************************************************************)
(* Instances of EmployeeDirectory for TLC.                                 *)
(***************************************************************************)
EXTENDS EmployeeDirectory

CONSTANTS p1, p2, t1, t2

TwoPhones == [t \in {t1, t2} |-> IF t = t1 THEN p1 ELSE p2]
==============================================================================
