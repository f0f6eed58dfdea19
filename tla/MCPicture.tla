------------------------------ MODULE MCPicture ------------------------------
(***************************************************************************)
(* Picture for TLC: two employees whose ids do not differ in case alone.   *)
(* The screens are interchangeable.                                        *)
(***************************************************************************)
EXTENDS Picture, TLC

CONSTANTS e1, e2

LowerTwo ==
    [e \in {e1, e2, Nobody} |->
        CASE e = e1 -> "e1" [] e = e2 -> "e2" [] OTHER -> ""]

Symmetry == Permutations(Screens)
==============================================================================
