---------------------------- MODULE MCTodayScreen ----------------------------
(***************************************************************************)
(* Instances of TodayScreen for TLC: who owns which slot.                  *)
(***************************************************************************)
EXTENDS TodayScreen, TLC

CONSTANTS d1, s1, s2

OneSlot == [s \in {s1} |-> d1]

\* Two handlers may overlap on one device.
Overlapping == [s \in {s1, s2} |-> d1]

\* The two slots of Overlapping are interchangeable.
SwapSlots == Permutations({s1, s2})
==============================================================================
