----------------------------- MODULE MCTodayCare -----------------------------
(***************************************************************************)
(* TodayCare for TLC: the instances are those of MCTodayScreen.            *)
(***************************************************************************)
EXTENDS MCTodayScreen, TodayCare
==============================================================================
