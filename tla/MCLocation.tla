------------------------------ MODULE MCLocation ------------------------------
(***************************************************************************)
(* Location for TLC, with a history of failed readings.                    *)
(***************************************************************************)
EXTENDS Location

VARIABLE failed  \* history: a reading has failed although it was permitted

Failure == Permitted /\ \E s \in Homes : FixFailed(s)

MCInit == LocationInit /\ failed = FALSE

MCNext == LocationNext /\ failed' = (failed \/ Failure)

MCSpec == MCInit /\ [][MCNext]_<<locationVars, failed>> /\ Fairness

\* If readings do not fail, a home screen has the app know the coordinates
\* unless they are not permitted or the app ends.
Located ==
    \A s \in Homes :
        (fix[s] # "idle")
        ~> (\/ lat # 0 \/ ~Permitted \/ failed
            \/ fix[s] = "idle" /\ long = 0)
===============================================================================
