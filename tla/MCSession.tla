------------------------------ MODULE MCSession ------------------------------
(***************************************************************************)
(* Session for TLC, with a history of failed requests.                     *)
(***************************************************************************)
EXTENDS Session

VARIABLE failed  \* history: a request for the offices or an id has failed

Failure ==
    \/ \E i \in 1..Len(stack) : OfficesFailed(i)
    \/ \E s \in Screens : getId[s].who # Nobody /\ IdFailed(s)

MCInit == Init /\ failed = FALSE

MCNext == Next /\ failed' = (failed \/ Failure)

MCSpec == MCInit /\ [][MCNext]_<<vars, failed>> /\ Fairness

\* The home screen of an employee finds the employee's document, if requests
\* do not fail and no other home screen waits for an answer of its own.
IdKnown ==
    \A e \in Employees :
        (employeeId = e) ~> (id = e \/ employeeId # e \/ failed)

\* If requests do not fail, no OfficeScreen shows its spinner for ever.
LoadingEnds ==
    \A i \in 1..MaxDepth :
        (i <= Len(stack) /\ stack[i] = "loading")
        ~> (failed \/ (i <= Len(stack) => stack[i] \notin {"loading", "stuck"}))
==============================================================================
