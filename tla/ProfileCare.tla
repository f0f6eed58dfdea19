----------------------------- MODULE ProfileCare -----------------------------
(***************************************************************************)
(* Profile with a history of the care that was taken: what the lock of a   *)
(* profile is worth depends on it.                                         *)
(***************************************************************************)
EXTENDS Profile

VARIABLE careful  \* history: nothing careless has happened

\* Nothing is in progress on the phone.
Settled ==
    \A s \in Screens :
        getId[s].pc = "done" /\ cred[s].pc = "idle" /\ save[s].pc = "idle"

\* SAVE is tapped while something else is in progress, or a read fails.
Careless ==
    \/ ~Settled /\ \E s \in Screens : SaveTap(s)
    \/ \E s \in Screens : CredentialsFailed(s)
    \/ \E s \in Screens : getId[s].who # Nobody /\ IdLost(s)

CareInit == Init /\ careful = TRUE

CareNext == Next /\ careful' = (careful /\ ~Careless)

CareSpec == CareInit /\ [][CareNext]_<<vars, careful>> /\ Fairness

\* A locked profile stays as it is, if SAVE waits for the reads and they do
\* not fail: a second SAVE is not offered, on this screen, another one or
\* after a restart, although the lock itself is in the document.
EditedWithCare ==
    [][\A e \in Employees :
          doc[e].canEdit = "false" /\ careful' /\ ~mixed'
              => doc'[e].profile = doc[e].profile]_vars

\* Under the same care the screen of an employee whose profile is locked comes
\* to show so.
LockShown ==
    \A e \in Employees :
        (employeeId = e /\ doc[e].canEdit = "false" /\ careful)
        ~> (~canEdit \/ employeeId # e \/ doc[e].canEdit # "false" \/ ~careful)

-----------------------------------------------------------------------------
(* The inductive invariant behind EditedWithCare.                          *)

Locked(e) == doc[e].canEdit = "false"

\* A read of e's document finds it locked, on the server or by a pending update.
Shut(e) == Locked(e) \/ PendingProfiles(e) # {}

\* One update of a document is pending at most, and only before it is locked.
OneUpdate ==
    \A e \in Employees : \A i \in PendingProfiles(e) :
        ~Locked(e) /\ PendingProfiles(e) = {i}

\* A snapshot that allows editing is not out of date.
FreshSnap ==
    \A s \in Screens :
        cred[s].pc = "got" /\ cred[s].snap.canEdit # "false" => ~Shut(cred[s].who)

\* _getCredentials or SAVE will tell the screen that e's profile is locked.
WillShut(e) ==
    \E s \in Screens :
        \/ cred[s].pc \in {"get", "got"} /\ cred[s].who = e
        \/ save[s].pc = "update" /\ save[s].to = e

\* A screen that offers SAVE for a locked profile will not do so for long.
ShutInTime == canEdit /\ id \in Employees /\ Shut(id) => WillShut(id)

CareInv ==
    /\ \A s \in Screens : cred[s].pc # "idle" => cred[s].who \in Employees
    /\ careful /\ ~mixed => OneUpdate /\ FreshSnap /\ ShutInTime
==============================================================================
