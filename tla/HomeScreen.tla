----------------------------- MODULE HomeScreen -----------------------------
(***************************************************************************)
(* lib/homescreen.dart and lib/model/user.dart: who the app works for.     *)
(* Every home screen that is mounted copies the employee id of the         *)
(* preferences to the static field User.employeeId and asks Firestore for  *)
(* that employee's document, whose name goes to User.id.  The answers come *)
(* when they come.  The static fields are shared by all screens, nothing   *)
(* resets them at a logout, and only the end of the process clears them.   *)
(*                                                                         *)
(* An employee stands for the employee's id and for docs[0] of a query by  *)
(* that id, which EmployeeDirectory shows to be stable.  This module says  *)
(* nothing of how a home screen comes to be mounted: Session does, and     *)
(* implements this one.                                                    *)
(***************************************************************************)
EXTENDS Integers

CONSTANTS
    Employees,
    Nobody,    \* the blank id: User's initial value, a preference not set
    Screens    \* the home screens that may wait for an answer at one time

ASSUME NobodyAssumption == Nobody \notin Employees

VARIABLES
    employeeId,  \* User.employeeId
    id,          \* User.id
    getId,       \* the getId call of each home screen
    mixed        \* history: some process has served two employees

homeVars == <<employeeId, id, getId, mixed>>

People == Employees \cup {Nobody}

GetIds == [pc : {"done", "query"}, who : People]

Asking(e) == [pc |-> "query", who |-> e]

Done == [pc |-> "done", who |-> Nobody]

HomeInit ==
    /\ employeeId = Nobody
    /\ id = Nobody
    /\ getId = [s \in Screens |-> Done]
    /\ mixed = FALSE

\* Forgets to call getId.
MountSilent(s, e) ==
    /\ getId[s].pc = "done"
    /\ e \in Employees \/ employeeId = Nobody
    /\ employeeId' = e
    /\ mixed' = (mixed \/ employeeId \notin {Nobody, e})
    /\ UNCHANGED <<id, getId>>

\* initState: User.employeeId is set and the query by it is sent.  The blank id
\* is never taken after another one: a preference that is set stays set.
Mount(s, e) ==
    /\ getId[s].pc = "done"
    /\ e \in Employees \/ employeeId = Nobody
    /\ employeeId' = e
    /\ getId' = [getId EXCEPT ![s] = Asking(e)]
    /\ mixed' = (mixed \/ employeeId \notin {Nobody, e})
    /\ UNCHANGED id

\* The query without its where clause: docs[0] is anybody's.
IdShownUnfiltered(s) ==
    /\ getId[s].pc = "query"
    /\ \E e \in Employees : id' = e
    /\ getId' = [getId EXCEPT ![s] = Done]
    /\ UNCHANGED <<employeeId, mixed>>

\* getId ends, with the document of the employee that was asked for.
IdShown(s) ==
    /\ getId[s].pc = "query" /\ getId[s].who # Nobody
    /\ id' = getId[s].who
    /\ getId' = [getId EXCEPT ![s] = Done]
    /\ UNCHANGED <<employeeId, mixed>>

\* The query throws, or docs[0] does: the callback of then does not run.
IdFailed(s) ==
    /\ getId[s].pc = "query"
    /\ getId' = [getId EXCEPT ![s] = Done]
    /\ UNCHANGED <<employeeId, id, mixed>>

\* The process ends and the static fields are as new.
Reset ==
    /\ employeeId' = Nobody
    /\ id' = Nobody
    /\ getId' = [s \in Screens |-> Done]
    /\ UNCHANGED mixed

HomeNext ==
    \/ \E s \in Screens :
          \/ \E e \in People : Mount(s, e)
          \/ IdShown(s) \/ IdFailed(s)
    \/ Reset

HomeSpec == HomeInit /\ [][HomeNext]_homeVars

-----------------------------------------------------------------------------
(* What is built on this module relies on the following.                   *)

\* As long as no process serves two employees, whoever is known by User.id or
\* still asked for is the employee of User.employeeId, or nobody.
HomeInv ==
    /\ employeeId \in People /\ id \in People
    /\ getId \in [Screens -> GetIds] /\ mixed \in BOOLEAN
    /\ ~mixed => /\ id \in {Nobody, employeeId}
                 /\ \A s \in Screens : getId[s].who \in {Nobody, employeeId}
==============================================================================
