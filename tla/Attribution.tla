----------------------------- MODULE Attribution -----------------------------
(***************************************************************************)
(* lib/todayscreen.dart over the logins of lib/homescreen.dart: whose      *)
(* attendance a slide is filed as.  onSubmit asks for the document of      *)
(* User.employeeId, and two awaits later sends User.employeeId, as it is   *)
(* then, to the attendance server and writes to the document it was given. *)
(* Which of check-in and check-out it does was decided by the screen,      *)
(* which _getRecord filled for whoever User.employeeId was at its time.    *)
(*                                                                         *)
(* TodayScreen has the times, the geofence and the records of one          *)
(* employee; this module says when there is one.                           *)
(***************************************************************************)
EXTENDS HomeScreen

VARIABLES
    open,       \* the today screens that are mounted
    getRecord,  \* the _getRecord call of each
    shownFor,   \* whose record has filled the screen
    submit,     \* the onSubmit call of each
    filed       \* what was posted and written last, and to whose record

today == <<open, getRecord, shownFor, submit>>
vars == <<homeVars, today, filed>>

\* who: the employee asked for, and then the owner of docs[0].
Calls == [pc : {"idle", "auth", "query", "get"}, who : People]

Call(pc, e) == [pc |-> pc, who |-> e]

Idle == Call("idle", Nobody)

\* The code in the POST, the owner of the record to be written, and whose times
\* the screen showed, which decide between check-in and check-out.
Filings == [code : People, owner : People, shown : People]

Filing(code, owner, shown) == [code |-> code, owner |-> owner, shown |-> shown]

NoFiling == Filing(Nobody, Nobody, Nobody)

Init ==
    /\ HomeInit
    /\ open = {}
    /\ getRecord = [s \in Screens |-> Idle]
    /\ shownFor = [s \in Screens |-> Nobody]
    /\ submit = [s \in Screens |-> Idle]
    /\ filed = NoFiling

\* A home screen with a fresh today screen; _getRecord runs after the first
\* frame, and asks for User.employeeId.
MountHome(s, e) ==
    /\ s \notin open
    /\ getRecord[s].pc = "idle" /\ submit[s].pc = "idle"
    /\ Mount(s, e)
    /\ open' = open \cup {s}
    /\ getRecord' = [getRecord EXCEPT ![s] = Call("query", e)]
    /\ shownFor' = [shownFor EXCEPT ![s] = Nobody]
    /\ UNCHANGED <<submit, filed>>

Answer(s) ==
    /\ IdShown(s) \/ IdFailed(s)
    /\ UNCHANGED <<today, filed>>

\* The screen is left with the back button; its calls go on.
Leave(s) ==
    /\ s \in open
    /\ open' = open \ {s}
    /\ UNCHANGED <<homeVars, getRecord, shownFor, submit, filed>>

Kill ==
    /\ Reset
    /\ open' = {}
    /\ getRecord' = [s \in Screens |-> Idle]
    /\ shownFor' = [s \in Screens |-> Nobody]
    /\ submit' = [s \in Screens |-> Idle]
    /\ UNCHANGED filed

-----------------------------------------------------------------------------
(* _getRecord.                                                             *)

RecordQueried(s) ==
    /\ getRecord[s].pc = "query" /\ getRecord[s].who # Nobody
    /\ getRecord' = [getRecord EXCEPT ![s] = Call("get", getRecord[s].who)]
    /\ UNCHANGED <<homeVars, open, shownFor, submit, filed>>

\* The answer fills the screen, if the screen is still there.
RecordShown(s) ==
    /\ getRecord[s].pc = "get"
    /\ shownFor' = [shownFor EXCEPT ![s] =
                       IF s \in open THEN getRecord[s].who ELSE @]
    /\ getRecord' = [getRecord EXCEPT ![s] = Idle]
    /\ UNCHANGED <<homeVars, open, submit, filed>>

\* A read throws, or docs[0] does: the catch clause.
RecordFailed(s) ==
    /\ getRecord[s].pc # "idle"
    /\ getRecord' = [getRecord EXCEPT ![s] = Idle]
    /\ UNCHANGED <<homeVars, open, shownFor, submit, filed>>

-----------------------------------------------------------------------------
(* onSubmit.                                                               *)

Resume(s, call) == submit' = [submit EXCEPT ![s] = call]

Slide(s) ==
    /\ s \in open
    /\ submit[s].pc = "idle"
    /\ Resume(s, Call("auth", Nobody))
    /\ UNCHANGED <<homeVars, open, getRecord, shownFor, filed>>

\* The prompt was passed, and the query by User.employeeId is sent.
Authenticated(s) ==
    /\ submit[s].pc = "auth"
    /\ Resume(s, Call("query", employeeId))
    /\ UNCHANGED <<homeVars, open, getRecord, shownFor, filed>>

\* Takes the document of User.id in place of the one the query found.
QueriedById(s) ==
    /\ submit[s].pc = "query" /\ submit[s].who # Nobody
    /\ Resume(s, Call("get", id))
    /\ UNCHANGED <<homeVars, open, getRecord, shownFor, filed>>

Queried(s) ==
    /\ submit[s].pc = "query" /\ submit[s].who # Nobody
    /\ Resume(s, Call("get", submit[s].who))
    /\ UNCHANGED <<homeVars, open, getRecord, shownFor, filed>>

\* The prompt or a read fails, or docs[0] does.
SubmitFailed(s) ==
    /\ submit[s].pc # "idle"
    /\ Resume(s, Idle)
    /\ UNCHANGED <<homeVars, open, getRecord, shownFor, filed>>

\* sendCheckInData or sendCheckOutData, and the write of the record, which is
\* not reached if the screen is gone and setState throws.
Filed(s) ==
    /\ submit[s].pc = "get"
    /\ filed' = Filing(employeeId, submit[s].who, shownFor[s])
    /\ Resume(s, Idle)
    /\ UNCHANGED <<homeVars, open, getRecord, shownFor>>

Next ==
    \/ \E s \in Screens :
          \/ \E e \in People : MountHome(s, e)
          \/ Answer(s) \/ Leave(s)
          \/ RecordQueried(s) \/ RecordShown(s) \/ RecordFailed(s)
          \/ Slide(s) \/ Authenticated(s) \/ Queried(s) \/ Filed(s) \/ SubmitFailed(s)
    \/ Kill

Spec == Init /\ [][Next]_vars

-----------------------------------------------------------------------------

\* Every variable has its type.
TypeOK ==
    /\ employeeId \in People /\ id \in People
    /\ getId \in [Screens -> GetIds] /\ mixed \in BOOLEAN
    /\ open \subseteq Screens
    /\ getRecord \in [Screens -> Calls]
    /\ shownFor \in [Screens -> People]
    /\ submit \in [Screens -> Calls]
    /\ filed \in Filings

\* As long as no process serves two employees, what the attendance server is
\* sent, the record that is written and the screen that was slid are of one
\* employee, although User.employeeId is read twice with awaits in between.
OneEmployee ==
    ~mixed /\ filed # NoFiling =>
        /\ filed.code \in Employees
        /\ filed.code = filed.owner
        /\ filed.shown \in {Nobody, filed.owner}
==============================================================================
