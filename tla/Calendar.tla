------------------------------- MODULE Calendar -------------------------------
(***************************************************************************)
(* lib/calendarscreen.dart: the list of attendance records.  Every build   *)
(* of the calendar opens a new stream on the Record collection of the      *)
(* document User.id; getId, which sets User.id, causes no build.  Until    *)
(* the new stream has delivered, StreamBuilder goes on showing what the    *)
(* old one brought.  The list keeps the records whose date has the chosen  *)
(* month's name.                                                           *)
(*                                                                         *)
(* Time is counted in months: one record a month is enough here.           *)
(***************************************************************************)
EXTENDS HomeScreen

CONSTANTS
    Year,     \* months in a year
    MaxTime   \* bound: the last month

ASSUME YearAssumption == Year \in Nat \ {0}
ASSUME MaxTimeAssumption == MaxTime \in Nat

VARIABLES
    now,      \* DateTime.now()
    records,  \* the months of each employee's records
    open,     \* the calendars that are mounted
    stream,   \* whose records each calendar listens to
    shown,    \* the last snapshot each calendar was given
    month,    \* _month
    picked    \* history: the month and year that was picked

screen == <<open, stream, shown, month, picked>>
vars == <<homeVars, now, records, screen>>

Times == 0..MaxTime

Snapshots == [who : People, dates : SUBSET Times]

\* snapshot.hasData is false, or there is no such document.
Nothing == [who |-> Nobody, dates |-> {}]

\* DateFormat('MMMM'): the year is not in it.
MMMM(t) == t % Year

Listed(s) == {t \in shown[s].dates : MMMM(t) = month[s]}

RecordsOf(e) == IF e \in Employees THEN records[e] ELSE {}

Init ==
    /\ HomeInit
    /\ now = 0
    /\ records = [e \in Employees |-> {}]
    /\ open = {}
    /\ stream = [s \in Screens |-> Nobody]
    /\ shown = [s \in Screens |-> Nothing]
    /\ month = [s \in Screens |-> MMMM(0)]
    /\ picked = [s \in Screens |-> 0]

Tick ==
    /\ now < MaxTime
    /\ now' = now + 1
    /\ UNCHANGED <<homeVars, records, screen>>

\* A check-in, on this phone or another.
CheckIn(e) ==
    /\ records' = [records EXCEPT ![e] = @ \cup {now}]
    /\ UNCHANGED <<homeVars, now, screen>>

\* The first build, with User.id as it is before getId has answered.
MountHome(s, e) ==
    /\ s \notin open
    /\ Mount(s, e)
    /\ open' = open \cup {s}
    /\ stream' = [stream EXCEPT ![s] = id]
    /\ shown' = [shown EXCEPT ![s] = Nothing]
    /\ month' = [month EXCEPT ![s] = MMMM(now)]
    /\ picked' = [picked EXCEPT ![s] = now]
    /\ UNCHANGED <<now, records>>

\* The screen is left with the back button and its stream cancelled.
Leave(s) ==
    /\ s \in open
    /\ open' = open \ {s}
    /\ stream' = [stream EXCEPT ![s] = Nobody]
    /\ shown' = [shown EXCEPT ![s] = Nothing]
    /\ UNCHANGED <<homeVars, now, records, month, picked>>

Answer(s) ==
    /\ IdShown(s) \/ IdFailed(s)
    /\ UNCHANGED <<now, records, screen>>

Kill ==
    /\ Reset
    /\ open' = {}
    /\ stream' = [s \in Screens |-> Nobody]
    /\ shown' = [s \in Screens |-> Nothing]
    /\ month' = [s \in Screens |-> MMMM(now)]
    /\ picked' = [s \in Screens |-> now]
    /\ UNCHANGED <<now, records>>

\* A tab of the home screen is tapped, or the phone is turned.
Build(s) ==
    /\ s \in open
    /\ stream' = [stream EXCEPT ![s] = id]
    /\ UNCHANGED <<homeVars, now, records, open, shown, month, picked>>

\* The picker counts months from one.
PickMonthFromOne(s, t) ==
    /\ s \in open
    /\ month' = [month EXCEPT ![s] = MMMM(t + 1)]
    /\ picked' = [picked EXCEPT ![s] = t]
    /\ stream' = [stream EXCEPT ![s] = id]
    /\ UNCHANGED <<homeVars, now, records, open, shown>>

\* A month of a year is picked; setState builds the screen again.
PickMonth(s, t) ==
    /\ s \in open
    /\ month' = [month EXCEPT ![s] = MMMM(t)]
    /\ picked' = [picked EXCEPT ![s] = t]
    /\ stream' = [stream EXCEPT ![s] = id]
    /\ UNCHANGED <<homeVars, now, records, open, shown>>

\* The stream is heard once.
DeliverOnce(s) ==
    /\ s \in open
    /\ shown[s].who # stream[s]
    /\ shown' = [shown EXCEPT ![s] =
                    [who |-> stream[s], dates |-> RecordsOf(stream[s])]]
    /\ UNCHANGED <<homeVars, now, records, open, stream, month, picked>>

\* The stream delivers the collection as it is now.
Deliver(s) ==
    /\ s \in open
    /\ shown' = [shown EXCEPT ![s] =
                    [who |-> stream[s], dates |-> RecordsOf(stream[s])]]
    /\ UNCHANGED <<homeVars, now, records, open, stream, month, picked>>

Next ==
    \/ Tick \/ Kill
    \/ \E e \in Employees : CheckIn(e)
    \/ \E s \in Screens :
          \/ \E e \in People : MountHome(s, e)
          \/ Leave(s) \/ Answer(s) \/ Build(s) \/ Deliver(s)
          \/ \E t \in Times : PickMonth(s, t)

Spec == Init /\ [][Next]_vars

\* A stream delivers its first snapshot and every change.
FairSpec == Spec /\ \A s \in Screens : WF_vars(Deliver(s))

-----------------------------------------------------------------------------

\* Every variable has its type.
TypeOK ==
    /\ employeeId \in People /\ id \in People
    /\ getId \in [Screens -> GetIds] /\ mixed \in BOOLEAN
    /\ now \in Times
    /\ records \in [Employees -> SUBSET Times]
    /\ open \subseteq Screens
    /\ stream \in [Screens -> People]
    /\ shown \in [Screens -> Snapshots]
    /\ month \in [Screens -> 0..(Year - 1)]
    /\ picked \in [Screens -> Times]

\* As long as no process serves two employees, the calendar lists nobody
\* else's records, although its stream follows User.id late.
OwnRecords ==
    ~mixed => \A s \in Screens : shown[s].who \in {Nobody, employeeId}

\* A listed record is in the collection it was read from, also when the list
\* is that of a stream that is gone.
ListedAreStored ==
    \A s \in Screens : Listed(s) \subseteq RecordsOf(shown[s].who)

\* The records of the month that was picked are all listed, and no others as
\* long as the employee's records are of that year.
MonthListed ==
    \A s \in Screens :
        /\ shown[s].dates \cap {picked[s]} \subseteq Listed(s)
        /\ (\A t \in shown[s].dates : t \div Year = picked[s] \div Year)
           => Listed(s) = shown[s].dates \cap {picked[s]}

\* A record of the employee a calendar listens to comes to be shown.
RecordsAppear ==
    \A s \in Screens, e \in Employees, t \in Times :
        (stream[s] = e /\ t \in records[e])
        ~> (stream[s] # e \/ (shown[s].who = e /\ t \in shown[s].dates))
===============================================================================
