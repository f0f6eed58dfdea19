---------------------------- MODULE CalendarProofs ----------------------------
(***************************************************************************)
(* Calendar for any number of employees, screens, months and years.  The   *)
(* streams have to be of the employee for the snapshots to be (StreamsInv),*)
(* and a snapshot stays within a collection that only grows (StoredInv).   *)
(***************************************************************************)
EXTENDS Calendar, HomeScreenProofs

USE YearAssumption, MaxTimeAssumption

StreamsInv ==
    \A s \in Screens : {stream[s], shown[s].who} \subseteq {Nobody, employeeId}

StoredInv ==
    \A s \in Screens : shown[s].dates \subseteq RecordsOf(shown[s].who)

MonthInv == \A s \in Screens : month[s] = MMMM(picked[s])

CalendarInv ==
    /\ HomeInv /\ TypeOK
    /\ ~mixed => StreamsInv
    /\ StoredInv
    /\ MonthInv

LEMMA NothingType == Nothing \in Snapshots /\ Nothing.who = Nobody /\ Nothing.dates = {}
BY DEF Nothing, Snapshots, People

LEMMA MonthType == \A t \in Times : MMMM(t) \in 0..(Year - 1)
BY DEF Times, MMMM

\* A month's name and a year are one month.
LEMMA MonthOfYear ==
    ASSUME NEW t \in Nat, NEW u \in Nat, t \div Year = u \div Year, MMMM(t) = MMMM(u)
    PROVE  t = u
BY SMTT(30) DEF MMMM

LEMMA CalendarInitial == Init => CalendarInv
<1> SUFFICES ASSUME Init PROVE CalendarInv
  OBVIOUS
<1>1. HomeInv
  BY HomeInitial DEF Init
<1>2. 0 \in Times /\ MMMM(0) \in 0..(Year - 1)
  BY MonthType DEF Times
<1>3. TypeOK
  BY <1>1, <1>2, NothingType DEF Init, TypeOK, HomeInv, People
<1>4. StreamsInv /\ StoredInv /\ MonthInv
  BY NothingType DEF Init, StreamsInv, StoredInv, MonthInv
<1> QED
  BY <1>1, <1>3, <1>4 DEF CalendarInv

\* A fresh calendar in the place of s.
LEMMA MountHomeKeeps ==
    ASSUME CalendarInv, NEW s \in Screens, NEW e \in People, MountHome(s, e)
    PROVE  CalendarInv'
<1> USE DEF CalendarInv, TypeOK
<1>1. HomeInv' /\ employeeId' = e /\ id' = id /\ (mixed => mixed')
  BY MountKeeps DEF MountHome
<1>2. MMMM(now) \in 0..(Year - 1)
  BY MonthType
<1>3. /\ stream' = [stream EXCEPT ![s] = id]
      /\ shown' = [shown EXCEPT ![s] = Nothing]
      /\ month' = [month EXCEPT ![s] = MMMM(now)]
      /\ picked' = [picked EXCEPT ![s] = now]
      /\ UNCHANGED <<now, records>>
  BY DEF MountHome
<1>4. TypeOK'
  <2>1. open' \subseteq Screens
    BY DEF MountHome
  <2>2. stream' \in [Screens -> People] /\ shown' \in [Screens -> Snapshots]
    BY <1>3, NothingType
  <2>3. month' \in [Screens -> 0..(Year - 1)] /\ picked' \in [Screens -> Times]
    BY <1>2, <1>3
  <2> QED
    BY <1>1, <1>3, <2>1, <2>2, <2>3 DEF HomeInv
<1>5. ASSUME ~mixed' PROVE StreamsInv'
  <2>1. ~mixed /\ employeeId \in {Nobody, e}
    BY <1>1, <1>5, Zenon DEF MountHome, Mount
  <2>2. id \in {Nobody, e}
    BY <2>1 DEF HomeInv
  <2> QED
    BY <1>1, <1>3, <2>1, <2>2, NothingType DEF StreamsInv
<1>6. StoredInv'
  BY <1>3, NothingType DEF StoredInv, RecordsOf
<1>7. MonthInv'
  BY <1>3 DEF MonthInv
<1> QED
  BY <1>1, <1>4, <1>5, <1>6, <1>7

LEMMA AnswerHomeKeeps ==
    ASSUME CalendarInv, NEW s \in Screens, Answer(s)
    PROVE  CalendarInv'
<1>1. HomeInv' /\ employeeId' = employeeId /\ mixed' = mixed
  BY AnswerKeeps DEF CalendarInv, Answer
<1>2. UNCHANGED <<now, records, open, stream, shown, month, picked>>
  BY DEF Answer, screen
<1> QED
  BY <1>1, <1>2 DEF CalendarInv, TypeOK, HomeInv, StreamsInv, StoredInv, MonthInv, RecordsOf

LEMMA KillKeeps ==
    ASSUME CalendarInv, Kill
    PROVE  CalendarInv'
<1> USE DEF CalendarInv, TypeOK
<1>1. HomeInv' /\ mixed' = mixed
  BY ResetKeeps DEF Kill
<1>2. MMMM(now) \in 0..(Year - 1)
  BY MonthType
<1>3. TypeOK'
  BY <1>1, <1>2, NothingType DEF Kill, HomeInv, People
<1>4. StreamsInv' /\ StoredInv' /\ MonthInv'
  BY NothingType DEF Kill, StreamsInv, StoredInv, MonthInv
<1> QED
  BY <1>1, <1>3, <1>4

\* What happens outside the calendar.
LEMMA WorldKeeps ==
    ASSUME CalendarInv, Tick \/ \E e \in Employees : CheckIn(e)
    PROVE  CalendarInv'
<1> USE DEF CalendarInv, TypeOK
<1>1. UNCHANGED <<homeVars, open, stream, shown, month, picked>>
  BY DEF Tick, CheckIn, screen
<1>2. HomeInv' /\ mixed' = mixed /\ employeeId' = employeeId
  BY <1>1, HomeStutters DEF homeVars
<1>3. /\ now' \in Times
      /\ records' \in [Employees -> SUBSET Times]
      /\ \A e \in Employees : records[e] \subseteq records'[e]
  BY DEF Tick, CheckIn, Times
<1>4. StoredInv'
  BY <1>1, <1>3 DEF StoredInv, RecordsOf
<1>5. TypeOK'
  BY <1>1, <1>3 DEF homeVars
<1> QED
  BY <1>1, <1>2, <1>4, <1>5 DEF StreamsInv, MonthInv

\* The calendar s builds, is left or is given a snapshot.
LEMMA ScreenKeeps ==
    ASSUME CalendarInv, NEW s \in Screens,
           \/ Leave(s) \/ Build(s) \/ Deliver(s)
           \/ \E t \in Times : PickMonth(s, t)
    PROVE  CalendarInv'
<1> USE DEF CalendarInv, TypeOK
<1>1. UNCHANGED <<homeVars, now, records>> /\ open' \subseteq Screens
  BY DEF Leave, Build, Deliver, PickMonth
<1>2. HomeInv' /\ mixed' = mixed /\ employeeId' = employeeId
  BY <1>1, HomeStutters DEF homeVars
<1>3. \E e \in {stream[s], id, Nobody} : stream' = [stream EXCEPT ![s] = e]
  BY DEF Leave, Build, Deliver, PickMonth
<1>4. \E snap \in {shown[s], Nothing,
                   [who |-> stream[s], dates |-> RecordsOf(stream[s])]} :
          shown' = [shown EXCEPT ![s] = snap]
  BY DEF Leave, Build, Deliver, PickMonth
<1>5. \/ UNCHANGED <<month, picked>>
      \/ \E t \in Times : /\ month' = [month EXCEPT ![s] = MMMM(t)]
                          /\ picked' = [picked EXCEPT ![s] = t]
  BY DEF Leave, Build, Deliver, PickMonth
<1>6. RecordsOf(stream[s]) \subseteq Times
  BY DEF RecordsOf
<1>7. stream' \in [Screens -> People] /\ shown' \in [Screens -> Snapshots]
  BY <1>3, <1>4, <1>6, NothingType DEF Snapshots, People
<1>8. month' \in [Screens -> 0..(Year - 1)] /\ picked' \in [Screens -> Times]
  BY <1>5, MonthType
<1>9. MonthInv'
  BY <1>5 DEF MonthInv
<1>10. ~mixed => StreamsInv'
  BY <1>2, <1>3, <1>4, NothingType DEF StreamsInv, HomeInv
<1>11. StoredInv'
  BY <1>1, <1>4, NothingType DEF StoredInv, RecordsOf
<1> QED
  BY <1>1, <1>2, <1>7, <1>8, <1>9, <1>10, <1>11 DEF homeVars

LEMMA CalendarStep == CalendarInv /\ [Next]_vars => CalendarInv'
<1> SUFFICES ASSUME CalendarInv, [Next]_vars PROVE CalendarInv'
  OBVIOUS
<1>1. CASE UNCHANGED vars
  <2>1. UNCHANGED <<now, records, open, stream, shown, month, picked>>
        /\ UNCHANGED homeVars
    BY <1>1 DEF vars, screen
  <2>2. HomeInv'
    BY <2>1, HomeStutters DEF CalendarInv
  <2> QED
    BY <2>1, <2>2
       DEF homeVars, CalendarInv, TypeOK, StreamsInv, StoredInv, MonthInv, RecordsOf
<1>2. CASE Next
  BY <1>2, MountHomeKeeps, AnswerHomeKeeps, KillKeeps, WorldKeeps, ScreenKeeps DEF Next
<1> QED
  BY <1>1, <1>2

LEMMA CalendarImplies ==
    CalendarInv => OwnRecords /\ ListedAreStored /\ MonthListed
<1> SUFFICES ASSUME CalendarInv PROVE OwnRecords /\ ListedAreStored /\ MonthListed
  OBVIOUS
<1> USE DEF CalendarInv, TypeOK
<1>1. OwnRecords
  BY DEF OwnRecords, StreamsInv
<1>2. ListedAreStored
  BY DEF ListedAreStored, Listed, StoredInv
<1>3. MonthListed
  <2> SUFFICES ASSUME NEW s \in Screens
               PROVE  /\ shown[s].dates \cap {picked[s]} \subseteq Listed(s)
                      /\ (\A t \in shown[s].dates :
                              t \div Year = picked[s] \div Year)
                         => Listed(s) = shown[s].dates \cap {picked[s]}
    BY DEF MonthListed
  <2>1. shown[s].dates \subseteq Times /\ picked[s] \in Times
    BY DEF Snapshots
  <2>2. shown[s].dates \cap {picked[s]} \subseteq Listed(s)
    BY DEF Listed, MonthInv
  <2>3. ASSUME \A t \in shown[s].dates : t \div Year = picked[s] \div Year,
               NEW t \in Listed(s)
        PROVE  t \in shown[s].dates \cap {picked[s]}
    <3>1. t \in shown[s].dates /\ MMMM(t) = MMMM(picked[s])
      BY DEF Listed, MonthInv
    <3>2. t = picked[s]
      BY <2>1, <2>3, <3>1, MonthOfYear DEF Times
    <3> QED
      BY <3>1, <3>2
  <2> QED
    BY <2>2, <2>3
<1> QED
  BY <1>1, <1>2, <1>3

\* With any number of employees and screens: as long as no process serves two
\* employees, the calendar lists nobody else's records.
THEOREM CalendarIsOwn == Spec => []OwnRecords
BY CalendarInitial, CalendarStep, CalendarImplies, PTL DEF Spec

\* What a calendar lists, from this stream or the one before, is stored.
THEOREM CalendarIsStored == Spec => []ListedAreStored
BY CalendarInitial, CalendarStep, CalendarImplies, PTL DEF Spec

\* For any length of the year: the picked month is listed in full, and alone
\* as long as the records are of one year.
THEOREM CalendarMonth == Spec => []MonthListed
BY CalendarInitial, CalendarStep, CalendarImplies, PTL DEF Spec
===============================================================================
