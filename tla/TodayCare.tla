------------------------------ MODULE TodayCare ------------------------------
(***************************************************************************)
(* TodayScreen with a history of the care that was taken, which the        *)
(* promise of one record a day depends on.                                 *)
(***************************************************************************)
EXTENDS TodayScreen

VARIABLE careful  \* history: nothing careless has happened

\* The employee slides before _getRecord has read the day, or it fails to.
Careless ==
    \/ \E s \in Slots :
          /\ submit[s].pc = "idle" /\ submit'[s].pc = "auth"
          /\ getRecord[Owner[s]].pc # "idle"
    \/ \E d \in Devices :
          getRecord[d].pc \in {"query", "get"} /\ getRecord'[d].pc = "idle"

CareInit == Init /\ careful = TRUE

CareNext == Next /\ careful' = (careful /\ ~Careless)

CareSpec == CareInit /\ [][CareNext]_<<vars, careful>> /\ Fairness

\* One device, one handler at a time, slid only after _getRecord has read the
\* day: a day is checked in once and out once, and neither is overwritten,
\* over midnights and restarts at any point.
OncePerDay == [][careful' => Records!OnceNext]_store

\* Under the same care the attendance server is sent one 'in' a day at most.
OneInPerDay ==
    careful =>
        \A e, f \in posted :
            e.dir = "in" /\ f.dir = "in" /\ e.at.day = f.at.day => e = f

-----------------------------------------------------------------------------
(* The inductive invariants behind these two and CheckInOfItsDay, for the  *)
(* one handler s and its device d.  A check-out that is suspended over     *)
(* midnight files the check-in of the day before under the new day: the    *)
(* write is doomed, as nothing can have created that document.             *)

OneHandler == \E s : Slots = {s}

\* The places in queue q of the writes op to day k.
At(q, op, k) == {i \in 1..Len(q) : q[i].op = op /\ q[i].key = k}

\* The server will reject the update at place i of q.
Doomed(st, q, i) ==
    /\ ~st[q[i].key].exists
    /\ \A j \in At(q, "set", q[i].key) : i < j

\* The updates of day k that the server will accept.
Live(st, q, k) == {i \in At(q, "update", k) : ~Doomed(st, q, i)}

\* Only the handler's device writes.
OnlyWriter(s) == \A d \in Devices : queue[d] # <<>> => d = Owner[s]

LiveOfItsDay(s) ==
    LET q == queue[Owner[s]]
    IN  \A k \in Days : \A i \in Live(store, q, k) : Key(q[i].checkIn.at) = k

SnapOfItsDay(s) ==
    submit[s].pc = "got" /\ submit[s].snap.exists =>
        Key(submit[s].snap.checkIn.at) = submit[s].key

\* While the handler reads a day there is no record of a later one.
NoneAfter(s) ==
    submit[s].pc \in {"get", "got"} =>
        /\ submit[s].key <= Key(now)
        /\ \A k \in Days :
              k > submit[s].key => ~Visible(store[k], queue[Owner[s]], k)

DayInv(s) ==
    /\ OnlyWriter(s) /\ CheckInOfItsDay
    /\ LiveOfItsDay(s) /\ SnapOfItsDay(s) /\ NoneAfter(s)

InOn(k) == \E e \in posted : e.dir = "in" /\ e.at.day = k

\* A day that was checked in is seen to be by the device's reads ...
InVisible(s) ==
    \A k \in Days :
        InOn(k) => k <= Key(now) /\ Visible(store[k], queue[Owner[s]], k)

\* ... by _getRecord, during which nothing is written ...
InRead(s) ==
    LET call == getRecord[Owner[s]]
    IN  /\ call.pc # "idle" => submit[s].pc = "idle"
        /\ call.pc \in {"get", "got"} =>
              call.key <= Key(now) /\ \A k \in Days : InOn(k) => k <= call.key
        /\ call.pc = "got" /\ InOn(call.key) => call.snap.checkIn # Blank

\* ... and by the screen afterwards, so it does not check in a second time.
InShown(s) ==
    LET d == Owner[s]
    IN  /\ getRecord[d].pc = "idle" /\ InOn(Key(now)) =>
              checkedIn[d] \/ checkOut[d] # Blank
        /\ submit[s].pc \in {"query", "get", "got"} /\ submit[s].dir = "in" =>
              ~checkedIn[d]
        /\ submit[s].pc # "idle" => checkOut[d] = Blank

InInv(s) ==
    InVisible(s) /\ (careful => InRead(s) /\ InShown(s)) /\ OneInPerDay

\* Day k has a check-out, or will have.
OutOn(s, k) ==
    store[k].checkOut # Blank \/ Live(store, queue[Owner[s]], k) # {}

\* One set and one live update of a day are pending at most, and only before
\* the day's record has what they write.
OnePending(s) ==
    LET q == queue[Owner[s]]
    IN  \A k \in Days :
          /\ \A i \in At(q, "set", k) : ~store[k].exists /\ At(q, "set", k) = {i}
          /\ \A i \in Live(store, q, k) :
                store[k].checkOut = Blank /\ Live(store, q, k) = {i}

\* A day that was checked out is seen to be by _getRecord and the screen.
OutSeen(s) ==
    LET d == Owner[s]
    IN  /\ getRecord[d].pc = "got" /\ OutOn(s, getRecord[d].key) =>
              getRecord[d].snap.checkOut # Blank
        /\ getRecord[d].pc = "idle" /\ OutOn(s, Key(now)) => checkOut[d] # Blank

OutInv(s) == careful => OnePending(s) /\ OutSeen(s)
==============================================================================
