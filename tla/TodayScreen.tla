----------------------------- MODULE TodayScreen -----------------------------
(***************************************************************************)
(* lib/todayscreen.dart: checking in and out.  One employee is logged in   *)
(* on a set of Devices.  Each device shows a slider; sliding it runs the   *)
(* onSubmit handler, which awaits the biometric prompt, a query for the    *)
(* employee and a read of today's Record document, and then posts the time *)
(* to the attendance server, updates the screen and writes the record.     *)
(* A handler is cut into actions at its awaits: what happens between two   *)
(* awaits is one action, and anything may happen at an await.              *)
(*                                                                         *)
(* A slot is one handler that may be in progress; Owner gives its device.  *)
(* A device with several slots may slide again while a handler awaits.     *)
(*                                                                         *)
(* sendCheckInData and sendCheckOutData do not look at the answer and are  *)
(* not awaited, so the attendance server's log is some subset of posted,   *)
(* in any order, and nothing in the app depends on which.                  *)
(*                                                                         *)
(* Left out: checkedOut and name, which are never read; the address that   *)
(* _getLocation resolves (only its setState matters here); layout.         *)
(***************************************************************************)
EXTENDS Firestore

CONSTANTS
    Devices,
    Slots,
    Owner,         \* the device of each slot
    MaxQueue,      \* bound: writes that may be pending on a device
    Hasty,         \* the employee may slide before _getRecord has finished
    ReadsMayFail   \* queries and document reads may throw

ASSUME OwnerAssumption == Owner \in [Slots -> Devices]
ASSUME MaxQueueAssumption == MaxQueue \in Nat \ {0}
ASSUME HastyAssumption == Hasty \in BOOLEAN
ASSUME ReadsMayFailAssumption == ReadsMayFail \in BOOLEAN

VARIABLES
    now,        \* DateTime.now()
    store,      \* the employee's Record documents on the Firestore server
    queue,      \* each device's writes that the server has not applied yet
    checkedIn,  \* the fields of _TodayScreenState ...
    checkIn,
    checkOut,
    inside,     \* ... _isInsideGeofence
    slider,     \* "ready", or "submitted" until the next build replaces it
    getRecord,  \* the _getRecord call of each mounted screen
    submit,     \* the onSubmit calls in progress
    posted,     \* every POST request made to the attendance server
    entered     \* history: devices told "enter" since the screen was mounted

screen == <<checkedIn, checkIn, checkOut, slider>>
geo == <<inside, entered>>
vars == <<now, store, queue, screen, geo, getRecord, submit, posted>>

Entries == [dir : {"in", "out"}, at : Instants]

Entry(dir, at) == [dir |-> dir, at |-> at]

\* A suspended call: where it waits, the branch it is in, the day whose record
\* it has asked for and the snapshot it was given.
Calls ==
    [pc : {"idle", "auth", "query", "get", "got"}, dir : {"in", "out"},
     key : Days, snap : Docs]

Call(pc, dir, key, snap) ==
    [pc |-> pc, dir |-> dir, key |-> key, snap |-> snap]

Idle == Call("idle", "in", 0, Absent)

Loading == Call("query", "in", 0, Absent)

-----------------------------------------------------------------------------

Init ==
    /\ now = Start
    /\ store = [k \in Days |-> Absent]
    /\ queue = [d \in Devices |-> <<>>]
    /\ checkedIn = [d \in Devices |-> FALSE]
    /\ checkIn = [d \in Devices |-> Blank]
    /\ checkOut = [d \in Devices |-> Blank]
    /\ inside = [d \in Devices |-> FALSE]
    /\ slider = [d \in Devices |-> "ready"]
    /\ getRecord = [d \in Devices |-> Loading]
    /\ submit = [s \in Slots |-> Idle]
    /\ posted = {}
    /\ entered = [d \in Devices |-> FALSE]

\* Time passes, until the end of the last day.
Tick ==
    /\ Later(now).day <= MaxDay
    /\ now' = Later(now)
    /\ UNCHANGED <<store, queue, screen, geo, getRecord, submit, posted>>

\* The geofence listener: enter and exit set the flag, init is ignored, and
\* there is no setState.
GeofenceEnter(d) ==
    /\ inside' = [inside EXCEPT ![d] = TRUE]
    /\ entered' = [entered EXCEPT ![d] = TRUE]
    /\ UNCHANGED <<now, store, queue, screen, getRecord, submit, posted>>

GeofenceExit(d) ==
    /\ inside' = [inside EXCEPT ![d] = FALSE]
    /\ UNCHANGED <<now, store, queue, screen, entered, getRecord, submit, posted>>

\* A build with no change of state: _getLocation's setState, a tab of the home
\* screen, a rotation.  The new GlobalKey makes a new slider.
Rebuild(d) ==
    /\ slider[d] = "submitted"
    /\ slider' = [slider EXCEPT ![d] = "ready"]
    /\ UNCHANGED <<now, store, queue, checkedIn, checkIn, checkOut, geo,
                   getRecord, submit, posted>>

\* A client that keeps its queue in memory only.
RestartLosesQueue(d) ==
    /\ checkedIn' = [checkedIn EXCEPT ![d] = FALSE]
    /\ checkIn' = [checkIn EXCEPT ![d] = Blank]
    /\ checkOut' = [checkOut EXCEPT ![d] = Blank]
    /\ slider' = [slider EXCEPT ![d] = "ready"]
    /\ inside' = [inside EXCEPT ![d] = FALSE]
    /\ entered' = [entered EXCEPT ![d] = FALSE]
    /\ getRecord' = [getRecord EXCEPT ![d] = Loading]
    /\ submit' = [s \in Slots |-> IF Owner[s] = d THEN Idle ELSE submit[s]]
    /\ queue' = [queue EXCEPT ![d] = <<>>]
    /\ UNCHANGED <<now, store, posted>>

\* The app is killed and started again: initState runs on fresh fields, the
\* calls in progress are gone, the client's write queue is on disk.
Restart(d) ==
    /\ checkedIn' = [checkedIn EXCEPT ![d] = FALSE]
    /\ checkIn' = [checkIn EXCEPT ![d] = Blank]
    /\ checkOut' = [checkOut EXCEPT ![d] = Blank]
    /\ slider' = [slider EXCEPT ![d] = "ready"]
    /\ inside' = [inside EXCEPT ![d] = FALSE]
    /\ entered' = [entered EXCEPT ![d] = FALSE]
    /\ getRecord' = [getRecord EXCEPT ![d] = Loading]
    /\ submit' = [s \in Slots |-> IF Owner[s] = d THEN Idle ELSE submit[s]]
    /\ UNCHANGED <<now, store, queue, posted>>

-----------------------------------------------------------------------------
(* _getRecord: query, then read today's document, then fill the screen.    *)

RecordQueried(d) ==
    /\ getRecord[d].pc = "query"
    /\ getRecord' = [getRecord EXCEPT ![d] =
                        Call("get", "in", Key(now), Absent)]
    /\ UNCHANGED <<now, store, queue, screen, geo, submit, posted>>

RecordRead(d) ==
    /\ getRecord[d].pc = "get"
    /\ \E snap \in Views(store[getRecord[d].key], queue[d], getRecord[d].key) :
          getRecord' = [getRecord EXCEPT ![d] =
                           Call("got", "in", getRecord[d].key, snap)]
    /\ UNCHANGED <<now, store, queue, screen, geo, submit, posted>>

\* Forgets checkedIn = true.
RecordShownForgets(d) ==
    LET snap == getRecord[d].snap
    IN  /\ getRecord[d].pc = "got"
        /\ checkIn' = [checkIn EXCEPT ![d] =
                          IF snap.checkIn # Blank THEN snap.checkIn ELSE @]
        /\ checkOut' = [checkOut EXCEPT ![d] =
                           IF snap.checkOut # Blank THEN snap.checkOut ELSE @]
        /\ slider' = [slider EXCEPT ![d] = "ready"]
        /\ getRecord' = [getRecord EXCEPT ![d] = Idle]
        /\ UNCHANGED <<now, store, queue, checkedIn, geo, submit, posted>>

\* Takes any answer for a check-in, without the tests of "--/--".
RecordShownAlways(d) ==
    LET snap == getRecord[d].snap
    IN  /\ getRecord[d].pc = "got"
        /\ checkIn' = [checkIn EXCEPT ![d] = snap.checkIn]
        /\ checkedIn' = [checkedIn EXCEPT ![d] = TRUE]
        /\ checkOut' = [checkOut EXCEPT ![d] = snap.checkOut]
        /\ slider' = [slider EXCEPT ![d] = "ready"]
        /\ getRecord' = [getRecord EXCEPT ![d] = Idle]
        /\ UNCHANGED <<now, store, queue, geo, submit, posted>>

\* A time found in the document goes on the screen; a screen without check-in
\* is not checked in.
RecordShown(d) ==
    LET snap == getRecord[d].snap
        in == IF snap.checkIn # Blank THEN snap.checkIn ELSE checkIn[d]
    IN  /\ getRecord[d].pc = "got"
        /\ checkIn' = [checkIn EXCEPT ![d] = in]
        /\ checkedIn' = [checkedIn EXCEPT ![d] =
                            (@ \/ snap.checkIn # Blank) /\ in # Blank]
        /\ checkOut' = [checkOut EXCEPT ![d] =
                           IF snap.checkOut # Blank THEN snap.checkOut ELSE @]
        /\ slider' = [slider EXCEPT ![d] =
                         IF snap.checkIn # Blank \/ snap.checkOut # Blank
                         THEN "ready" ELSE @]
        /\ getRecord' = [getRecord EXCEPT ![d] = Idle]
        /\ UNCHANGED <<now, store, queue, geo, submit, posted>>

\* The catch clause, and the test of checkIn that follows it.
RecordFailed(d) ==
    LET in == IF checkedIn[d] THEN checkIn[d] ELSE Blank
    IN  /\ ReadsMayFail
        /\ getRecord[d].pc \in {"query", "get"}
        /\ checkIn' = [checkIn EXCEPT ![d] = in]
        /\ checkOut' = [checkOut EXCEPT ![d] = Blank]
        /\ checkedIn' = [checkedIn EXCEPT ![d] = @ /\ in # Blank]
        /\ slider' = [slider EXCEPT ![d] = "ready"]
        /\ getRecord' = [getRecord EXCEPT ![d] = Idle]
        /\ UNCHANGED <<now, store, queue, geo, submit, posted>>

-----------------------------------------------------------------------------
(* onSubmit.                                                               *)

Resume(s, call) == submit' = [submit EXCEPT ![s] = call]

\* Every handler in progress on d may still queue a write.
HasRoom(d) ==
    Len(queue[d])
        + Cardinality({s \in Slots : Owner[s] = d /\ submit[s].pc # "idle"})
        < MaxQueue

\* The slider stays on the screen after a check-out.
SlideAgain(s) ==
    LET d == Owner[s]
    IN  /\ submit[s].pc = "idle"
        /\ slider[d] = "ready"
        /\ Hasty \/ getRecord[d].pc = "idle"
        /\ HasRoom(d)
        /\ slider' = [slider EXCEPT ![d] = "submitted"]
        /\ Resume(s, Call("auth", "in", 0, Absent))
        /\ UNCHANGED <<now, store, queue, checkedIn, checkIn, checkOut, geo,
                       getRecord, posted>>

\* The slider is on the screen only while there is no check-out.  HasRoom is
\* the model's bound, set here so that it never stops a handler half way.
Slide(s) ==
    LET d == Owner[s]
    IN  /\ submit[s].pc = "idle"
        /\ checkOut[d] = Blank
        /\ slider[d] = "ready"
        /\ Hasty \/ getRecord[d].pc = "idle"
        /\ HasRoom(d)
        /\ slider' = [slider EXCEPT ![d] = "submitted"]
        /\ Resume(s, Call("auth", "in", 0, Absent))
        /\ UNCHANGED <<now, store, queue, checkedIn, checkIn, checkOut, geo,
                       getRecord, posted>>

\* LocalAuthApi.authenticate() returned false: no biometrics, a cancelled
\* prompt or a PlatformException.
AuthFailed(s) ==
    /\ submit[s].pc = "auth"
    /\ Resume(s, Idle)
    /\ UNCHANGED <<now, store, queue, screen, geo, getRecord, posted>>

\* Checks in without asking the geofence.
AuthenticatedAnywhere(s) ==
    /\ submit[s].pc = "auth"
    /\ Resume(s, Call("query", IF checkedIn[Owner[s]] THEN "out" ELSE "in",
                      0, Absent))
    /\ UNCHANGED <<now, store, queue, screen, geo, getRecord, posted>>

\* It returned true: a check-in needs the geofence, a check-out does not.
Authenticated(s) ==
    LET d == Owner[s]
    IN  /\ submit[s].pc = "auth"
        /\ \/ inside[d] /\ ~checkedIn[d]
              /\ Resume(s, Call("query", "in", 0, Absent))
           \/ checkedIn[d] /\ Resume(s, Call("query", "out", 0, Absent))
           \/ ~inside[d] /\ ~checkedIn[d] /\ Resume(s, Idle)
        /\ UNCHANGED <<now, store, queue, screen, geo, getRecord, posted>>

Queried(s) ==
    /\ submit[s].pc = "query"
    /\ Resume(s, Call("get", submit[s].dir, Key(now), Absent))
    /\ UNCHANGED <<now, store, queue, screen, geo, getRecord, posted>>

Read(s) ==
    LET k == submit[s].key
    IN  /\ submit[s].pc = "get"
        /\ \E snap \in Views(store[k], queue[Owner[s]], k) :
              Resume(s, Call("got", submit[s].dir, k, snap))
        /\ UNCHANGED <<now, store, queue, screen, geo, getRecord, posted>>

\* Tries again whenever a call throws.
ReadFailedRetries(s) ==
    /\ ReadsMayFail
    /\ submit[s].pc \in {"query", "get"}
    /\ Resume(s, Call("query", submit[s].dir, 0, Absent))
    /\ UNCHANGED <<now, store, queue, screen, geo, getRecord, posted>>

\* The query or the read throws, and nothing catches it.
ReadFailed(s) ==
    /\ ReadsMayFail
    /\ submit[s].pc \in {"query", "get"}
    /\ Resume(s, Idle)
    /\ UNCHANGED <<now, store, queue, screen, geo, getRecord, posted>>

\* The check-out's two times are swapped.
EnqueueSwapped(d, op, in, out) ==
    queue' = [queue EXCEPT ![d] =
        Append(@, [op |-> op, key |-> Key(now), date |-> now,
                   checkIn |-> IF op = "set" THEN in ELSE out,
                   checkOut |-> IF op = "set" THEN out ELSE in])]

\* Files the record under the day of its check-in.
EnqueueUnderCheckIn(d, op, in, out) ==
    queue' = [queue EXCEPT ![d] =
        Append(@, [op |-> op, key |-> Key(in.at), date |-> now,
                   checkIn |-> in, checkOut |-> out])]

Enqueue(d, op, in, out) ==
    queue' = [queue EXCEPT ![d] =
        Append(@, [op |-> op, key |-> Key(now), date |-> now,
                   checkIn |-> in, checkOut |-> out])]

\* sendCheckInData is not called.
PostOutOnly(dir) ==
    posted' = IF dir = "out" THEN posted \cup {Entry(dir, now)} ELSE posted

Post(dir) == posted' = posted \cup {Entry(dir, now)}

\* sendCheckInData, setState, set({..}).  The snapshot is not looked at.
CheckInNow(s) ==
    LET d == Owner[s]
    IN  /\ submit[s].pc = "got" /\ submit[s].dir = "in"
        /\ Post("in")
        /\ checkIn' = [checkIn EXCEPT ![d] = Stamp(now)]
        /\ checkedIn' = [checkedIn EXCEPT ![d] = TRUE]
        /\ slider' = [slider EXCEPT ![d] = "ready"]
        /\ Enqueue(d, "set", Stamp(now), Blank)
        /\ Resume(s, Idle)
        /\ UNCHANGED <<now, store, checkOut, geo, getRecord>>

\* sendCheckOutData, setState, update({..}) with the check-in of the snapshot.
CheckOutNow(s) ==
    LET d == Owner[s]
        snap == submit[s].snap
    IN  /\ submit[s].pc = "got" /\ submit[s].dir = "out"
        /\ snap.exists
        /\ Post("out")
        /\ checkOut' = [checkOut EXCEPT ![d] = Stamp(now)]
        /\ checkedIn' = [checkedIn EXCEPT ![d] = FALSE]
        /\ slider' = [slider EXCEPT ![d] = "ready"]
        /\ Enqueue(d, "update", snap.checkIn, Stamp(now))
        /\ Resume(s, Idle)
        /\ UNCHANGED <<now, store, checkIn, geo, getRecord>>

\* snap2['checkIn'] throws when there is no document for the day.
CheckOutThrows(s) ==
    /\ submit[s].pc = "got" /\ submit[s].dir = "out"
    /\ ~submit[s].snap.exists
    /\ Resume(s, Idle)
    /\ UNCHANGED <<now, store, queue, screen, geo, getRecord, posted>>

-----------------------------------------------------------------------------
(* The Firestore server.                                                   *)

\* The Firestore server takes the first write of a device's queue; one whose
\* precondition fails is rejected and dropped.
Flush(d) ==
    /\ queue[d] # <<>>
    /\ LET w == Head(queue[d])
       IN  store' = [store EXCEPT ![w.key] = Apply(@, w)]
    /\ queue' = [queue EXCEPT ![d] = Tail(@)]
    /\ UNCHANGED <<now, screen, geo, getRecord, submit, posted>>

-----------------------------------------------------------------------------

DeviceStep(d) ==
    \/ GeofenceEnter(d) \/ GeofenceExit(d) \/ Rebuild(d) \/ Restart(d)
    \/ RecordQueried(d) \/ RecordRead(d) \/ RecordShown(d) \/ RecordFailed(d)
    \/ Flush(d)

SubmitStep(s) ==
    \/ Slide(s) \/ AuthFailed(s) \/ Authenticated(s)
    \/ Queried(s) \/ Read(s) \/ ReadFailed(s)
    \/ CheckInNow(s) \/ CheckOutNow(s) \/ CheckOutThrows(s)

Next ==
    \/ Tick
    \/ \E d \in Devices : DeviceStep(d)
    \/ \E s \in Slots : SubmitStep(s)

Spec == Init /\ [][Next]_vars

-----------------------------------------------------------------------------
(* Fairness: what the libraries promise.  A Firestore call that was started *)
(* returns or throws, Dart then runs the continuation, and the client keeps *)
(* sending its queue.  Nothing is assumed of the employee, the geofence or  *)
(* the attendance server.                                                  *)

Answered(s) == Queried(s) \/ Read(s) \/ ReadFailed(s)

Continued(s) == CheckInNow(s) \/ CheckOutNow(s) \/ CheckOutThrows(s)

Fairness ==
    /\ \A d \in Devices : WF_vars(Flush(d))
    /\ \A s \in Slots : WF_vars(Answered(s)) /\ WF_vars(Continued(s))

-----------------------------------------------------------------------------
(* Properties.                                                             *)

\* Every variable has its type.
TypeOK ==
    /\ now \in Instants
    /\ store \in [Days -> Docs]
    /\ queue \in [Devices -> Seq(Writes)]
    /\ checkedIn \in [Devices -> BOOLEAN]
    /\ checkIn \in [Devices -> Times]
    /\ checkOut \in [Devices -> Times]
    /\ inside \in [Devices -> BOOLEAN]
    /\ entered \in [Devices -> BOOLEAN]
    /\ slider \in [Devices -> {"ready", "submitted"}]
    /\ getRecord \in [Devices -> Calls]
    /\ submit \in [Slots -> Calls]
    /\ posted \subseteq Entries

\* A time that was posted to the attendance server in direction dir.
PostedAs(dir, time) == time # Blank /\ Entry(dir, time.at) \in posted

\* A record on the server holds times of real check-ins and check-outs: its
\* check-in, even one carried through the snapshot a check-out read before it
\* was suspended, and its check-out were each posted to the attendance server.
RecordsPosted ==
    \A k \in Days : store[k].exists =>
        /\ PostedAs("in", store[k].checkIn)
        /\ store[k].checkOut # Blank => PostedAs("out", store[k].checkOut)

\* A record is filed under the day of its own 'date' and of its check-out,
\* although onSubmit computes the key anew after each await and midnight may
\* fall between them.
FiledUnderItsDay ==
    \A k \in Days : store[k].exists =>
        /\ Key(store[k].date) = k
        /\ store[k].checkOut # Blank => Key(store[k].checkOut.at) = k

\* No record ends before it begins, whichever devices wrote it and however
\* old the snapshot the check-out took the check-in from.
OutAfterIn ==
    \A k \in Days : store[k].exists /\ store[k].checkOut # Blank =>
        Leq(store[k].checkIn.at, store[k].checkOut.at)

\* The two 'hh:mm' strings of a record, which is all the calendar prints, are
\* in order whenever both times lie in the same half of the same day.
ReadableOrder ==
    \A k \in Days :
        LET r == store[k]
        IN  /\ r.exists /\ r.checkOut # Blank
            /\ SameHalf(r.checkIn.at, r.checkOut.at)
            => r.checkIn.hhmm <= r.checkOut.hhmm

\* An 'out' sent to the attendance server was preceded by an 'in': the
\* check-out branch is only taken past a record that a check-in wrote, on
\* this device or another, before or after a restart.
OutNeedsIn ==
    \A e \in posted : e.dir = "out" =>
        \E i \in posted : i.dir = "in" /\ Leq(i.at, e.at)

\* A screen that offers a check-out (checkedIn) has a check-in time to show,
\* one that was posted, and some day's record is visible to the device.
CheckedInIsReal ==
    \A d \in Devices : checkedIn[d] =>
        /\ PostedAs("in", checkIn[d])
        /\ \E k \in Days : Visible(store[k], queue[d], k)

\* A check-in is under way only on a device that the geofence has told
\* "enter" since the screen was mounted; a restart in between stops it.
CheckInWasInside ==
    \A s \in Slots :
        submit[s].dir = "in" /\ submit[s].pc \in {"query", "get", "got"}
            => entered[Owner[s]]

Records == INSTANCE AttendanceRecord WITH rec <- store

\* Seen from the Record collection, all the devices together do no more than
\* check days in and complete records that are there: an update that is
\* flushed to a missing document never creates it.
RecordsRefined == Records!Spec

\* With one handler at a time the check-in kept in a record is of that
\* record's own day, even when a check-out is suspended over midnight.
CheckInOfItsDay ==
    \A k \in Days : store[k].exists => Key(store[k].checkIn.at) = k

\* A check-in that was posted to the attendance server gets its record in
\* Firestore in the end: the write is queued before anything can stop it, and
\* the queue outlives a restart.
CheckInStored ==
    \A k \in Days :
        (\E e \in posted : e.dir = "in" /\ Key(e.at) = k) ~> store[k].exists

\* Once past the biometric prompt a handler comes to its end.
SubmitEnds ==
    \A s \in Slots :
        submit[s].pc \in {"query", "get", "got"} ~> submit[s].pc = "idle"

\* "You have completed this day!" is shown in place of the slider when
\* checkOut is set: then the device sees a check-out in today's record.
CompletedThisDay ==
    \A d \in Devices : checkOut[d] # Blank =>
        \A r \in Views(store[Key(now)], queue[d], Key(now)) :
            r.checkOut # Blank

\* What a device reads of a day is the server's document with the device's
\* pending writes of that day applied to it, one after the other, as
\* LocalDocumentsView::GetDocument computes it.
ReadsReplayQueue ==
    \A d \in Devices, k \in Days :
        LET q == queue[d]
            Seen(n) == Views(store[k], SubSeq(q, 1, n), k)
        IN  /\ Seen(0) = {store[k]}
            /\ \A n \in 1..Len(q) :
                  Seen(n) = {IF q[n].key = k THEN Apply(v, q[n]) ELSE v :
                                v \in Seen(n - 1)}

-----------------------------------------------------------------------------
(* The inductive invariant behind the safety properties.  A check-in time  *)
(* travels from a handler through the queue, the store, a snapshot and the *)
(* screen back into a check-out's write, so the same facts have to hold of *)
(* it at each of these places.                                             *)

\* The requests p contain time in direction dir, which is not after instant n.
GoodTime(dir, time, p, n) ==
    /\ time # Blank
    /\ Entry(dir, time.at) \in p
    /\ Leq(time.at, n)

\* The content of a document or of a write, wherever it is.
GoodContent(c, p, n) ==
    /\ GoodTime("in", c.checkIn, p, n)
    /\ c.checkOut = Blank \/ /\ GoodTime("out", c.checkOut, p, n)
                             /\ c.checkOut = Stamp(c.date)
                             /\ Leq(c.checkIn.at, c.date)

GoodDoc(doc, p, n) ==
    IF doc.exists THEN GoodContent(doc, p, n) ELSE doc = Absent

GoodWrite(w, p, n) ==
    /\ Key(w.date) = w.key
    /\ GoodContent(w, p, n)
    /\ w.op = "set" => w.checkIn = Stamp(w.date) /\ w.checkOut = Blank
    /\ w.op = "update" => w.checkOut # Blank

StoreInv ==
    \A k \in Days :
        /\ GoodDoc(store[k], posted, now)
        /\ store[k].exists => Key(store[k].date) = k

QueueInv ==
    \A d \in Devices : \A i \in 1..Len(queue[d]) :
        GoodWrite(queue[d][i], posted, now)

SnapInv ==
    /\ \A d \in Devices : GoodDoc(getRecord[d].snap, posted, now)
    /\ \A s \in Slots : GoodDoc(submit[s].snap, posted, now)

ScreenInv ==
    \A d \in Devices :
        /\ checkIn[d] # Blank => GoodTime("in", checkIn[d], posted, now)
        /\ checkedIn[d] => checkIn[d] # Blank

SeesRecord(d) == \E k \in Days : Visible(store[k], queue[d], k)

SeenInv ==
    \A d \in Devices :
        checkedIn[d] \/ getRecord[d].snap.exists => SeesRecord(d)

GeofenceInv ==
    /\ \A d \in Devices : inside[d] => entered[d]
    /\ CheckInWasInside

\* Every time in the queues, the store, the snapshots and on the screens was
\* posted and is not in the future, and what a check-out relies on is there.
IInv ==
    /\ TypeOK
    /\ StoreInv /\ QueueInv /\ SnapInv /\ ScreenInv
    /\ SeenInv /\ OutNeedsIn /\ GeofenceInv
==============================================================================
