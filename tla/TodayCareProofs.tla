--------------------------- MODULE TodayCareProofs ---------------------------
(***************************************************************************)
(* TodayCare, one handler at a time over any number of days, ticks and     *)
(* pending writes: DayInv, InInv and OutInv are inductive.                 *)
(***************************************************************************)
EXTENDS TodayCare, TodayScreenProofs

USE HalfDayAssumption, MaxDayAssumption, OwnerAssumption

(***************************************************************************)
(* One handler.  First, places in a queue when its first write is taken    *)
(* and when one is added.                                                  *)
(***************************************************************************)

LEMMA AtPlaces ==
    ASSUME NEW q \in Seq(Writes), NEW op, NEW k
    PROVE  /\ At(q, op, k) \subseteq 1..Len(q) /\ Len(q) \in Nat
           /\ At(q, op, k) \subseteq Nat \ {0}
BY DEF At

LEMMA VisibleAt ==
    ASSUME NEW doc, NEW q, NEW k
    PROVE  Visible(doc, q, k) <=> doc.exists \/ At(q, "set", k) # {}
BY Zenon DEF Visible, Pending, At

LEMMA AtTail ==
    ASSUME NEW q \in Seq(Writes), q # <<>>, NEW op, NEW k
    PROVE  /\ \A i \in At(Tail(q), op, k) : i + 1 \in At(q, op, k) /\ Tail(q)[i] = q[i + 1]
           /\ \A i \in At(q, op, k) : i = 1 \/ i - 1 \in At(Tail(q), op, k)
           /\ 1 \in At(q, op, k) <=> Head(q).op = op /\ Head(q).key = k
<1>1. /\ Len(Tail(q)) = Len(q) - 1 /\ Len(q) \in Nat /\ Len(q) >= 1 /\ Head(q) = q[1]
      /\ \A i \in 1..Len(Tail(q)) : Tail(q)[i] = q[i + 1]
  OBVIOUS
<1> QED
  BY <1>1 DEF At

LEMMA AtAppend ==
    ASSUME NEW q \in Seq(Writes), NEW w \in Writes, NEW op, NEW k
    PROVE  /\ At(Append(q, w), op, k) =
                IF w.op = op /\ w.key = k THEN At(q, op, k) \cup {Len(q) + 1}
                                          ELSE At(q, op, k)
           /\ \A i \in 1..Len(q) : Append(q, w)[i] = q[i]
           /\ Append(q, w)[Len(q) + 1] = w
<1>1. /\ Len(Append(q, w)) = Len(q) + 1 /\ Len(q) \in Nat
      /\ \A i \in 1..Len(q) : Append(q, w)[i] = q[i]
      /\ Append(q, w)[Len(q) + 1] = w
  OBVIOUS
<1> QED
  BY <1>1 DEF At

LEMMA AtAppendMiss ==
    ASSUME NEW q \in Seq(Writes), NEW w \in Writes, NEW op, NEW k, w.op # op \/ w.key # k
    PROVE  At(Append(q, w), op, k) = At(q, op, k)
BY AtAppend

\* What is live is visible: the server has the document or will get it first.
LEMMA LiveVisible ==
    ASSUME NEW st, NEW q \in Seq(Writes), NEW k, NEW i \in Live(st, q, k)
    PROVE  /\ i \in At(q, "update", k) /\ q[i].key = k
           /\ st[k].exists \/ \E j \in At(q, "set", k) : j < i
           /\ Visible(st[k], q, k)
<1>1. i \in At(q, "update", k) /\ q[i].key = k /\ ~Doomed(st, q, i) /\ q[i].op = "update"
  BY Zenon DEF Live, At
<1>2. st[k].exists \/ \E j \in At(q, "set", k) : ~(i < j)
  BY <1>1, Zenon DEF Doomed
<1>3. \A j \in At(q, "set", k) : j # i
  BY <1>1, Zenon DEF At
<1>4. st[k].exists \/ \E j \in At(q, "set", k) : j < i
  BY <1>1, <1>2, <1>3, AtPlaces
<1> QED
  BY <1>1, <1>4, VisibleAt, Zenon

LEMMA LiveIf ==
    ASSUME NEW st, NEW q \in Seq(Writes), NEW k, NEW i \in At(q, "update", k),
           st[k].exists \/ \E j \in At(q, "set", k) : j < i
    PROVE  i \in Live(st, q, k)
<1>1. q[i].key = k
  BY Zenon DEF At
<1>2. ASSUME NEW j \in At(q, "set", k), j < i PROVE ~(i < j)
  BY <1>2, AtPlaces
<1> QED
  BY <1>1, <1>2, Zenon DEF Live, Doomed

LEMMA FlushedLive ==
    ASSUME NEW st \in [Days -> Docs], NEW q \in Seq(Writes), q # <<>>, NEW k \in Days
    PROVE  /\ \A i \in Live(Flushed(st, Head(q)), Tail(q), k) :
                 i + 1 \in Live(st, q, k) /\ Tail(q)[i] = q[i + 1]
           /\ 1 \in Live(st, q, k) <=>
                 Head(q).op = "update" /\ Head(q).key = k /\ st[k].exists
           /\ Visible(Flushed(st, Head(q))[k], Tail(q), k) <=> Visible(st[k], q, k)
<1> DEFINE w == Head(q)
           tt == Flushed(st, w)
<1>0. w \in Writes /\ Tail(q) \in Seq(Writes)
  OBVIOUS
<1>1. tt[k].exists <=> st[k].exists \/ (w.op = "set" /\ w.key = k)
  BY <1>0, FlushedDocs
<1>2. /\ \A op : \A i \in At(Tail(q), op, k) : i + 1 \in At(q, op, k) /\ Tail(q)[i] = q[i + 1]
      /\ \A op : \A i \in At(q, op, k) : i = 1 \/ i - 1 \in At(Tail(q), op, k)
      /\ \A op : 1 \in At(q, op, k) <=> w.op = op /\ w.key = k
  <2> SUFFICES ASSUME NEW op
               PROVE  /\ \A i \in At(Tail(q), op, k) :
                            i + 1 \in At(q, op, k) /\ Tail(q)[i] = q[i + 1]
                      /\ \A i \in At(q, op, k) : i = 1 \/ i - 1 \in At(Tail(q), op, k)
                      /\ 1 \in At(q, op, k) <=> w.op = op /\ w.key = k
    BY Zenon
  <2> QED
    BY AtTail, Zenon
<1>3. \A op : At(q, op, k) \subseteq Nat \ {0} /\ At(Tail(q), op, k) \subseteq Nat \ {0}
  BY <1>0, AtPlaces, Zenon
<1>4. ASSUME NEW i \in Live(tt, Tail(q), k)
      PROVE  i + 1 \in Live(st, q, k) /\ Tail(q)[i] = q[i + 1]
  <2>1. /\ i \in At(Tail(q), "update", k)
        /\ tt[k].exists \/ \E j \in At(Tail(q), "set", k) : j < i
    BY <1>0, <1>4, LiveVisible, Zenon
  <2>2. i + 1 \in At(q, "update", k) /\ Tail(q)[i] = q[i + 1] /\ i \in Nat \ {0}
    BY <1>2, <1>3, <2>1, Zenon
  <2>3. CASE st[k].exists
    BY <2>2, <2>3, LiveIf, Zenon
  <2>4. CASE w.op = "set" /\ w.key = k
    <3>1. 1 \in At(q, "set", k) /\ 1 < i + 1
      BY <1>2, <2>2, <2>4
    <3> QED
      BY <2>2, <3>1, LiveIf, Zenon
  <2>5. ASSUME NEW j \in At(Tail(q), "set", k), j < i
        PROVE  i + 1 \in Live(st, q, k)
    <3>1. j + 1 \in At(q, "set", k) /\ j + 1 < i + 1
      BY <1>2, <1>3, <2>2, <2>5
    <3> QED
      BY <2>2, <3>1, LiveIf, Zenon
  <2> QED
    BY <1>1, <2>1, <2>2, <2>3, <2>4, <2>5, Zenon
<1>5. 1 \in Live(st, q, k) <=> w.op = "update" /\ w.key = k /\ st[k].exists
  <2>1. ASSUME 1 \in Live(st, q, k)
        PROVE  w.op = "update" /\ w.key = k /\ st[k].exists
    <3>1. /\ 1 \in At(q, "update", k)
          /\ st[k].exists \/ \E j \in At(q, "set", k) : j < 1
      BY <2>1, LiveVisible, Zenon
    <3> QED
      BY <1>2, <1>3, <3>1
  <2>2. ASSUME w.op = "update", w.key = k, st[k].exists
        PROVE  1 \in Live(st, q, k)
    BY <1>2, <2>2, LiveIf, Zenon
  <2> QED
    BY <2>1, <2>2, Zenon
<1>6. Visible(tt[k], Tail(q), k) <=> Visible(st[k], q, k)
  <2>1. Visible(tt[k], Tail(q), k) <=> tt[k].exists \/ At(Tail(q), "set", k) # {}
    BY VisibleAt, Zenon
  <2>2. Visible(st[k], q, k) <=> st[k].exists \/ At(q, "set", k) # {}
    BY VisibleAt, Zenon
  <2> QED
    BY <1>1, <1>2, <2>1, <2>2, Zenon
<1> QED
  BY <1>4, <1>5, <1>6, Zenon

LEMMA AppendLive ==
    ASSUME NEW st, NEW q \in Seq(Writes), NEW w \in Writes, NEW k
    PROVE  /\ \A i \in Live(st, Append(q, w), k) :
                 \/ i \in Live(st, q, k) /\ Append(q, w)[i] = q[i]
                 \/ /\ i = Len(q) + 1 /\ Append(q, w)[i] = w
                    /\ w.op = "update" /\ w.key = k /\ Visible(st[k], q, k)
           /\ Visible(st[k], Append(q, w), k) <=>
                 Visible(st[k], q, k) \/ (w.op = "set" /\ w.key = k)
<1> DEFINE p == Append(q, w)
<1>0. p \in Seq(Writes)
  OBVIOUS
<1>1. /\ \A op : At(p, op, k) = IF w.op = op /\ w.key = k THEN At(q, op, k) \cup {Len(q) + 1}
                                                          ELSE At(q, op, k)
      /\ \A i \in 1..Len(q) : p[i] = q[i]
      /\ p[Len(q) + 1] = w
  BY AtAppend
<1>2. \A op : At(q, op, k) \subseteq 1..Len(q) /\ Len(q) \in Nat
  BY AtPlaces, Zenon
<1>3. ASSUME NEW i \in Live(st, p, k)
      PROVE  \/ i \in Live(st, q, k) /\ p[i] = q[i]
             \/ /\ i = Len(q) + 1 /\ p[i] = w
                /\ w.op = "update" /\ w.key = k /\ Visible(st[k], q, k)
  <2>1. /\ i \in At(p, "update", k)
        /\ st[k].exists \/ \E j \in At(p, "set", k) : j < i
    BY <1>0, <1>3, LiveVisible, Zenon
  <2>2. CASE i \in At(q, "update", k)
    <3>1. i \in 1..Len(q) /\ p[i] = q[i]
      BY <1>1, <1>2, <2>2, Zenon
    <3>2. st[k].exists \/ \E j \in At(q, "set", k) : j < i
      BY <1>1, <1>2, <2>1, <3>1
    <3> QED
      BY <2>2, <3>1, <3>2, LiveIf, Zenon
  <2>3. CASE i \notin At(q, "update", k)
    <3>1. w.op = "update" /\ w.key = k /\ i = Len(q) + 1
      BY <1>1, <2>1, <2>3
    <3>2. At(p, "set", k) = At(q, "set", k)
      BY <1>1, <3>1, Zenon
    <3> QED
      BY <1>1, <2>1, <3>1, <3>2, VisibleAt, Zenon
  <2> QED
    BY <2>2, <2>3, Zenon
<1>4. Visible(st[k], p, k) <=> Visible(st[k], q, k) \/ (w.op = "set" /\ w.key = k)
  <2>1. Visible(st[k], p, k) <=> st[k].exists \/ At(p, "set", k) # {}
    BY VisibleAt, Zenon
  <2>2. Visible(st[k], q, k) <=> st[k].exists \/ At(q, "set", k) # {}
    BY VisibleAt, Zenon
  <2> QED
    BY <1>1, <2>1, <2>2, Zenon
<1> QED
  BY <1>3, <1>4, Zenon

LEMMA AppendVisible ==
    ASSUME NEW st, NEW q \in Seq(Writes), NEW w \in Writes, NEW k
    PROVE  Visible(st[k], Append(q, w), k) <=>
              Visible(st[k], q, k) \/ (w.op = "set" /\ w.key = k)
BY AppendLive, Zenon

(***************************************************************************)
(* What a step is to the handler s and its device.                         *)
(***************************************************************************)

Quiet(s) ==
    LET d == Owner[s]
    IN  /\ UNCHANGED <<now, store, queue, posted>>
        /\ getRecord'[d] = getRecord[d] /\ submit'[s] = submit[s]
        /\ checkedIn'[d] = checkedIn[d] /\ checkOut'[d] = checkOut[d]

ChecksIn(call) == call.pc \in {"query", "get", "got"} /\ call.dir = "in"

HandlerWaits(s) ==
    /\ UNCHANGED <<now, store, queue, posted, getRecord, checkedIn, checkOut>>
    /\ submit[s].pc # "idle"
    /\ ChecksIn(submit'[s]) => ChecksIn(submit[s]) \/ ~checkedIn[Owner[s]]

LEMMA HandlerSteps ==
    ASSUME NEW s \in Slots, Slots = {s}, TypeOK, [Next]_vars,
           OnlyWriter(s)
    PROVE  LET d == Owner[s]
           IN  \/ Quiet(s) \/ Tick \/ Restart(d)
               \/ RecordQueried(d) \/ RecordRead(d) \/ RecordShown(d) \/ RecordFailed(d)
               \/ Flush(d)
               \/ SubmitStep(s)
<1> DEFINE d == Owner[s]
<1>0. d \in Devices
  OBVIOUS
<1>1. CASE UNCHANGED vars
  BY <1>1, Zenon DEF vars, screen, Quiet
<1>2. ASSUME NEW e \in Devices, DeviceStep(e), e # d
      PROVE  Quiet(s)
  <2>1. ~Flush(e)
    BY <1>2, Zenon DEF Flush, OnlyWriter
  <2>2. CASE GeofenceEnter(e) \/ GeofenceExit(e) \/ Rebuild(e)
    BY <2>2, Zenon DEF GeofenceEnter, GeofenceExit, Rebuild, Quiet, screen
  <2>3. CASE Restart(e)
    <3>1. submit'[s] = submit[s]
      BY <1>2, <2>3, Zenon DEF Restart
    <3>2. /\ getRecord'[d] = getRecord[d] /\ checkedIn'[d] = checkedIn[d]
          /\ checkOut'[d] = checkOut[d]
      BY <1>0, <1>2, <2>3, Zenon DEF Restart, TypeOK
    <3> QED
      BY <2>3, <3>1, <3>2, Zenon DEF Restart, Quiet
  <2>4. CASE RecordQueried(e) \/ RecordRead(e)
    <3>1. getRecord'[d] = getRecord[d]
      BY <1>0, <1>2, <2>4, Zenon DEF RecordQueried, RecordRead, TypeOK
    <3> QED
      BY <2>4, <3>1, Zenon DEF RecordQueried, RecordRead, Quiet, screen
  <2>5. CASE RecordShown(e) \/ RecordFailed(e)
    <3>1. /\ getRecord'[d] = getRecord[d] /\ checkedIn'[d] = checkedIn[d]
          /\ checkOut'[d] = checkOut[d]
      BY <1>0, <1>2, <2>5, Zenon DEF RecordShown, RecordFailed, TypeOK
    <3> QED
      BY <2>5, <3>1, Zenon DEF RecordShown, RecordFailed, Quiet
  <2> QED
    BY <1>2, <2>1, <2>2, <2>3, <2>4, <2>5, Zenon DEF DeviceStep
<1>3. CASE DeviceStep(d)
  <2>1. CASE GeofenceEnter(d) \/ GeofenceExit(d) \/ Rebuild(d)
    BY <2>1, Zenon DEF GeofenceEnter, GeofenceExit, Rebuild, Quiet, screen
  <2> QED
    BY <1>3, <2>1, Zenon DEF DeviceStep
<1> QED
  BY <1>1, <1>2, <1>3, Zenon DEF Next

LEMMA WaitingSteps ==
    ASSUME NEW s \in Slots, TypeOK, SubmitStep(s)
    PROVE  Slide(s) \/ CheckInNow(s) \/ CheckOutNow(s) \/ HandlerWaits(s)
<1> DEFINE call(c) == submit' = [submit EXCEPT ![s] = c]
<1>0. \A c : call(c) => submit'[s] = c
  BY Zenon DEF TypeOK
<1>a. ~ChecksIn(Idle)
  BY Zenon DEF ChecksIn, Idle, Call
<1>1. CASE AuthFailed(s) \/ ReadFailed(s) \/ CheckOutThrows(s)
  <2>1. submit'[s] = Idle
    BY <1>0, <1>1, Zenon DEF AuthFailed, ReadFailed, CheckOutThrows, Resume
  <2>2. submit[s].pc # "idle"
    BY <1>1, Zenon DEF AuthFailed, ReadFailed, CheckOutThrows
  <2> QED
    BY <1>1, <1>a, <2>1, <2>2, Zenon
       DEF AuthFailed, ReadFailed, CheckOutThrows, HandlerWaits, screen
<1>2. CASE Authenticated(s)
  <2>1. submit'[s] = Idle \/ submit'[s].dir = "out" \/ ~checkedIn[Owner[s]]
    BY <1>0, <1>2 DEF Authenticated, Resume, Call
  <2>2. submit[s].pc # "idle"
    BY <1>2, Zenon DEF Authenticated
  <2>3. ChecksIn(submit'[s]) => ~checkedIn[Owner[s]]
    BY <1>a, <2>1, Zenon DEF ChecksIn
  <2> QED
    BY <1>2, <2>2, <2>3, Zenon DEF Authenticated, HandlerWaits, screen
<1>3. CASE Queried(s) \/ Read(s)
  <2>1. submit'[s].dir = submit[s].dir
    BY <1>0, <1>3 DEF Queried, Read, Resume, Call
  <2>2. submit[s].pc \in {"query", "get"}
    BY <1>3, Zenon DEF Queried, Read
  <2>3. ChecksIn(submit'[s]) => ChecksIn(submit[s])
    BY <2>1, <2>2, Zenon DEF ChecksIn
  <2> QED
    BY <1>3, <2>2, <2>3, Zenon DEF Queried, Read, HandlerWaits, screen
<1> QED
  BY <1>1, <1>2, <1>3, Zenon DEF SubmitStep

\* What a check-in and a check-out do to the queue and to what was posted.
InWrite == [op |-> "set", key |-> Key(now), date |-> now,
            checkIn |-> Stamp(now), checkOut |-> Blank]

OutWrite(in) == [op |-> "update", key |-> Key(now), date |-> now,
                 checkIn |-> in, checkOut |-> Stamp(now)]

\* The write of a check-in leaves the check-out open.
LEMMA SetLeavesOpen ==
    ASSUME NEW w, GoodWrite(w, posted, now), w.op = "set"
    PROVE  Content(w).checkOut = Blank
BY Zenon DEF GoodWrite, Content

LEMMA IdlePc == Idle.pc = "idle"
BY Zenon DEF Idle, Call

LEMMA CheckInDoes ==
    ASSUME NEW s \in Slots, TypeOK, CheckInNow(s)
    PROVE  LET d == Owner[s]
           IN  /\ InWrite \in Writes /\ InWrite.op = "set" /\ InWrite.key = Key(now)
               /\ queue' = [queue EXCEPT ![d] = Append(queue[d], InWrite)]
               /\ queue'[d] = Append(queue[d], InWrite) /\ queue[d] \in Seq(Writes)
               /\ posted' = posted \cup {Entry("in", now)}
               /\ submit'[s] = Idle /\ submit[s].pc = "got" /\ submit[s].dir = "in"
               /\ checkedIn'[d] /\ checkOut' = checkOut
               /\ UNCHANGED <<now, store, getRecord>>
<1> DEFINE d == Owner[s]
<1>0. d \in Devices
  OBVIOUS
<1>1. InWrite \in Writes /\ InWrite.op = "set" /\ InWrite.key = Key(now)
  BY NowType, StartType, Zenon DEF InWrite, Writes
<1>2. queue' = [queue EXCEPT ![d] = Append(queue[d], InWrite)]
  BY Zenon DEF CheckInNow, Enqueue, InWrite
<1>3. queue'[d] = Append(queue[d], InWrite) /\ queue[d] \in Seq(Writes)
  BY <1>0, <1>2, Zenon DEF TypeOK
<1>4. submit'[s] = Idle /\ submit[s].pc = "got" /\ submit[s].dir = "in"
  BY Zenon DEF CheckInNow, Resume, TypeOK
<1>5. checkedIn'[d]
  BY <1>0, Zenon DEF CheckInNow, TypeOK
<1> QED
  BY <1>1, <1>2, <1>3, <1>4, <1>5, Zenon DEF CheckInNow, Post

LEMMA CheckOutDoes ==
    ASSUME NEW s \in Slots, TypeOK, CheckOutNow(s)
    PROVE  LET d == Owner[s]
               w == OutWrite(submit[s].snap.checkIn)
           IN  /\ w \in Writes /\ w.op = "update" /\ w.key = Key(now)
               /\ w.checkIn = submit[s].snap.checkIn
               /\ queue' = [queue EXCEPT ![d] = Append(queue[d], w)]
               /\ queue'[d] = Append(queue[d], w) /\ queue[d] \in Seq(Writes)
               /\ posted' = posted \cup {Entry("out", now)}
               /\ submit'[s] = Idle /\ submit[s].pc = "got"
               /\ submit[s].snap.exists
               /\ checkOut'[d] = Stamp(now)
               /\ UNCHANGED <<now, store, getRecord>>
<1> DEFINE d == Owner[s]
           in == submit[s].snap.checkIn
<1>0. d \in Devices /\ in \in Times
  BY Zenon DEF TypeOK, Calls, Docs
<1>1. /\ OutWrite(in) \in Writes /\ OutWrite(in).op = "update" /\ OutWrite(in).key = Key(now)
      /\ OutWrite(in).checkIn = in
  BY <1>0, NowType, Zenon DEF OutWrite, Writes
<1>2. queue' = [queue EXCEPT ![d] = Append(queue[d], OutWrite(in))]
  BY Zenon DEF CheckOutNow, Enqueue, OutWrite
<1>3. queue'[d] = Append(queue[d], OutWrite(in)) /\ queue[d] \in Seq(Writes)
  BY <1>0, <1>2, Zenon DEF TypeOK
<1>4. submit'[s] = Idle /\ submit[s].pc = "got" /\ submit[s].snap.exists
  BY Zenon DEF CheckOutNow, Resume, TypeOK
<1>5. checkOut'[d] = Stamp(now)
  BY <1>0, Zenon DEF CheckOutNow, TypeOK
<1> QED
  BY <1>1, <1>2, <1>3, <1>4, <1>5, Zenon DEF CheckOutNow, Post

LEMMA FlushShifts ==
    ASSUME NEW d \in Devices, TypeOK, Flush(d), NEW k \in Days
    PROVE  /\ \A i \in Live(store', queue'[d], k) :
                 /\ i + 1 \in Live(store, queue[d], k)
                 /\ queue'[d][i] = queue[d][i + 1]
           /\ 1 \in Live(store, queue[d], k) <=>
                 /\ Head(queue[d]).op = "update" /\ Head(queue[d]).key = k
                 /\ store[k].exists
           /\ Visible(store'[k], queue'[d], k) <=> Visible(store[k], queue[d], k)
<1>1. /\ queue[d] \in Seq(Writes) /\ queue[d] # <<>> /\ store \in [Days -> Docs]
      /\ store' = Flushed(store, Head(queue[d])) /\ queue'[d] = Tail(queue[d])
  BY FlushDoes, Zenon DEF TypeOK
<1>2. ASSUME NEW st \in [Days -> Docs], NEW q \in Seq(Writes), q # <<>>
      PROVE  /\ \A i \in Live(Flushed(st, Head(q)), Tail(q), k) :
                   i + 1 \in Live(st, q, k) /\ Tail(q)[i] = q[i + 1]
             /\ 1 \in Live(st, q, k) <=>
                   Head(q).op = "update" /\ Head(q).key = k /\ st[k].exists
             /\ Visible(Flushed(st, Head(q))[k], Tail(q), k) <=> Visible(st[k], q, k)
  BY <1>2, FlushedLive, Zenon
<1>3. ASSUME NEW i \in Live(store', queue'[d], k)
      PROVE  i + 1 \in Live(store, queue[d], k) /\ queue'[d][i] = queue[d][i + 1]
  <2>1. i \in Live(Flushed(store, Head(queue[d])), Tail(queue[d]), k)
    BY <1>1, <1>3, Zenon
  <2>2. i + 1 \in Live(store, queue[d], k) /\ Tail(queue[d])[i] = queue[d][i + 1]
    BY <1>1, <1>2, <2>1, Zenon
  <2> QED
    BY <1>1, <2>2, Zenon
<1>4. Visible(Flushed(store, Head(queue[d]))[k], Tail(queue[d]), k)
         <=> Visible(store[k], queue[d], k)
  BY <1>1, <1>2, Zenon
<1>5. Visible(store'[k], queue'[d], k) <=> Visible(store[k], queue[d], k)
  BY <1>1, <1>4, Zenon
<1> QED
  BY <1>1, <1>2, <1>3, <1>5, Zenon

(***************************************************************************)
(* CheckInOfItsDay.                                                        *)
(***************************************************************************)

\* A record a device sees was checked in on its day, which is not ahead.
LEMMA SeenWasPosted ==
    ASSUME IInv, CheckInOfItsDay, NEW d \in Devices, NEW k \in Days,
           Visible(store[k], queue[d], k)
    PROVE  k <= Key(now) /\ InOn(k)
<1>0. now \in Instants /\ now.day \in Int /\ now.tick \in Int
  BY DEF IInv, TypeOK, Instants, Days, Ticks
<1>1. ASSUME NEW t, GoodTime("in", t, posted, now), Key(t.at) = k
      PROVE  k <= Key(now) /\ InOn(k)
  <2>1. Entry("in", t.at) \in posted /\ Leq(t.at, now)
    BY <1>1, Zenon DEF GoodTime
  <2>2. Entry("in", t.at).dir = "in" /\ Entry("in", t.at).at = t.at
    BY Zenon DEF Entry
  <2>3. k <= Key(now)
    BY <1>0, <1>1, <2>1 DEF Leq, Key, Days
  <2> QED
    BY <1>1, <2>1, <2>2, <2>3, Zenon DEF InOn, Key
<1>2. CASE store[k].exists
  <2>1. GoodTime("in", store[k].checkIn, posted, now)
    BY <1>2, Zenon DEF IInv, StoreInv, GoodDoc, GoodContent
  <2> QED
    BY <1>1, <1>2, <2>1, Zenon DEF CheckInOfItsDay
<1>3. ASSUME NEW i \in At(queue[d], "set", k)
      PROVE  k <= Key(now) /\ InOn(k)
  <2> DEFINE w == queue[d][i]
  <2>1. i \in 1..Len(queue[d]) /\ w.op = "set" /\ w.key = k
    BY Zenon DEF At
  <2>2. GoodWrite(w, posted, now) /\ w \in Writes
    BY <2>1 DEF IInv, QueueInv, TypeOK
  <2>3. w.date \in Instants
    BY <2>2, Zenon DEF Writes
  <2>4. w.checkIn.at = w.date /\ Key(w.date) = k /\ GoodTime("in", w.checkIn, posted, now)
    BY <2>1, <2>2, <2>3, StampType, Zenon DEF GoodWrite, GoodContent
  <2> QED
    BY <1>1, <2>4, Zenon
<1> QED
  BY <1>2, <1>3, VisibleAt, Zenon

LEMMA KeyGrows ==
    ASSUME TypeOK, [Next]_vars
    PROVE  Key(now) <= Key(now') /\ Key(now) \in Int /\ Key(now') \in Int
<1>1. now \in Instants /\ now' \in Instants /\ Leq(now, now')
  BY Grows, Zenon DEF TypeOK
<1>2. now.day \in Int /\ now'.day \in Int /\ now.tick \in Int /\ now'.tick \in Int
  BY <1>1 DEF Instants, Days, Ticks
<1> QED
  BY <1>1, <1>2 DEF Leq, Key

LEMMA OnlyWriterStep ==
    ASSUME NEW s \in Slots, Slots = {s}, TypeOK, OnlyWriter(s), [Next]_vars
    PROVE  OnlyWriter(s)'
<1>0. queue \in [Devices -> Seq(Writes)]
  BY Zenon DEF TypeOK
<1>1. CASE UNCHANGED <<queue, store>>
  BY <1>1, Zenon DEF OnlyWriter
<1>2. ASSUME NEW d \in Devices, Flush(d)
      PROVE  OnlyWriter(s)'
  <2>1. d = Owner[s] /\ queue' = [queue EXCEPT ![d] = Tail(queue[d])]
    BY <1>2, Zenon DEF OnlyWriter, Flush
  <2> QED
    BY <1>0, <2>1, Zenon DEF OnlyWriter
<1>3. ASSUME CheckInNow(s) \/ CheckOutNow(s)
      PROVE  OnlyWriter(s)'
  <2>1. \E w : queue' = [queue EXCEPT ![Owner[s]] = Append(queue[Owner[s]], w)]
    BY <1>3, Zenon DEF CheckInNow, CheckOutNow, Enqueue
  <2> QED
    BY <1>0, <2>1, Zenon DEF OnlyWriter
<1> QED
  BY <1>1, <1>2, <1>3, QueueSteps, Zenon

LEMMA CheckInOfItsDayStep ==
    ASSUME NEW s \in Slots, Slots = {s}, IInv, DayInv(s), [Next]_vars
    PROVE  CheckInOfItsDay' /\ LiveOfItsDay(s)'
<1> DEFINE d == Owner[s]
           q == queue[d]
<1>0. /\ d \in Devices /\ q \in Seq(Writes) /\ store \in [Days -> Docs] /\ TypeOK
      /\ now \in Instants
  BY Zenon DEF IInv, TypeOK
<1>a. CheckInOfItsDay /\ LiveOfItsDay(s) /\ OnlyWriter(s)
  BY Zenon DEF DayInv
<1>1. CASE UNCHANGED <<queue, store>>
  BY <1>1, <1>a, Zenon DEF CheckInOfItsDay, LiveOfItsDay, Live, Doomed
<1>2. CASE Flush(d)
  <2> DEFINE w == Head(q)
  <2>1. /\ q # <<>> /\ w \in Writes /\ store' = Flushed(store, w) /\ queue'[d] = Tail(q)
    BY <1>0, <1>2, FlushDoes, Zenon
  <2>2. GoodWrite(w, posted, now) /\ w.date \in Instants /\ w = q[1]
        /\ w.op \in {"set", "update"} /\ w.key \in Days
    BY <1>0, <1>2, <2>1, FlushedWrite DEF IInv, Writes
  <2>3. ASSUME NEW k \in Days, store'[k].exists
        PROVE  Key(store'[k].checkIn.at) = k
    <3>1. CASE store'[k] = store[k]
      BY <1>a, <2>3, <3>1, Zenon DEF CheckInOfItsDay
    <3>2. CASE store'[k] # store[k]
      <4>1. store'[k] = Content(w) /\ k = w.key /\ (w.op = "set" \/ store[k].exists)
        BY <1>0, <2>1, <3>2, FlushedDocs
      <4>2. store'[k].checkIn = w.checkIn
        BY <4>1 DEF Content
      <4>3. CASE w.op = "set"
        BY <2>2, <4>1, <4>2, <4>3, StampType DEF GoodWrite
      <4>4. CASE w.op = "update"
        <5>1. 1 \in Live(store, q, k)
          BY <1>0, <2>1, <4>1, <4>4, FlushedLive
        <5> QED
          BY <1>a, <2>2, <4>2, <5>1, Zenon DEF LiveOfItsDay
      <4> QED
        BY <2>2, <4>3, <4>4, Zenon
    <3> QED
      BY <3>1, <3>2, Zenon
  <2>4. ASSUME NEW k \in Days, NEW i \in Live(store', queue'[d], k)
        PROVE  Key(queue'[d][i].checkIn.at) = k
    <3>1. i + 1 \in Live(store, q, k) /\ queue'[d][i] = q[i + 1]
      BY <1>0, <1>2, <2>4, FlushShifts
    <3> QED
      BY <1>a, <3>1, Zenon DEF LiveOfItsDay
  <2> QED
    BY <2>3, <2>4, Zenon DEF CheckInOfItsDay, LiveOfItsDay
<1>3. ASSUME NEW w \in Writes, store' = store, queue'[d] = Append(q, w),
             \/ w.op = "set"
             \/ Key(w.checkIn.at) = w.key
             \/ ~Visible(store[w.key], q, w.key)
      PROVE  CheckInOfItsDay' /\ LiveOfItsDay(s)'
  <2>1. CheckInOfItsDay'
    BY <1>3, <1>a, Zenon DEF CheckInOfItsDay
  <2>2. ASSUME NEW k \in Days, NEW i \in Live(store, Append(q, w), k)
        PROVE  Key(Append(q, w)[i].checkIn.at) = k
    <3>1. \/ i \in Live(store, q, k) /\ Append(q, w)[i] = q[i]
          \/ /\ i = Len(q) + 1 /\ Append(q, w)[i] = w
             /\ w.op = "update" /\ w.key = k /\ Visible(store[k], q, k)
      BY <1>0, <2>2, AppendLive, Zenon
    <3> QED
      BY <1>3, <1>a, <3>1, Zenon DEF LiveOfItsDay
  <2> QED
    BY <1>3, <2>1, <2>2, Zenon DEF LiveOfItsDay
<1>4. CASE CheckInNow(s)
  BY <1>0, <1>3, <1>4, CheckInDoes, Zenon
<1>5. CASE CheckOutNow(s)
  <2> DEFINE w == OutWrite(submit[s].snap.checkIn)
  <2>1. /\ w \in Writes /\ w.key = Key(now) /\ w.checkIn = submit[s].snap.checkIn
        /\ queue'[d] = Append(q, w) /\ store' = store
        /\ submit[s].pc = "got" /\ submit[s].snap.exists
    BY <1>0, <1>5, CheckOutDoes, Zenon
  <2>2. Key(w.checkIn.at) = submit[s].key
    BY <2>1, Zenon DEF DayInv, SnapOfItsDay
  <2>3. /\ submit[s].key <= Key(now) /\ submit[s].key \in Int /\ Key(now) \in Days
        /\ Key(now) > submit[s].key => ~Visible(store[Key(now)], q, Key(now))
    BY <1>0, <2>1, NowType DEF DayInv, NoneAfter, TypeOK, Calls, Days
  <2>4. Key(w.checkIn.at) = w.key \/ ~Visible(store[w.key], q, w.key)
    BY <2>1, <2>2, <2>3 DEF Days
  <2> HIDE DEF w
  <2> QED
    BY <1>3, <2>1, <2>4, Zenon
<1>6. ~(\E e \in Devices : Flush(e) /\ e # d)
  BY <1>a, Zenon DEF OnlyWriter, Flush
<1> QED
  BY <1>1, <1>2, <1>4, <1>5, <1>6, QueueSteps, Zenon

\* What the handler reads of a day is of that day.
LEMMA ReadOfItsDay ==
    ASSUME NEW s \in Slots, IInv, DayInv(s), NEW k \in Days,
           NEW v \in Views(store[k], queue[Owner[s]], k), v.exists
    PROVE  Key(v.checkIn.at) = k
<1> DEFINE d == Owner[s]
           q == queue[d]
<1>0. d \in Devices /\ q \in Seq(Writes)
  BY Zenon DEF IInv, TypeOK
<1>1. Visible(store[k], q, k)
  BY <1>0, AbsentIsGood, Zenon DEF Views
<1>2. CASE Pending(q, k) = {}
  BY <1>1, <1>2, Zenon DEF Views, Visible, DayInv, CheckInOfItsDay
<1>3. CASE Pending(q, k) # {}
  <2>1. PICK i \in Pending(q, k) :
           v = Content(q[i]) /\ \A j \in Pending(q, k) : j <= i
    BY <1>1, <1>3, Zenon DEF Views
  <2>2. i \in 1..Len(q) /\ q[i].key = k /\ v.checkIn = q[i].checkIn
    BY <2>1, Zenon DEF Pending, Content
  <2>3. GoodWrite(q[i], posted, now) /\ q[i] \in Writes
    BY <1>0, <2>2 DEF IInv, QueueInv
  <2>4. q[i].date \in Instants /\ q[i].op \in {"set", "update"}
    BY <2>3, Zenon DEF Writes
  <2>5. CASE q[i].op = "set"
    BY <2>2, <2>3, <2>4, <2>5, StampType, Zenon DEF GoodWrite
  <2>6. CASE q[i].op = "update"
    <3>1. i \in At(q, "update", k)
      BY <2>2, <2>6, Zenon DEF At
    <3>2. \A j \in At(q, "set", k) : j \in Pending(q, k) /\ j # i
      BY <2>6, Zenon DEF At, Pending
    <3>3. \A j \in At(q, "set", k) : j < i
      BY <1>0, <2>1, <2>2, <3>2, AtPlaces
    <3>4. i \in Live(store, q, k)
      BY <1>0, <1>1, <3>1, <3>3, LiveIf, VisibleAt, Zenon
    <3> QED
      BY <2>2, <3>4 DEF DayInv, LiveOfItsDay
  <2> QED
    BY <2>4, <2>5, <2>6, Zenon
<1> QED
  BY <1>2, <1>3, Zenon

LEMMA SnapOfItsDayStep ==
    ASSUME NEW s \in Slots, Slots = {s}, IInv, DayInv(s), [Next]_vars
    PROVE  SnapOfItsDay(s)'
<1>0. submit \in [Slots -> Calls] /\ TypeOK /\ OnlyWriter(s) /\ SnapOfItsDay(s)
  BY Zenon DEF IInv, TypeOK, DayInv
<1>1. CASE submit'[s] = submit[s]
  BY <1>0, <1>1, Zenon DEF SnapOfItsDay
<1>2. CASE submit'[s].pc # "got"
  BY <1>2, Zenon DEF SnapOfItsDay
<1>3. CASE Read(s)
  <2>1. PICK v \in Views(store[submit[s].key], queue[Owner[s]], submit[s].key) :
           submit'[s] = Call("got", submit[s].dir, submit[s].key, v)
    BY <1>0, <1>3, Zenon DEF Read, Resume
  <2>2. submit'[s].key = submit[s].key /\ submit'[s].snap = v /\ submit[s].key \in Days
    BY <1>0, <2>1 DEF Call, Calls
  <2>3. v.exists => Key(v.checkIn.at) = submit[s].key
    BY <2>2, ReadOfItsDay, Zenon
  <2> QED
    BY <2>2, <2>3, Zenon DEF SnapOfItsDay
<1>4. submit'[s] = submit[s] \/ submit'[s].pc # "got" \/ Read(s)
  <2>1. CASE Restart(Owner[s])
    BY <2>1, Zenon DEF Restart, Idle, Call
  <2>2. CASE SubmitStep(s)
    BY <1>0, <2>2 DEF SubmitStep, Slide, AuthFailed, Authenticated, Queried, ReadFailed,
                      CheckInNow, CheckOutNow, CheckOutThrows, Resume, Idle, Call
  <2>3. CASE UNCHANGED submit
    BY <2>3, Zenon
  <2> QED
    BY <1>0, <2>1, <2>2, <2>3, HandlerSteps, Zenon
       DEF Quiet, Tick, RecordQueried, RecordRead, RecordShown, RecordFailed, Flush
<1> QED
  BY <1>1, <1>2, <1>3, <1>4, Zenon

\* What the handler sees of a day only a check-in of that day can change.
LEMMA SeenSame ==
    ASSUME NEW s \in Slots, Slots = {s}, TypeOK, OnlyWriter(s), [Next]_vars,
           NEW k \in Days
    PROVE  \/ Visible(store'[k], queue'[Owner[s]], k) <=>
                 Visible(store[k], queue[Owner[s]], k)
           \/ CheckInNow(s) /\ k = Key(now)
<1> DEFINE d == Owner[s]
           q == queue[d]
<1>0. d \in Devices /\ q \in Seq(Writes) /\ store \in [Days -> Docs]
  BY Zenon DEF TypeOK
<1>1. CASE UNCHANGED <<queue, store>>
  BY <1>1, Zenon
<1>2. CASE Flush(d)
  <2>1. store' = Flushed(store, Head(q)) /\ queue'[d] = Tail(q) /\ q # <<>>
    BY <1>0, <1>2, FlushDoes, Zenon
  <2>2. Visible(Flushed(store, Head(q))[k], Tail(q), k) <=> Visible(store[k], q, k)
    BY <1>0, <2>1, FlushedLive, Zenon
  <2> QED
    BY <2>1, <2>2, Zenon
<1>3. CASE CheckInNow(s)
  <2>1. /\ InWrite \in Writes /\ InWrite.key = Key(now)
        /\ queue'[d] = Append(q, InWrite) /\ store' = store
    BY <1>3, CheckInDoes, Zenon
  <2>2. Visible(store[k], Append(q, InWrite), k) <=>
           Visible(store[k], q, k) \/ (InWrite.op = "set" /\ InWrite.key = k)
    BY <1>0, <2>1, AppendVisible, Zenon
  <2> QED
    BY <1>3, <2>1, <2>2, Zenon
<1>4. CASE CheckOutNow(s)
  <2> DEFINE w == OutWrite(submit[s].snap.checkIn)
  <2>1. w \in Writes /\ w.op = "update" /\ queue'[d] = Append(q, w) /\ store' = store
    BY <1>4, CheckOutDoes, Zenon
  <2> HIDE DEF w
  <2>2. Visible(store[k], Append(q, w), k) <=>
           Visible(store[k], q, k) \/ (w.op = "set" /\ w.key = k)
    BY <1>0, <2>1, AppendLive, Zenon
  <2> QED
    BY <2>1, <2>2, Zenon
<1>5. ~(\E e \in Devices : Flush(e) /\ e # d)
  BY Zenon DEF OnlyWriter, Flush
<1> QED
  BY <1>1, <1>2, <1>3, <1>4, <1>5, QueueSteps, Zenon

LEMMA NoneAfterStep ==
    ASSUME NEW s \in Slots, Slots = {s}, IInv, DayInv(s), [Next]_vars
    PROVE  NoneAfter(s)'
<1> DEFINE d == Owner[s]
<1>0. submit \in [Slots -> Calls] /\ TypeOK /\ OnlyWriter(s) /\ NoneAfter(s) /\ d \in Devices
  BY Zenon DEF IInv, TypeOK, DayInv
<1>1. CASE submit'[s].pc \notin {"get", "got"}
  BY <1>1, Zenon DEF NoneAfter
<1>2. ASSUME submit'[s] = submit[s] \/ Read(s)
      PROVE  NoneAfter(s)'
  <2>1. /\ submit'[s].key = submit[s].key
        /\ submit'[s].pc \in {"get", "got"} => submit[s].pc \in {"get", "got"}
    BY <1>0, <1>2 DEF Read, Resume, Call
  <2>2. ~CheckInNow(s) \/ submit'[s].pc = "idle"
    BY <1>0, CheckInDoes DEF Idle, Call
  <2>3. \A k \in Days :
          CheckInNow(s) \/ (Visible(store'[k], queue'[d], k) <=> Visible(store[k], queue[d], k))
    BY <1>0, SeenSame, Zenon
  <2>4. Key(now) <= Key(now') /\ Key(now) \in Int /\ Key(now') \in Int
    BY <1>0, KeyGrows, Zenon
  <2>5. ASSUME submit'[s].pc \in {"get", "got"}
        PROVE  submit'[s].key <= Key(now')
    <3>1. submit[s].key <= Key(now) /\ submit[s].key \in Int
      BY <1>0, <2>1, <2>5 DEF NoneAfter, Calls, Days
    <3> QED
      BY <2>1, <2>4, <3>1
  <2>6. ASSUME submit'[s].pc \in {"get", "got"}, NEW k \in Days, k > submit'[s].key
        PROVE  ~Visible(store'[k], queue'[d], k)
    BY <1>0, <2>1, <2>2, <2>3, <2>6, Zenon DEF NoneAfter
  <2> QED
    BY <2>5, <2>6, Zenon DEF NoneAfter
<1>3. CASE Queried(s)
  <2>1. submit'[s].key = Key(now) /\ UNCHANGED <<now, store, queue>>
    BY <1>0, <1>3, Zenon DEF Queried, Resume, Call
  <2>2. \A k \in Days : Visible(store[k], queue[d], k) => k <= Key(now)
    BY <1>0, SeenWasPosted, Zenon DEF DayInv
  <2>3. Key(now) \in Int
    BY <1>0, NowType DEF Days
  <2> QED
    BY <2>1, <2>2, <2>3 DEF NoneAfter, Days
<1>4. submit'[s] = submit[s] \/ submit'[s].pc \notin {"get", "got"} \/ Read(s) \/ Queried(s)
  <2>1. CASE Restart(d)
    BY <2>1, Zenon DEF Restart, Idle, Call
  <2>2. CASE SubmitStep(s)
    BY <1>0, <2>2 DEF SubmitStep, Slide, AuthFailed, Authenticated, ReadFailed,
                      CheckInNow, CheckOutNow, CheckOutThrows, Resume, Idle, Call
  <2>3. CASE UNCHANGED submit
    BY <2>3, Zenon
  <2> QED
    BY <1>0, <2>1, <2>2, <2>3, HandlerSteps, Zenon
       DEF Quiet, Tick, RecordQueried, RecordRead, RecordShown, RecordFailed, Flush
<1> QED
  BY <1>1, <1>2, <1>3, <1>4, Zenon

LEMMA DayInitial ==
    ASSUME NEW s \in Slots, Init
    PROVE  DayInv(s)
<1>1. /\ submit[s].pc = "idle" /\ queue[Owner[s]] = <<>>
      /\ \A k \in Days : ~store[k].exists
      /\ \A d \in Devices : queue[d] = <<>>
  BY Zenon DEF Init, Idle, Call, Absent
<1>2. \A k \in Days : Live(store, <<>>, k) = {}
  BY DEF Live, At
<1> QED
  BY <1>1, <1>2, Zenon DEF DayInv, OnlyWriter, CheckInOfItsDay, LiveOfItsDay, SnapOfItsDay,
                           NoneAfter

LEMMA DayStep ==
    ASSUME NEW s \in Slots, Slots = {s}, IInv, DayInv(s), [Next]_vars
    PROVE  DayInv(s)'
<1>1. OnlyWriter(s)'
  BY OnlyWriterStep, Zenon DEF IInv, DayInv
<1> QED
  BY <1>1, CheckInOfItsDayStep, SnapOfItsDayStep, NoneAfterStep, Zenon DEF DayInv

\* With one handler the check-in in a record is of the record's own day, for
\* any number of days: a check-out that is suspended over midnight updates a
\* document that cannot be there, and the server drops it.
THEOREM CheckedInOnItsDay ==
    ASSUME OneHandler
    PROVE  Spec => []CheckInOfItsDay
<1>1. PICK s : Slots = {s}
  BY Zenon DEF OneHandler
<1>2. s \in Slots
  BY <1>1, Zenon
<1>3. Init => DayInv(s)
  BY <1>2, DayInitial, Zenon
<1>4. IInv /\ DayInv(s) /\ [Next]_vars => DayInv(s)'
  BY <1>1, <1>2, DayStep, Zenon
<1>5. DayInv(s) => CheckInOfItsDay
  BY Zenon DEF DayInv
<1> QED
  BY <1>3, <1>4, <1>5, Invariant, PTL DEF Spec

(***************************************************************************)
(* OneInPerDay.                                                            *)
(***************************************************************************)

LEMMA PostedSteps ==
    ASSUME NEW s \in Slots, Slots = {s}, TypeOK, OnlyWriter(s), [Next]_vars
    PROVE  posted' = posted \/ CheckInNow(s) \/ CheckOutNow(s)
<1>1. CASE SubmitStep(s)
  BY <1>1, WaitingSteps, Zenon DEF Slide, HandlerWaits
<1> QED
  BY <1>1, HandlerSteps, Zenon
     DEF Quiet, Tick, Restart, RecordQueried, RecordRead, RecordShown, RecordFailed, Flush

LEMMA InOnStep ==
    ASSUME NEW s \in Slots, Slots = {s}, TypeOK, OnlyWriter(s), [Next]_vars, NEW k
    PROVE  InOn(k)' => InOn(k) \/ (CheckInNow(s) /\ k = Key(now))
<1>1. CASE posted' = posted
  BY <1>1, Zenon DEF InOn
<1>2. CASE CheckInNow(s)
  <2>1. posted' = posted \cup {Entry("in", now)}
    BY <1>2, CheckInDoes, Zenon
  <2> QED
    BY <1>2, <2>1 DEF InOn, Entry, Key
<1>3. CASE CheckOutNow(s)
  <2>1. posted' = posted \cup {Entry("out", now)} /\ Entry("out", now).dir = "out"
    BY <1>3, CheckOutDoes, Zenon DEF Entry
  <2> QED
    BY <2>1, Zenon DEF InOn
<1> QED
  BY <1>1, <1>2, <1>3, PostedSteps, Zenon

LEMMA InVisibleStep ==
    ASSUME NEW s \in Slots, Slots = {s}, TypeOK, OnlyWriter(s), InVisible(s), [Next]_vars
    PROVE  InVisible(s)'
<1> DEFINE d == Owner[s]
<1> SUFFICES ASSUME NEW k \in Days, InOn(k)'
             PROVE  k <= Key(now') /\ Visible(store'[k], queue'[d], k)
  BY Zenon DEF InVisible
<1>0. /\ Key(now) <= Key(now') /\ Key(now) \in Int /\ Key(now') \in Int /\ k \in Int
      /\ queue[d] \in Seq(Writes)
  BY KeyGrows DEF Days, TypeOK
<1>1. CASE ~CheckInNow(s) \/ k # Key(now)
  <2>1. InOn(k)
    BY <1>1, InOnStep
  <2>2. k <= Key(now) /\ Visible(store[k], queue[d], k)
    BY <2>1, Zenon DEF InVisible
  <2> QED
    BY <1>0, <1>1, <2>2, SeenSame
<1>2. CASE CheckInNow(s) /\ k = Key(now)
  <2>1. /\ InWrite \in Writes /\ InWrite.op = "set" /\ InWrite.key = Key(now)
        /\ queue'[d] = Append(queue[d], InWrite) /\ store' = store
    BY <1>2, CheckInDoes, Zenon
  <2>2. Visible(store[k], Append(queue[d], InWrite), k)
    BY <1>0, <1>2, <2>1, AppendLive, Zenon
  <2> QED
    BY <1>0, <1>2, <2>1, <2>2, Zenon
<1> QED
  BY <1>1, <1>2, Zenon

\* What may happen while nothing careless does.
LEMMA CareSteps ==
    ASSUME NEW s \in Slots, Slots = {s}, TypeOK, OnlyWriter(s),
           [CareNext]_<<vars, careful>>, careful'
    PROVE  LET d == Owner[s]
           IN  /\ careful /\ [Next]_vars
               /\ \/ Quiet(s) \/ Tick \/ Restart(d)
                  \/ RecordQueried(d) \/ RecordRead(d) \/ RecordShown(d)
                  \/ Flush(d)
                  \/ Slide(s) /\ getRecord[d].pc = "idle"
                  \/ HandlerWaits(s) \/ CheckInNow(s) \/ CheckOutNow(s)
<1> DEFINE d == Owner[s]
<1>0. d \in Devices
  OBVIOUS
<1>1. CASE UNCHANGED <<vars, careful>>
  BY <1>1, Zenon DEF vars, screen, Quiet
<1>2. CASE CareNext
  <2>1. careful /\ ~Careless /\ [Next]_vars
    BY <1>2, Zenon DEF CareNext
  <2>2. ~RecordFailed(d)
    <3>1. SUFFICES ASSUME RecordFailed(d) PROVE Careless
      BY <2>1, Zenon
    <3>2. getRecord'[d].pc = "idle" /\ getRecord[d].pc \in {"query", "get"}
      BY <1>0, <3>1, Zenon DEF RecordFailed, TypeOK, Idle, Call
    <3> QED
      BY <1>0, <3>2, Zenon DEF Careless
  <2>3. Slide(s) => getRecord[d].pc = "idle"
    <3>1. SUFFICES ASSUME Slide(s), getRecord[d].pc # "idle" PROVE Careless
      BY <2>1, Zenon
    <3>2. submit'[s].pc = "auth" /\ submit[s].pc = "idle"
      BY <3>1, Zenon DEF Slide, Resume, TypeOK, Call
    <3> QED
      BY <3>1, <3>2, Zenon DEF Careless
  <2> QED
    BY <2>1, <2>2, <2>3, HandlerSteps, WaitingSteps, Zenon
<1> QED
  BY <1>1, <1>2, Zenon

\* _getRecord finds the check-in of the day it reads.
LEMMA RecordReadFinds ==
    ASSUME NEW s \in Slots, IInv, InVisible(s), RecordRead(Owner[s])
    PROVE  LET call == getRecord[Owner[s]]
               new == getRecord'[Owner[s]]
           IN  /\ new.key = call.key /\ new.pc = "got"
               /\ new.snap \in Views(store[call.key], queue[Owner[s]], call.key)
               /\ call.pc = "get" /\ call.key \in Days
               /\ InOn(call.key) => new.snap.checkIn # Blank
<1> DEFINE d == Owner[s]
           k == getRecord[d].key
<1>0. d \in Devices /\ getRecord[d].pc = "get" /\ k \in Days
  BY Zenon DEF IInv, TypeOK, Calls, RecordRead
<1>1. PICK v \in Views(store[k], queue[d], k) :
         getRecord'[d] = Call("got", "in", k, v)
  BY <1>0, Zenon DEF RecordRead, IInv, TypeOK
<1>2. getRecord'[d].key = k /\ getRecord'[d].pc = "got" /\ getRecord'[d].snap = v
  BY <1>1 DEF Call
<1>3. GoodDoc(v, posted, now)
  BY <1>0, <1>1, GoodViews, Zenon DEF IInv
<1>4. ASSUME InOn(k) PROVE v.checkIn # Blank
  <2>1. Visible(store[k], queue[d], k)
    BY <1>0, <1>4, Zenon DEF InVisible
  <2>2. v.exists
    BY <1>0, <1>1, <2>1, SeenExists, Zenon
  <2> QED
    BY <1>3, <2>2, Zenon DEF GoodDoc, GoodContent, GoodTime
<1> QED
  BY <1>0, <1>1, <1>2, <1>4, Zenon

\* The clock moves: a day checked in is no later than now, so what was read of
\* it, or is shown of it, still stands, and a new day has no check-in yet.
LEMMA InSeenTick ==
    ASSUME NEW s \in Slots, InRead(s), InShown(s), getRecord[Owner[s]].key \in Int,
           UNCHANGED <<posted, checkedIn, checkOut, getRecord, submit>>,
           Key(now) \in Int, Key(now') \in Int, Key(now') \in Days, Key(now) <= Key(now'),
           \A k \in Days : InOn(k) => k <= Key(now)
    PROVE  InRead(s)' /\ InShown(s)'
<1> DEFINE d == Owner[s]
           G == getRecord[d]
<1>1. /\ G.pc # "idle" => submit[s].pc = "idle"
      /\ G.pc \in {"get", "got"} =>
            G.key <= Key(now) /\ \A k \in Days : InOn(k) => k <= G.key
      /\ G.pc = "got" /\ InOn(G.key) => G.snap.checkIn # Blank
  BY Zenon DEF InRead
<1>2. G.key <= Key(now) => G.key <= Key(now')
  OBVIOUS
<1>3. InRead(s)'
  BY <1>1, <1>2, Zenon DEF InRead, InOn
<1>4. InOn(Key(now')) => InOn(Key(now))
  <2> SUFFICES ASSUME InOn(Key(now')) PROVE InOn(Key(now))
    OBVIOUS
  <2>1. Key(now') <= Key(now)
    BY Zenon
  <2>2. Key(now') = Key(now)
    BY <2>1
  <2> QED
    BY <2>2, Zenon
<1>5. /\ G.pc = "idle" /\ InOn(Key(now)) => checkedIn[d] \/ checkOut[d] # Blank
      /\ ChecksIn(submit[s]) => ~checkedIn[d]
      /\ submit[s].pc # "idle" => checkOut[d] = Blank
  BY Zenon DEF InShown, ChecksIn
<1>6. G.pc = "idle" /\ InOn(Key(now')) => checkedIn[d] \/ checkOut[d] # Blank
  BY <1>4, <1>5, Zenon
<1>7. InShown(s)'
  BY <1>5, <1>6, Zenon DEF InShown, ChecksIn, InOn
<1> QED
  BY <1>3, <1>7, Zenon

LEMMA InSeenStep ==
    ASSUME NEW s \in Slots, Slots = {s}, IInv, OnlyWriter(s), InVisible(s),
           careful => InRead(s) /\ InShown(s), [CareNext]_<<vars, careful>>, careful'
    PROVE  InRead(s)' /\ InShown(s)'
<1> DEFINE d == Owner[s]
           G == getRecord[d]
<1>0. /\ TypeOK /\ d \in Devices /\ getRecord \in [Devices -> Calls] /\ G.key \in Int
      /\ checkedIn \in [Devices -> BOOLEAN] /\ checkOut \in [Devices -> Times]
  BY DEF IInv, TypeOK, Calls, Days
<1>1. careful /\ [Next]_vars /\ InRead(s) /\ InShown(s)
  BY <1>0, CareSteps, Zenon
<1>2. /\ Key(now) <= Key(now') /\ Key(now) \in Int /\ Key(now') \in Int
      /\ Key(now) \in Days /\ Key(now') \in Days
  BY <1>0, <1>1, KeyGrows, NowType, Grows, Zenon DEF Key, Instants
<1>3. \A k : ~CheckInNow(s) /\ InOn(k)' => InOn(k)
  BY <1>0, <1>1, InOnStep, Zenon
<1>a. /\ G.pc # "idle" => submit[s].pc = "idle"
      /\ G.pc \in {"get", "got"} =>
            G.key <= Key(now) /\ \A k \in Days : InOn(k) => k <= G.key
      /\ G.pc = "got" /\ InOn(G.key) => G.snap.checkIn # Blank
  BY <1>1, Zenon DEF InRead
<1>b. /\ G.pc = "idle" /\ InOn(Key(now)) => checkedIn[d] \/ checkOut[d] # Blank
      /\ ChecksIn(submit[s]) => ~checkedIn[d]
      /\ submit[s].pc # "idle" => checkOut[d] = Blank
  BY <1>1, Zenon DEF InShown, ChecksIn
<1>4. CASE Quiet(s) \/ Flush(d)
  <2>1. /\ now' = now /\ posted' = posted
        /\ getRecord'[d] = G /\ submit'[s] = submit[s]
        /\ checkedIn'[d] = checkedIn[d] /\ checkOut'[d] = checkOut[d]
    BY <1>0, <1>4, FlushDoes, Zenon DEF Quiet
  <2> QED
    BY <1>1, <2>1, Zenon DEF InRead, InShown, InOn
<1>5. CASE Tick
  <2>1. UNCHANGED <<posted, checkedIn, checkOut, getRecord, submit>>
    BY <1>5, Zenon DEF Tick, screen
  <2>2. \A k \in Days : InOn(k) => k <= Key(now)
    BY Zenon DEF InVisible
  <2> QED
    BY <1>0, <1>1, <1>2, <2>1, <2>2, InSeenTick, Zenon
<1>6. CASE Restart(d)
  <2>1. getRecord'[d].pc = "query" /\ submit'[s].pc = "idle"
    BY <1>0, <1>6, Zenon DEF Restart, Loading, Idle, Call
  <2> QED
    BY <2>1, Zenon DEF InRead, InShown
<1>7. CASE RecordQueried(d)
  <2>1. /\ getRecord'[d].pc = "get" /\ getRecord'[d].key = Key(now) /\ submit'[s].pc = "idle"
        /\ now' = now /\ posted' = posted
    BY <1>0, <1>7, <1>a, Zenon DEF RecordQueried, Call
  <2>2. \A k \in Days : InOn(k)' => k <= Key(now)
    BY <2>1, Zenon DEF InVisible, InOn
  <2> QED
    BY <1>2, <2>1, <2>2, Zenon DEF InRead, InShown
<1>8. CASE RecordRead(d)
  <2>1. /\ getRecord'[d].pc = "got" /\ getRecord'[d].key = G.key /\ G.pc = "get"
        /\ InOn(G.key) => getRecord'[d].snap.checkIn # Blank
    BY <1>8, RecordReadFinds, Zenon
  <2>2. UNCHANGED <<now, submit, posted>>
    BY <1>8, Zenon DEF RecordRead
  <2>3. \A k : InOn(k)' <=> InOn(k)
    BY <2>2, Zenon DEF InOn
  <2> QED
    BY <1>a, <2>1, <2>2, <2>3, Zenon DEF InRead, InShown
<1>9. CASE RecordShown(d)
  <2>1. /\ getRecord'[d].pc = "idle" /\ G.pc = "got" /\ submit'[s].pc = "idle"
        /\ now' = now /\ posted' = posted
    BY <1>0, <1>9, <1>a, Zenon DEF RecordShown, Idle, Call
  <2>2. G.snap.checkIn # Blank => checkedIn'[d]
    BY <1>0, <1>9, Zenon DEF RecordShown
  <2>3. InOn(Key(now)) => G.snap.checkIn # Blank
    <3> SUFFICES ASSUME InOn(Key(now)) PROVE G.snap.checkIn # Blank
      OBVIOUS
    <3>1. G.key <= Key(now) /\ Key(now) <= G.key
      BY <1>2, <1>a, <2>1, Zenon
    <3>2. Key(now) = G.key
      BY <1>0, <1>2, <3>1
    <3>3. G.pc = "got" /\ InOn(G.key)
      BY <2>1, <3>2, Zenon
    <3> QED
      BY <1>a, <3>3, Zenon
  <2>4. InOn(Key(now))' => checkedIn'[d]
    BY <2>1, <2>2, <2>3, Zenon DEF InOn
  <2> QED
    BY <2>1, <2>4, Zenon DEF InRead, InShown
<1>10. CASE Slide(s) /\ G.pc = "idle"
  <2>1. /\ submit'[s].pc = "auth" /\ checkOut[d] = Blank
        /\ UNCHANGED <<now, posted, checkedIn, checkOut, getRecord>>
    BY <1>0, <1>10, Zenon DEF Slide, Resume, TypeOK, Call
  <2> QED
    BY <1>10, <1>b, <2>1, Zenon DEF InRead, InShown, InOn
<1>11. CASE HandlerWaits(s)
  <2>1. /\ submit[s].pc # "idle" /\ UNCHANGED <<now, posted, checkedIn, checkOut, getRecord>>
        /\ ChecksIn(submit'[s]) => ~checkedIn[d]
    BY <1>11, <1>b, Zenon DEF HandlerWaits
  <2>2. G.pc = "idle" /\ checkOut[d] = Blank
    BY <1>a, <1>b, <2>1, Zenon
  <2> QED
    BY <1>b, <2>1, <2>2, Zenon DEF InRead, InShown, InOn, ChecksIn
<1>12. CASE CheckInNow(s)
  <2>0. submit'[s] = Idle /\ submit[s].pc = "got" /\ checkedIn'[d] /\ getRecord' = getRecord
    BY <1>0, <1>12, CheckInDoes, Zenon
  <2>1. /\ submit[s].pc = "got" /\ submit'[s].pc = "idle" /\ checkedIn'[d]
        /\ getRecord' = getRecord
    BY <2>0, IdlePc, Zenon
  <2>2. G.pc = "idle"
    BY <1>a, <2>1, Zenon
  <2> QED
    BY <2>1, <2>2, Zenon DEF InRead, InShown
<1>13. CASE CheckOutNow(s)
  <2>0. /\ submit'[s] = Idle /\ submit[s].pc = "got" /\ checkOut'[d] = Stamp(now)
        /\ getRecord' = getRecord
    BY <1>0, <1>13, CheckOutDoes, Zenon
  <2>1. /\ submit[s].pc = "got" /\ submit'[s].pc = "idle" /\ checkOut'[d] # Blank
        /\ getRecord' = getRecord
    BY <1>0, <2>0, IdlePc, NowType, Zenon
  <2>2. G.pc = "idle"
    BY <1>a, <2>1, Zenon
  <2> QED
    BY <2>1, <2>2, Zenon DEF InRead, InShown
<1> QED
  BY <1>0, <1>4, <1>5, <1>6, <1>7, <1>8, <1>9, <1>10, <1>11, <1>12, <1>13, CareSteps, Zenon

\* The handler checks in only on a day that was not checked in.
LEMMA FirstIn ==
    ASSUME NEW s \in Slots, InRead(s), InShown(s), CheckInNow(s)
    PROVE  ~InOn(Key(now))
<1>1. submit[s].pc = "got" /\ submit[s].dir = "in"
  BY Zenon DEF CheckInNow
<1>2. getRecord[Owner[s]].pc = "idle"
  BY <1>1, Zenon DEF InRead
<1> QED
  BY <1>1, <1>2, Zenon DEF InShown

LEMMA OneInStep ==
    ASSUME NEW s \in Slots, Slots = {s}, IInv, OnlyWriter(s), InInv(s),
           [CareNext]_<<vars, careful>>, careful'
    PROVE  OneInPerDay'
<1>0. TypeOK /\ careful /\ [Next]_vars /\ InRead(s) /\ InShown(s)
  BY CareSteps, Zenon DEF IInv, InInv
<1>1. \A e, f \in posted :
         e.dir = "in" /\ f.dir = "in" /\ e.at.day = f.at.day => e = f
  BY <1>0, Zenon DEF InInv, OneInPerDay
<1>2. CASE CheckInNow(s)
  <2>1. posted' = posted \cup {Entry("in", now)} /\ Entry("in", now).at.day = Key(now)
    BY <1>0, <1>2, CheckInDoes, Zenon DEF Entry, Key
  <2>2. \A e \in posted : ~(e.dir = "in" /\ e.at.day = Key(now))
    BY <1>0, <1>2, FirstIn, Zenon DEF InOn
  <2> QED
    BY <1>1, <2>1, <2>2, Zenon DEF OneInPerDay
<1>3. CASE ~CheckInNow(s)
  <2>1. \A e \in posted' : e.dir = "in" => e \in posted
    <3>1. CASE CheckOutNow(s)
      <4>1. posted' = posted \cup {Entry("out", now)} /\ Entry("out", now).dir = "out"
        BY <1>0, <3>1, CheckOutDoes, Zenon DEF Entry
      <4> QED
        BY <4>1, Zenon
    <3>2. CASE posted' = posted
      BY <3>2, Zenon
    <3> QED
      BY <1>0, <1>3, <3>1, <3>2, PostedSteps, Zenon
  <2> QED
    BY <1>1, <2>1, Zenon DEF OneInPerDay
<1> QED
  BY <1>2, <1>3, Zenon

LEMMA InInitial ==
    ASSUME NEW s \in Slots, CareInit
    PROVE  InInv(s)
<1>1. /\ posted = {} /\ submit[s].pc = "idle" /\ getRecord[Owner[s]].pc = "query"
  BY Zenon DEF CareInit, Init, Idle, Loading, Call
<1> QED
  BY <1>1, Zenon DEF InInv, InVisible, InRead, InShown, OneInPerDay, InOn

LEMMA InStep ==
    ASSUME NEW s \in Slots, Slots = {s}, IInv, OnlyWriter(s), InInv(s),
           [CareNext]_<<vars, careful>>
    PROVE  InInv(s)'
<1>1. InVisible(s)'
  BY InVisibleStep, Zenon DEF IInv, InInv, CareNext, vars
<1>2. careful' => InRead(s)' /\ InShown(s)'
  BY InSeenStep, Zenon DEF InInv
<1>3. OneInPerDay'
  BY OneInStep, Zenon DEF OneInPerDay
<1> QED
  BY <1>1, <1>2, <1>3, Zenon DEF InInv

\* With one handler, slid only after _getRecord has read the day, the
\* attendance server is sent at most one 'in' a day: over any number of days,
\* midnights and restarts, with writes pending or not.
THEOREM OneInEveryDay ==
    ASSUME OneHandler
    PROVE  CareSpec => []OneInPerDay
<1>1. PICK s : Slots = {s}
  BY Zenon DEF OneHandler
<1>2. s \in Slots
  BY <1>1, Zenon
<1>3. CareInit => Init /\ DayInv(s) /\ InInv(s)
  BY <1>2, DayInitial, InInitial, Zenon DEF CareInit
<1>4. [CareNext]_<<vars, careful>> => [Next]_vars
  BY Zenon DEF CareNext
<1>5. IInv /\ DayInv(s) /\ [Next]_vars => DayInv(s)'
  BY <1>1, <1>2, DayStep, Zenon
<1>6. IInv /\ DayInv(s) /\ InInv(s) /\ [CareNext]_<<vars, careful>> => InInv(s)'
  BY <1>1, <1>2, InStep, Zenon DEF DayInv
<1>7. InInv(s) => OneInPerDay
  BY Zenon DEF InInv
<1> QED
  BY <1>3, <1>4, <1>5, <1>6, <1>7, InvariantInit, InvariantStep, PTL DEF CareSpec

(***************************************************************************)
(* OncePerDay.                                                             *)
(***************************************************************************)

LEMMA OutWasIn ==
    ASSUME NEW s \in Slots, IInv, CheckInOfItsDay, NEW k \in Days, OutOn(s, k)
    PROVE  /\ Visible(store[k], queue[Owner[s]], k) /\ InOn(k) /\ k <= Key(now)
           /\ store[k].checkOut # Blank => store[k].exists
<1>0. Owner[s] \in Devices /\ queue[Owner[s]] \in Seq(Writes)
  BY Zenon DEF IInv, TypeOK
<1>1. store[k].checkOut # Blank => store[k].exists
  BY DEF IInv, StoreInv, GoodDoc, Absent
<1>2. Visible(store[k], queue[Owner[s]], k)
  BY <1>0, <1>1, LiveVisible DEF OutOn, Visible
<1> QED
  BY <1>0, <1>1, <1>2, SeenWasPosted, Zenon

\* Only a check-out puts a day among those checked out.
LEMMA OutOnStep ==
    ASSUME NEW s \in Slots, Slots = {s}, IInv, OnlyWriter(s), [Next]_vars,
           NEW k \in Days, ~CheckOutNow(s), OutOn(s, k)'
    PROVE  OutOn(s, k)
<1> DEFINE d == Owner[s]
           q == queue[d]
<1>0. d \in Devices /\ q \in Seq(Writes) /\ store \in [Days -> Docs] /\ TypeOK
  BY Zenon DEF IInv, TypeOK
<1>1. CASE UNCHANGED <<queue, store>>
  BY <1>1, Zenon DEF OutOn, Live, Doomed
<1>2. CASE Flush(d)
  <2> DEFINE w == Head(q)
  <2>1. /\ w \in Writes /\ store' = Flushed(store, w) /\ GoodWrite(w, posted, now)
        /\ w.op \in {"set", "update"}
    BY <1>0, <1>2, FlushDoes, FlushedWrite, Zenon DEF IInv, Writes
  <2>2. CASE Live(store', queue'[d], k) # {}
    BY <1>0, <1>2, <2>2, FlushShifts, Zenon DEF OutOn
  <2>3. CASE store'[k].checkOut # Blank
    <3>1. CASE store'[k] = store[k]
      BY <2>3, <3>1, Zenon DEF OutOn
    <3>2. CASE store'[k] # store[k]
      <4>1. store'[k] = Content(w) /\ w.key = k /\ (w.op = "set" \/ store[k].exists)
        BY <1>0, <2>1, <3>2, FlushedDocs, Zenon
      <4>2. w.op = "update" /\ store[k].exists
        <5>1. Content(w).checkOut # Blank
          BY <2>3, <4>1, Zenon
        <5>2. w.op # "set"
          BY <2>1, <5>1, SetLeavesOpen, Zenon
        <5> QED
          BY <2>1, <4>1, <5>2, Zenon
      <4>3. 1 \in Live(store, q, k)
        BY <1>0, <1>2, <4>1, <4>2, FlushShifts
      <4> QED
        BY <4>3, Zenon DEF OutOn
    <3> QED
      BY <3>1, <3>2, Zenon
  <2> QED
    BY <2>2, <2>3, Zenon DEF OutOn
<1>3. CASE CheckInNow(s)
  <2>1. /\ InWrite \in Writes /\ InWrite.op = "set"
        /\ queue'[d] = Append(q, InWrite) /\ store' = store
    BY <1>0, <1>3, CheckInDoes, Zenon
  <2>2. \A i \in Live(store, Append(q, InWrite), k) : i \in Live(store, q, k)
    BY <1>0, <2>1, AppendLive, Zenon
  <2> QED
    BY <2>1, <2>2, Zenon DEF OutOn
<1>4. ~(\E e \in Devices : Flush(e) /\ e # d)
  BY Zenon DEF OnlyWriter, Flush
<1> QED
  BY <1>1, <1>2, <1>3, <1>4, QueueSteps, Zenon

\* The handler checks out only on a day that was not checked out.
LEMMA FirstOut ==
    ASSUME NEW s \in Slots, InRead(s), InShown(s), OutSeen(s), CheckOutNow(s)
    PROVE  ~OutOn(s, Key(now))
<1>1. submit[s].pc = "got"
  BY Zenon DEF CheckOutNow
<1>2. getRecord[Owner[s]].pc = "idle" /\ checkOut[Owner[s]] = Blank
  BY <1>1, Zenon DEF InRead, InShown
<1> QED
  BY <1>2, Zenon DEF OutSeen

LEMMA OnePendingFlush ==
    ASSUME NEW s \in Slots, IInv, OnePending(s), Flush(Owner[s])
    PROVE  OnePending(s)'
<1> DEFINE d == Owner[s]
           q == queue[d]
           w == Head(q)
<1>0. d \in Devices /\ q \in Seq(Writes) /\ store \in [Days -> Docs] /\ TypeOK
  BY Zenon DEF IInv, TypeOK
<1>1. /\ w \in Writes /\ store' = Flushed(store, w) /\ GoodWrite(w, posted, now)
      /\ w.op \in {"set", "update"} /\ q # <<>> /\ queue'[d] = Tail(q)
  BY <1>0, FlushDoes, FlushedWrite, Zenon DEF IInv, Writes
<1>2. Tail(q) \in Seq(Writes)
  BY <1>0, <1>1
<1>3. ASSUME NEW k \in Days, NEW i \in At(Tail(q), "set", k)
      PROVE  ~store'[k].exists /\ At(Tail(q), "set", k) = {i}
  <2>1. /\ \A j \in At(Tail(q), "set", k) : j + 1 \in At(q, "set", k)
        /\ 1 \in At(q, "set", k) <=> w.op = "set" /\ w.key = k
    BY <1>0, <1>1, AtTail, Zenon
  <2>2. \A j \in At(Tail(q), "set", k) : j \in Nat \ {0}
    BY <1>2, AtPlaces, Zenon
  <2>3. ~store[k].exists /\ At(q, "set", k) = {i + 1}
    BY <2>1, Zenon DEF OnePending
  <2>4. ~(w.op = "set" /\ w.key = k)
    BY <2>1, <2>2, <2>3
  <2>5. ~store'[k].exists
    BY <1>0, <1>1, <2>3, <2>4, FlushedDocs, Zenon
  <2>6. \A j \in At(Tail(q), "set", k) : j = i
    BY <2>1, <2>2, <2>3
  <2> QED
    BY <2>5, <2>6, Zenon
<1>4. ASSUME NEW k \in Days, NEW i \in Live(store', queue'[d], k)
      PROVE  store'[k].checkOut = Blank /\ Live(store', queue'[d], k) = {i}
  <2>1. /\ \A j \in Live(store', queue'[d], k) : j + 1 \in Live(store, q, k)
        /\ 1 \in Live(store, q, k) <=> w.op = "update" /\ w.key = k /\ store[k].exists
    BY <1>0, FlushShifts, Zenon
  <2>2. \A j \in Live(store', queue'[d], k) : j \in Nat \ {0}
    <3>1. \A j \in Live(store', queue'[d], k) : j \in At(Tail(q), "update", k)
      BY <1>1, Zenon DEF Live
    <3> QED
      BY <1>2, <3>1, AtPlaces, Zenon
  <2>3. store[k].checkOut = Blank /\ Live(store, q, k) = {i + 1}
    BY <1>4, <2>1, Zenon DEF OnePending
  <2>4. ~(w.op = "update" /\ w.key = k /\ store[k].exists)
    BY <1>4, <2>1, <2>2, <2>3
  <2>5. store'[k].checkOut = Blank
    <3>1. CASE store'[k] = store[k]
      BY <2>3, <3>1, Zenon
    <3>2. CASE store'[k] # store[k]
      <4>1. store'[k] = Content(w) /\ w.key = k /\ (w.op = "set" \/ store[k].exists)
        BY <1>0, <1>1, <3>2, FlushedDocs
      <4>2. w.op = "set"
        BY <1>1, <2>4, <4>1, Zenon
      <4> QED
        BY <1>1, <4>1, <4>2, SetLeavesOpen, Zenon
    <3> QED
      BY <3>1, <3>2, Zenon
  <2>6. \A j \in Live(store', queue'[d], k) : j = i
    BY <1>4, <2>1, <2>2, <2>3
  <2> QED
    BY <1>4, <2>5, <2>6, Zenon
<1> QED
  BY <1>1, <1>3, <1>4, Zenon DEF OnePending

LEMMA OnePendingStep ==
    ASSUME NEW s \in Slots, Slots = {s}, IInv, CheckInOfItsDay, OnlyWriter(s), [Next]_vars,
           InRead(s), InShown(s), OnePending(s), OutSeen(s)
    PROVE  OnePending(s)'
<1> DEFINE d == Owner[s]
           q == queue[d]
<1>0. d \in Devices /\ q \in Seq(Writes) /\ TypeOK /\ Key(now) \in Days
  BY NowType, Zenon DEF IInv, TypeOK
<1>1. CASE UNCHANGED <<queue, store>>
  BY <1>1, Zenon DEF OnePending, Live, Doomed
<1>2. CASE CheckInNow(s)
  <2>1. /\ InWrite \in Writes /\ InWrite.op = "set" /\ InWrite.key = Key(now)
        /\ queue'[d] = Append(q, InWrite) /\ store' = store
    BY <1>0, <1>2, CheckInDoes, Zenon
  <2>2. ~store[Key(now)].exists /\ At(q, "set", Key(now)) = {}
    <3>1. ~Visible(store[Key(now)], q, Key(now))
      BY <1>0, <1>2, FirstIn, SeenWasPosted, Zenon
    <3> QED
      BY <3>1, VisibleAt, Zenon
  <2>3. ASSUME NEW k \in Days, NEW i \in At(Append(q, InWrite), "set", k)
        PROVE  ~store[k].exists /\ At(Append(q, InWrite), "set", k) = {i}
    <3>1. CASE k = Key(now)
      <4>1. At(Append(q, InWrite), "set", k) = At(q, "set", k) \cup {Len(q) + 1}
        BY <1>0, <2>1, <3>1, AtAppend
      <4> QED
        BY <2>2, <2>3, <3>1, <4>1, Zenon
    <3>2. CASE k # Key(now)
      <4>1. At(Append(q, InWrite), "set", k) = At(q, "set", k)
        BY <1>0, <2>1, <3>2, AtAppendMiss
      <4> QED
        BY <2>3, <4>1, Zenon DEF OnePending
    <3> QED
      BY <3>1, <3>2, Zenon
  <2>4. ASSUME NEW k \in Days, NEW i \in Live(store, Append(q, InWrite), k)
        PROVE  store[k].checkOut = Blank /\ Live(store, Append(q, InWrite), k) = {i}
    <3>1. \A j \in Live(store, Append(q, InWrite), k) : j \in Live(store, q, k)
      BY <1>0, <2>1, AppendLive, Zenon
    <3> QED
      BY <2>4, <3>1 DEF OnePending
  <2> QED
    BY <2>1, <2>3, <2>4, Zenon DEF OnePending
<1>3. CASE CheckOutNow(s)
  <2> DEFINE w == OutWrite(submit[s].snap.checkIn)
  <2>1. /\ w \in Writes /\ w.op = "update" /\ w.key = Key(now)
        /\ queue'[d] = Append(q, w) /\ store' = store
    BY <1>0, <1>3, CheckOutDoes, Zenon
  <2> HIDE DEF w
  <2>2. store[Key(now)].checkOut = Blank /\ Live(store, q, Key(now)) = {}
    BY <1>3, FirstOut, Zenon DEF OutOn
  <2>3. ASSUME NEW k \in Days, NEW i \in At(Append(q, w), "set", k)
        PROVE  ~store[k].exists /\ At(Append(q, w), "set", k) = {i}
    <3>1. At(Append(q, w), "set", k) = At(q, "set", k)
      BY <1>0, <2>1, AtAppendMiss
    <3> QED
      BY <2>3, <3>1, Zenon DEF OnePending
  <2>4. ASSUME NEW k \in Days, NEW i \in Live(store, Append(q, w), k)
        PROVE  store[k].checkOut = Blank /\ Live(store, Append(q, w), k) = {i}
    <3>1. ASSUME NEW j \in Live(store, Append(q, w), k)
          PROVE  j \in Live(store, q, k) \/ (j = Len(q) + 1 /\ w.key = k)
      <4>1. \/ j \in Live(store, q, k) /\ Append(q, w)[j] = q[j]
            \/ /\ j = Len(q) + 1 /\ Append(q, w)[j] = w
               /\ w.op = "update" /\ w.key = k /\ Visible(store[k], q, k)
        BY <1>0, <2>1, <3>1, AppendLive, Zenon
      <4> QED
        BY <4>1, Zenon
    <3>2. CASE k = Key(now)
      BY <2>2, <2>4, <3>1, <3>2, Zenon
    <3>3. CASE k # Key(now)
      BY <2>1, <2>4, <3>1, <3>3 DEF OnePending
    <3> QED
      BY <3>2, <3>3, Zenon
  <2> QED
    BY <2>1, <2>3, <2>4, Zenon DEF OnePending
<1>4. ~(\E e \in Devices : Flush(e) /\ e # d)
  BY Zenon DEF OnlyWriter, Flush
<1> QED
  BY <1>1, <1>2, <1>3, <1>4, OnePendingFlush, QueueSteps, Zenon

\* A read of a day that was checked out shows the check-out.
LEMMA ReadsOut ==
    ASSUME NEW s \in Slots, IInv, CheckInOfItsDay, OnePending(s), NEW k \in Days,
           NEW v \in Views(store[k], queue[Owner[s]], k), OutOn(s, k)
    PROVE  v.checkOut # Blank
<1> DEFINE d == Owner[s]
           q == queue[d]
<1>0. d \in Devices /\ q \in Seq(Writes)
  BY Zenon DEF IInv, TypeOK
<1>1. Visible(store[k], q, k) /\ (store[k].checkOut # Blank => store[k].exists)
  BY OutWasIn, Zenon
<1>2. CASE Pending(q, k) = {}
  <2>1. Live(store, q, k) = {}
    BY <1>2, Zenon DEF Live, At, Pending
  <2> QED
    BY <1>1, <1>2, <2>1, Zenon DEF Views, OutOn
<1>3. CASE Pending(q, k) # {}
  <2>1. PICK i \in Pending(q, k) :
           v = Content(q[i]) /\ \A j \in Pending(q, k) : j <= i
    BY <1>1, <1>3, Zenon DEF Views
  <2>2. i \in 1..Len(q) /\ q[i].key = k /\ v.checkOut = q[i].checkOut
    BY <2>1, Zenon DEF Pending, Content
  <2>3. GoodWrite(q[i], posted, now) /\ q[i].op \in {"set", "update"}
    <3>1. q[i] \in Writes
      BY <1>0, <2>2
    <3> QED
      BY <1>0, <2>2, <3>1, Zenon DEF IInv, QueueInv, Writes
  <2>4. CASE q[i].op = "set"
    <3>1. ~store[k].exists /\ At(q, "set", k) = {i}
      BY <2>2, <2>4, Zenon DEF OnePending, At
    <3>2. PICK j \in Live(store, q, k) : TRUE
      BY <1>1, <3>1, Zenon DEF OutOn
    <3>3. j \in At(q, "update", k) /\ i < j
      <4>1. j \in At(q, "update", k) /\ \E h \in At(q, "set", k) : h < j
        BY <1>0, <3>1, LiveVisible, Zenon
      <4> QED
        BY <3>1, <4>1, Zenon
    <3>4. j \in Pending(q, k) /\ j \in Int /\ i \in Int
      <4>1. j \in Pending(q, k)
        BY <3>3, Zenon DEF At, Pending
      <4>2. j \in Nat \ {0} /\ i \in Nat \ {0}
        BY <1>0, <3>1, <3>3, AtPlaces, Zenon
      <4> QED
        BY <4>1, <4>2
    <3> QED
      BY <2>1, <3>3, <3>4
  <2>5. CASE q[i].op = "update"
    BY <2>2, <2>3, <2>5, Zenon DEF GoodWrite
  <2> QED
    BY <2>3, <2>4, <2>5, Zenon
<1> QED
  BY <1>2, <1>3, Zenon

LEMMA OutSeenStep ==
    ASSUME NEW s \in Slots, Slots = {s}, IInv, CheckInOfItsDay, OnlyWriter(s), InVisible(s),
           InRead(s), InShown(s), OnePending(s), OutSeen(s),
           [CareNext]_<<vars, careful>>, careful'
    PROVE  OutSeen(s)'
<1> DEFINE d == Owner[s]
           G == getRecord[d]
<1>0. /\ TypeOK /\ d \in Devices /\ getRecord \in [Devices -> Calls]
      /\ G.key \in Days /\ G.key \in Int /\ checkOut \in [Devices -> Times]
  BY DEF IInv, TypeOK, Calls, Days
<1>n. [Next]_vars
  BY <1>0, CareSteps, Zenon
<1>1. /\ Key(now) <= Key(now') /\ Key(now) \in Int /\ Key(now') \in Int
      /\ Key(now) \in Days /\ Key(now') \in Days
  BY <1>0, <1>n, KeyGrows, NowType, Grows, Zenon DEF Key, Instants
<1> DEFINE New(k) == store'[k].checkOut # Blank \/ Live(store', queue'[d], k) # {}
<1>2. \A k \in Days : ~CheckOutNow(s) /\ New(k) => OutOn(s, k)
  <2> SUFFICES ASSUME NEW k \in Days, ~CheckOutNow(s), New(k) PROVE OutOn(s, k)
    OBVIOUS
  <2>1. OutOn(s, k)'
    BY Zenon DEF OutOn
  <2> QED
    BY <1>n, <2>1, OutOnStep, Zenon
<1>a. /\ G.pc = "got" /\ OutOn(s, G.key) => G.snap.checkOut # Blank
      /\ G.pc = "idle" /\ OutOn(s, Key(now)) => checkOut[d] # Blank
  BY Zenon DEF OutSeen
<1>b. ASSUME getRecord'[d].pc = "got" /\ New(getRecord'[d].key) =>
                getRecord'[d].snap.checkOut # Blank,
             getRecord'[d].pc = "idle" /\ New(Key(now')) => checkOut'[d] # Blank
      PROVE  OutSeen(s)'
  BY <1>b, Zenon DEF OutSeen, OutOn
<1> HIDE DEF New
<1>3. ASSUME now' = now, getRecord'[d] = G, checkOut'[d] = checkOut[d], ~CheckOutNow(s)
      PROVE  OutSeen(s)'
  BY <1>0, <1>1, <1>2, <1>3, <1>a, <1>b, Zenon
<1>c. submit'[s] = submit[s] \/ ~(submit'[s].pc = "idle") => ~CheckOutNow(s)
  <2>1. CheckOutNow(s) => submit'[s] = Idle /\ submit[s].pc = "got"
    BY <1>0, CheckOutDoes, Zenon
  <2> QED
    BY <2>1, IdlePc, Zenon
<1>d. CASE CheckOutNow(s)
  <2>1. submit[s].pc = "got" /\ checkOut'[d] # Blank /\ getRecord' = getRecord
    BY <1>0, <1>d, CheckOutDoes, NowType, Zenon
  <2>2. G.pc = "idle"
    BY <2>1, Zenon DEF InRead
  <2> QED
    BY <1>b, <2>1, <2>2, Zenon
<1>4. CASE Quiet(s) \/ Flush(d) \/ Slide(s) \/ HandlerWaits(s)
  <2>1. now' = now /\ getRecord'[d] = G /\ checkOut'[d] = checkOut[d]
    BY <1>0, <1>4, FlushDoes, Zenon DEF Quiet, Slide, HandlerWaits
  <2>2. CASE ~CheckOutNow(s)
    BY <1>3, <2>1, <2>2, Zenon
  <2>3. CASE CheckOutNow(s)
    BY <1>d, <2>3, Zenon
  <2> QED
    BY <2>2, <2>3, Zenon
<1>5. CASE Tick
  <2>1. UNCHANGED <<checkOut, getRecord, submit>>
    BY <1>5, Zenon DEF Tick, screen
  <2>2. New(Key(now')) => Key(now') = Key(now) /\ OutOn(s, Key(now))
    <3> SUFFICES ASSUME New(Key(now')) PROVE Key(now') = Key(now) /\ OutOn(s, Key(now))
      OBVIOUS
    <3>1. OutOn(s, Key(now'))
      BY <1>1, <1>2, <1>c, <2>1, Zenon
    <3>2. Key(now') <= Key(now)
      BY <1>1, <3>1, OutWasIn, Zenon
    <3>3. Key(now') = Key(now)
      BY <1>1, <3>2
    <3> QED
      BY <3>1, <3>3, Zenon
  <2> QED
    BY <1>0, <1>2, <1>a, <1>b, <1>c, <2>1, <2>2, Zenon
<1>6. CASE Restart(d) \/ RecordQueried(d)
  <2>1. getRecord'[d].pc \in {"query", "get"}
    BY <1>0, <1>6 DEF Restart, RecordQueried, Loading, Call
  <2> QED
    BY <1>b, <2>1, Zenon
<1>7. CASE RecordRead(d)
  <2>1. /\ getRecord'[d].pc = "got" /\ getRecord'[d].key = G.key
        /\ getRecord'[d].snap \in Views(store[G.key], queue[d], G.key)
    BY <1>7, RecordReadFinds, Zenon
  <2>2. submit' = submit
    BY <1>7, Zenon DEF RecordRead
  <2>3. OutOn(s, G.key) => getRecord'[d].snap.checkOut # Blank
    BY <1>0, <2>1, ReadsOut, Zenon
  <2> QED
    BY <1>0, <1>2, <1>b, <1>c, <2>1, <2>2, <2>3, Zenon
<1>8. CASE RecordShown(d)
  <2>1. /\ getRecord'[d].pc = "idle" /\ G.pc = "got" /\ now' = now /\ submit' = submit
    BY <1>0, <1>8, Zenon DEF RecordShown, Idle, Call
  <2>2. G.snap.checkOut # Blank => checkOut'[d] # Blank
    BY <1>0, <1>8, Zenon DEF RecordShown
  <2>3. OutOn(s, Key(now)) => Key(now) = G.key
    <3>1. G.key <= Key(now) /\ \A k \in Days : InOn(k) => k <= G.key
      BY <2>1, Zenon DEF InRead
    <3>2. OutOn(s, Key(now)) => InOn(Key(now))
      BY <1>1, OutWasIn, Zenon
    <3> QED
      BY <1>0, <1>1, <3>1, <3>2
  <2> QED
    BY <1>1, <1>2, <1>a, <1>b, <1>c, <2>1, <2>2, <2>3, Zenon
<1>9. CASE CheckInNow(s)
  <2>1. now' = now /\ getRecord' = getRecord /\ checkOut' = checkOut /\ submit[s].dir = "in"
    BY <1>0, <1>9, CheckInDoes, Zenon
  <2>2. ~CheckOutNow(s)
    BY <2>1, Zenon DEF CheckOutNow
  <2> QED
    BY <1>3, <2>1, <2>2, Zenon
<1> QED
  BY <1>0, <1>4, <1>5, <1>6, <1>7, <1>8, <1>9, <1>d, CareSteps, Zenon

LEMMA OutInitial ==
    ASSUME NEW s \in Slots, CareInit
    PROVE  OutInv(s)
<1>1. /\ getRecord[Owner[s]].pc = "query" /\ queue[Owner[s]] = <<>>
      /\ \A k \in Days : store[k].checkOut = Blank
  BY Zenon DEF CareInit, Init, Loading, Call, Absent
<1>2. \A k \in Days : At(<<>>, "set", k) = {} /\ Live(store, <<>>, k) = {}
  BY DEF Live, At
<1> QED
  BY <1>1, <1>2, Zenon DEF OutInv, OnePending, OutSeen

LEMMA OutStep ==
    ASSUME NEW s \in Slots, Slots = {s}, IInv, DayInv(s), InInv(s), OutInv(s),
           [CareNext]_<<vars, careful>>
    PROVE  OutInv(s)'
<1> SUFFICES ASSUME careful' PROVE OnePending(s)' /\ OutSeen(s)'
  BY Zenon DEF OutInv
<1>1. TypeOK /\ OnlyWriter(s) /\ CheckInOfItsDay
  BY Zenon DEF IInv, DayInv
<1>2. careful /\ [Next]_vars
  BY <1>1, CareSteps, Zenon
<1>3. InVisible(s) /\ InRead(s) /\ InShown(s) /\ OnePending(s) /\ OutSeen(s)
  BY <1>2, Zenon DEF InInv, OutInv
<1> QED
  BY <1>1, <1>2, <1>3, OnePendingStep, OutSeenStep, Zenon

\* What reaches the server under care is a day's only check-in or check-out.
LEMMA FlushedOnce ==
    ASSUME NEW s \in Slots, IInv, CheckInOfItsDay, LiveOfItsDay(s), OnePending(s),
           OneInPerDay, careful, Flush(Owner[s])
    PROVE  Records!OnceNext \/ store' = store
<1> DEFINE d == Owner[s]
           q == queue[d]
           w == Head(q)
           k == w.key
<1>0. d \in Devices /\ TypeOK /\ store \in [Days -> Docs] /\ q \in Seq(Writes) /\ q # <<>>
  BY FlushDoes, Zenon DEF IInv, TypeOK
<1>1. w \in Writes /\ k \in Days /\ GoodWrite(w, posted, now) /\ w = q[1]
  BY <1>0, FlushedWrite DEF IInv
<1>3. store' = [store EXCEPT ![k] = Apply(store[k], w)]
  BY Zenon DEF Flush
<1>4. w.date \in Instants /\ w.op \in {"set", "update"} /\ w.checkIn \in Times
  BY <1>1, Zenon DEF Writes
<1>5. Key(w.date) = k
  BY <1>1, Zenon DEF GoodWrite
<1>6. CASE w.op = "set"
  <2>1. w.checkIn = Stamp(w.date) /\ w.checkOut = Blank
    BY <1>1, <1>6, Zenon DEF GoodWrite
  <2>2. Records!CheckIn(k, w.date)
    BY <1>3, <1>5, <1>6, <2>1, RecordsSame, Zenon
       DEF Records!CheckIn, Records!Written, Apply, Content
  <2>3. ~store[k].exists
    <3>1. 1 \in At(q, "set", k)
      BY <1>0, <1>6, AtTail
    <3> QED
      BY <1>1, <3>1, Zenon DEF OnePending
  <2> QED
    BY <1>1, <1>4, <2>2, <2>3, RecordsSame, Zenon DEF Records!OnceNext
<1>7. CASE w.op = "update" /\ store[k].exists
  <2>1. /\ w.checkOut = Stamp(w.date) /\ Leq(w.checkIn.at, w.date)
        /\ GoodTime("in", w.checkIn, posted, now)
    BY <1>1, <1>7, Zenon DEF GoodWrite, GoodContent
  <2>2. w.checkIn = Stamp(w.checkIn.at) /\ w.checkIn # Blank
    BY <1>4, <2>1, TimesHaveInstants, Zenon DEF Times, Stamps, GoodTime
  <2>3. 1 \in Live(store, q, k)
    BY <1>0, <1>1, <1>7, FlushShifts, Zenon
  <2>4. store[k].checkOut = Blank
    BY <1>1, <2>3, Zenon DEF OnePending
  <2>5. Key(w.checkIn.at) = k
    BY <1>1, <2>3, Zenon DEF LiveOfItsDay
  <2>6. GoodTime("in", store[k].checkIn, posted, now) /\ Key(store[k].checkIn.at) = k
    BY <1>1, <1>7, Zenon DEF IInv, StoreInv, GoodDoc, GoodContent, CheckInOfItsDay
  <2>7. w.checkIn.at = store[k].checkIn.at
    <3>1. Entry("in", w.checkIn.at) = Entry("in", store[k].checkIn.at)
      BY <2>1, <2>5, <2>6, Zenon DEF OneInPerDay, GoodTime, Entry, Key
    <3> QED
      BY <3>1, Zenon DEF Entry
  <2>8. Records!CheckOut(k, w.date, store[k].checkIn.at)
    BY <1>3, <1>5, <1>7, <2>1, <2>2, <2>7, RecordsSame, Zenon
       DEF Records!CheckOut, Records!Written, Apply, Content
  <2>9. store[k].checkIn # Blank
    BY <2>6, Zenon DEF GoodTime
  <2> QED
    BY <1>1, <1>4, <2>4, <2>8, <2>9, RecordsSame, Zenon DEF Records!OnceNext
<1>8. CASE w.op = "update" /\ ~store[k].exists
  BY <1>0, <1>3, <1>8, Zenon DEF Apply
<1> QED
  BY <1>4, <1>6, <1>7, <1>8, Zenon

\* Under the same care a day's record is created once and completed once, by
\* a check-out that keeps its check-in: nothing is ever overwritten.
THEOREM OnceEveryDay ==
    ASSUME OneHandler
    PROVE  CareSpec => OncePerDay
<1>1. PICK s : Slots = {s}
  BY Zenon DEF OneHandler
<1>2. s \in Slots
  BY <1>1, Zenon
<1> DEFINE J == IInv /\ DayInv(s) /\ InInv(s) /\ OutInv(s)
<1>3. CareInit => J
  BY <1>2, InvariantInit, DayInitial, InInitial, OutInitial, Zenon DEF CareInit
<1>4. J /\ [CareNext]_<<vars, careful>> => J'
  <2> SUFFICES ASSUME J, [CareNext]_<<vars, careful>> PROVE J'
    OBVIOUS
  <2>1. [Next]_vars
    BY Zenon DEF CareNext
  <2>2. IInv'
    BY <2>1, InvariantStep, Zenon
  <2>3. DayInv(s)'
    BY <1>1, <1>2, <2>1, DayStep, Zenon
  <2>4. InInv(s)'
    BY <1>1, <1>2, InStep, Zenon DEF DayInv
  <2>5. OutInv(s)'
    BY <1>1, <1>2, OutStep, Zenon
  <2> QED
    BY <2>2, <2>3, <2>4, <2>5, Zenon
<1>5. J /\ [CareNext]_<<vars, careful>> => [careful' => Records!OnceNext]_store
  <2> SUFFICES ASSUME J, [CareNext]_<<vars, careful>>, careful'
               PROVE  Records!OnceNext \/ store' = store
    OBVIOUS
  <2>1. TypeOK /\ OnlyWriter(s) /\ CheckInOfItsDay /\ LiveOfItsDay(s)
    BY Zenon DEF IInv, DayInv
  <2>2. careful /\ [Next]_vars
    BY <1>1, <1>2, <2>1, CareSteps, Zenon
  <2>3. OnePending(s) /\ OneInPerDay
    BY <2>2, Zenon DEF InInv, OutInv
  <2>4. CASE Flush(Owner[s])
    BY <1>2, <2>1, <2>2, <2>3, <2>4, FlushedOnce, Zenon
  <2>5. CASE CheckInNow(s) \/ CheckOutNow(s)
    BY <2>5, Zenon DEF CheckInNow, CheckOutNow
  <2>6. ~(\E e \in Devices : Flush(e) /\ e # Owner[s])
    BY <2>1, Zenon DEF OnlyWriter, Flush
  <2> QED
    BY <1>1, <2>1, <2>2, <2>4, <2>5, <2>6, QueueSteps, Zenon
<1> HIDE DEF J
<1> QED
  BY <1>3, <1>4, <1>5, PTL DEF CareSpec, OncePerDay
==============================================================================
