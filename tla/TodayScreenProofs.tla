-------------------------- MODULE TodayScreenProofs --------------------------
(***************************************************************************)
(* Proofs about TodayScreen for any number of devices, overlapping         *)
(* handlers, days, ticks and pending writes; then about what a device      *)
(* reads.                                                                  *)
(***************************************************************************)
EXTENDS TodayScreen, TLAPS

USE HalfDayAssumption, MaxDayAssumption, OwnerAssumption

(***************************************************************************)
(* Time.                                                                   *)
(***************************************************************************)

\* DateFormat('hh:mm') of an instant is a time, and is never "--/--".
LEMMA StampType ==
    ASSUME NEW i \in Instants
    PROVE  Stamp(i) \in Stamps /\ Stamp(i) # Blank /\ Stamp(i).at = i
<1>1. i.tick % HalfDay \in 0..(HalfDay - 1)
  <2>1. i.tick \in Nat
    BY DEF Instants, Ticks
  <2> QED
    BY <2>1
<1> QED
  BY <1>1 DEF Stamp, Stamps, Hhmm, Blank

LEMMA StartType == Start \in Instants /\ Blank \in Times /\ Absent \in Docs
<1>1. Start \in Instants
  BY DEF Start, Instants, Days, Ticks
<1> QED
  BY <1>1, Zenon DEF Absent, Docs, Times

\* The clock moves forward.
LEMMA LaterType ==
    ASSUME NEW i \in Instants, Later(i).day <= MaxDay
    PROVE  Later(i) \in Instants /\ Leq(i, Later(i))
BY DEF Later, Instants, Days, Ticks, Leq

LEMMA LeqTransitive ==
    ASSUME NEW a \in Instants, NEW b \in Instants, NEW c \in Instants,
           Leq(a, b), Leq(b, c)
    PROVE  Leq(a, c)
BY DEF Leq, Instants, Days, Ticks

LEMMA LeqReflexive ==
    ASSUME NEW a \in Instants
    PROVE  Leq(a, a)
BY DEF Leq, Instants, Days, Ticks

(***************************************************************************)
(* Documents and writes.                                                   *)
(***************************************************************************)

LEMMA ContentType ==
    ASSUME NEW w \in Writes
    PROVE  Content(w) \in Docs /\ Content(w).exists
BY Zenon DEF Content, Writes, Docs

LEMMA ApplyType ==
    ASSUME NEW doc \in Docs, NEW w \in Writes
    PROVE  Apply(doc, w) \in Docs
BY ContentType, Zenon DEF Apply

\* What a read returns is absent, the server's document or a pending write.
LEMMA ViewsCases ==
    ASSUME NEW doc, NEW q, NEW k, NEW v \in Views(doc, q, k)
    PROVE  \/ v = Absent
           \/ v = doc /\ doc.exists
           \/ Visible(doc, q, k) /\ \E i \in 1..Len(q) : v = Content(q[i])
<1>1. CASE ~Visible(doc, q, k)
  BY <1>1, Zenon DEF Views
<1>2. CASE Visible(doc, q, k) /\ Pending(q, k) = {}
  BY <1>2, Zenon DEF Views, Visible
<1>3. CASE Visible(doc, q, k) /\ Pending(q, k) # {}
  BY <1>3, Zenon DEF Views, Pending
<1> QED
  BY <1>1, <1>2, <1>3, Zenon

LEMMA ViewsType ==
    ASSUME NEW doc \in Docs, NEW q \in Seq(Writes), NEW k,
           NEW v \in Views(doc, q, k)
    PROVE  v \in Docs /\ (v.exists => Visible(doc, q, k))
<1>1. \A i \in 1..Len(q) : q[i] \in Writes
  OBVIOUS
<1>2. CASE v = Absent
  BY <1>2, StartType, Zenon DEF Absent
<1>3. CASE v = doc /\ doc.exists
  BY <1>3, Zenon DEF Visible
<1>4. CASE Visible(doc, q, k) /\ \E i \in 1..Len(q) : v = Content(q[i])
  BY <1>1, <1>4, ContentType, Zenon
<1> QED
  BY <1>2, <1>3, <1>4, ViewsCases

LEMMA CallType ==
    ASSUME NEW pc \in {"idle", "auth", "query", "get", "got"},
           NEW dir \in {"in", "out"}, NEW key \in Days, NEW snap \in Docs
    PROVE  Call(pc, dir, key, snap) \in Calls
BY Zenon DEF Call, Calls

LEMMA IdleType == Idle \in Calls /\ Loading \in Calls
BY CallType, StartType DEF Idle, Loading, Days

(***************************************************************************)
(* Type correctness.                                                       *)
(***************************************************************************)

LEMMA TypeInit == Init => TypeOK
BY StartType, IdleType DEF Init, TypeOK

\* Times built from now, as every handler builds them.
LEMMA NowType ==
    ASSUME TypeOK
    PROVE  /\ now \in Instants /\ Key(now) \in Days
           /\ Stamp(now) \in Times /\ Stamp(now) # Blank
           /\ Stamp(now).at = now
BY StampType, Zenon DEF TypeOK, Key, Instants, Times

LEMMA TypeDevice ==
    ASSUME TypeOK, NEW d \in Devices, DeviceStep(d)
    PROVE  TypeOK'
<1> USE DEF TypeOK, screen, geo
<1>1. CASE GeofenceEnter(d)
  BY <1>1, Zenon DEF GeofenceEnter
<1>2. CASE GeofenceExit(d)
  BY <1>2, Zenon DEF GeofenceExit
<1>3. CASE Rebuild(d)
  BY <1>3, Zenon DEF Rebuild
<1>4. CASE Restart(d)
  BY <1>4, StartType, IdleType, Zenon DEF Restart
<1>5. CASE RecordQueried(d)
  <2>1. Call("get", "in", Key(now), Absent) \in Calls
    BY CallType, NowType, StartType, Zenon
  <2> QED
    BY <1>5, <2>1, Zenon DEF RecordQueried
<1>6. CASE RecordRead(d)
  <2> DEFINE k == getRecord[d].key
  <2>1. k \in Days
    BY Zenon DEF Calls
  <2>2. PICK snap \in Views(store[k], queue[d], k) :
            getRecord' = [getRecord EXCEPT ![d] = Call("got", "in", k, snap)]
    BY <1>6, Zenon DEF RecordRead
  <2>3. Call("got", "in", k, snap) \in Calls
    BY <2>1, ViewsType, CallType, Zenon
  <2> QED
    BY <1>6, <2>2, <2>3, Zenon DEF RecordRead
<1>7. CASE RecordShown(d)
  <2>1. getRecord[d].snap \in Docs
    BY Zenon DEF Calls
  <2>2. getRecord[d].snap.checkIn \in Times /\ getRecord[d].snap.checkOut \in Times
    BY <2>1, Zenon DEF Docs
  <2> QED
    BY <1>7, <2>2, IdleType, Zenon DEF RecordShown
<1>8. CASE RecordFailed(d)
  BY <1>8, StartType, IdleType, Zenon DEF RecordFailed
<1>9. CASE Flush(d)
  <2> DEFINE w == Head(queue[d])
  <2>1. w \in Writes /\ Tail(queue[d]) \in Seq(Writes)
    BY <1>9 DEF Flush
  <2>2. w.key \in Days
    BY <2>1, Zenon DEF Writes
  <2>3. Apply(store[w.key], w) \in Docs
    BY <2>1, <2>2, ApplyType, Zenon
  <2> QED
    BY <1>9, <2>1, <2>2, <2>3, Zenon DEF Flush
<1> QED
  BY <1>1, <1>2, <1>3, <1>4, <1>5, <1>6, <1>7, <1>8, <1>9, Zenon DEF DeviceStep

LEMMA TypeSubmit ==
    ASSUME TypeOK, NEW s \in Slots, SubmitStep(s)
    PROVE  TypeOK'
<1> USE DEF TypeOK, screen, geo, Resume
<1> DEFINE d == Owner[s]
<1>0. d \in Devices
  OBVIOUS
<1>a. submit[s].key \in Days /\ submit[s].dir \in {"in", "out"}
      /\ submit[s].snap \in Docs
  BY Zenon DEF Calls
<1>b. 0 \in Days
  BY DEF Days
<1>1. CASE Slide(s)
  <2>1. Call("auth", "in", 0, Absent) \in Calls
    BY CallType, StartType, <1>b, Zenon
  <2> QED
    BY <1>0, <1>1, <2>1, Zenon DEF Slide
<1>2. CASE AuthFailed(s)
  BY <1>2, IdleType, Zenon DEF AuthFailed
<1>3. CASE Authenticated(s)
  <2>1. /\ Call("query", "in", 0, Absent) \in Calls
        /\ Call("query", "out", 0, Absent) \in Calls
    BY CallType, StartType, <1>b, Zenon
  <2> QED
    BY <1>3, <2>1, IdleType, Zenon DEF Authenticated
<1>4. CASE Queried(s)
  <2>1. Call("get", submit[s].dir, Key(now), Absent) \in Calls
    BY <1>a, CallType, NowType, StartType, Zenon
  <2> QED
    BY <1>4, <2>1, Zenon DEF Queried
<1>5. CASE Read(s)
  <2> DEFINE k == submit[s].key
  <2>1. PICK snap \in Views(store[k], queue[d], k) :
            submit' = [submit EXCEPT ![s] = Call("got", submit[s].dir, k, snap)]
    BY <1>5, Zenon DEF Read
  <2>2. Call("got", submit[s].dir, k, snap) \in Calls
    BY <1>0, <1>a, ViewsType, CallType, Zenon
  <2> QED
    BY <1>5, <2>1, <2>2, Zenon DEF Read
<1>6. CASE ReadFailed(s)
  BY <1>6, IdleType, Zenon DEF ReadFailed
<1>7. CASE CheckInNow(s)
  <2>1. [op |-> "set", key |-> Key(now), date |-> now,
         checkIn |-> Stamp(now), checkOut |-> Blank] \in Writes
    BY NowType, StartType, Zenon DEF Writes
  <2>2. queue' \in [Devices -> Seq(Writes)]
    BY <1>0, <1>7, <2>1 DEF CheckInNow, Enqueue
  <2>3. posted' \subseteq Entries
    BY <1>7, NowType DEF CheckInNow, Post, Entry, Entries
  <2> QED
    BY <1>0, <1>7, <2>2, <2>3, NowType, IdleType, Zenon DEF CheckInNow
<1>8. CASE CheckOutNow(s)
  <2>0. submit[s].snap.checkIn \in Times
    BY <1>a, Zenon DEF Docs
  <2>1. [op |-> "update", key |-> Key(now), date |-> now,
         checkIn |-> submit[s].snap.checkIn, checkOut |-> Stamp(now)] \in Writes
    BY <2>0, NowType, Zenon DEF Writes
  <2>2. queue' \in [Devices -> Seq(Writes)]
    BY <1>0, <1>8, <2>1 DEF CheckOutNow, Enqueue
  <2>3. posted' \subseteq Entries
    BY <1>8, NowType DEF CheckOutNow, Post, Entry, Entries
  <2> QED
    BY <1>0, <1>8, <2>2, <2>3, NowType, IdleType, Zenon DEF CheckOutNow
<1>9. CASE CheckOutThrows(s)
  BY <1>9, IdleType, Zenon DEF CheckOutThrows
<1> QED
  BY <1>1, <1>2, <1>3, <1>4, <1>5, <1>6, <1>7, <1>8, <1>9, Zenon DEF SubmitStep

\* Every variable of the screen, the client and the server keeps its type, for
\* any number of devices and overlapping handlers.
THEOREM TypeCorrect == Spec => []TypeOK
<1>1. TypeOK /\ [Next]_vars => TypeOK'
  <2> SUFFICES ASSUME TypeOK, [Next]_vars PROVE TypeOK'
    OBVIOUS
  <2>1. CASE Tick
    BY <2>1, LaterType, Zenon DEF Tick, TypeOK, screen, geo
  <2>2. CASE \E d \in Devices : DeviceStep(d)
    BY <2>2, TypeDevice, Zenon
  <2>3. CASE \E s \in Slots : SubmitStep(s)
    BY <2>3, TypeSubmit, Zenon
  <2>4. CASE UNCHANGED vars
    BY <2>4, Zenon DEF vars, screen, geo, TypeOK
  <2> QED
    BY <2>1, <2>2, <2>3, <2>4, Zenon DEF Next
<1> QED
  BY <1>1, TypeInit, PTL DEF Spec

(***************************************************************************)
(* The inductive invariant.  First, what only ever grows.                  *)
(***************************************************************************)

\* Time does not go back and a request that was made stays made.
LEMMA Grows ==
    ASSUME TypeOK, [Next]_vars
    PROVE  /\ now' \in Instants /\ Leq(now, now')
           /\ posted \subseteq posted'
           /\ now' # now => posted' = posted
<1> USE DEF screen, geo
<1>0. now \in Instants /\ Leq(now, now)
  BY LeqReflexive, Zenon DEF TypeOK
<1>1. CASE Tick
  BY <1>1, <1>0, LaterType, Zenon DEF Tick
<1>2. CASE \E d \in Devices : DeviceStep(d)
  BY <1>2, <1>0, Zenon DEF DeviceStep, GeofenceEnter, GeofenceExit, Rebuild, Restart,
     RecordQueried, RecordRead, RecordShown, RecordFailed, Flush
<1>3. CASE \E s \in Slots : SubmitStep(s)
  BY <1>3, <1>0, Zenon DEF SubmitStep, Slide, AuthFailed, Authenticated, Queried, Read,
     ReadFailed, CheckInNow, CheckOutNow, CheckOutThrows, Post
<1>4. CASE UNCHANGED vars
  BY <1>4, <1>0, Zenon DEF vars
<1> QED
  BY <1>1, <1>2, <1>3, <1>4, Zenon DEF Next

LEMMA TimesHaveInstants ==
    ASSUME NEW t \in Times
    PROVE  t.at \in Instants
BY StartType DEF Times, Stamps, Blank

LEMMA GoodTimeStays ==
    ASSUME NEW dir, NEW t \in Times, NEW p, NEW q, p \subseteq q,
           NEW n \in Instants, NEW m \in Instants, Leq(n, m),
           GoodTime(dir, t, p, n)
    PROVE  GoodTime(dir, t, q, m)
BY TimesHaveInstants, LeqTransitive, Zenon DEF GoodTime

LEMMA GoodContentStays ==
    ASSUME NEW c, c.checkIn \in Times, c.checkOut \in Times,
           NEW p, NEW q, p \subseteq q,
           NEW n \in Instants, NEW m \in Instants, Leq(n, m),
           GoodContent(c, p, n)
    PROVE  GoodContent(c, q, m)
BY GoodTimeStays, Zenon DEF GoodContent

LEMMA GoodDocStays ==
    ASSUME NEW doc \in Docs, NEW p, NEW q, p \subseteq q,
           NEW n \in Instants, NEW m \in Instants, Leq(n, m),
           GoodDoc(doc, p, n)
    PROVE  GoodDoc(doc, q, m)
<1>1. doc.checkIn \in Times /\ doc.checkOut \in Times
  BY Zenon DEF Docs
<1> QED
  BY <1>1, GoodContentStays, Zenon DEF GoodDoc

LEMMA GoodWriteStays ==
    ASSUME NEW w \in Writes, NEW p, NEW q, p \subseteq q,
           NEW n \in Instants, NEW m \in Instants, Leq(n, m),
           GoodWrite(w, p, n)
    PROVE  GoodWrite(w, q, m)
<1>1. w.checkIn \in Times /\ w.checkOut \in Times
  BY Zenon DEF Writes
<1> QED
  BY <1>1, GoodContentStays, Zenon DEF GoodWrite

\* The content of a good write is a good document.
LEMMA GoodWriteContent ==
    ASSUME NEW w \in Writes, NEW p, NEW n, GoodWrite(w, p, n)
    PROVE  GoodDoc(Content(w), p, n)
BY Zenon DEF GoodWrite, GoodDoc, GoodContent, Content

LEMMA AbsentIsGood ==
    ASSUME NEW p, NEW n
    PROVE  GoodDoc(Absent, p, n) /\ ~Absent.exists
BY Zenon DEF GoodDoc, Absent

LEMMA GoodDocCheckIn ==
    ASSUME NEW doc, NEW p, NEW n, GoodDoc(doc, p, n), doc.checkIn # Blank
    PROVE  GoodTime("in", doc.checkIn, p, n)
<1>1. Absent.checkIn = Blank
  BY Zenon DEF Absent
<1>2. doc.exists
  BY <1>1, Zenon DEF GoodDoc
<1> QED
  BY <1>2, Zenon DEF GoodDoc, GoodContent

\* A read returns a good document.
LEMMA GoodViews ==
    ASSUME TypeOK, StoreInv, QueueInv, NEW d \in Devices, NEW k \in Days,
           NEW v \in Views(store[k], queue[d], k)
    PROVE  GoodDoc(v, posted, now)
<1>1. \A i \in 1..Len(queue[d]) : queue[d][i] \in Writes
  BY DEF TypeOK
<1>2. CASE v = Absent
  BY <1>2, AbsentIsGood, Zenon
<1>3. CASE v = store[k]
  BY <1>3, Zenon DEF StoreInv
<1>4. CASE \E i \in 1..Len(queue[d]) : v = Content(queue[d][i])
  BY <1>1, <1>4, GoodWriteContent, Zenon DEF QueueInv
<1> QED
  BY <1>2, <1>3, <1>4, ViewsCases

(***************************************************************************)
(* Which steps touch the queues and the store.                             *)
(***************************************************************************)

LEMMA QueueSteps ==
    ASSUME [Next]_vars
    PROVE  \/ UNCHANGED <<queue, store>>
           \/ \E d \in Devices : Flush(d)
           \/ \E s \in Slots : CheckInNow(s) \/ CheckOutNow(s)
<1> USE DEF screen, geo
<1>1. CASE Tick \/ UNCHANGED vars
  BY <1>1, Zenon DEF Tick, vars
<1>2. CASE \E d \in Devices : DeviceStep(d)
  BY <1>2, Zenon DEF DeviceStep, GeofenceEnter, GeofenceExit, Rebuild, Restart,
     RecordQueried, RecordRead, RecordShown, RecordFailed
<1>3. CASE \E s \in Slots : SubmitStep(s)
  BY <1>3, Zenon DEF SubmitStep, Slide, AuthFailed, Authenticated, Queried, Read,
     ReadFailed, CheckOutThrows
<1> QED
  BY <1>1, <1>2, <1>3, Zenon DEF Next

\* A queue keeps good writes when its first is taken or a good one is added.
LEMMA TailGood ==
    ASSUME NEW q \in Seq(Writes), q # <<>>, NEW p, NEW n,
           \A i \in 1..Len(q) : GoodWrite(q[i], p, n)
    PROVE  \A i \in 1..Len(Tail(q)) : GoodWrite(Tail(q)[i], p, n)
<1>1. Len(Tail(q)) = Len(q) - 1 /\ Len(q) \in Nat
  OBVIOUS
<1>2. \A i \in 1..Len(Tail(q)) : Tail(q)[i] = q[i + 1] /\ i + 1 \in 1..Len(q)
  BY <1>1
<1> QED
  BY <1>2, Zenon

LEMMA AppendGood ==
    ASSUME NEW q \in Seq(Writes), NEW w \in Writes, NEW p, NEW n,
           \A i \in 1..Len(q) : GoodWrite(q[i], p, n), GoodWrite(w, p, n)
    PROVE  \A i \in 1..Len(Append(q, w)) : GoodWrite(Append(q, w)[i], p, n)
<1>1. Len(Append(q, w)) = Len(q) + 1 /\ Len(q) \in Nat
  OBVIOUS
<1>2. \A i \in 1..Len(Append(q, w)) :
         Append(q, w)[i] = IF i <= Len(q) THEN q[i] ELSE w
  BY <1>1
<1>3. \A i \in 1..Len(Append(q, w)) : i <= Len(q) => i \in 1..Len(q)
  BY <1>1
<1> QED
  BY <1>2, <1>3, Zenon

\* The write of a check-in, and of a check-out from a good snapshot.
LEMMA CheckInWriteGood ==
    ASSUME NEW n \in Instants, NEW p, Entry("in", n) \in p
    PROVE  GoodWrite([op |-> "set", key |-> Key(n), date |-> n,
                      checkIn |-> Stamp(n), checkOut |-> Blank], p, n)
BY StampType, LeqReflexive, Zenon DEF GoodWrite, GoodContent, GoodTime

LEMMA CheckOutWriteGood ==
    ASSUME NEW n \in Instants, NEW p, Entry("out", n) \in p,
           NEW in, GoodTime("in", in, p, n)
    PROVE  GoodWrite([op |-> "update", key |-> Key(n), date |-> n,
                      checkIn |-> in, checkOut |-> Stamp(n)], p, n)
BY StampType, LeqReflexive, Zenon DEF GoodWrite, GoodContent, GoodTime

LEMMA AppendLast ==
    ASSUME NEW q \in Seq(Writes), NEW w
    PROVE  \E i \in 1..Len(Append(q, w)) : Append(q, w)[i] = w
<1>1. Len(q) \in Nat /\ Len(Append(q, w)) = Len(q) + 1
  OBVIOUS
<1>2. Append(q, w)[Len(q) + 1] = w
  OBVIOUS
<1> QED
  BY <1>1, <1>2

LEMMA QueuePreserved ==
    ASSUME TypeOK, QueueInv, SnapInv, [Next]_vars
    PROVE  QueueInv'
<1>0. /\ now \in Instants /\ now' \in Instants /\ Leq(now, now')
      /\ posted \subseteq posted'
  BY Grows, Zenon DEF TypeOK
<1>1. \A d \in Devices : \A i \in 1..Len(queue[d]) :
          GoodWrite(queue[d][i], posted', now')
  <2> SUFFICES ASSUME NEW d \in Devices, NEW i \in 1..Len(queue[d])
               PROVE  GoodWrite(queue[d][i], posted', now')
    OBVIOUS
  <2>1. queue[d][i] \in Writes
    BY DEF TypeOK
  <2> QED
    BY <1>0, <2>1, GoodWriteStays, Zenon DEF QueueInv
<1>2. CASE UNCHANGED <<queue, store>>
  BY <1>1, <1>2, Zenon DEF QueueInv
<1>3. CASE \E d \in Devices : Flush(d)
  <2>1. PICK d \in Devices : Flush(d)
    BY <1>3, Zenon
  <2>2. queue[d] \in Seq(Writes) /\ queue[d] # <<>>
    BY <2>1, Zenon DEF Flush, TypeOK
  <2>3. \A i \in 1..Len(Tail(queue[d])) :
            GoodWrite(Tail(queue[d])[i], posted', now')
    BY <1>1, <2>2, TailGood, Zenon
  <2>4. queue' = [queue EXCEPT ![d] = Tail(queue[d])]
    BY <2>1, Zenon DEF Flush
  <2> QED
    BY <1>1, <2>3, <2>4, Zenon DEF QueueInv, TypeOK
<1>4. ASSUME NEW s \in Slots, NEW w \in Writes, GoodWrite(w, posted', now'),
             queue' = [queue EXCEPT ![Owner[s]] = Append(queue[Owner[s]], w)]
      PROVE  QueueInv'
  <2> DEFINE d == Owner[s]
  <2>1. d \in Devices /\ queue[d] \in Seq(Writes)
    BY Zenon DEF TypeOK
  <2>2. \A i \in 1..Len(Append(queue[d], w)) :
            GoodWrite(Append(queue[d], w)[i], posted', now')
    BY <1>1, <1>4, <2>1, AppendGood, Zenon
  <2> QED
    BY <1>1, <1>4, <2>1, <2>2, Zenon DEF QueueInv, TypeOK
<1>5. ASSUME NEW s \in Slots, CheckInNow(s)
      PROVE  QueueInv'
  <2> DEFINE w == [op |-> "set", key |-> Key(now), date |-> now,
                   checkIn |-> Stamp(now), checkOut |-> Blank]
  <2>1. now' = now /\ Entry("in", now) \in posted'
    BY <1>5, Zenon DEF CheckInNow, Post
  <2>2. w \in Writes
    BY NowType, StartType, Zenon DEF Writes
  <2>3. GoodWrite(w, posted', now')
    BY <1>0, <2>1, CheckInWriteGood, Zenon
  <2>4. queue' = [queue EXCEPT ![Owner[s]] = Append(queue[Owner[s]], w)]
    BY <1>5, Zenon DEF CheckInNow, Enqueue
  <2> QED
    BY <1>4, <2>2, <2>3, <2>4, Zenon
<1>6. ASSUME NEW s \in Slots, CheckOutNow(s)
      PROVE  QueueInv'
  <2> DEFINE in == submit[s].snap.checkIn
             w == [op |-> "update", key |-> Key(now), date |-> now,
                   checkIn |-> in, checkOut |-> Stamp(now)]
  <2>1. now' = now /\ Entry("out", now) \in posted'
    BY <1>6, Zenon DEF CheckOutNow, Post
  <2>2. in \in Times
    BY Zenon DEF TypeOK, Calls, Docs
  <2>3. w \in Writes
    BY <2>2, NowType, Zenon DEF Writes
  <2>4. GoodTime("in", in, posted, now)
    BY <1>6, Zenon DEF CheckOutNow, SnapInv, GoodDoc, GoodContent
  <2>5. GoodWrite(w, posted', now')
    BY <1>0, <2>1, <2>2, <2>4, GoodTimeStays, CheckOutWriteGood, Zenon
  <2>6. queue' = [queue EXCEPT ![Owner[s]] = Append(queue[Owner[s]], w)]
    BY <1>6, Zenon DEF CheckOutNow, Enqueue
  <2> QED
    BY <1>4, <2>3, <2>5, <2>6, Zenon
<1> QED
  BY <1>2, <1>3, <1>5, <1>6, QueueSteps, Zenon

\* The write that a flush applies is good, and so is what it leaves.
LEMMA FlushedWrite ==
    ASSUME TypeOK, QueueInv, NEW d \in Devices, Flush(d)
    PROVE  /\ Head(queue[d]) \in Writes /\ Head(queue[d]).key \in Days
           /\ GoodWrite(Head(queue[d]), posted, now)
<1>1. queue[d] \in Seq(Writes) /\ queue[d] # <<>>
  BY Zenon DEF Flush, TypeOK
<1>2. Head(queue[d]) = queue[d][1] /\ 1 \in 1..Len(queue[d])
  BY <1>1
<1>3. Head(queue[d]) \in Writes
  BY <1>1
<1>4. Head(queue[d]).key \in Days
  BY <1>3, Zenon DEF Writes
<1>5. GoodWrite(queue[d][1], posted, now)
  BY <1>2, Zenon DEF QueueInv
<1> QED
  BY <1>2, <1>3, <1>4, <1>5, Zenon

LEMMA StorePreserved ==
    ASSUME TypeOK, StoreInv, QueueInv, [Next]_vars
    PROVE  StoreInv'
<1>0. /\ now \in Instants /\ now' \in Instants /\ Leq(now, now')
      /\ posted \subseteq posted' /\ store \in [Days -> Docs]
  BY Grows, Zenon DEF TypeOK
<1>1. \A k \in Days : GoodDoc(store[k], posted', now')
  BY <1>0, GoodDocStays, Zenon DEF StoreInv
<1>2. CASE store' = store
  BY <1>1, <1>2, Zenon DEF StoreInv
<1>3. CASE \E d \in Devices : Flush(d)
  <2>1. PICK d \in Devices : Flush(d)
    BY <1>3, Zenon
  <2> DEFINE w == Head(queue[d])
  <2>2. w \in Writes /\ w.key \in Days /\ GoodWrite(w, posted, now)
    BY <2>1, FlushedWrite, Zenon
  <2>3. store' = [store EXCEPT ![w.key] = Apply(store[w.key], w)]
    BY <2>1, Zenon DEF Flush
  <2>4. /\ GoodDoc(Content(w), posted', now')
        /\ Key(Content(w).date) = w.key
    BY <1>0, <2>2, GoodWriteStays, GoodWriteContent, Zenon DEF GoodWrite, Content
  <2>5. /\ GoodDoc(Apply(store[w.key], w), posted', now')
        /\ Apply(store[w.key], w).exists => Key(Apply(store[w.key], w).date) = w.key
    BY <1>1, <2>2, <2>4, Zenon DEF Apply, StoreInv
  <2> QED
    BY <1>0, <1>1, <2>2, <2>3, <2>5, Zenon DEF StoreInv
<1>4. CASE \E s \in Slots : CheckInNow(s) \/ CheckOutNow(s)
  BY <1>2, <1>4, Zenon DEF CheckInNow, CheckOutNow
<1> QED
  BY <1>2, <1>3, <1>4, QueueSteps, Zenon

(***************************************************************************)
(* Snapshots, screens and the geofence.                                    *)
(***************************************************************************)

\* A call's new snapshot is its old one, none, or what a read returned.
LEMMA RecordSnaps ==
    ASSUME TypeOK, [Next]_vars, NEW e \in Devices
    PROVE  \/ getRecord'[e].snap = getRecord[e].snap
           \/ getRecord'[e].snap = Absent
           \/ \E k \in Days : getRecord'[e].snap \in Views(store[k], queue[e], k)
              /\ UNCHANGED <<store, queue>>
<1> USE DEF screen, geo
<1>0. getRecord \in [Devices -> Calls]
  BY Zenon DEF TypeOK
<1>1. CASE getRecord' = getRecord
  BY <1>1, Zenon
<1>2. ASSUME NEW d \in Devices, DeviceStep(d)
      PROVE  \/ getRecord' = getRecord
             \/ getRecord' = [getRecord EXCEPT ![d] = Idle]
             \/ getRecord' = [getRecord EXCEPT ![d] = Loading]
             \/ RecordQueried(d) \/ RecordRead(d)
  BY <1>2, Zenon DEF DeviceStep, GeofenceEnter, GeofenceExit, Rebuild, Restart,
     RecordShown, RecordFailed, Flush
<1>3. ASSUME NEW d \in Devices,
             \/ getRecord' = [getRecord EXCEPT ![d] = Idle]
             \/ getRecord' = [getRecord EXCEPT ![d] = Loading]
             \/ RecordQueried(d)
      PROVE  \/ getRecord'[e].snap = getRecord[e].snap
             \/ getRecord'[e].snap = Absent
  <2>1. /\ Idle.snap = Absent /\ Loading.snap = Absent
        /\ Call("get", "in", Key(now), Absent).snap = Absent
    BY Zenon DEF Idle, Loading, Call
  <2>2. PICK c \in {Idle, Loading, Call("get", "in", Key(now), Absent)} :
            getRecord' = [getRecord EXCEPT ![d] = c]
    BY <1>3, Zenon DEF RecordQueried
  <2>3. c.snap = Absent
    BY <2>1, <2>2, Zenon
  <2>4. getRecord'[e] = c \/ getRecord'[e] = getRecord[e]
    BY <1>0, <2>2, Zenon
  <2> QED
    BY <2>3, <2>4, Zenon
<1>4. ASSUME NEW d \in Devices, RecordRead(d)
      PROVE  \/ getRecord'[e].snap = getRecord[e].snap
             \/ \E k \in Days :
                   getRecord'[e].snap \in Views(store[k], queue[e], k)
                   /\ UNCHANGED <<store, queue>>
  <2> DEFINE k == getRecord[d].key
  <2>1. k \in Days
    BY <1>0, Zenon DEF Calls
  <2>2. PICK snap \in Views(store[k], queue[d], k) :
            getRecord' = [getRecord EXCEPT ![d] = Call("got", "in", k, snap)]
    BY <1>4, Zenon DEF RecordRead
  <2>3. CASE e = d
    <3>1. getRecord'[e].snap = snap
      BY <1>0, <2>2, <2>3, Zenon DEF Call
    <3> QED
      BY <1>4, <2>1, <2>3, <3>1, Zenon DEF RecordRead
  <2>4. CASE e # d
    BY <1>0, <2>2, <2>4, Zenon
  <2> QED
    BY <2>3, <2>4, Zenon
<1>5. CASE Tick \/ UNCHANGED vars \/ \E s \in Slots : SubmitStep(s)
  BY <1>1, <1>5, Zenon DEF Tick, vars, SubmitStep, Slide, AuthFailed, Authenticated,
     Queried, Read, ReadFailed, CheckInNow, CheckOutNow, CheckOutThrows
<1>6. CASE \E d \in Devices : DeviceStep(d)
  BY <1>1, <1>2, <1>3, <1>4, <1>6, Zenon
<1> QED
  BY <1>5, <1>6, Zenon DEF Next

LEMMA SubmitSnaps ==
    ASSUME TypeOK, [Next]_vars, NEW r \in Slots
    PROVE  \/ submit'[r].snap = submit[r].snap
           \/ submit'[r].snap = Absent
           \/ \E k \in Days : submit'[r].snap \in Views(store[k], queue[Owner[r]], k)
<1> USE DEF screen, geo
<1>0. submit \in [Slots -> Calls]
  BY Zenon DEF TypeOK
<1>1. CASE submit' = submit
  BY <1>1, Zenon
<1>2. ASSUME NEW d \in Devices, DeviceStep(d)
      PROVE  submit' = submit \/ Restart(d)
  BY <1>2, Zenon DEF DeviceStep, GeofenceEnter, GeofenceExit, Rebuild, RecordQueried,
     RecordRead, RecordShown, RecordFailed, Flush
<1>3. ASSUME NEW d \in Devices, Restart(d)
      PROVE  submit'[r].snap = submit[r].snap \/ submit'[r].snap = Absent
  BY <1>0, <1>3, Zenon DEF Restart, Idle, Call
<1>4. ASSUME NEW s \in Slots, SubmitStep(s), ~Read(s)
      PROVE  \E c \in {"idle", "auth", "query", "get"} : \E dir, k :
                submit' = [submit EXCEPT ![s] = Call(c, dir, k, Absent)]
  BY <1>4, Zenon DEF SubmitStep, Slide, AuthFailed, Authenticated, Queried, ReadFailed,
     CheckInNow, CheckOutNow, CheckOutThrows, Resume, Idle
<1>5. ASSUME NEW s \in Slots, SubmitStep(s), ~Read(s)
      PROVE  submit'[r].snap = submit[r].snap \/ submit'[r].snap = Absent
  BY <1>0, <1>4, <1>5 DEF Call
<1>6. ASSUME NEW s \in Slots, Read(s)
      PROVE  \/ submit'[r].snap = submit[r].snap
             \/ \E k \in Days :
                   submit'[r].snap \in Views(store[k], queue[Owner[r]], k)
  <2> DEFINE k == submit[s].key
  <2>1. k \in Days
    BY <1>0, Zenon DEF Calls
  <2>2. PICK snap \in Views(store[k], queue[Owner[s]], k) :
            submit' = [submit EXCEPT ![s] = Call("got", submit[s].dir, k, snap)]
    BY <1>6, Zenon DEF Read, Resume
  <2>3. CASE r = s
    <3>1. submit'[r].snap = snap
      BY <1>0, <2>2, <2>3, Zenon DEF Call
    <3> QED
      BY <2>1, <2>3, <3>1, Zenon
  <2>4. CASE r # s
    BY <1>0, <2>2, <2>4, Zenon
  <2> QED
    BY <2>3, <2>4, Zenon
<1>7. CASE Tick \/ UNCHANGED vars
  BY <1>1, <1>7, Zenon DEF Tick, vars
<1>8. CASE \E d \in Devices : DeviceStep(d)
  BY <1>1, <1>2, <1>3, <1>8, Zenon
<1>9. CASE \E s \in Slots : SubmitStep(s)
  BY <1>5, <1>6, <1>9, Zenon
<1> QED
  BY <1>7, <1>8, <1>9, Zenon DEF Next

LEMMA SnapPreserved ==
    ASSUME TypeOK, StoreInv, QueueInv, SnapInv, [Next]_vars
    PROVE  SnapInv'
<1>0. /\ now \in Instants /\ now' \in Instants /\ Leq(now, now')
      /\ posted \subseteq posted'
  BY Grows, Zenon DEF TypeOK
<1>1. ASSUME NEW doc \in Docs, GoodDoc(doc, posted, now)
      PROVE  GoodDoc(doc, posted', now')
  BY <1>0, <1>1, GoodDocStays, Zenon
<1>2. ASSUME NEW d \in Devices, NEW k \in Days,
             NEW v \in Views(store[k], queue[d], k)
      PROVE  GoodDoc(v, posted', now')
  <2>1. v \in Docs
    BY ViewsType, Zenon DEF TypeOK
  <2> QED
    BY <1>1, <2>1, GoodViews, Zenon
<1>3. ASSUME NEW d \in Devices
      PROVE  GoodDoc(getRecord'[d].snap, posted', now')
  <2>1. getRecord[d].snap \in Docs /\ GoodDoc(getRecord[d].snap, posted, now)
    BY Zenon DEF TypeOK, Calls, SnapInv
  <2>2. GoodDoc(getRecord[d].snap, posted', now')
    BY <1>1, <2>1, Zenon
  <2> QED
    BY <1>2, <2>2, AbsentIsGood, RecordSnaps, Zenon
<1>4. ASSUME NEW s \in Slots
      PROVE  GoodDoc(submit'[s].snap, posted', now')
  <2>1. submit[s].snap \in Docs /\ GoodDoc(submit[s].snap, posted, now)
    BY Zenon DEF TypeOK, Calls, SnapInv
  <2>2. GoodDoc(submit[s].snap, posted', now')
    BY <1>1, <2>1, Zenon
  <2>3. Owner[s] \in Devices
    OBVIOUS
  <2> QED
    BY <1>2, <2>2, <2>3, AbsentIsGood, SubmitSnaps, Zenon
<1> QED
  BY <1>3, <1>4, Zenon DEF SnapInv

\* Which steps change the check-in on a screen.
LEMMA ScreenSteps ==
    ASSUME [Next]_vars
    PROVE  \/ UNCHANGED <<checkedIn, checkIn>>
           \/ \E d \in Devices : Restart(d) \/ RecordShown(d) \/ RecordFailed(d)
           \/ \E s \in Slots : CheckInNow(s) \/ CheckOutNow(s)
<1> USE DEF screen, geo
<1>1. CASE Tick \/ UNCHANGED vars
  BY <1>1, Zenon DEF Tick, vars
<1>2. CASE \E d \in Devices : DeviceStep(d)
  BY <1>2, Zenon DEF DeviceStep, GeofenceEnter, GeofenceExit, Rebuild, RecordQueried,
     RecordRead, Flush
<1>3. CASE \E s \in Slots : SubmitStep(s)
  BY <1>3, Zenon DEF SubmitStep, Slide, AuthFailed, Authenticated, Queried, Read,
     ReadFailed, CheckOutThrows
<1> QED
  BY <1>1, <1>2, <1>3, Zenon DEF Next

LEMMA ScreenPreserved ==
    ASSUME TypeOK, SnapInv, ScreenInv, [Next]_vars
    PROVE  ScreenInv'
<1>0. /\ now \in Instants /\ now' \in Instants /\ Leq(now, now')
      /\ posted \subseteq posted'
      /\ checkIn \in [Devices -> Times] /\ checkedIn \in [Devices -> BOOLEAN]
  BY Grows, Zenon DEF TypeOK
<1>1. \A d \in Devices :
          /\ checkIn[d] # Blank => GoodTime("in", checkIn[d], posted', now')
          /\ checkedIn[d] => checkIn[d] # Blank
  BY <1>0, GoodTimeStays, Zenon DEF ScreenInv
<1>2. CASE UNCHANGED <<checkedIn, checkIn>>
  BY <1>1, <1>2, Zenon DEF ScreenInv
<1>3. ASSUME NEW d \in Devices, Restart(d)
      PROVE  ScreenInv'
  BY <1>0, <1>1, <1>3, Zenon DEF ScreenInv, Restart
<1>4. ASSUME NEW d \in Devices, RecordShown(d)
      PROVE  ScreenInv'
  <2> DEFINE snap == getRecord[d].snap
             in == IF snap.checkIn # Blank THEN snap.checkIn ELSE checkIn[d]
  <2>1. snap \in Docs /\ GoodDoc(snap, posted, now)
    BY Zenon DEF TypeOK, Calls, SnapInv
  <2>2. snap.checkIn \in Times
    BY <2>1, Zenon DEF Docs
  <2>3. snap.checkIn # Blank => GoodTime("in", snap.checkIn, posted', now')
    <3>1. snap.checkIn # Blank => GoodTime("in", snap.checkIn, posted, now)
      BY <2>1, GoodDocCheckIn, Zenon
    <3> QED
      BY <1>0, <2>2, <3>1, GoodTimeStays, Zenon
  <2>4. in # Blank => GoodTime("in", in, posted', now')
    BY <1>1, <2>3, Zenon
  <2>5. /\ checkIn' = [checkIn EXCEPT ![d] = in]
        /\ checkedIn' = [checkedIn EXCEPT ![d] =
               (checkedIn[d] \/ snap.checkIn # Blank) /\ in # Blank]
    BY <1>4, Zenon DEF RecordShown
  <2> HIDE DEF in
  <2> QED
    BY <1>0, <1>1, <2>4, <2>5, Zenon DEF ScreenInv
<1>5. ASSUME NEW d \in Devices, RecordFailed(d)
      PROVE  ScreenInv'
  BY <1>0, <1>1, <1>5, Zenon DEF ScreenInv, RecordFailed
<1>6. ASSUME NEW s \in Slots, CheckInNow(s)
      PROVE  ScreenInv'
  <2>1. Owner[s] \in Devices
    OBVIOUS
  <2>2. now' = now /\ Entry("in", now) \in posted'
    BY <1>6, Zenon DEF CheckInNow, Post
  <2>3. Stamp(now) # Blank /\ GoodTime("in", Stamp(now), posted', now')
    BY <1>0, <2>2, NowType, Zenon DEF GoodTime
  <2>4. /\ checkIn' = [checkIn EXCEPT ![Owner[s]] = Stamp(now)]
        /\ checkedIn' = [checkedIn EXCEPT ![Owner[s]] = TRUE]
    BY <1>6, Zenon DEF CheckInNow
  <2> QED
    BY <1>0, <1>1, <2>1, <2>3, <2>4, Zenon DEF ScreenInv
<1>7. ASSUME NEW s \in Slots, CheckOutNow(s)
      PROVE  ScreenInv'
  <2>1. /\ checkIn' = checkIn
        /\ checkedIn' = [checkedIn EXCEPT ![Owner[s]] = FALSE]
    BY <1>7, Zenon DEF CheckOutNow
  <2> QED
    BY <1>0, <1>1, <2>1, Zenon DEF ScreenInv
<1> QED
  BY <1>2, <1>3, <1>4, <1>5, <1>6, <1>7, ScreenSteps, Zenon

\* A document a device can see stays in its sight: a flush moves its write
\* from the queue to the store, and nothing deletes documents.
LEMMA VisibleStays ==
    ASSUME TypeOK, [Next]_vars, NEW d \in Devices, NEW k \in Days,
           Visible(store[k], queue[d], k)
    PROVE  Visible(store'[k], queue'[d], k)
<1>0. queue[d] \in Seq(Writes) /\ store \in [Days -> Docs]
      /\ queue \in [Devices -> Seq(Writes)]
  BY Zenon DEF TypeOK
<1>1. CASE UNCHANGED <<queue, store>>
  BY <1>1, Zenon
<1>2. ASSUME NEW e \in Devices, Flush(e)
      PROVE  Visible(store'[k], queue'[d], k)
  <2> DEFINE w == Head(queue[e])
  <2>1. queue[e] \in Seq(Writes) /\ queue[e] # <<>> /\ w \in Writes
    BY <1>0, <1>2 DEF Flush
  <2>2. w.key \in Days
    BY <2>1, Zenon DEF Writes
  <2>3. /\ store' = [store EXCEPT ![w.key] = Apply(store[w.key], w)]
        /\ queue' = [queue EXCEPT ![e] = Tail(queue[e])]
    BY <1>2, Zenon DEF Flush
  <2>4. CASE store[k].exists
    BY <1>0, <2>2, <2>3, <2>4, Zenon DEF Visible, Apply, Content
  <2>5. ASSUME NEW i \in 1..Len(queue[d]),
               queue[d][i].key = k, queue[d][i].op = "set"
        PROVE  Visible(store'[k], queue'[d], k)
    <3>1. CASE e # d
      BY <1>0, <2>3, <2>5, <3>1, Zenon DEF Visible, Pending
    <3>2. CASE e = d /\ i = 1
      <4>1. w = queue[d][1]
        BY <2>1, <3>2
      <4>2. store'[k] = Content(w)
        BY <1>0, <2>2, <2>3, <2>5, <3>2, <4>1, Zenon DEF Apply
      <4> QED
        BY <4>2 DEF Visible, Content
    <3>3. CASE e = d /\ i # 1
      <4>1. queue'[d] = Tail(queue[d])
        BY <1>0, <2>3, <3>3, Zenon
      <4>2. i - 1 \in 1..Len(Tail(queue[d])) /\ Tail(queue[d])[i - 1] = queue[d][i]
        BY <1>0, <2>1, <3>3
      <4> QED
        BY <2>5, <4>1, <4>2, Zenon DEF Visible, Pending
    <3> QED
      BY <3>1, <3>2, <3>3, Zenon
  <2> QED
    BY <2>4, <2>5, Zenon DEF Visible, Pending
<1>3. ASSUME NEW s \in Slots, CheckInNow(s) \/ CheckOutNow(s)
      PROVE  Visible(store'[k], queue'[d], k)
  <2>1. store' = store
    BY <1>3, Zenon DEF CheckInNow, CheckOutNow
  <2>2. \E w : queue' = [queue EXCEPT ![Owner[s]] = Append(queue[Owner[s]], w)]
    BY <1>3, Zenon DEF CheckInNow, CheckOutNow, Enqueue
  <2>3. \A w : \A i \in 1..Len(queue[d]) :
            /\ i \in 1..Len(Append(queue[d], w))
            /\ Append(queue[d], w)[i] = queue[d][i]
    BY <1>0
  <2>4. \A i \in 1..Len(queue[d]) :
            i \in 1..Len(queue'[d]) /\ queue'[d][i] = queue[d][i]
    <3>1. PICK w : queue' = [queue EXCEPT ![Owner[s]] = Append(queue[Owner[s]], w)]
      BY <2>2, Zenon
    <3>2. queue'[d] = queue[d] \/ queue'[d] = Append(queue[d], w)
      BY <1>0, <3>1, Zenon
    <3> QED
      BY <2>3, <3>2, Zenon
  <2> QED
    BY <2>1, <2>4, Zenon DEF Visible, Pending
<1> QED
  BY <1>1, <1>2, <1>3, QueueSteps, Zenon

LEMMA SeesRecordStays ==
    ASSUME TypeOK, [Next]_vars, NEW d \in Devices, SeesRecord(d)
    PROVE  SeesRecord(d)'
<1>1. PICK k \in Days : Visible(store[k], queue[d], k)
  BY Zenon DEF SeesRecord
<1>2. Visible(store'[k], queue'[d], k)
  BY <1>1, VisibleStays, Zenon
<1> QED
  BY <1>2, Zenon DEF SeesRecord

\* A check-in makes its record visible to the device at once.
LEMMA CheckInSeen ==
    ASSUME TypeOK, NEW s \in Slots, CheckInNow(s)
    PROVE  SeesRecord(Owner[s])'
<1> DEFINE d == Owner[s]
           w == [op |-> "set", key |-> Key(now), date |-> now,
                 checkIn |-> Stamp(now), checkOut |-> Blank]
<1>1. d \in Devices /\ queue[d] \in Seq(Writes) /\ Key(now) \in Days
  BY NowType, Zenon DEF TypeOK
<1>2. queue'[d] = Append(queue[d], w)
  BY <1>1, Zenon DEF CheckInNow, Enqueue, TypeOK
<1>3. \E i \in 1..Len(Append(queue[d], w)) : Append(queue[d], w)[i] = w
  BY <1>1, AppendLast, Zenon
<1>4. w.op = "set" /\ w.key = Key(now)
  OBVIOUS
<1> HIDE DEF w
<1>5. Visible(store'[Key(now)], queue'[d], Key(now))
  BY <1>2, <1>3, <1>4, Zenon DEF Visible, Pending
<1> QED
  BY <1>1, <1>5, Zenon DEF SeesRecord

LEMMA SeenPreserved ==
    ASSUME TypeOK, SnapInv, SeenInv, [Next]_vars
    PROVE  SeenInv'
<1>0. checkedIn \in [Devices -> BOOLEAN]
  BY Zenon DEF TypeOK
<1> SUFFICES ASSUME NEW d \in Devices, (checkedIn[d] \/ getRecord[d].snap.exists)'
             PROVE  SeesRecord(d)'
  BY Zenon DEF SeenInv
<1>1. CASE checkedIn[d] \/ getRecord[d].snap.exists
  BY <1>1, SeesRecordStays, Zenon DEF SeenInv
<1>2. CASE checkedIn'[d] /\ ~checkedIn[d] /\ ~getRecord[d].snap.exists
  <2>1. ~(\E e \in Devices : RecordShown(e) \/ RecordFailed(e) \/ Restart(e))
    <3>1. getRecord[d].snap = Absent
      BY <1>2, Zenon DEF SnapInv, GoodDoc
    <3>2. ASSUME NEW e \in Devices, RecordShown(e) PROVE FALSE
      <4>1. checkedIn'[d] = checkedIn[d] \/ e = d
        BY <1>0, <3>2, Zenon DEF RecordShown
      <4>2. e = d
        BY <1>2, <4>1, Zenon
      <4>0. Absent.checkIn = Blank
        BY Zenon DEF Absent
      <4>3. getRecord[d].snap.checkIn = Blank
        BY <3>1, <4>0, Zenon
      <4> QED
        BY <1>0, <1>2, <3>2, <4>2, <4>3, Zenon DEF RecordShown
    <3>3. ASSUME NEW e \in Devices, RecordFailed(e) PROVE FALSE
      BY <1>0, <1>2, <3>3, Zenon DEF RecordFailed
    <3>4. ASSUME NEW e \in Devices, Restart(e) PROVE FALSE
      BY <1>0, <1>2, <3>4, Zenon DEF Restart
    <3> QED
      BY <3>2, <3>3, <3>4, Zenon
  <2>2. ~(\E s \in Slots : CheckOutNow(s))
    BY <1>0, <1>2, Zenon DEF CheckOutNow
  <2>3. PICK s \in Slots : CheckInNow(s)
    BY <1>2, <2>1, <2>2, ScreenSteps, Zenon
  <2>4. Owner[s] = d
    BY <1>0, <1>2, <2>3, Zenon DEF CheckInNow
  <2> QED
    BY <2>3, <2>4, CheckInSeen, Zenon
<1>3. CASE getRecord'[d].snap.exists /\ ~getRecord[d].snap.exists
  <2>1. PICK k \in Days : getRecord'[d].snap \in Views(store[k], queue[d], k)
    BY <1>3, RecordSnaps, AbsentIsGood, Zenon
  <2>2. store[k] \in Docs /\ queue[d] \in Seq(Writes)
    BY Zenon DEF TypeOK
  <2>3. Visible(store[k], queue[d], k)
    BY <1>3, <2>1, <2>2, ViewsType, Zenon
  <2> QED
    BY <2>3, SeesRecordStays, Zenon DEF SeesRecord
<1> QED
  BY <1>1, <1>2, <1>3, Zenon

\* The only new 'out' is that of a check-out, whose snapshot holds an 'in'.
LEMMA OutNeedsInPreserved ==
    ASSUME TypeOK, SnapInv, OutNeedsIn, [Next]_vars
    PROVE  OutNeedsIn'
<1> USE DEF screen, geo
<1>0. posted \subseteq posted'
  BY Grows, Zenon
<1>1. \/ posted' = posted
      \/ \E s \in Slots : CheckInNow(s) \/ CheckOutNow(s)
  <2>1. CASE Tick \/ UNCHANGED vars
    BY <2>1, Zenon DEF Tick, vars
  <2>2. CASE \E d \in Devices : DeviceStep(d)
    BY <2>2, Zenon DEF DeviceStep, GeofenceEnter, GeofenceExit, Rebuild, Restart,
       RecordQueried, RecordRead, RecordShown, RecordFailed, Flush
  <2>3. CASE \E s \in Slots : SubmitStep(s)
    BY <2>3, Zenon DEF SubmitStep, Slide, AuthFailed, Authenticated, Queried, Read,
       ReadFailed, CheckOutThrows
  <2> QED
    BY <2>1, <2>2, <2>3, Zenon DEF Next
<1>2. ASSUME NEW s \in Slots, CheckInNow(s)
      PROVE  OutNeedsIn'
  <2>1. posted' = posted \cup {Entry("in", now)}
    BY <1>2, Zenon DEF CheckInNow, Post
  <2>2. Entry("in", now).dir # "out"
    BY Zenon DEF Entry
  <2>3. \A e \in posted' : e.dir = "out" => e \in posted
    BY <2>1, <2>2, Zenon
  <2> QED
    BY <1>0, <2>3, Zenon DEF OutNeedsIn
<1>3. ASSUME NEW s \in Slots, CheckOutNow(s)
      PROVE  OutNeedsIn'
  <2> DEFINE i == Entry("in", submit[s].snap.checkIn.at)
  <2>1. i \in posted /\ Leq(submit[s].snap.checkIn.at, now)
    BY <1>3, Zenon DEF CheckOutNow, SnapInv, GoodDoc, GoodContent, GoodTime
  <2>2. i.dir = "in" /\ i.at = submit[s].snap.checkIn.at
    BY Zenon DEF Entry
  <2>3. posted' = posted \cup {Entry("out", now)} /\ Entry("out", now).at = now
    BY <1>3, Zenon DEF CheckOutNow, Post, Entry
  <2>4. i \in posted' /\ Leq(i.at, now)
    BY <1>0, <2>1, <2>2, Zenon
  <2> HIDE DEF i
  <2> SUFFICES ASSUME NEW e \in posted', e.dir = "out"
               PROVE  \E j \in posted' : j.dir = "in" /\ Leq(j.at, e.at)
    BY Zenon DEF OutNeedsIn
  <2>5. CASE e \in posted
    BY <1>0, <2>5, Zenon DEF OutNeedsIn
  <2>6. CASE e = Entry("out", now)
    BY <2>2, <2>3, <2>4, <2>6, Zenon
  <2> QED
    BY <2>3, <2>5, <2>6, Zenon
<1> QED
  BY <1>1, <1>2, <1>3, Zenon DEF OutNeedsIn

LEMMA GeofenceDevice ==
    ASSUME TypeOK, GeofenceInv, NEW d \in Devices, DeviceStep(d)
    PROVE  GeofenceInv'
<1> USE DEF screen, geo, GeofenceInv, CheckInWasInside, TypeOK
<1>1. CASE GeofenceEnter(d)
  BY <1>1, Zenon DEF GeofenceEnter
<1>2. CASE GeofenceExit(d)
  BY <1>2, Zenon DEF GeofenceExit
<1>3. CASE Restart(d)
  BY <1>3, Zenon DEF Restart, Idle, Call
<1>4. CASE UNCHANGED <<inside, entered, submit>>
  BY <1>4, Zenon
<1> QED
  BY <1>1, <1>2, <1>3, <1>4, Zenon DEF DeviceStep, Rebuild, RecordQueried, RecordRead,
     RecordShown, RecordFailed, Flush

LEMMA GeofenceSubmit ==
    ASSUME TypeOK, GeofenceInv, NEW s \in Slots, SubmitStep(s)
    PROVE  GeofenceInv'
<1> USE DEF screen, geo
<1>0. submit \in [Slots -> Calls]
  BY Zenon DEF TypeOK
<1>1. UNCHANGED <<inside, entered>>
  BY Zenon DEF SubmitStep, Slide, AuthFailed, Authenticated, Queried, Read,
     ReadFailed, CheckInNow, CheckOutNow, CheckOutThrows
<1>2. \E c : submit' = [submit EXCEPT ![s] = c]
  BY Zenon DEF SubmitStep, Slide, AuthFailed, Authenticated, Queried, Read,
     ReadFailed, CheckInNow, CheckOutNow, CheckOutThrows, Resume
<1>3. \A d \in Devices : inside[d] => entered[d]
  BY Zenon DEF GeofenceInv
<1>4. submit'[s].dir = "in" /\ submit'[s].pc \in {"query", "get", "got"}
          => entered[Owner[s]]
  <2>1. CASE Slide(s)
    <3>0. submit' = [submit EXCEPT ![s] = Call("auth", "in", 0, Absent)]
      BY <2>1, Zenon DEF Slide, Resume
    <3>1. Call("auth", "in", 0, Absent).pc = "auth"
      BY Zenon DEF Call
    <3>2. submit'[s] = Call("auth", "in", 0, Absent)
      BY <1>0, <3>0, Zenon
    <3>3. submit'[s].pc = "auth"
      BY <3>1, <3>2, Zenon
    <3> QED
      BY <3>3, Zenon
  <2>2. CASE Authenticated(s)
    <3>1. \/ submit'[s] = Call("query", "in", 0, Absent) /\ inside[Owner[s]]
          \/ submit'[s] = Call("query", "out", 0, Absent)
          \/ submit'[s] = Idle
      BY <1>0, <2>2, Zenon DEF Authenticated, Resume
    <3> QED
      BY <1>3, <3>1 DEF Call, Idle
  <2>3. CASE Queried(s) \/ Read(s)
    <3>1. submit'[s].dir = submit[s].dir /\ submit[s].pc \in {"query", "get"}
      BY <1>0, <2>3 DEF Queried, Read, Resume, Call
    <3> QED
      BY <3>1, Zenon DEF GeofenceInv, CheckInWasInside
  <2>4. CASE submit' = [submit EXCEPT ![s] = Idle]
    BY <1>0, <2>4, Zenon DEF Idle, Call
  <2> QED
    BY <2>1, <2>2, <2>3, <2>4, Zenon DEF SubmitStep, AuthFailed, ReadFailed,
       CheckInNow, CheckOutNow, CheckOutThrows, Resume
<1>5. \A r \in Slots : r # s => submit'[r] = submit[r]
  BY <1>0, <1>2, Zenon
<1> QED
  BY <1>1, <1>3, <1>4, <1>5, Zenon DEF GeofenceInv, CheckInWasInside

(***************************************************************************)
(* The theorems.                                                           *)
(***************************************************************************)

LEMMA InvariantInit == Init => IInv
<1> SUFFICES ASSUME Init PROVE IInv
  OBVIOUS
<1>1. TypeOK
  BY TypeInit, Zenon
<1>2. StoreInv
  BY AbsentIsGood, Zenon DEF Init, StoreInv
<1>3. QueueInv
  BY DEF Init, QueueInv
<1>4. SnapInv
  BY AbsentIsGood, Zenon DEF Init, SnapInv, Idle, Loading, Call
<1>5. ScreenInv /\ SeenInv /\ OutNeedsIn
  BY AbsentIsGood, Zenon DEF Init, ScreenInv, SeenInv, OutNeedsIn, Loading, Call
<1>6. GeofenceInv
  BY Zenon DEF Init, GeofenceInv, CheckInWasInside, Idle, Call
<1> QED
  BY <1>1, <1>2, <1>3, <1>4, <1>5, <1>6, Zenon DEF IInv

LEMMA InvariantStep == IInv /\ [Next]_vars => IInv'
<1> SUFFICES ASSUME IInv, [Next]_vars PROVE IInv'
  OBVIOUS
<1> USE DEF IInv
<1>1. TypeOK'
  <2>1. CASE Tick
    BY <2>1, LaterType, Zenon DEF Tick, TypeOK, screen, geo
  <2>2. CASE UNCHANGED vars
    BY <2>2, Zenon DEF vars, screen, geo, TypeOK
  <2> QED
    BY <2>1, <2>2, TypeDevice, TypeSubmit, Zenon DEF Next
<1>2. StoreInv' /\ QueueInv' /\ SnapInv'
  BY StorePreserved, QueuePreserved, SnapPreserved, Zenon
<1>3. ScreenInv' /\ SeenInv' /\ OutNeedsIn'
  BY ScreenPreserved, SeenPreserved, OutNeedsInPreserved, Zenon
<1>4. GeofenceInv'
  <2>1. CASE UNCHANGED <<inside, entered, submit>>
    BY <2>1, Zenon DEF GeofenceInv, CheckInWasInside
  <2> QED
    BY <2>1, GeofenceDevice, GeofenceSubmit, Zenon DEF Next, Tick, vars, geo
<1> QED
  BY <1>1, <1>2, <1>3, <1>4, Zenon

\* The inductive invariant: every check-in and check-out time that is queued,
\* stored, read or shown was posted and lies in the past.
THEOREM Invariant == Spec => []IInv
BY InvariantInit, InvariantStep, PTL DEF Spec

\* A record's times are times that were posted to the attendance server.
THEOREM RecordsPostedAlways == Spec => []RecordsPosted
<1>1. IInv => RecordsPosted
  BY Zenon DEF IInv, StoreInv, GoodDoc, GoodContent, GoodTime, RecordsPosted, PostedAs
<1> QED
  BY <1>1, Invariant, PTL

\* A record lies under the key of its own date and of its check-out, however
\* many awaits of onSubmit span midnight.
THEOREM FiledUnderItsDayAlways == Spec => []FiledUnderItsDay
<1>1. IInv => FiledUnderItsDay
  <2> SUFFICES ASSUME IInv, NEW k \in Days, store[k].exists
               PROVE  /\ Key(store[k].date) = k
                      /\ store[k].checkOut # Blank => Key(store[k].checkOut.at) = k
    BY Zenon DEF FiledUnderItsDay
  <2>1. Key(store[k].date) = k
    BY Zenon DEF IInv, StoreInv
  <2>2. store[k].checkOut # Blank => store[k].checkOut = Stamp(store[k].date)
    BY Zenon DEF IInv, StoreInv, GoodDoc, GoodContent
  <2>3. store[k].checkOut # Blank => store[k].checkOut.at = store[k].date
    BY <2>2 DEF Stamp
  <2> QED
    BY <2>1, <2>3, Zenon
<1> QED
  BY <1>1, Invariant, PTL

\* No record's check-out comes before its check-in.
THEOREM OutAfterInAlways == Spec => []OutAfterIn
<1>1. IInv => OutAfterIn
  <2> SUFFICES ASSUME IInv, NEW k \in Days, store[k].exists,
                      store[k].checkOut # Blank
               PROVE  Leq(store[k].checkIn.at, store[k].checkOut.at)
    BY Zenon DEF OutAfterIn
  <2>1. /\ store[k].checkOut = Stamp(store[k].date)
        /\ Leq(store[k].checkIn.at, store[k].date)
    BY Zenon DEF IInv, StoreInv, GoodDoc, GoodContent
  <2>2. store[k].checkOut.at = store[k].date
    BY <2>1 DEF Stamp
  <2> QED
    BY <2>1, <2>2, Zenon
<1> QED
  BY <1>1, Invariant, PTL

\* Within a half day 'hh:mm' counts on with the clock.
LEMMA HhmmOrder ==
    ASSUME NEW a \in Instants, NEW b \in Instants, Leq(a, b), SameHalf(a, b)
    PROVE  Hhmm(a) <= Hhmm(b)
<1>1. /\ a.tick \in 0..(2 * HalfDay - 1) /\ b.tick \in 0..(2 * HalfDay - 1)
      /\ a.tick <= b.tick
  BY HalfDayAssumption DEF Instants, Ticks, Days, Leq, SameHalf
<1>2. \A x \in Nat : x < HalfDay => x % HalfDay = x
  BY HalfDayAssumption
<1>3. \A x \in Nat : HalfDay <= x /\ x < 2 * HalfDay => x % HalfDay = x - HalfDay
  BY HalfDayAssumption
<1>4. CASE a.tick < HalfDay /\ b.tick < HalfDay
  BY <1>1, <1>2, <1>4, HalfDayAssumption DEF Hhmm
<1>5. CASE ~(a.tick < HalfDay) /\ ~(b.tick < HalfDay)
  BY <1>1, <1>3, <1>5, HalfDayAssumption DEF Hhmm
<1> QED
  BY <1>4, <1>5, Zenon DEF SameHalf

\* The two printed times of a record are in order within a half of its day.
THEOREM ReadableOrderAlways == Spec => []ReadableOrder
<1>1. IInv => ReadableOrder
  <2> SUFFICES ASSUME IInv, NEW k \in Days, store[k].exists,
                      store[k].checkOut # Blank,
                      SameHalf(store[k].checkIn.at, store[k].checkOut.at)
               PROVE  store[k].checkIn.hhmm <= store[k].checkOut.hhmm
    BY Zenon DEF ReadableOrder
  <2>1. /\ store[k].checkIn # Blank
        /\ store[k].checkOut = Stamp(store[k].date)
        /\ Leq(store[k].checkIn.at, store[k].date)
    BY Zenon DEF IInv, StoreInv, GoodDoc, GoodContent, GoodTime
  <2>2. store[k].checkIn \in Times /\ store[k].date \in Instants
    BY Zenon DEF IInv, TypeOK, Docs
  <2>3. /\ store[k].checkIn = Stamp(store[k].checkIn.at)
        /\ store[k].checkIn.at \in Instants
    BY <2>1, <2>2, TimesHaveInstants, Zenon DEF Times, Stamps
  <2>4. store[k].checkOut.at = store[k].date
    BY <2>1 DEF Stamp
  <2>5. Hhmm(store[k].checkIn.at) <= Hhmm(store[k].date)
    BY <2>1, <2>2, <2>3, <2>4, HhmmOrder, Zenon
  <2>6. /\ store[k].checkIn.hhmm = Hhmm(store[k].checkIn.at)
        /\ store[k].checkOut.hhmm = Hhmm(store[k].date)
    BY <2>1, <2>3 DEF Stamp
  <2> QED
    BY <2>5, <2>6, Zenon
<1> QED
  BY <1>1, Invariant, PTL

\* An 'out' is sent to the attendance server only after an 'in'.
THEOREM OutNeedsInAlways == Spec => []OutNeedsIn
<1>1. IInv => OutNeedsIn
  BY Zenon DEF IInv
<1> QED
  BY <1>1, Invariant, PTL

\* A screen that offers a check-out shows a posted check-in, and its device
\* can see a record.
THEOREM CheckedInIsRealAlways == Spec => []CheckedInIsReal
<1>1. IInv => CheckedInIsReal
  BY Zenon DEF IInv, ScreenInv, SeenInv, SeesRecord, GoodTime, CheckedInIsReal, PostedAs
<1> QED
  BY <1>1, Invariant, PTL

\* A check-in is under way only where the geofence has reported "enter".
THEOREM CheckInWasInsideAlways == Spec => []CheckInWasInside
<1>1. IInv => CheckInWasInside
  BY Zenon DEF IInv, GeofenceInv
<1> QED
  BY <1>1, Invariant, PTL

(***************************************************************************)
(* The Record collection implements AttendanceRecord.                      *)
(***************************************************************************)

\* The instance's constants are the module's own.
LEMMA RecordsSame ==
    /\ Records!Days = Days /\ Records!Instants = Instants
    /\ Records!Absent = Absent /\ Records!Blank = Blank
    /\ \A i : Records!Key(i) = Key(i) /\ Records!Stamp(i) = Stamp(i)
    /\ \A i, j : Records!Leq(i, j) <=> Leq(i, j)
BY Zenon DEF Records!Days, Days, Records!Instants, Instants, Records!Ticks, Ticks,
   Records!Absent, Absent, Records!Blank, Blank, Records!Start, Start,
   Records!Key, Key, Records!Stamp, Stamp, Records!Hhmm, Hhmm,
   Records!Leq, Leq

\* A flush is a check-in, a check-out, or leaves the collection alone.
LEMMA FlushRefines ==
    ASSUME IInv, NEW d \in Devices, Flush(d)
    PROVE  Records!Next \/ store' = store
<1> DEFINE w == Head(queue[d])
           k == w.key
<1>1. w \in Writes /\ k \in Days /\ GoodWrite(w, posted, now)
  BY FlushedWrite, Zenon DEF IInv
<1>2. store \in [Days -> Docs]
  BY Zenon DEF IInv, TypeOK
<1>3. store' = [store EXCEPT ![k] = Apply(store[k], w)]
  BY Zenon DEF Flush
<1>4. w.date \in Instants /\ w.op \in {"set", "update"} /\ w.checkIn \in Times
  BY <1>1, Zenon DEF Writes
<1>5. Key(w.date) = k
  BY <1>1, Zenon DEF GoodWrite
<1>6. CASE w.op = "set"
  <2>1. w.checkIn = Stamp(w.date) /\ w.checkOut = Blank
    BY <1>1, <1>6, Zenon DEF GoodWrite
  <2>2. Records!CheckIn(k, w.date)
    BY <1>3, <1>5, <1>6, <2>1, RecordsSame, Zenon
       DEF Records!CheckIn, Records!Written, Apply, Content
  <2> QED
    BY <1>1, <1>4, <2>2, RecordsSame, Zenon DEF Records!Next
<1>7. CASE w.op = "update" /\ store[k].exists
  <2>1. /\ w.checkOut = Stamp(w.date) /\ Leq(w.checkIn.at, w.date)
        /\ w.checkIn # Blank
    BY <1>1, <1>7, Zenon DEF GoodWrite, GoodContent, GoodTime
  <2>2. w.checkIn = Stamp(w.checkIn.at) /\ w.checkIn.at \in Instants
    BY <1>4, <2>1, TimesHaveInstants, Zenon DEF Times, Stamps
  <2>3. Records!CheckOut(k, w.date, w.checkIn.at)
    BY <1>3, <1>5, <1>7, <2>1, <2>2, RecordsSame, Zenon
       DEF Records!CheckOut, Records!Written, Apply, Content
  <2> QED
    BY <1>1, <1>4, <2>2, <2>3, RecordsSame, Zenon DEF Records!Next
<1>8. CASE w.op = "update" /\ ~store[k].exists
  BY <1>2, <1>3, <1>8, Zenon DEF Apply
<1> QED
  BY <1>4, <1>6, <1>7, <1>8, Zenon

\* All the devices together only check days in and complete the records that
\* are there.
THEOREM Refinement == Spec => RecordsRefined
<1>1. Init => Records!Init
  BY RecordsSame, Zenon DEF Init, Records!Init
<1>2. IInv /\ [Next]_vars => [Records!Next]_store
  <2> SUFFICES ASSUME IInv, [Next]_vars PROVE Records!Next \/ store' = store
    OBVIOUS
  <2>1. CASE \E s \in Slots : CheckInNow(s) \/ CheckOutNow(s)
    BY <2>1, Zenon DEF CheckInNow, CheckOutNow
  <2> QED
    BY <2>1, FlushRefines, QueueSteps, Zenon
<1> QED
  BY <1>1, <1>2, Invariant, PTL DEF Spec, RecordsRefined, Records!Spec

(***************************************************************************)
(* What a device reads.  Views looks only at the last pending write of a   *)
(* document; these equations are those of replaying the queue on the       *)
(* server's document, write by write.                                      *)
(***************************************************************************)

LEMMA SeenExists ==
    ASSUME NEW doc, NEW q, NEW k, NEW v \in Views(doc, q, k), Visible(doc, q, k)
    PROVE  v.exists
<1>1. CASE Pending(q, k) = {}
  BY <1>1, Zenon DEF Views, Visible
<1>2. CASE Pending(q, k) # {}
  BY <1>2 DEF Views, Content
<1> QED
  BY <1>1, <1>2, Zenon

Flushed(st, w) == [st EXCEPT ![w.key] = Apply(st[w.key], w)]

\* The server takes the first write of q.
LEMMA FlushedDocs ==
    ASSUME NEW st \in [Days -> Docs], NEW w \in Writes, NEW k \in Days
    PROVE  /\ Flushed(st, w)[k] =
                 IF k = w.key /\ (w.op = "set" \/ st[k].exists) THEN Content(w) ELSE st[k]
           /\ Flushed(st, w)[k].exists <=>
                 st[k].exists \/ (w.op = "set" /\ w.key = k)
<1>1. Content(w).exists
  BY ContentType, Zenon
<1>2. Flushed(st, w)[k] =
         IF k = w.key /\ (w.op = "set" \/ st[k].exists) THEN Content(w) ELSE st[k]
  BY Zenon DEF Flushed, Apply
<1> QED
  BY <1>1, <1>2, Zenon

LEMMA FlushDoes ==
    ASSUME NEW d \in Devices, TypeOK, Flush(d)
    PROVE  /\ queue[d] \in Seq(Writes) /\ queue[d] # <<>> /\ Head(queue[d]) \in Writes
           /\ store' = Flushed(store, Head(queue[d]))
           /\ queue'[d] = Tail(queue[d])
           /\ queue' = [queue EXCEPT ![d] = Tail(queue[d])]
           /\ UNCHANGED <<now, checkedIn, checkOut, getRecord, submit, posted>>
<1>1. queue[d] \in Seq(Writes) /\ queue[d] # <<>>
  BY Zenon DEF Flush, TypeOK
<1>2. Head(queue[d]) \in Writes
  BY <1>1
<1>3. queue' = [queue EXCEPT ![d] = Tail(queue[d])]
  BY Zenon DEF Flush
<1>4. queue'[d] = Tail(queue[d])
  BY <1>3, Zenon DEF TypeOK
<1> QED
  BY <1>1, <1>2, <1>3, <1>4, Zenon DEF Flush, Flushed, screen

IsDoc(doc) == doc.exists \/ doc = Absent

Reads(doc, q, k, v) == Views(doc, q, k) = {v}

\* With nothing pending a device reads the server's document.
LEMMA ReadEmpty ==
    ASSUME NEW doc, IsDoc(doc), NEW k
    PROVE  Views(doc, <<>>, k) = {doc}
<1>1. Pending(<<>>, k) = {}
  BY DEF Pending
<1> QED
  BY <1>1, Zenon DEF Views, Visible, IsDoc

LEMMA LastPending ==
    ASSUME NEW doc, NEW q \in Seq(Writes), NEW k, NEW i \in Pending(q, k),
           \A j \in Pending(q, k) : j <= i, Visible(doc, q, k)
    PROVE  Reads(doc, q, k, Content(q[i]))
<1>1. \A j \in Pending(q, k) : j \in Int
  BY DEF Pending
<1>2. {m \in Pending(q, k) : \A j \in Pending(q, k) : j <= m} = {i}
  BY <1>1
<1>3. Views(doc, q, k) =
         {Content(q[j]) : j \in {m \in Pending(q, k) : \A j \in Pending(q, k) : j <= m}}
  BY Zenon DEF Views
<1> QED
  BY <1>2, <1>3, Zenon DEF Reads

\* A write that is queued is read back at once, on top of what was read before.
LEMMA ReadOwnWrite ==
    ASSUME NEW doc, IsDoc(doc), NEW q \in Seq(Writes), NEW w \in Writes, NEW k,
           NEW v, Reads(doc, q, k, v)
    PROVE  Reads(doc, Append(q, w), k, IF w.key = k THEN Apply(v, w) ELSE v)
<1> DEFINE p == Append(q, w)
<1>1. /\ p \in Seq(Writes) /\ Len(p) = Len(q) + 1 /\ Len(q) \in Nat
      /\ \A i \in 1..Len(q) : p[i] = q[i]
      /\ p[Len(q) + 1] = w
  OBVIOUS
<1>2. Visible(doc, p, k) <=> Visible(doc, q, k) \/ (w.op = "set" /\ w.key = k)
  BY <1>1 DEF Visible, Pending
<1>3. CASE w.key # k
  <2>1. Pending(p, k) = Pending(q, k)
    BY <1>1, <1>3 DEF Pending
  <2>2. \A i \in Pending(q, k) : p[i] = q[i]
    BY <1>1, Zenon DEF Pending
  <2>3. Views(doc, p, k) = Views(doc, q, k)
    BY <1>2, <1>3, <2>1, <2>2, Zenon DEF Views
  <2> QED
    BY <1>3, <2>3, Zenon DEF Reads
<1>4. CASE w.key = k
  <2>1. Len(q) + 1 \in Pending(p, k) /\ \A j \in Pending(p, k) : j <= Len(q) + 1
    BY <1>1, <1>4 DEF Pending
  <2>2. CASE Visible(doc, p, k)
    <3>1. Reads(doc, p, k, Content(p[Len(q) + 1]))
      BY <1>1, <2>1, <2>2, LastPending, Zenon
    <3>2. w.op = "set" \/ v.exists
      BY <1>2, <2>2, SeenExists, Zenon DEF Reads
    <3>3. Apply(v, w) = Content(w)
      BY <3>2, Zenon DEF Apply
    <3> QED
      BY <1>1, <1>4, <3>1, <3>3, Zenon
  <2>3. CASE ~Visible(doc, p, k)
    <3>1. Views(doc, p, k) = {Absent} /\ Views(doc, q, k) = {Absent} /\ w.op # "set"
      BY <1>2, <1>4, <2>3, Zenon DEF Views
    <3>2. v = Absent /\ ~Absent.exists
      BY <3>1, Zenon DEF Absent, Reads
    <3> QED
      BY <1>4, <3>1, <3>2, Zenon DEF Apply, Reads
  <2> QED
    BY <2>2, <2>3, Zenon
<1> QED
  BY <1>3, <1>4, Zenon

LEMMA PendingTail ==
    ASSUME NEW q \in Seq(Writes), q # <<>>, NEW k
    PROVE  /\ \A i \in Pending(Tail(q), k) :
                 i + 1 \in Pending(q, k) /\ Tail(q)[i] = q[i + 1] /\ i \in Nat \ {0}
           /\ \A i \in Pending(q, k) :
                 i \in Nat \ {0} /\ (i = 1 \/ i - 1 \in Pending(Tail(q), k))
           /\ 1 \in Pending(q, k) <=> Head(q).key = k
<1>1. /\ Len(Tail(q)) = Len(q) - 1 /\ Len(q) \in Nat /\ Len(q) >= 1 /\ Head(q) = q[1]
      /\ \A i \in 1..Len(Tail(q)) : Tail(q)[i] = q[i + 1]
  OBVIOUS
<1> QED
  BY <1>1 DEF Pending

LEMMA VisibleTail ==
    ASSUME NEW q \in Seq(Writes), q # <<>>, NEW k, NEW a, NEW b,
           b.exists <=> a.exists \/ (Head(q).op = "set" /\ Head(q).key = k)
    PROVE  Visible(b, Tail(q), k) <=> Visible(a, q, k)
<1>1. Head(q) = q[1]
  OBVIOUS
<1>2. ASSUME NEW i \in Pending(Tail(q), k)
      PROVE  i + 1 \in Pending(q, k) /\ Tail(q)[i] = q[i + 1]
  BY PendingTail, Zenon
<1>3. ASSUME NEW i \in Pending(q, k), i # 1
      PROVE  i - 1 \in Pending(Tail(q), k) /\ Tail(q)[i - 1] = q[i]
  <2>1. i \in Nat /\ i - 1 \in Pending(Tail(q), k)
    BY <1>3, PendingTail, Zenon
  <2>2. Tail(q)[i - 1] = q[(i - 1) + 1]
    BY <1>2, <2>1, Zenon
  <2>3. (i - 1) + 1 = i
    BY <2>1
  <2> QED
    BY <2>1, <2>2, <2>3, Zenon
<1>4. 1 \in Pending(q, k) <=> Head(q).key = k
  BY PendingTail, Zenon
<1>5. ASSUME Visible(b, Tail(q), k) PROVE Visible(a, q, k)
  <2>1. CASE b.exists
    BY <1>1, <1>4, <2>1, Zenon DEF Visible
  <2>2. CASE ~b.exists
    BY <1>2, <1>5, <2>2, Zenon DEF Visible
  <2> QED
    BY <2>1, <2>2, Zenon
<1>6. ASSUME Visible(a, q, k) PROVE Visible(b, Tail(q), k)
  <2>1. CASE b.exists
    BY <2>1, Zenon DEF Visible
  <2>2. CASE ~b.exists
    BY <1>1, <1>3, <1>4, <1>6, <2>2, Zenon DEF Visible
  <2> QED
    BY <2>1, <2>2, Zenon
<1> QED
  BY <1>5, <1>6, Zenon

\* Which of the first n writes of q are to day k.
Upto(q, k, n) == {i \in 1..n : q[i].key = k}

Last(S) == \E i \in S : \A j \in S : j <= i

\* Every beginning of q with a write to a day has a last one.  That any finite
\* set of places has is a fact of induction; that those of a queue have is an
\* invariant of adding at the end and taking from the front.
HasLast(q) == \A k : \A n \in 0..Len(q) : Upto(q, k, n) # {} => Last(Upto(q, k, n))

LEMMA TailHasLast ==
    ASSUME NEW q \in Seq(Writes), q # <<>>, HasLast(q)
    PROVE  HasLast(Tail(q))
<1>1. /\ Len(Tail(q)) = Len(q) - 1 /\ Len(q) \in Nat
      /\ \A i \in 1..Len(Tail(q)) : Tail(q)[i] = q[i + 1]
  OBVIOUS
<1> SUFFICES ASSUME NEW k, NEW n \in 0..Len(Tail(q)), NEW m \in Upto(Tail(q), k, n)
             PROVE  Last(Upto(Tail(q), k, n))
  BY Zenon DEF HasLast
<1>2. \A i \in Upto(Tail(q), k, n) : i \in 1..n /\ i + 1 \in Upto(q, k, n + 1)
  BY <1>1 DEF Upto
<1>3. \A i \in Upto(q, k, n + 1) : i \in 1..(n + 1) /\ (i = 1 \/ i - 1 \in Upto(Tail(q), k, n))
  BY <1>1 DEF Upto
<1>4. n + 1 \in 0..Len(q)
  BY <1>1
<1>5. PICK i \in Upto(q, k, n + 1) : \A j \in Upto(q, k, n + 1) : j <= i
  BY <1>2, <1>4, Zenon DEF HasLast, Last
<1>6. i - 1 \in Upto(Tail(q), k, n)
  BY <1>2, <1>3, <1>5
<1>7. \A j \in Upto(Tail(q), k, n) : j <= i - 1
  BY <1>2, <1>3, <1>5
<1> QED
  BY <1>6, <1>7, Zenon DEF Last

LEMMA AppendHasLast ==
    ASSUME NEW q \in Seq(Writes), NEW w, HasLast(q)
    PROVE  HasLast(Append(q, w))
<1> DEFINE p == Append(q, w)
<1>1. /\ Len(p) = Len(q) + 1 /\ Len(q) \in Nat
      /\ \A i \in 1..Len(q) : p[i] = q[i]
      /\ p[Len(q) + 1] = w
  OBVIOUS
<1> HIDE DEF p
<1> SUFFICES ASSUME NEW k, NEW n \in 0..Len(p), Upto(p, k, n) # {}
             PROVE  Last(Upto(p, k, n))
  BY Zenon DEF HasLast, p
<1>2. CASE n \in 0..Len(q)
  <2>1. Upto(p, k, n) = Upto(q, k, n)
    BY <1>1, <1>2 DEF Upto
  <2> QED
    BY <1>2, <2>1, Zenon DEF HasLast
<1>3. CASE n = Len(q) + 1 /\ w.key = k
  <2>1. n \in Upto(p, k, n) /\ \A j \in Upto(p, k, n) : j <= n
    BY <1>1, <1>3 DEF Upto
  <2> QED
    BY <2>1, Zenon DEF Last
<1>4. CASE n = Len(q) + 1 /\ w.key # k
  <2>1. Upto(p, k, n) = Upto(q, k, Len(q)) /\ Len(q) \in 0..Len(q)
    BY <1>1, <1>4 DEF Upto
  <2> QED
    BY <2>1, Zenon DEF HasLast
<1> QED
  BY <1>1, <1>2, <1>3, <1>4

LEMMA PrefixHasLast ==
    ASSUME NEW q \in Seq(Writes), HasLast(q), NEW m \in 0..Len(q)
    PROVE  HasLast(SubSeq(q, 1, m))
<1> DEFINE p == SubSeq(q, 1, m)
<1>1. Len(p) = m /\ Len(q) \in Nat /\ \A i \in 1..m : p[i] = q[i]
  OBVIOUS
<1> HIDE DEF p
<1>2. ASSUME NEW k, NEW n \in 0..m PROVE Upto(p, k, n) = Upto(q, k, n) /\ n \in 0..Len(q)
  BY <1>1 DEF Upto
<1>3. HasLast(p)
  BY <1>1, <1>2, Zenon DEF HasLast
<1> QED
  BY <1>3, Zenon DEF p

LEMMA PendingHasLast ==
    ASSUME NEW q \in Seq(Writes), HasLast(q), NEW k, Pending(q, k) # {}
    PROVE  \E i \in Pending(q, k) : \A j \in Pending(q, k) : j <= i
<1>1. Pending(q, k) = Upto(q, k, Len(q)) /\ Len(q) \in 0..Len(q)
  BY DEF Pending, Upto
<1> QED
  BY <1>1, Zenon DEF HasLast, Last

LastInv == \A d \in Devices : HasLast(queue[d])

LEMMA LastAlways == Spec => []LastInv
<1>1. Init => LastInv
  BY DEF Init, LastInv, HasLast, Upto
<1>2. ASSUME TypeOK, LastInv, [Next]_vars PROVE LastInv'
  <2>1. CASE UNCHANGED <<queue, store>>
    BY <1>2, <2>1, Zenon DEF LastInv
  <2>2. ASSUME NEW d \in Devices, Flush(d) PROVE LastInv'
    <3>1. /\ queue[d] \in Seq(Writes) /\ queue[d] # <<>>
          /\ queue' = [queue EXCEPT ![d] = Tail(queue[d])]
      BY <1>2, <2>2, FlushDoes, Zenon
    <3>2. HasLast(Tail(queue[d]))
      BY <1>2, <3>1, TailHasLast, Zenon DEF LastInv
    <3> QED
      BY <1>2, <3>1, <3>2, Zenon DEF LastInv, TypeOK
  <2>3. ASSUME NEW s \in Slots, CheckInNow(s) \/ CheckOutNow(s) PROVE LastInv'
    <3> DEFINE d == Owner[s]
    <3>1. PICK w : queue' = [queue EXCEPT ![d] = Append(queue[d], w)]
      BY <2>3, Zenon DEF CheckInNow, CheckOutNow, Enqueue
    <3>2. d \in Devices /\ queue[d] \in Seq(Writes)
      BY <1>2, Zenon DEF TypeOK
    <3>3. HasLast(Append(queue[d], w))
      BY <1>2, <3>2, AppendHasLast, Zenon DEF LastInv
    <3> QED
      BY <1>2, <3>1, <3>2, <3>3, Zenon DEF LastInv, TypeOK
  <2> QED
    BY <1>2, <2>1, <2>2, <2>3, QueueSteps, Zenon
<1> QED
  BY <1>1, <1>2, TypeCorrect, PTL DEF Spec

\* A device reads the same before and after the server takes its first write.
LEMMA ReadPastFlush ==
    ASSUME TypeOK, LastInv, NEW d \in Devices, Flush(d), NEW k \in Days
    PROVE  Views(store'[k], queue'[d], k) = Views(store[k], queue[d], k)
<1> DEFINE q == queue[d]
           w == Head(q)
<1>0. store \in [Days -> Docs]
  BY Zenon DEF TypeOK
<1>1. /\ q \in Seq(Writes) /\ q # <<>> /\ w \in Writes /\ store' = Flushed(store, w)
      /\ queue'[d] = Tail(q)
  BY FlushDoes, Zenon
<1>2. Tail(q) \in Seq(Writes) /\ w = q[1] /\ HasLast(Tail(q))
  BY <1>1, TailHasLast DEF LastInv
<1>3. Visible(store'[k], Tail(q), k) <=> Visible(store[k], q, k)
  <2>1. store'[k].exists <=> store[k].exists \/ (w.op = "set" /\ w.key = k)
    BY <1>0, <1>1, FlushedDocs
  <2> QED
    BY <1>1, <2>1, VisibleTail, Zenon
<1>4. CASE ~Visible(store[k], q, k)
  BY <1>1, <1>3, <1>4, Zenon DEF Views
<1>5. CASE Visible(store[k], q, k) /\ Pending(Tail(q), k) = {}
  <2>1. Views(store'[k], Tail(q), k) = {store'[k]}
    BY <1>3, <1>5, Zenon DEF Views
  <2>2. ASSUME NEW i \in Pending(q, k) PROVE i = 1
    <3>1. i # 1 => i - 1 \in Pending(Tail(q), k)
      BY <1>1, PendingTail, Zenon
    <3> QED
      BY <1>5, <3>1, Zenon
  <2>3. CASE w.key = k
    <3>1. 1 \in Pending(q, k) /\ \A j \in Pending(q, k) : j <= 1
      BY <1>1, <2>2, <2>3, PendingTail
    <3>a. Reads(store[k], q, k, Content(q[1]))
      BY <1>1, <1>5, <3>1, LastPending, Zenon
    <3>2. Views(store[k], q, k) = {Content(w)}
      BY <1>2, <3>a, Zenon DEF Reads
    <3>3. w.op = "set" \/ store[k].exists
      BY <1>2, <1>5, <2>2, Zenon DEF Visible
    <3>4. store'[k] = Content(w)
      BY <1>0, <1>1, <2>3, <3>3, FlushedDocs
    <3> QED
      BY <1>1, <2>1, <3>2, <3>4, Zenon
  <2>4. CASE w.key # k
    <3>1. Pending(q, k) = {}
      BY <1>1, <2>2, <2>4, PendingTail
    <3>2. store'[k] = store[k]
      BY <1>0, <1>1, <2>4, FlushedDocs, Zenon
    <3>3. Views(store[k], q, k) = {store[k]}
      BY <1>5, <3>1, Zenon DEF Views
    <3> QED
      BY <1>1, <2>1, <3>2, <3>3, Zenon
  <2> QED
    BY <2>3, <2>4, Zenon
<1>6. CASE Visible(store[k], q, k) /\ Pending(Tail(q), k) # {}
  <2>1. PICK i \in Pending(Tail(q), k) : \A j \in Pending(Tail(q), k) : j <= i
    BY <1>2, <1>6, PendingHasLast, Zenon
  <2>2. i + 1 \in Pending(q, k) /\ Tail(q)[i] = q[i + 1] /\ i \in Nat \ {0}
    BY <1>1, PendingTail, Zenon
  <2>3. ASSUME NEW j \in Pending(q, k) PROVE j <= i + 1
    <3>1. j \in Nat \ {0} /\ (j = 1 \/ j - 1 \in Pending(Tail(q), k))
      BY <1>1, PendingTail, Zenon
    <3> QED
      BY <2>1, <2>2, <3>1
  <2>4. Reads(store[k], q, k, Content(q[i + 1]))
    BY <1>1, <1>6, <2>2, <2>3, LastPending, Zenon
  <2>a. Visible(store'[k], Tail(q), k)
    BY <1>3, <1>6, Zenon
  <2>5. Reads(store'[k], Tail(q), k, Content(Tail(q)[i]))
    BY <1>2, <2>1, <2>a, LastPending, Zenon
  <2> QED
    BY <1>1, <2>2, <2>4, <2>5, Zenon DEF Reads
<1> QED
  BY <1>4, <1>5, <1>6, Zenon

LEMMA ReadsOne ==
    ASSUME NEW doc, NEW q \in Seq(Writes), HasLast(q), NEW k
    PROVE  \E v : Reads(doc, q, k, v)
<1>1. CASE ~Visible(doc, q, k)
  BY <1>1, Zenon DEF Views, Reads
<1>2. CASE Visible(doc, q, k) /\ Pending(q, k) = {}
  BY <1>2, Zenon DEF Views, Reads
<1>3. CASE Visible(doc, q, k) /\ Pending(q, k) # {}
  BY <1>3, PendingHasLast, LastPending, Zenon
<1> QED
  BY <1>1, <1>2, <1>3, Zenon

\* A device reads the server's document with its pending writes replayed on
\* it, for queues of any length.
THEOREM ReadsAlwaysReplay == Spec => []ReadsReplayQueue
<1>1. IInv /\ LastInv => ReadsReplayQueue
  <2> SUFFICES ASSUME IInv, LastInv, NEW d \in Devices, NEW k \in Days
               PROVE  LET q == queue[d]
                          Seen(n) == Views(store[k], SubSeq(q, 1, n), k)
                      IN  /\ Seen(0) = {store[k]}
                          /\ \A n \in 1..Len(q) :
                                Seen(n) = {IF q[n].key = k THEN Apply(v, q[n]) ELSE v :
                                              v \in Seen(n - 1)}
    BY Zenon DEF ReadsReplayQueue
  <2> DEFINE q == queue[d]
             Seen(n) == Views(store[k], SubSeq(q, 1, n), k)
  <2>1. q \in Seq(Writes) /\ IsDoc(store[k]) /\ HasLast(q)
    BY Zenon DEF IInv, TypeOK, StoreInv, GoodDoc, IsDoc, LastInv
  <2>2. Seen(0) = {store[k]}
    <3>1. SubSeq(q, 1, 0) = <<>>
      BY <2>1
    <3> QED
      BY <2>1, <3>1, ReadEmpty, Zenon
  <2>3. ASSUME NEW n \in 1..Len(q)
        PROVE  Seen(n) = {IF q[n].key = k THEN Apply(v, q[n]) ELSE v : v \in Seen(n - 1)}
    <3> DEFINE p == SubSeq(q, 1, n - 1)
    <3>1. p \in Seq(Writes) /\ q[n] \in Writes /\ SubSeq(q, 1, n) = Append(p, q[n])
      <4>1. n \in Nat /\ n - 1 \in Nat /\ n <= Len(q) /\ Len(q) \in Nat
        BY <2>1
      <4>2. /\ p \in Seq(Writes) /\ Len(p) = n - 1
            /\ \A i \in 1..(n - 1) : p[i] = q[i]
        BY <2>1, <4>1
      <4>3. /\ SubSeq(q, 1, n) \in Seq(Writes) /\ Len(SubSeq(q, 1, n)) = n
            /\ \A i \in 1..n : SubSeq(q, 1, n)[i] = q[i]
        BY <2>1, <4>1
      <4>4. q[n] \in Writes
        BY <2>1
      <4>5. /\ Append(p, q[n]) \in Seq(Writes) /\ Len(Append(p, q[n])) = n
            /\ \A i \in 1..n : Append(p, q[n])[i] = q[i]
        BY <4>1, <4>2, <4>4
      <4> HIDE DEF p
      <4> QED
        BY <4>1, <4>2, <4>3, <4>4, <4>5
    <3>a. n - 1 \in 0..Len(q)
      BY <2>1
    <3>2. PICK v : Reads(store[k], p, k, v)
      BY <2>1, <3>1, <3>a, PrefixHasLast, ReadsOne, Zenon
    <3>3. Reads(store[k], Append(p, q[n]), k, IF q[n].key = k THEN Apply(v, q[n]) ELSE v)
      BY <2>1, <3>1, <3>2, ReadOwnWrite, Zenon
    <3>4. Seen(n - 1) = {v} /\ Seen(n) = {IF q[n].key = k THEN Apply(v, q[n]) ELSE v}
      BY <3>1, <3>2, <3>3, Zenon DEF Reads
    <3> QED
      BY <3>4, Zenon
  <2> QED
    BY <2>2, <2>3, Zenon
<1> QED
  BY <1>1, Invariant, LastAlways, PTL

\* The server's taking of a write is invisible to the device it came from,
\* whenever that happens.
THEOREM FlushUnseen ==
    Spec => [][\A d \in Devices :
                  Flush(d) => \A k \in Days :
                      Views(store'[k], queue'[d], k) = Views(store[k], queue[d], k)]_vars
<1>1. IInv => TypeOK
  BY Zenon DEF IInv
<1>2. TypeOK /\ LastInv => \A d \in Devices :
         Flush(d) => \A k \in Days :
             Views(store'[k], queue'[d], k) = Views(store[k], queue[d], k)
  BY ReadPastFlush, Zenon
<1> QED
  BY <1>1, <1>2, Invariant, LastAlways, PTL
==============================================================================
