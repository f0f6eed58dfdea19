---------------------------- MODULE ProfileProofs ----------------------------
(***************************************************************************)
(* Profile for any number of employees, screens, texts and pending writes. *)
(* A profile travels from SAVE through the queue to the document, through  *)
(* a snapshot back to another screen, and from SAVE to the screen at once. *)
(* The invariants say the same of it at each of these places.  That a      *)
(* locked profile stays as it is rests on CareInv of ProfileCare: one      *)
(* update is pending at most, snapshots are not out of date, and a screen  *)
(* that offers SAVE in spite of a lock is about to be told.                *)
(***************************************************************************)
EXTENDS ProfileCare, HomeScreenProofs

USE TextsAssumption, MaxQueueAssumption

\* Nobody but the people of S has typed into p.
ByOnly(p, S) == p.first.by \in S /\ p.rest.by \in S

\* p was saved as a whole.
Whole(p) == p.first = p.rest /\ p.rest # Blank

LockInv ==
    /\ \A e \in Employees : doc[e].canEdit = "false" => Whole(doc[e].profile)
    /\ \A i \in 1..Len(queue) : Whole(queue[i].profile)
    /\ \A s \in Screens :
          /\ cred[s].snap.canEdit = "false" => Whole(cred[s].snap.profile)
          /\ cred[s].pc = "get" => cred[s].who \in Employees
          /\ save[s].pc = "update" => Whole(save[s].profile)
    /\ ~canEdit => profile.first = profile.rest

\* As long as no process serves two employees.
OwnInv ==
    /\ \A e \in Employees : /\ doc[e].profile.first.by = e
                            /\ doc[e].profile.rest.by \in {Nobody, e}
    /\ \A i \in 1..Len(queue) :
          queue[i].to \in Employees => ByOnly(queue[i].profile, {queue[i].to})
    /\ \A s \in Screens :
          /\ cred[s].who \in {Nobody, employeeId}
          /\ ByOnly(cred[s].snap.profile, {Nobody, employeeId})
          /\ ByOnly(save[s].profile, {Nobody, employeeId})
    /\ ByOnly(profile, {Nobody, employeeId})

ProfileInv ==
    /\ HomeInv /\ TypeOK /\ LockInv
    /\ ~mixed => OwnInv

(***************************************************************************)
(* The records.                                                            *)
(***************************************************************************)

LEMMA FieldType ==
    ASSUME NEW e \in People, NEW x \in Texts \cup {"none", "name"}
    PROVE  /\ Field(e, x) \in Fields
           /\ Field(e, x).by = e /\ Field(e, x).text = x
BY Zenon DEF Field, Fields

LEMMA BlankType == Blank \in Fields /\ Blank.by = Nobody /\ Blank.text = "none"
BY FieldType, Zenon DEF Blank, People

LEMMA FormType ==
    ASSUME NEW f \in Fields, NEW r \in Fields, NEW b \in Births
    PROVE  /\ Form(f, r, b) \in Profiles
           /\ Form(f, r, b).first = f /\ Form(f, r, b).rest = r
           /\ Form(f, r, b).birth = b
BY Zenon DEF Form, Profiles

LEMMA NoProfileType ==
    /\ NoProfile \in Profiles
    /\ NoProfile.first = Blank /\ NoProfile.rest = Blank
BY BlankType, FormType DEF NoProfile, Births

LEMMA DocType ==
    ASSUME NEW c \in {"absent", "true", "false"}, NEW p \in Profiles
    PROVE  Doc(c, p) \in Docs /\ Doc(c, p).canEdit = c /\ Doc(c, p).profile = p
BY Zenon DEF Doc, Docs

LEMMA RegisteredType ==
    ASSUME NEW e \in Employees
    PROVE  /\ Registered(e) \in Docs /\ Registered(e).canEdit = "absent"
           /\ Registered(e).profile.first.by = e
           /\ Registered(e).profile.rest.by = Nobody
<1>1. Field(e, "name") \in Fields /\ Field(e, "name").by = e
  BY FieldType, Zenon DEF People
<1>2. "none" \in Births
  BY Zenon DEF Births
<1>3. /\ Form(Field(e, "name"), Blank, "none") \in Profiles
      /\ Form(Field(e, "name"), Blank, "none").first = Field(e, "name")
      /\ Form(Field(e, "name"), Blank, "none").rest = Blank
  BY <1>1, <1>2, BlankType, FormType
<1> QED
  BY <1>1, <1>3, BlankType, DocType DEF Registered

LEMMA UpdateType ==
    ASSUME NEW to \in People, NEW p \in Profiles
    PROVE  /\ Update(to, p) \in Updates
           /\ Update(to, p).to = to /\ Update(to, p).profile = p
BY Zenon DEF Update, Updates

LEMMA CredType ==
    ASSUME NEW pc \in {"idle", "get", "got"}, NEW e \in People, NEW d \in Docs
    PROVE  /\ Cred(pc, e, d) \in Creds /\ Cred(pc, e, d).pc = pc
           /\ Cred(pc, e, d).who = e /\ Cred(pc, e, d).snap = d
BY Zenon DEF Cred, Creds

LEMMA NoCredType ==
    /\ NoCred \in Creds /\ NoCred.pc = "idle" /\ NoCred.who = Nobody
    /\ NoCred.snap.canEdit = "absent" /\ NoCred.snap.profile = NoProfile
BY NoProfileType, DocType, CredType DEF NoCred, People

LEMMA SaveType ==
    ASSUME NEW pc \in {"idle", "update"}, NEW to \in People, NEW p \in Profiles,
           NEW left \in 0..MaxQueue
    PROVE  /\ Save(pc, to, p, left) \in Saves /\ Save(pc, to, p, left).pc = pc
           /\ Save(pc, to, p, left).to = to /\ Save(pc, to, p, left).profile = p
BY Zenon DEF Save, Saves

LEMMA NoSaveType ==
    /\ NoSave \in Saves /\ NoSave.pc = "idle" /\ NoSave.profile = NoProfile
<1>1. 0 \in 0..MaxQueue
  OBVIOUS
<1> QED
  BY <1>1, NoProfileType, SaveType DEF NoSave, People

LEMMA CountdownType ==
    ASSUME NEW h \in Saves
    PROVE  /\ Countdown(h) \in Saves /\ Countdown(h).pc = h.pc
           /\ Countdown(h).to = h.to /\ Countdown(h).profile = h.profile
<1>1. /\ h.pc \in {"idle", "update"} /\ h.to \in People /\ h.profile \in Profiles
      /\ h.left \in 0..MaxQueue
  BY Zenon DEF Saves
<1>2. (IF h.left > 0 THEN h.left - 1 ELSE 0) \in 0..MaxQueue
  BY <1>1
<1> QED
  BY <1>1, <1>2, SaveType DEF Countdown

\* What SAVE sends.
LEMMA TypedType ==
    ASSUME TypeOK, NEW s \in Screens, NEW x \in Texts
    PROVE  /\ Typed(s, x) \in Profiles /\ Whole(Typed(s, x))
           /\ ByOnly(Typed(s, x), {employeeId})
<1>1. /\ Field(employeeId, x) \in Fields /\ Field(employeeId, x).by = employeeId
      /\ Field(employeeId, x).text = x
  BY FieldType, Zenon DEF TypeOK
<1>2. Field(employeeId, x) # Blank
  BY <1>1, BlankType, Zenon
<1>3. birth[s] \in Births
  BY Zenon DEF TypeOK
<1>4. Typed(s, x) \in Profiles /\ Typed(s, x).first = Field(employeeId, x)
      /\ Typed(s, x).rest = Field(employeeId, x)
  BY <1>1, <1>3, FormType DEF Typed
<1> QED
  BY <1>1, <1>2, <1>4, Zenon DEF Whole, ByOnly

(***************************************************************************)
(* The steps.                                                              *)
(***************************************************************************)

LEMMA ProfileInitial == Init => ProfileInv
<1> SUFFICES ASSUME Init PROVE ProfileInv
  OBVIOUS
<1>1. HomeInv
  BY HomeInitial, Zenon DEF Init
<1>2. TypeOK
  BY <1>1, RegisteredType, NoProfileType, NoCredType, NoSaveType
     DEF Init, TypeOK, HomeInv, Births
<1>3. LockInv
  BY RegisteredType, NoProfileType, NoCredType, NoSaveType DEF Init, LockInv
<1>4. OwnInv
  BY RegisteredType, NoProfileType, BlankType, NoCredType, NoSaveType
     DEF Init, OwnInv, ByOnly
<1> QED
  BY <1>1, <1>2, <1>3, <1>4, Zenon DEF ProfileInv

LEMMA MountHomeKeeps ==
    ASSUME ProfileInv, NEW s \in Screens, NEW e \in People, MountHome(s, e)
    PROVE  ProfileInv'
<1> USE DEF ProfileInv
<1>1. HomeInv' /\ employeeId' = e /\ (mixed => mixed')
  BY MountKeeps, Zenon DEF MountHome
<1>2. UNCHANGED <<doc, queue, canEdit, profile, cred, save>>
  BY Zenon DEF MountHome, server, user
<1>3. TypeOK'
  BY <1>1, <1>2, Zenon DEF MountHome, TypeOK, HomeInv, Births
<1>4. LockInv'
  BY <1>2, Zenon DEF LockInv
<1>5. ASSUME ~mixed' PROVE OwnInv'
  <2>1. ~mixed /\ employeeId \in {Nobody, e}
    BY <1>1, <1>5, Zenon DEF MountHome, Mount
  <2> QED
    BY <1>1, <1>2, <2>1, Zenon DEF OwnInv, ByOnly
<1> QED
  BY <1>1, <1>3, <1>4, <1>5, Zenon

LEMMA KillKeeps ==
    ASSUME ProfileInv, Kill
    PROVE  ProfileInv'
<1> USE DEF ProfileInv
<1>1. HomeInv' /\ mixed' = mixed
  BY ResetKeeps, Zenon DEF Kill
<1>2. TypeOK'
  BY <1>1, NoProfileType, NoCredType, NoSaveType, Zenon
     DEF Kill, TypeOK, HomeInv, Births, server
<1>3. LockInv'
  BY NoProfileType, NoCredType, NoSaveType, Zenon DEF Kill, LockInv, server
<1>4. ~mixed => OwnInv'
  BY NoProfileType, BlankType, NoCredType, NoSaveType
     DEF Kill, OwnInv, ByOnly, server
<1> QED
  BY <1>1, <1>2, <1>3, <1>4, Zenon

\* Only the birth field of a screen changes.
LEMMA BirthKeeps ==
    ASSUME ProfileInv, NEW s \in Screens, Leave(s) \/ PickDate(s)
    PROVE  ProfileInv'
<1>1. UNCHANGED homeVars /\ UNCHANGED <<doc, queue, canEdit, profile, cred, save>>
  BY Zenon DEF Leave, PickDate, server, user
<1>2. HomeInv'
  BY <1>1, HomeStutters, Zenon DEF ProfileInv
<1>3. birth' \in [Screens -> Births]
  BY Zenon DEF Leave, PickDate, ProfileInv, TypeOK, Births
<1> QED
  BY <1>1, <1>2, <1>3, Zenon DEF ProfileInv, TypeOK, LockInv, OwnInv, homeVars

\* _getCredentials goes on to c, and only getId's answer changes besides.
LEMMA CredKeeps ==
    ASSUME ProfileInv, NEW s \in Screens, NEW c \in Creds, HomeInv',
           cred' = [cred EXCEPT ![s] = c],
           UNCHANGED <<employeeId, mixed, doc, queue, canEdit, profile, birth, save>>,
           c.snap.canEdit = "false" => Whole(c.snap.profile),
           c.pc = "get" => c.who \in Employees,
           ~mixed => /\ c.who \in {Nobody, employeeId}
                     /\ ByOnly(c.snap.profile, {Nobody, employeeId})
    PROVE  ProfileInv'
<1> USE DEF ProfileInv
<1>1. TypeOK'
  BY Zenon DEF TypeOK, HomeInv
<1>2. LockInv'
  BY Zenon DEF LockInv, TypeOK
<1>3. ~mixed => OwnInv'
  BY Zenon DEF OwnInv, TypeOK
<1> QED
  BY <1>1, <1>2, <1>3, Zenon

LEMMA IdKeeps ==
    ASSUME ProfileInv, NEW s \in Screens, IdArrived(s) \/ IdLost(s)
    PROVE  ProfileInv'
<1> USE DEF ProfileInv
<1>1. HomeInv' /\ employeeId' = employeeId /\ mixed' = mixed
  BY AnswerKeeps, Zenon DEF IdArrived, IdLost
<1>2. UNCHANGED <<doc, queue, canEdit, profile, birth, save>>
  BY Zenon DEF IdArrived, IdLost, server, user
<1>3. CASE IdLost(s)
  BY <1>1, <1>2, <1>3, Zenon DEF IdLost, TypeOK, LockInv, OwnInv, HomeInv
<1>4. CASE IdArrived(s)
  <2> DEFINE d == cred[s].snap
  <2>1. id' \in People /\ (~mixed => id' \in {Nobody, employeeId})
    BY <1>1, Zenon DEF HomeInv
  <2>2. id' # Nobody
    BY <1>4, Zenon DEF IdArrived, IdShown
  <2>3. d \in Docs
    BY Zenon DEF TypeOK, Creds
  <2>4. cred' = [cred EXCEPT ![s] = Cred("get", id', d)]
    BY <1>4, Zenon DEF IdArrived, TypeOK
  <2>5. /\ Cred("get", id', d) \in Creds /\ Cred("get", id', d).pc = "get"
        /\ Cred("get", id', d).who = id' /\ Cred("get", id', d).snap = d
    BY <2>1, <2>3, CredType
  <2>6. /\ d.canEdit = "false" => Whole(d.profile)
        /\ ~mixed => ByOnly(d.profile, {Nobody, employeeId})
    BY Zenon DEF LockInv, OwnInv
  <2>7. id' \in Employees
    BY <2>1, <2>2, Zenon DEF People
  <2> QED
    BY <1>1, <1>2, <2>1, <2>4, <2>5, <2>6, <2>7, CredKeeps, Zenon
<1> QED
  BY <1>3, <1>4, Zenon

\* A read returns a document that is locked only if saved as a whole, and that
\* is its employee's own.
LEMMA SeenKeeps ==
    ASSUME ProfileInv, NEW e \in Employees, NEW d \in Seen(e)
    PROVE  /\ d \in Docs
           /\ d.canEdit = "false" => Whole(d.profile)
           /\ ~mixed => ByOnly(d.profile, {Nobody, e})
<1> USE DEF ProfileInv
<1>1. CASE d = doc[e]
  BY <1>1, Zenon DEF TypeOK, LockInv, OwnInv, ByOnly
<1>2. CASE \E i \in 1..Len(queue) : queue[i].to = e /\ d = Doc("false", queue[i].profile)
  <2>1. PICK i \in 1..Len(queue) : queue[i].to = e /\ d = Doc("false", queue[i].profile)
    BY <1>2, Zenon
  <2>2. queue[i] \in Updates
    BY DEF TypeOK
  <2>3. queue[i].profile \in Profiles
    BY <2>2, Zenon DEF Updates
  <2>4. d \in Docs /\ d.profile = queue[i].profile
    BY <2>1, <2>3, DocType, Zenon
  <2>5. Whole(queue[i].profile)
    BY Zenon DEF LockInv
  <2>6. ~mixed => ByOnly(queue[i].profile, {e})
    BY <2>1, Zenon DEF OwnInv
  <2> QED
    BY <2>4, <2>5, <2>6, Zenon DEF ByOnly
<1> QED
  BY <1>1, <1>2, Zenon DEF Seen, PendingProfiles

LEMMA CredentialsReadKeeps ==
    ASSUME ProfileInv, NEW s \in Screens, CredentialsRead(s) \/ CredentialsFailed(s)
    PROVE  ProfileInv'
<1> USE DEF ProfileInv
<1>1. UNCHANGED homeVars /\ UNCHANGED <<doc, queue, canEdit, profile, birth, save>>
  BY Zenon DEF CredentialsRead, CredentialsFailed, server, user
<1>2. HomeInv' /\ employeeId' = employeeId /\ mixed' = mixed
  BY <1>1, HomeStutters, Zenon DEF homeVars
<1>3. CASE CredentialsFailed(s)
  <2>1. ByOnly(NoCred.snap.profile, {Nobody, employeeId})
    BY NoCredType, NoProfileType, BlankType, Zenon DEF ByOnly
  <2> QED
    BY <1>1, <1>2, <1>3, <2>1, NoCredType, CredKeeps, Zenon DEF CredentialsFailed
<1>4. CASE CredentialsRead(s)
  <2> DEFINE e == cred[s].who
  <2>1. e \in Employees /\ (~mixed => e \in {Nobody, employeeId})
    BY <1>4, Zenon DEF CredentialsRead, LockInv, OwnInv
  <2>2. PICK d \in Seen(e) : cred' = [cred EXCEPT ![s] = Cred("got", e, d)]
    BY <1>4, Zenon DEF CredentialsRead
  <2>3. /\ d \in Docs
        /\ d.canEdit = "false" => Whole(d.profile)
        /\ ~mixed => ByOnly(d.profile, {Nobody, e})
    BY <2>1, SeenKeeps, Zenon
  <2>4. /\ Cred("got", e, d) \in Creds /\ Cred("got", e, d).pc = "got"
        /\ Cred("got", e, d).who = e /\ Cred("got", e, d).snap = d
    BY <2>1, <2>3, CredType DEF People
  <2>5. ~mixed => ByOnly(d.profile, {Nobody, employeeId})
    BY <2>1, <2>3, Zenon DEF ByOnly
  <2> QED
    BY <1>1, <1>2, <2>1, <2>2, <2>3, <2>4, <2>5, CredKeeps, Zenon
<1> QED
  BY <1>3, <1>4, Zenon
\* The fields of the snapshot go on the screen.
LEMMA CredentialsShownKeeps ==
    ASSUME ProfileInv, NEW s \in Screens, CredentialsShown(s)
    PROVE  ProfileInv'
<1> USE DEF ProfileInv
<1> DEFINE d == cred[s].snap
           mix == Form(d.profile.first, profile.rest, profile.birth)
<1>1. UNCHANGED homeVars /\ UNCHANGED <<doc, queue, birth, save>>
      /\ cred' = [cred EXCEPT ![s] = NoCred]
  BY Zenon DEF CredentialsShown, server
<1>2. HomeInv' /\ employeeId' = employeeId /\ mixed' = mixed
  BY <1>1, HomeStutters, Zenon DEF homeVars
<1>3. d \in Docs
  BY Zenon DEF TypeOK, Creds
<1>4. d.profile \in Profiles /\ profile \in Profiles
  BY <1>3, Zenon DEF Docs, TypeOK
<1>5. d.profile.first \in Fields /\ profile.rest \in Fields /\ profile.birth \in Births
  BY <1>4, Zenon DEF Profiles
<1>6. mix \in Profiles /\ mix.first = d.profile.first /\ mix.rest = profile.rest
  BY <1>5, FormType
<1>7. \/ UNCHANGED <<canEdit, profile>>
      \/ /\ d.canEdit # "absent"
         /\ canEdit' = (d.canEdit = "true")
         /\ profile' = IF d.profile.rest = Blank THEN mix ELSE d.profile
  BY Zenon DEF CredentialsShown
<1>8. canEdit' \in BOOLEAN /\ profile' \in Profiles
  BY <1>4, <1>6, <1>7, Zenon DEF TypeOK
<1>9. ~canEdit' => profile'.first = profile'.rest
  <2>1. d.canEdit \in {"absent", "true", "false"}
    BY <1>3, Zenon DEF Docs
  <2>2. d.canEdit = "false" => Whole(d.profile)
    BY Zenon DEF LockInv
  <2> QED
    BY <1>7, <2>1, <2>2, Zenon DEF LockInv, Whole
<1>10. ~mixed => ByOnly(profile', {Nobody, employeeId})
  BY <1>6, <1>7 DEF OwnInv, ByOnly
<1>11. TypeOK'
  BY <1>1, <1>8, NoCredType, Zenon DEF TypeOK, homeVars
<1>12. LockInv'
  BY <1>1, <1>9, NoCredType, Zenon DEF LockInv, TypeOK
<1>13. ~mixed => OwnInv'
  <2>1. ByOnly(NoCred.snap.profile, {Nobody, employeeId})
    BY NoCredType, NoProfileType, BlankType, Zenon DEF ByOnly
  <2> QED
    BY <1>1, <1>2, <1>10, <2>1, NoCredType, Zenon DEF OwnInv, TypeOK
<1> QED
  BY <1>2, <1>11, <1>12, <1>13, Zenon

LEMMA SaveTapKeeps ==
    ASSUME ProfileInv, NEW s \in Screens, SaveTap(s)
    PROVE  ProfileInv'
<1> USE DEF ProfileInv
<1>1. UNCHANGED homeVars /\ UNCHANGED <<doc, canEdit, profile, birth, cred>>
      /\ Len(queue) < MaxQueue
  BY Zenon DEF SaveTap, user
<1>2. HomeInv' /\ employeeId' = employeeId /\ mixed' = mixed
  BY <1>1, HomeStutters, Zenon DEF homeVars
<1>3. PICK x \in Texts :
         /\ queue' = Append(queue, Update(id, Typed(s, x)))
         /\ save' = [save EXCEPT ![s] =
                        Save("update", id, Typed(s, x), Len(queue) + 1)]
  BY Zenon DEF SaveTap
<1> DEFINE p == Typed(s, x)
           u == Update(id, p)
           h == Save("update", id, p, Len(queue) + 1)
<1>4. p \in Profiles /\ Whole(p) /\ ByOnly(p, {employeeId})
  BY TypedType, Zenon
<1>5. u \in Updates /\ u.to = id /\ u.profile = p
  BY <1>4, UpdateType, Zenon DEF TypeOK
<1>6. queue \in Seq(Updates) /\ Len(queue) + 1 \in 0..MaxQueue
  BY <1>1 DEF TypeOK
<1>7. h \in Saves /\ h.pc = "update" /\ h.profile = p
  BY <1>4, <1>6, SaveType DEF TypeOK
<1> HIDE DEF p, u, h
<1>8. queue' = Append(queue, u) /\ save' = [save EXCEPT ![s] = h]
  BY <1>3, Zenon DEF p, u, h
<1>9. /\ queue' \in Seq(Updates) /\ Len(queue') <= MaxQueue
      /\ \A i \in 1..Len(queue') :
            queue'[i] = u \/ (i \in 1..Len(queue) /\ queue'[i] = queue[i])
  BY <1>5, <1>6, <1>8
<1>10. TypeOK'
  BY <1>1, <1>7, <1>8, <1>9, Zenon DEF TypeOK, homeVars
<1>11. LockInv'
  <2>1. \A i \in 1..Len(queue') : Whole(queue'[i].profile)
    BY <1>4, <1>5, <1>9, Zenon DEF LockInv
  <2>2. \A r \in Screens : save'[r].pc = "update" => Whole(save'[r].profile)
    BY <1>4, <1>7, <1>8, Zenon DEF LockInv, TypeOK
  <2> QED
    BY <1>1, <2>1, <2>2, Zenon DEF LockInv
<1>12. ASSUME ~mixed PROVE OwnInv'
  <2>1. id \in Employees => ByOnly(p, {id})
    BY <1>4, <1>12, NobodyAssumption, Zenon DEF HomeInv
  <2>2. \A i \in 1..Len(queue') :
           queue'[i].to \in Employees => ByOnly(queue'[i].profile, {queue'[i].to})
    BY <1>5, <1>9, <1>12, <2>1, Zenon DEF OwnInv
  <2>3. \A r \in Screens : ByOnly(save'[r].profile, {Nobody, employeeId})
    BY <1>4, <1>7, <1>8, <1>12 DEF OwnInv, TypeOK, ByOnly
  <2> QED
    BY <1>1, <1>2, <1>12, <2>2, <2>3, Zenon DEF OwnInv
<1> QED
  BY <1>2, <1>10, <1>11, <1>12, Zenon

LEMMA SaveEndsKeeps ==
    ASSUME ProfileInv, NEW s \in Screens, SaveDone(s) \/ SaveRejected(s)
    PROVE  ProfileInv'
<1> USE DEF ProfileInv
<1>1. UNCHANGED homeVars /\ UNCHANGED <<doc, queue, birth, cred>>
      /\ save' = [save EXCEPT ![s] = NoSave] /\ save[s].pc = "update"
  BY Zenon DEF SaveDone, SaveRejected, server
<1>2. HomeInv' /\ employeeId' = employeeId /\ mixed' = mixed
  BY <1>1, HomeStutters, Zenon DEF homeVars
<1>3. UNCHANGED <<canEdit, profile>> \/ (canEdit' = FALSE /\ profile' = save[s].profile)
  BY Zenon DEF SaveDone, SaveRejected, user
<1>4. save[s].profile \in Profiles /\ Whole(save[s].profile)
      /\ (~mixed => ByOnly(save[s].profile, {Nobody, employeeId}))
  BY <1>1, Zenon DEF TypeOK, Saves, LockInv, OwnInv
<1>5. ByOnly(NoSave.profile, {Nobody, employeeId})
  BY NoSaveType, NoProfileType, BlankType, Zenon DEF ByOnly
<1>6. TypeOK'
  BY <1>1, <1>3, <1>4, NoSaveType, Zenon DEF TypeOK, homeVars
<1>7. LockInv'
  BY <1>1, <1>3, <1>4, NoSaveType, Zenon DEF LockInv, TypeOK, Whole
<1>8. ~mixed => OwnInv'
  BY <1>1, <1>2, <1>3, <1>4, <1>5, Zenon DEF OwnInv, TypeOK
<1> QED
  BY <1>2, <1>6, <1>7, <1>8, Zenon

LEMMA FlushKeeps ==
    ASSUME ProfileInv, Flush
    PROVE  ProfileInv'
<1> USE DEF ProfileInv
<1> DEFINE u == Head(queue)
           d == Doc("false", u.profile)
<1>1. queue \in Seq(Updates) /\ queue # <<>>
  BY Zenon DEF TypeOK, Flush
<1>2. u \in Updates /\ u = queue[1] /\ 1 \in 1..Len(queue)
  BY <1>1
<1>3. /\ queue' \in Seq(Updates) /\ Len(queue') <= MaxQueue
      /\ \A i \in 1..Len(queue') : i + 1 \in 1..Len(queue) /\ queue'[i] = queue[i + 1]
  BY <1>1 DEF Flush, TypeOK
<1>4. /\ doc' = [e \in Employees |-> IF u.to = e THEN d ELSE doc[e]]
      /\ save' = [s \in Screens |-> Countdown(save[s])]
      /\ UNCHANGED homeVars /\ UNCHANGED <<canEdit, profile, birth, cred>>
  BY Zenon DEF Flush, user
<1>5. HomeInv' /\ employeeId' = employeeId /\ mixed' = mixed
  BY <1>4, HomeStutters, Zenon DEF homeVars
<1>6. u.profile \in Profiles
  BY <1>2, Zenon DEF Updates
<1>7. d \in Docs /\ d.canEdit = "false" /\ d.profile = u.profile
  BY <1>6, DocType, Zenon
<1>8. \A s \in Screens : /\ save'[s] \in Saves /\ save'[s].pc = save[s].pc
                         /\ save'[s].profile = save[s].profile
  BY <1>4, CountdownType, Zenon DEF TypeOK
<1> HIDE DEF u, d
<1>9. TypeOK'
  BY <1>3, <1>4, <1>7, <1>8, Zenon DEF TypeOK, homeVars
<1>10. LockInv'
  <2>1. Whole(u.profile)
    BY <1>2, Zenon DEF LockInv
  <2>2. \A e \in Employees : doc'[e].canEdit = "false" => Whole(doc'[e].profile)
    BY <1>4, <1>7, <2>1, Zenon DEF LockInv
  <2>3. \A i \in 1..Len(queue') : Whole(queue'[i].profile)
    BY <1>3, Zenon DEF LockInv
  <2>4. \A s \in Screens : save'[s].pc = "update" => Whole(save'[s].profile)
    BY <1>8, Zenon DEF LockInv
  <2>5. UNCHANGED <<canEdit, profile, cred>>
    BY <1>4, Zenon
  <2> QED
    BY <2>2, <2>3, <2>4, <2>5, Zenon DEF LockInv
<1>11. ASSUME ~mixed PROVE OwnInv'
  <2>1. u.to \in Employees => ByOnly(u.profile, {u.to})
    BY <1>2, <1>11, Zenon DEF OwnInv
  <2>2. \A e \in Employees : /\ doc'[e].profile.first.by = e
                             /\ doc'[e].profile.rest.by \in {Nobody, e}
    BY <1>4, <1>7, <1>11, <2>1, Zenon DEF OwnInv, ByOnly
  <2>3. \A i \in 1..Len(queue') :
           queue'[i].to \in Employees => ByOnly(queue'[i].profile, {queue'[i].to})
    BY <1>3, <1>11, Zenon DEF OwnInv
  <2> QED
    BY <1>4, <1>5, <1>8, <1>11, <2>2, <2>3, Zenon DEF OwnInv
<1> QED
  BY <1>5, <1>9, <1>10, <1>11, Zenon

LEMMA SupportKeeps ==
    ASSUME ProfileInv, NEW e \in Employees, Support(e)
    PROVE  ProfileInv'
<1> USE DEF ProfileInv
<1> DEFINE d == Doc("true", doc[e].profile)
<1>1. UNCHANGED homeVars /\ UNCHANGED <<queue, canEdit, profile, birth, cred, save>>
      /\ doc' = [doc EXCEPT ![e] = d]
  BY Zenon DEF Support, user, TypeOK
<1>2. HomeInv' /\ employeeId' = employeeId /\ mixed' = mixed
  BY <1>1, HomeStutters, Zenon DEF homeVars
<1>3. d \in Docs /\ d.canEdit = "true" /\ d.profile = doc[e].profile
  <2>1. doc[e].profile \in Profiles
    BY Zenon DEF TypeOK, Docs
  <2> QED
    BY <2>1, DocType, Zenon
<1> HIDE DEF d
<1>4. TypeOK'
  BY <1>1, <1>3, Zenon DEF TypeOK, homeVars
<1>5. LockInv'
  BY <1>1, <1>3, Zenon DEF LockInv, TypeOK
<1>6. ~mixed => OwnInv'
  BY <1>1, <1>2, <1>3, Zenon DEF OwnInv, TypeOK
<1> QED
  BY <1>2, <1>4, <1>5, <1>6, Zenon

LEMMA ProfileStep == ProfileInv /\ [Next]_vars => ProfileInv'
<1> SUFFICES ASSUME ProfileInv, [Next]_vars PROVE ProfileInv'
  OBVIOUS
<1>1. CASE UNCHANGED vars
  <2>1. UNCHANGED homeVars
        /\ UNCHANGED <<doc, queue, canEdit, profile, birth, cred, save>>
    BY <1>1, Zenon DEF vars, server, user
  <2>2. HomeInv'
    BY <2>1, HomeStutters, Zenon DEF ProfileInv
  <2> QED
    BY <2>1, <2>2, Zenon DEF homeVars, ProfileInv, TypeOK, LockInv, OwnInv
<1>2. CASE Next
  BY <1>2, MountHomeKeeps, KillKeeps, BirthKeeps, IdKeeps, CredentialsReadKeeps,
     CredentialsShownKeeps, SaveTapKeeps, SaveEndsKeeps, FlushKeeps, SupportKeeps, Zenon
     DEF Next
<1> QED
  BY <1>1, <1>2, Zenon

(***************************************************************************)
(* With care.  SAVE waits until nothing is in progress: by then whatever   *)
(* locks the profile of User.id has been shown, so SAVE is not offered.    *)
(***************************************************************************)

LEMMA CareInitial == CareInit => CareInv
<1> SUFFICES ASSUME CareInit PROVE CareInv
  OBVIOUS
<1>1. id = Nobody /\ queue = <<>>
  BY Zenon DEF CareInit, Init, HomeInit
<1>2. \A s \in Screens : cred[s].pc = "idle"
  BY NoCredType, Zenon DEF CareInit, Init
<1>3. \A e \in Employees : PendingProfiles(e) = {}
  BY <1>1 DEF PendingProfiles
<1> QED
  BY <1>1, <1>2, <1>3, NobodyAssumption, Zenon
     DEF CareInv, OneUpdate, FreshSnap, ShutInTime

\* The updates that are pending, and the lock, stay as they are.
LEMMA ShutStays ==
    ASSUME UNCHANGED <<doc, queue>>
    PROVE  \A e : /\ Locked(e)' = Locked(e) /\ Shut(e)' = Shut(e)
                  /\ PendingProfiles(e)' = PendingProfiles(e)
BY Zenon DEF Locked, Shut, PendingProfiles

LEMMA UpdatesStay ==
    ASSUME UNCHANGED <<doc, queue>>, OneUpdate
    PROVE  OneUpdate'
BY ShutStays, Zenon DEF OneUpdate

\* Nothing changes that the care is about.
LEMMA CareStutters ==
    ASSUME CareInv, UNCHANGED <<doc, queue, canEdit, id, cred, save>>,
           careful' => careful, mixed => mixed'
    PROVE  CareInv'
<1>1. FreshSnap => FreshSnap'
  BY ShutStays, Zenon DEF FreshSnap
<1>2. WillShut(id) => WillShut(id)'
  BY Zenon DEF WillShut
<1>3. ShutInTime => ShutInTime'
  BY <1>2, ShutStays, Zenon DEF ShutInTime
<1> QED
  BY <1>1, <1>3, UpdatesStay, Zenon DEF CareInv

LEMMA KillCares ==
    ASSUME CareInv, Kill, careful' => careful
    PROVE  CareInv'
<1>1. id' = Nobody /\ mixed' = mixed /\ UNCHANGED <<doc, queue>>
  BY Zenon DEF Kill, Reset, server
<1>2. \A s \in Screens : cred'[s].pc = "idle"
  BY NoCredType, Zenon DEF Kill
<1>3. OneUpdate => OneUpdate'
  BY <1>1, UpdatesStay, Zenon
<1>4. FreshSnap'
  BY <1>2, Zenon DEF FreshSnap
<1>5. ShutInTime'
  BY <1>1, NobodyAssumption, Zenon DEF ShutInTime
<1> QED
  BY <1>1, <1>2, <1>3, <1>4, <1>5, Zenon DEF CareInv

LEMMA IdArrivedCares ==
    ASSUME ProfileInv, CareInv, NEW s \in Screens, IdArrived(s), careful' => careful
    PROVE  CareInv'
<1>1. /\ UNCHANGED <<employeeId, mixed, doc, queue, canEdit, save>>
      /\ id' = getId[s].who /\ id' # Nobody
  BY Zenon DEF IdArrived, IdShown, server, user
<1>2. id' \in Employees
  BY <1>1, Zenon DEF ProfileInv, HomeInv, GetIds, People
<1>3. cred[s].snap \in Docs /\ cred \in [Screens -> Creds]
  BY Zenon DEF ProfileInv, TypeOK, Creds
<1> DEFINE c == Cred("get", id', cred[s].snap)
<1>4. c.pc = "get" /\ c.who = id'
  BY <1>2, <1>3, CredType DEF People
<1>5. cred' = [cred EXCEPT ![s] = c]
  BY <1>3, Zenon DEF IdArrived
<1> HIDE DEF c
<1>6. cred'[s] = c /\ \A r \in Screens : r # s => cred'[r] = cred[r]
  BY <1>3, <1>5, Zenon
<1>7. \A r \in Screens : cred'[r].pc # "idle" => cred'[r].who \in Employees
  BY <1>2, <1>4, <1>6, Zenon DEF CareInv
<1>8. OneUpdate => OneUpdate'
  BY <1>1, UpdatesStay, Zenon
<1>9. FreshSnap => FreshSnap'
  BY <1>1, <1>4, <1>6, ShutStays, Zenon DEF FreshSnap
<1>10. WillShut(id)'
  BY <1>4, <1>6, Zenon DEF WillShut
<1> QED
  BY <1>1, <1>7, <1>8, <1>9, <1>10, Zenon DEF CareInv, ShutInTime

\* A snapshot that allows editing is of a document that is not locked and that
\* no pending update will lock.
LEMMA SeenFresh ==
    ASSUME ProfileInv, NEW e \in Employees, NEW d \in Seen(e), d.canEdit # "false"
    PROVE  ~Shut(e)
<1>1. CASE PendingProfiles(e) = {}
  BY <1>1, Zenon DEF Seen, Shut, Locked
<1>2. CASE PendingProfiles(e) # {}
  <2>1. PICK i \in PendingProfiles(e) : d = Doc("false", queue[i].profile)
    BY <1>2, Zenon DEF Seen
  <2> QED
    BY <2>1, Zenon DEF Doc
<1> QED
  BY <1>1, <1>2, Zenon

LEMMA CredentialsReadCares ==
    ASSUME ProfileInv, CareInv, NEW s \in Screens, CredentialsRead(s),
           careful' => careful
    PROVE  CareInv'
<1> DEFINE e == cred[s].who
<1>1. UNCHANGED <<id, mixed, doc, queue, canEdit, save>> /\ cred[s].pc = "get"
  BY Zenon DEF CredentialsRead, homeVars, server, user
<1>2. e \in Employees
  BY <1>1, Zenon DEF CareInv
<1>3. PICK d \in Seen(e) : cred' = [cred EXCEPT ![s] = Cred("got", e, d)]
  BY Zenon DEF CredentialsRead
<1>4. d \in Docs
  BY <1>2, SeenKeeps, Zenon
<1> DEFINE c == Cred("got", e, d)
<1>5. c.pc = "got" /\ c.who = e /\ c.snap = d
  BY <1>2, <1>4, CredType DEF People
<1> HIDE DEF c
<1>6. cred'[s] = c /\ \A r \in Screens : r # s => cred'[r] = cred[r]
  BY <1>3, Zenon DEF c, ProfileInv, TypeOK
<1>7. \A r \in Screens : cred'[r].pc # "idle" => cred'[r].who \in Employees
  BY <1>2, <1>5, <1>6, Zenon DEF CareInv
<1>8. OneUpdate => OneUpdate'
  BY <1>1, UpdatesStay, Zenon
<1>9. FreshSnap => FreshSnap'
  <2>1. d.canEdit # "false" => ~Shut(e)
    BY <1>2, SeenFresh, Zenon
  <2> QED
    BY <1>1, <1>5, <1>6, <2>1, ShutStays, Zenon DEF FreshSnap
<1>10. WillShut(id) => WillShut(id)'
  <2>1. \A r \in Screens : cred[r].pc \in {"get", "got"}
                           => cred'[r].pc \in {"get", "got"} /\ cred'[r].who = cred[r].who
    BY <1>5, <1>6, Zenon
  <2> QED
    BY <1>1, <2>1, Zenon DEF WillShut
<1>11. ShutInTime => ShutInTime'
  BY <1>1, <1>10, ShutStays, Zenon DEF ShutInTime
<1> QED
  BY <1>1, <1>7, <1>8, <1>9, <1>11, Zenon DEF CareInv

LEMMA CredentialsShownCares ==
    ASSUME ProfileInv, CareInv, NEW s \in Screens, CredentialsShown(s),
           careful' => careful
    PROVE  CareInv'
<1> DEFINE d == cred[s].snap
<1>1. /\ UNCHANGED <<employeeId, id, mixed, doc, queue, save>> /\ cred[s].pc = "got"
      /\ cred' = [cred EXCEPT ![s] = NoCred]
  BY Zenon DEF CredentialsShown, homeVars, server
<1>2. cred'[s] = NoCred /\ \A r \in Screens : r # s => cred'[r] = cred[r]
  BY <1>1, Zenon DEF ProfileInv, TypeOK
<1>3. \A r \in Screens : cred'[r].pc # "idle" => cred'[r].who \in Employees
  BY <1>2, NoCredType, Zenon DEF CareInv
<1>4. OneUpdate => OneUpdate'
  BY <1>1, UpdatesStay, Zenon
<1>5. FreshSnap => FreshSnap'
  BY <1>1, <1>2, NoCredType, ShutStays, Zenon DEF FreshSnap
<1>6. ASSUME ~mixed, FreshSnap PROVE ShutInTime'
  <2> SUFFICES ASSUME canEdit', id' \in Employees, Shut(id)' PROVE FALSE
    BY Zenon DEF ShutInTime
  <2>1. id = employeeId /\ cred[s].who = employeeId
    BY <1>1, <1>3, <1>6, NobodyAssumption, Zenon
       DEF ProfileInv, HomeInv, OwnInv, CareInv
  <2>2. Shut(id)
    BY <1>1, ShutStays, Zenon
  <2>3. d.canEdit = "false"
    BY <1>1, <1>6, <2>1, <2>2, Zenon DEF FreshSnap
  <2> QED
    BY <2>3, Zenon DEF CredentialsShown
<1> QED
  BY <1>1, <1>3, <1>4, <1>5, <1>6, Zenon DEF CareInv

\* SAVE: nothing is in progress, so the document of User.id is not locked and
\* no other update of it is pending.
LEMMA SaveTapCares ==
    ASSUME ProfileInv, CareInv, NEW s \in Screens, SaveTap(s),
           careful' => careful /\ Settled
    PROVE  CareInv'
<1>1. UNCHANGED <<id, mixed, doc, canEdit, cred>> /\ canEdit
      /\ queue \in Seq(Updates) /\ Len(queue) + 1 \in 0..MaxQueue
  BY DEF SaveTap, homeVars, user, ProfileInv, TypeOK
<1>2. PICK x \in Texts :
         /\ queue' = Append(queue, Update(id, Typed(s, x)))
         /\ save' = [save EXCEPT ![s] =
                        Save("update", id, Typed(s, x), Len(queue) + 1)]
  BY Zenon DEF SaveTap
<1> DEFINE u == Update(id, Typed(s, x))
           h == Save("update", id, Typed(s, x), Len(queue) + 1)
<1>3. Typed(s, x) \in Profiles /\ id \in People
  BY TypedType, Zenon DEF ProfileInv, TypeOK
<1>4. u \in Updates /\ u.to = id
  BY <1>3, UpdateType, Zenon
<1>5. h.pc = "update" /\ h.to = id
  BY <1>1, <1>3, SaveType
<1> HIDE DEF u, h
<1>6. save'[s] = h
  BY <1>2, Zenon DEF h, ProfileInv, TypeOK
<1>7. queue' = Append(queue, u)
  BY <1>2, Zenon DEF u
<1>8. SUFFICES ASSUME careful', ~mixed PROVE OneUpdate' /\ FreshSnap' /\ ShutInTime'
  BY <1>1, Zenon DEF CareInv
<1>9. Settled /\ OneUpdate /\ ShutInTime
  BY <1>8, Zenon DEF CareInv
<1>10. id \in Employees => ~Shut(id)
  BY <1>1, <1>9, Zenon DEF ShutInTime, WillShut, Settled
<1>11. OneUpdate'
  <2> SUFFICES ASSUME NEW e \in Employees
               PROVE  \A i \in PendingProfiles(e)' :
                         ~Locked(e)' /\ PendingProfiles(e)' = {i}
    BY Zenon DEF OneUpdate
  <2>1. Locked(e)' = Locked(e)
    BY <1>1, Zenon DEF Locked
  <2>2. CASE id = e
    <3>1. PendingProfiles(e) = {} /\ ~Locked(e)
      BY <1>10, <2>2, Zenon DEF Shut
    <3>2. PendingProfiles(e)' \subseteq {Len(queue) + 1}
      BY <1>1, <1>4, <1>7, <3>1 DEF PendingProfiles
    <3> QED
      BY <2>1, <3>1, <3>2, Zenon
  <2>3. CASE id # e
    <3>1. PendingProfiles(e)' = PendingProfiles(e)
      BY <1>1, <1>4, <1>7, <2>3 DEF PendingProfiles
    <3> QED
      BY <1>9, <2>1, <3>1, Zenon DEF OneUpdate
  <2> QED
    BY <2>2, <2>3, Zenon
<1>12. FreshSnap'
  BY <1>1, <1>9, Zenon DEF FreshSnap, Settled
<1>13. WillShut(id)'
  BY <1>1, <1>5, <1>6, Zenon DEF WillShut
<1> QED
  BY <1>11, <1>12, <1>13, Zenon DEF ShutInTime

LEMMA SaveEndsCares ==
    ASSUME ProfileInv, CareInv, NEW s \in Screens, SaveDone(s) \/ SaveRejected(s),
           careful' => careful
    PROVE  CareInv'
<1>1. UNCHANGED <<id, mixed, doc, queue, cred>>
      /\ save' = [save EXCEPT ![s] = NoSave]
  BY Zenon DEF SaveDone, SaveRejected, homeVars, server
<1>2. OneUpdate => OneUpdate'
  BY <1>1, UpdatesStay, Zenon
<1>3. FreshSnap => FreshSnap'
  BY <1>1, ShutStays, Zenon DEF FreshSnap
<1>4. CASE SaveDone(s)
  <2>1. ShutInTime'
    BY <1>4, Zenon DEF SaveDone, ShutInTime
  <2> QED
    BY <1>1, <1>2, <1>3, <2>1, Zenon DEF CareInv
<1>5. CASE SaveRejected(s)
  <2>1. save[s].to = Nobody /\ canEdit' = canEdit
    BY <1>5, Zenon DEF SaveRejected, user
  <2>2. \A r \in Screens : r # s => save'[r] = save[r]
    BY <1>1, Zenon DEF ProfileInv, TypeOK
  <2>3. id \in Employees /\ WillShut(id) => WillShut(id)'
    <3> SUFFICES ASSUME id \in Employees,
                        NEW r \in Screens,
                        \/ cred[r].pc \in {"get", "got"} /\ cred[r].who = id
                        \/ save[r].pc = "update" /\ save[r].to = id
                 PROVE  WillShut(id)'
      BY Zenon DEF WillShut
    <3>1. CASE cred[r].pc \in {"get", "got"} /\ cred[r].who = id
      BY <1>1, <3>1, Zenon DEF WillShut
    <3>2. CASE save[r].pc = "update" /\ save[r].to = id
      <4>1. save'[r] = save[r]
        BY <2>1, <2>2, <3>2, NobodyAssumption, Zenon
      <4> QED
        BY <1>1, <3>2, <4>1, Zenon DEF WillShut
    <3> QED
      BY <3>1, <3>2, Zenon
  <2>4. ShutInTime => ShutInTime'
    BY <1>1, <2>1, <2>3, ShutStays, Zenon DEF ShutInTime
  <2> QED
    BY <1>1, <1>2, <1>3, <2>4, Zenon DEF CareInv
<1> QED
  BY <1>4, <1>5, Zenon

\* The server takes an update: the places of the others move up by one.
LEMMA FlushMoves ==
    ASSUME ProfileInv, Flush, NEW e \in Employees
    PROVE  /\ \A i \in PendingProfiles(e)' : i + 1 \in PendingProfiles(e)
           /\ \A i \in PendingProfiles(e) : i = 1 \/ i - 1 \in PendingProfiles(e)'
           /\ Head(queue).to = e <=> 1 \in PendingProfiles(e)
           /\ Locked(e)' = (Locked(e) \/ 1 \in PendingProfiles(e))
<1>1. queue \in Seq(Updates) /\ queue # <<>> /\ queue' = Tail(queue)
  BY Zenon DEF ProfileInv, TypeOK, Flush
<1>2. /\ \A i \in PendingProfiles(e)' : i + 1 \in PendingProfiles(e)
      /\ \A i \in PendingProfiles(e) : i = 1 \/ i - 1 \in PendingProfiles(e)'
  BY <1>1 DEF PendingProfiles
<1>3. Head(queue).to = e <=> 1 \in PendingProfiles(e)
  BY <1>1 DEF PendingProfiles
<1>4. doc'[e] = IF Head(queue).to = e THEN Doc("false", Head(queue).profile)
                ELSE doc[e]
  BY Zenon DEF Flush
<1>5. Head(queue).to = e => Locked(e)'
  BY <1>4 DEF Locked, Doc
<1>6. Head(queue).to # e => Locked(e)' = Locked(e)
  BY <1>4, Zenon DEF Locked
<1> QED
  BY <1>2, <1>3, <1>5, <1>6, Zenon DEF Locked

LEMMA FlushCares ==
    ASSUME ProfileInv, CareInv, Flush, careful' => careful
    PROVE  CareInv'
<1>1. UNCHANGED <<id, mixed, canEdit, cred>>
      /\ save' = [s \in Screens |-> Countdown(save[s])]
  BY Zenon DEF Flush, homeVars, user
<1>2. \A e \in Employees : Shut(e)' = Shut(e)
  <2> SUFFICES ASSUME NEW e \in Employees PROVE Shut(e)' = Shut(e)
    OBVIOUS
  <2>1. Shut(e) => Shut(e)'
    BY FlushMoves, Zenon DEF Shut
  <2>2. Shut(e)' => Shut(e)
    BY FlushMoves, Zenon DEF Shut
  <2> QED
    BY <2>1, <2>2, Zenon DEF Shut
<1>3. ASSUME OneUpdate PROVE OneUpdate'
  <2> SUFFICES ASSUME NEW e \in Employees, NEW i \in PendingProfiles(e)'
               PROVE  ~Locked(e)' /\ PendingProfiles(e)' = {i}
    BY Zenon DEF OneUpdate
  <2>1. i \in Nat /\ i >= 1 /\ i + 1 \in PendingProfiles(e)
    BY FlushMoves DEF PendingProfiles
  <2>2. ~Locked(e) /\ PendingProfiles(e) = {i + 1}
    BY <1>3, <2>1, Zenon DEF OneUpdate
  <2>3. ~Locked(e)'
    <3>1. 1 \notin PendingProfiles(e)
      BY <2>1, <2>2
    <3> QED
      BY <2>2, <3>1, FlushMoves, Zenon
  <2>4. \A j \in PendingProfiles(e)' : j = i
    <3> SUFFICES ASSUME NEW j \in PendingProfiles(e)' PROVE j = i
      OBVIOUS
    <3>1. j \in Nat
      BY DEF PendingProfiles
    <3>2. j + 1 \in PendingProfiles(e)
      BY FlushMoves, Zenon
    <3>3. j + 1 = i + 1
      BY <2>2, <3>2, Zenon
    <3> QED
      BY <2>1, <3>1, <3>3
  <2> QED
    BY <2>3, <2>4, Zenon
<1>4. ASSUME FreshSnap PROVE FreshSnap'
  BY <1>1, <1>2, <1>4, Zenon DEF FreshSnap, CareInv
<1>5. \A s \in Screens : save'[s].pc = save[s].pc /\ save'[s].to = save[s].to
  BY <1>1, CountdownType, Zenon DEF ProfileInv, TypeOK
<1>6. WillShut(id) => WillShut(id)'
  BY <1>1, <1>5, Zenon DEF WillShut
<1>7. ShutInTime => ShutInTime'
  BY <1>1, <1>2, <1>6, Zenon DEF ShutInTime
<1> QED
  BY <1>1, <1>3, <1>4, <1>7, Zenon DEF CareInv

LEMMA SupportCares ==
    ASSUME ProfileInv, CareInv, NEW e \in Employees, Support(e), careful' => careful
    PROVE  CareInv'
<1>1. UNCHANGED <<id, mixed, queue, canEdit, cred, save>>
  BY Zenon DEF Support, homeVars, user
<1>2. \A f \in Employees : Locked(f)' => Locked(f)
  BY Zenon DEF Support, Locked, Doc, ProfileInv, TypeOK
<1>3. \A f : PendingProfiles(f)' = PendingProfiles(f)
  BY <1>1, Zenon DEF PendingProfiles
<1>4. \A f \in Employees : Shut(f)' => Shut(f)
  BY <1>2, <1>3, Zenon DEF Shut
<1>5. OneUpdate => OneUpdate'
  BY <1>2, <1>3, Zenon DEF OneUpdate
<1>6. FreshSnap => FreshSnap'
  BY <1>1, <1>4, Zenon DEF FreshSnap, CareInv
<1>7. ShutInTime => ShutInTime'
  BY <1>1, <1>4, Zenon DEF ShutInTime, WillShut
<1> QED
  BY <1>1, <1>5, <1>6, <1>7, Zenon DEF CareInv

\* A read that fails is careless, and everything after it is excused.
LEMMA CredentialsFailedCares ==
    ASSUME ProfileInv, CareInv, NEW s \in Screens, CredentialsFailed(s), ~careful'
    PROVE  CareInv'
<1>1. cred'[s] = NoCred /\ \A r \in Screens : r # s => cred'[r] = cred[r]
  BY Zenon DEF CredentialsFailed, ProfileInv, TypeOK
<1> QED
  BY <1>1, NoCredType, Zenon DEF CareInv

LEMMA CareStep ==
    ProfileInv /\ CareInv /\ [CareNext]_<<vars, careful>> => CareInv'
<1> SUFFICES ASSUME ProfileInv, CareInv, [CareNext]_<<vars, careful>> PROVE CareInv'
  OBVIOUS
<1>1. CASE UNCHANGED <<vars, careful>>
  BY <1>1, CareStutters, Zenon DEF vars, homeVars, server, user
<1>2. CASE CareNext
  <2>1. careful' => careful /\ ~Careless
    BY <1>2, Zenon DEF CareNext
  <2>2. ASSUME NEW s \in Screens, NEW e \in People, MountHome(s, e) PROVE CareInv'
    BY <2>1, <2>2, CareStutters, Zenon DEF MountHome, Mount, server, user
  <2>3. ASSUME NEW s \in Screens, Leave(s) \/ PickDate(s) PROVE CareInv'
    <3>1. UNCHANGED <<homeVars, server, user, cred, save>>
      BY <2>3, Zenon DEF Leave, PickDate
    <3> QED
      BY <2>1, <3>1, CareStutters, Zenon DEF homeVars, server, user
  <2>4. ASSUME NEW s \in Screens, IdLost(s) PROVE CareInv'
    BY <2>1, <2>4, CareStutters, Zenon DEF IdLost, IdFailed, server, user
  <2>5. ASSUME NEW s \in Screens, CredentialsFailed(s) PROVE CareInv'
    <3>1. ~careful'
      BY <2>1, <2>5, Zenon DEF Careless
    <3> QED
      BY <2>5, <3>1, CredentialsFailedCares, Zenon
  <2>6. ASSUME NEW s \in Screens, SaveTap(s) PROVE CareInv'
    <3>1. careful' => careful /\ Settled
      BY <2>1, <2>6, Zenon DEF Careless
    <3> QED
      BY <2>6, <3>1, SaveTapCares, Zenon
  <2>7. ASSUME NEW s \in Screens,
               \/ IdArrived(s) \/ CredentialsRead(s) \/ CredentialsShown(s)
               \/ SaveDone(s) \/ SaveRejected(s)
        PROVE  CareInv'
    BY <2>1, <2>7, IdArrivedCares, CredentialsReadCares, CredentialsShownCares,
       SaveEndsCares, Zenon
  <2>8. CASE Flush \/ Kill \/ \E e \in Employees : Support(e)
    BY <2>1, <2>8, FlushCares, KillCares, SupportCares, Zenon
  <2> QED
    BY <1>2, <2>2, <2>3, <2>4, <2>5, <2>6, <2>7, <2>8, Zenon DEF CareNext, Next
<1> QED
  BY <1>1, <1>2, Zenon

(***************************************************************************)
(* The theorems.                                                           *)
(***************************************************************************)

\* Type correctness, the bound of the queue included.
THEOREM ProfileTyped == Spec => []TypeOK
<1>1. ProfileInv => TypeOK
  BY Zenon DEF ProfileInv
<1> QED
  BY ProfileInitial, ProfileStep, <1>1, PTL DEF Spec

\* As long as no process serves two employees, a document holds what its own
\* employee typed.
THEOREM DocumentsAreOwn == Spec => []OwnProfile
<1>1. ProfileInv => OwnProfile
  BY Zenon DEF ProfileInv, OwnInv, OwnProfile
<1> QED
  BY ProfileInitial, ProfileStep, <1>1, PTL DEF Spec

\* Under the same condition the screen shows nobody else's profile.
THEOREM ScreenIsOwn == Spec => []ShownIsOwn
<1>1. ProfileInv => ShownIsOwn
  BY Zenon DEF ProfileInv, OwnInv, ByOnly, ShownIsOwn
<1> QED
  BY ProfileInitial, ProfileStep, <1>1, PTL DEF Spec

\* A locked profile was saved as a whole, however many screens, saves, answers
\* and employees there are.
THEOREM LockedIsWhole == Spec => []WholeProfile
<1>1. ProfileInv => WholeProfile
  BY Zenon DEF ProfileInv, LockInv, Whole, WholeProfile
<1> QED
  BY ProfileInitial, ProfileStep, <1>1, PTL DEF Spec
\* A locked profile stays as it is, if SAVE waits for the reads and they do not
\* fail: on however many screens, with however many restarts between them.
THEOREM LockedStays == CareSpec => EditedWithCare
<1> DEFINE Kept == \A e \in Employees :
                      doc[e].canEdit = "false" /\ careful' /\ ~mixed'
                          => doc'[e].profile = doc[e].profile
           Inv == ProfileInv /\ CareInv
<1>1. CareInit => Inv
  BY ProfileInitial, CareInitial, Zenon DEF CareInit
<1>2. Inv /\ [CareNext]_<<vars, careful>> => Inv'
  BY ProfileStep, CareStep, Zenon DEF CareNext
<1>3. ASSUME Inv, [CareNext]_<<vars, careful>> PROVE [Kept]_vars
  <2> SUFFICES ASSUME CareNext, NEW e \in Employees, Locked(e), careful', ~mixed'
               PROVE  doc'[e].profile = doc[e].profile
    BY <1>3, Zenon DEF Locked
  <2>1. careful
    BY Zenon DEF CareNext
  <2>2. CASE Flush
    <3>1. ~mixed
      BY <2>2, Zenon DEF Flush, homeVars
    <3>2. 1 \notin PendingProfiles(e)
      BY <1>3, <2>1, <3>1, Zenon DEF CareInv, OneUpdate
    <3>3. Head(queue).to # e
      BY <1>3, <2>2, <3>2, FlushMoves, Zenon
    <3> QED
      BY <2>2, <3>3, Zenon DEF Flush
  <2>3. CASE \E f \in Employees : Support(f)
    BY <1>3, <2>3 DEF Support, Doc, ProfileInv, TypeOK
  <2>4. CASE doc' = doc
    BY <2>4, Zenon
  <2>5. Flush \/ (\E f \in Employees : Support(f)) \/ doc' = doc
    BY Zenon DEF CareNext, Next, MountHome, Leave, IdArrived, IdLost, CredentialsRead,
       CredentialsShown, CredentialsFailed, PickDate, SaveTap, SaveDone,
       SaveRejected, Kill, server
  <2> QED
    BY <2>2, <2>3, <2>4, <2>5, Zenon
<1> QED
  BY <1>1, <1>2, <1>3, PTL DEF CareSpec, EditedWithCare
==============================================================================
