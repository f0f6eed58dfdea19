------------------------------- MODULE Profile -------------------------------
(***************************************************************************)
(* lib/profilescreen.dart, and _getCredentials of lib/homescreen.dart: the *)
(* employee fills in a profile once, which locks it.  The screen shows     *)
(* static fields of User.  _getCredentials sets them from the document of  *)
(* the employee after getId has answered, and SAVE after Firestore has     *)
(* taken the update.  The picture is in Picture.                           *)
(*                                                                         *)
(* A write of the phone waits in the Firestore client's durable queue; a   *)
(* read sees the pending writes.  "rest" stands for last name and address, *)
(* which are treated alike.  A value carries the employee who typed it.    *)
(* Home screens are mounted for anybody at any time: see Session.          *)
(***************************************************************************)
EXTENDS HomeScreen, Sequences, FiniteSets

CONSTANTS
    Texts,         \* what is typed into the fields
    MaxQueue,      \* bound: writes that may be pending
    ReadsMayFail

\* "none" stands for a field that is not set; SAVE refuses empty fields.
ASSUME TextsAssumption == "none" \notin Texts
ASSUME MaxQueueAssumption == MaxQueue \in Nat
ASSUME ReadsMayFailAssumption == ReadsMayFail \in BOOLEAN

VARIABLES
    doc,      \* the Employee documents on the server
    queue,    \* the phone's updates that the server has not taken yet
    canEdit,  \* User.canEdit
    profile,  \* User.firstName, lastName, birthDate, address
    birth,    \* the birth field of each profile screen, "none" when it is not mounted
    cred,     \* the _getCredentials call of each home screen
    save      \* the SAVE handler of each profile screen

server == <<doc, queue>>
user == <<canEdit, profile>>
vars == <<homeVars, server, user, birth, cred, save>>

Fields == [by : People, text : Texts \cup {"none", "name"}]

Field(e, text) == [by |-> e, text |-> text]

\* The initial value of the static fields; also a field the document lacks.
Blank == Field(Nobody, "none")

Births == {"none", "DateOfBirth", "picked"}

Profiles == [first : Fields, rest : Fields, birth : Births]

Form(first, rest, b) == [first |-> first, rest |-> rest, birth |-> b]

NoProfile == Form(Blank, Blank, "none")

\* The fields of a document, and of a snapshot of one.
Docs == [canEdit : {"absent", "true", "false"}, profile : Profiles]

Doc(c, p) == [canEdit |-> c, profile |-> p]

\* As REGISTER adds it: no canEdit, and of these fields the first name only.
Registered(e) == Doc("absent", Form(Field(e, "name"), Blank, "none"))

\* update({..}) of the document "to".
Updates == [to : People, profile : Profiles]

Update(to, p) == [to |-> to, profile |-> p]

Creds == [pc : {"idle", "get", "got"}, who : People, snap : Docs]

Cred(pc, e, snap) == [pc |-> pc, who |-> e, snap |-> snap]

NoCred == Cred("idle", Nobody, Doc("absent", NoProfile))

\* left: the updates the server takes before this one's future completes.
Saves == [pc : {"idle", "update"}, to : People, profile : Profiles,
          left : 0..MaxQueue]

Save(pc, to, p, left) == [pc |-> pc, to |-> to, profile |-> p, left |-> left]

NoSave == Save("idle", Nobody, NoProfile, 0)

Countdown(h) ==
    Save(h.pc, h.to, h.profile, IF h.left > 0 THEN h.left - 1 ELSE 0)

Init ==
    /\ HomeInit
    /\ doc = [e \in Employees |-> Registered(e)]
    /\ queue = <<>>
    /\ canEdit = TRUE
    /\ profile = NoProfile
    /\ birth = [s \in Screens |-> "none"]
    /\ cred = [s \in Screens |-> NoCred]
    /\ save = [s \in Screens |-> NoSave]

-----------------------------------------------------------------------------
(* The home screen and _getCredentials.                                    *)

Open(s) == birth[s] # "none"

\* A home screen is mounted, and with it a fresh profile screen.
MountHome(s, e) ==
    /\ cred[s].pc = "idle" /\ save[s].pc = "idle"
    /\ Mount(s, e)
    /\ birth' = [birth EXCEPT ![s] = "DateOfBirth"]
    /\ UNCHANGED <<server, user, cred, save>>

\* The screen is left with the back button; its calls go on.
Leave(s) ==
    /\ Open(s)
    /\ birth' = [birth EXCEPT ![s] = "none"]
    /\ UNCHANGED <<homeVars, server, user, cred, save>>

\* The process ends.  The client's queue is on disk.
Kill ==
    /\ Reset
    /\ canEdit' = TRUE
    /\ profile' = NoProfile
    /\ birth' = [s \in Screens |-> "none"]
    /\ cred' = [s \in Screens |-> NoCred]
    /\ save' = [s \in Screens |-> NoSave]
    /\ UNCHANGED server

\* getId().then(..): the read of doc(User.id) is sent.
IdArrived(s) ==
    /\ IdShown(s)
    /\ cred' = [cred EXCEPT ![s] = Cred("get", id', @.snap)]
    /\ UNCHANGED <<server, user, birth, save>>

IdLost(s) ==
    /\ ReadsMayFail \/ getId[s].who = Nobody
    /\ IdFailed(s)
    /\ UNCHANGED <<server, user, birth, cred, save>>

PendingProfiles(e) ==
    {i \in 1..Len(queue) : queue[i].to = e}

\* A read that goes past the pending writes.
SeenRemote(e) == {doc[e]}

\* What a read of e's document returns, as a singleton: the last pending update
\* decides every field, or else the server's document.
Seen(e) ==
    IF PendingProfiles(e) = {} THEN {doc[e]}
    ELSE {Doc("false", queue[i].profile) :
             i \in {m \in PendingProfiles(e) :
                       \A j \in PendingProfiles(e) : j <= m}}

CredentialsRead(s) ==
    /\ cred[s].pc = "get"
    /\ \E snap \in Seen(cred[s].who) :
          cred' = [cred EXCEPT ![s] = Cred("got", cred[s].who, snap)]
    /\ UNCHANGED <<homeVars, server, user, birth, save>>

\* Forgets canEdit.
CredentialsShownOpen(s) ==
    LET d == cred[s].snap
    IN  /\ cred[s].pc = "got"
        /\ profile' = IF d.profile.rest = Blank
                      THEN Form(d.profile.first, profile.rest, profile.birth)
                      ELSE d.profile
        /\ cred' = [cred EXCEPT ![s] = NoCred]
        /\ UNCHANGED <<homeVars, server, canEdit, birth, save>>

\* canEdit is the last field to be set, not the first.
CredentialsShownLate(s) ==
    LET d == cred[s].snap
    IN  /\ cred[s].pc = "got"
        /\ IF d.profile.rest = Blank
           THEN /\ profile' = Form(d.profile.first, profile.rest, profile.birth)
                /\ UNCHANGED canEdit
           ELSE /\ profile' = d.profile
                /\ canEdit' = (d.canEdit = "true")
        /\ cred' = [cred EXCEPT ![s] = NoCred]
        /\ UNCHANGED <<homeVars, server, birth, save>>

\* The fields one after the other; one that the document lacks throws, and
\* those after it stay as they are.
CredentialsShown(s) ==
    LET d == cred[s].snap
    IN  /\ cred[s].pc = "got"
        /\ \/ /\ d.canEdit = "absent"
              /\ UNCHANGED <<canEdit, profile>>
           \/ /\ d.canEdit # "absent"
              /\ canEdit' = (d.canEdit = "true")
              /\ profile' =
                    IF d.profile.rest = Blank
                    THEN Form(d.profile.first, profile.rest, profile.birth)
                    ELSE d.profile
        /\ cred' = [cred EXCEPT ![s] = NoCred]
        /\ UNCHANGED <<homeVars, server, birth, save>>

CredentialsFailed(s) ==
    /\ ReadsMayFail
    /\ cred[s].pc = "get"
    /\ cred' = [cred EXCEPT ![s] = NoCred]
    /\ UNCHANGED <<homeVars, server, user, birth, save>>

-----------------------------------------------------------------------------
(* SAVE.                                                                   *)

\* The date picker, which a user who may edit is offered.
PickDate(s) ==
    /\ Open(s) /\ canEdit
    /\ birth' = [birth EXCEPT ![s] = "picked"]
    /\ UNCHANGED <<homeVars, server, user, cred, save>>

Typed(s, text) ==
    Form(Field(employeeId, text), Field(employeeId, text), birth[s])

\* SAVE with every field filled in.  The birth date always is, with the words
\* "Date of birth" if none was picked.
SaveTap(s) ==
    /\ Open(s) /\ canEdit
    /\ save[s].pc = "idle"
    /\ Len(queue) < MaxQueue
    /\ \E text \in Texts :
          /\ queue' = Append(queue, Update(id, Typed(s, text)))
          /\ save' = [save EXCEPT ![s] =
                         Save("update", id, Typed(s, text), Len(queue) + 1)]
    /\ UNCHANGED <<homeVars, doc, user, birth, cred>>

\* update(..).then(..): the static fields are set to what was saved.
SaveDone(s) ==
    /\ save[s].pc = "update" /\ save[s].left = 0 /\ save[s].to # Nobody
    /\ canEdit' = FALSE
    /\ profile' = save[s].profile
    /\ save' = [save EXCEPT ![s] = NoSave]
    /\ UNCHANGED <<homeVars, server, birth, cred>>

\* doc(" ") does not exist: update throws.
SaveRejected(s) ==
    /\ save[s].pc = "update" /\ save[s].left = 0 /\ save[s].to = Nobody
    /\ save' = [save EXCEPT ![s] = NoSave]
    /\ UNCHANGED <<homeVars, server, user, birth, cred>>

-----------------------------------------------------------------------------

\* The server drops the update it should apply.
FlushNowhere ==
    /\ queue # <<>>
    /\ queue' = Tail(queue)
    /\ save' = [s \in Screens |-> Countdown(save[s])]
    /\ UNCHANGED <<homeVars, doc, user, birth, cred>>

\* The server takes the oldest update and rejects it if there is no document.
Flush ==
    /\ queue # <<>>
    /\ doc' = [e \in Employees |->
                 IF Head(queue).to = e THEN Doc("false", Head(queue).profile)
                 ELSE doc[e]]
    /\ queue' = Tail(queue)
    /\ save' = [s \in Screens |-> Countdown(save[s])]
    /\ UNCHANGED <<homeVars, user, birth, cred>>

\* "please contact support team": canEdit is set from outside the app, which
\* itself never sets it to true.
Support(e) ==
    /\ doc[e].canEdit # "true"
    /\ doc' = [doc EXCEPT ![e] = Doc("true", @.profile)]
    /\ UNCHANGED <<homeVars, queue, user, birth, cred, save>>

Next ==
    \/ \E s \in Screens :
          \/ \E e \in People : MountHome(s, e)
          \/ Leave(s) \/ IdArrived(s) \/ IdLost(s)
          \/ CredentialsRead(s) \/ CredentialsShown(s) \/ CredentialsFailed(s)
          \/ PickDate(s) \/ SaveTap(s) \/ SaveDone(s) \/ SaveRejected(s)
    \/ Flush \/ Kill
    \/ \E e \in Employees : Support(e)

Spec == Init /\ [][Next]_vars

\* Firestore answers and takes updates; Dart runs the continuations.
Fairness ==
    /\ WF_vars(Flush)
    /\ \A s \in Screens :
          /\ WF_vars(IdArrived(s)) /\ WF_vars(CredentialsRead(s))
          /\ WF_vars(CredentialsShown(s)) /\ WF_vars(SaveDone(s))

-----------------------------------------------------------------------------

\* Every variable has its type.
TypeOK ==
    /\ employeeId \in People /\ id \in People
    /\ getId \in [Screens -> GetIds] /\ mixed \in BOOLEAN
    /\ doc \in [Employees -> Docs]
    /\ queue \in Seq(Updates) /\ Len(queue) <= MaxQueue
    /\ canEdit \in BOOLEAN /\ profile \in Profiles
    /\ birth \in [Screens -> Births]
    /\ cred \in [Screens -> Creds]
    /\ save \in [Screens -> Saves]

\* As long as no process serves two employees, a document holds what its own
\* employee typed, whenever SAVE is tapped and whenever getId answers.
OwnProfile ==
    ~mixed =>
        \A e \in Employees :
            /\ doc[e].profile.first.by = e
            /\ doc[e].profile.rest.by \in {Nobody, e}

\* Under the same condition the screen shows nobody else's profile.
ShownIsOwn ==
    ~mixed =>
        {profile.first.by, profile.rest.by} \subseteq {Nobody, employeeId}

\* A locked profile, on the screen or in a document, is one that was saved as
\* a whole: not the fields of two saves, two employees or two answers.
WholeProfile ==
    /\ ~canEdit => profile.first = profile.rest
    /\ \A e \in Employees :
          doc[e].canEdit = "false" => doc[e].profile.first = doc[e].profile.rest

\* "You can't edit anymore, please contact support team.": a locked profile
\* stays as it is.
EditedOnce ==
    [][\A e \in Employees :
          doc[e].canEdit = "false" /\ ~mixed' => doc'[e].profile = doc[e].profile]_vars

\* A profile that was saved reaches its document, even if the app is killed.
SaveStored ==
    \A s \in Screens, e \in Employees :
        (save[s].to = e /\ save[s].left > 0)
        ~> (doc[e].canEdit = "false")
==============================================================================
