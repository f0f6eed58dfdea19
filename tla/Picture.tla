------------------------------- MODULE Picture -------------------------------
(***************************************************************************)
(* pickUploadProfilePic of lib/profilescreen.dart: a picture is picked,    *)
(* stored in a file named after the employee, its link shown and written   *)
(* to the employee's document.  User.employeeId is read after the first    *)
(* await and User.id after the third.  The link is the name of the file.   *)
(***************************************************************************)
EXTENDS HomeScreen, Sequences, FiniteSets

CONSTANTS
    Lower,     \* the file of an employee: toLowerCase of the id
    MaxQueue   \* bound: updates that may be pending

ASSUME MaxQueueAssumption == MaxQueue \in Nat

VARIABLES
    files,     \* Firebase Storage
    link,      \* the field profilePic of each Employee document
    queue,     \* the phone's updates that the server has not taken yet
    pic,       \* User.profilePicLink
    open,      \* the profile screens that are mounted
    upload     \* the pickUploadProfilePic call of each of them

vars == <<homeVars, files, link, queue, pic, open, upload>>

NoPic == " "

Files == {Lower[e] : e \in People}

Pics == Files \cup {NoPic}

Updates == [to : People, pic : Files]

Uploads == [pc : {"idle", "pick", "put", "url"}, file : Pics]

Upload(pc, file) == [pc |-> pc, file |-> file]

NoUpload == Upload("idle", NoPic)

Init ==
    /\ HomeInit
    /\ files = {}
    /\ link = [e \in Employees |-> NoPic]
    /\ queue = <<>>
    /\ pic = NoPic
    /\ open = {}
    /\ upload = [s \in Screens |-> NoUpload]

Resume(s, call) == upload' = [upload EXCEPT ![s] = call]

MountHome(s, e) ==
    /\ upload[s].pc = "idle"
    /\ Mount(s, e)
    /\ open' = open \cup {s}
    /\ UNCHANGED <<files, link, queue, pic, upload>>

\* The screen is left with the back button; its calls go on.
Leave(s) ==
    /\ s \in open
    /\ open' = open \ {s}
    /\ UNCHANGED <<homeVars, files, link, queue, pic, upload>>

Answer(s) ==
    /\ IdShown(s) \/ IdFailed(s)
    /\ UNCHANGED <<files, link, queue, pic, open, upload>>

\* The process ends.  The client's queue is on disk.
Kill ==
    /\ Reset
    /\ pic' = NoPic
    /\ open' = {}
    /\ upload' = [s \in Screens |-> NoUpload]
    /\ UNCHANGED <<files, link, queue>>

\* The model's bound on the queue holds back the tap alone.
HasRoom ==
    Len(queue) + Cardinality({s \in Screens : upload[s].pc # "idle"}) < MaxQueue

\* The picture is tapped and the gallery opens.
Pick(s) ==
    /\ s \in open
    /\ upload[s].pc = "idle"
    /\ HasRoom
    /\ Resume(s, Upload("pick", NoPic))
    /\ UNCHANGED <<homeVars, files, link, queue, pic, open>>

\* A picture was picked; it is sent to the file of User.employeeId.
Picked(s) ==
    /\ upload[s].pc = "pick"
    /\ Resume(s, Upload("put", Lower[employeeId]))
    /\ UNCHANGED <<homeVars, files, link, queue, pic, open>>

\* putFile is not awaited.
StoredLater(s) ==
    /\ upload[s].pc = "put"
    /\ Resume(s, Upload("url", upload[s].file))
    /\ UNCHANGED <<homeVars, files, link, queue, pic, open>>

Stored(s) ==
    /\ upload[s].pc = "put"
    /\ files' = files \cup {upload[s].file}
    /\ Resume(s, Upload("url", upload[s].file))
    /\ UNCHANGED <<homeVars, link, queue, pic, open>>

\* getDownloadURL().then(..): the link is shown and written to doc(User.id).
\* If the screen is gone, setState runs its closure and throws.
Linked(s) ==
    /\ upload[s].pc = "url"
    /\ pic' = upload[s].file
    /\ queue' = IF s \in open
                THEN Append(queue, [to |-> id, pic |-> upload[s].file])
                ELSE queue
    /\ Resume(s, NoUpload)
    /\ UNCHANGED <<homeVars, files, link, open>>

\* Nothing was picked, or a call throws.
UploadFailed(s) ==
    /\ upload[s].pc # "idle"
    /\ Resume(s, NoUpload)
    /\ UNCHANGED <<homeVars, files, link, queue, pic, open>>

\* The server takes the oldest update and rejects it if there is no document.
Flush ==
    /\ queue # <<>>
    /\ link' = [e \in Employees |->
                  IF Head(queue).to = e THEN Head(queue).pic ELSE link[e]]
    /\ queue' = Tail(queue)
    /\ UNCHANGED <<homeVars, files, pic, open, upload>>

Next ==
    \/ \E s \in Screens :
          \/ \E e \in People : MountHome(s, e)
          \/ Leave(s) \/ Answer(s)
          \/ Pick(s) \/ Picked(s) \/ Stored(s) \/ Linked(s) \/ UploadFailed(s)
    \/ Flush \/ Kill

Spec == Init /\ [][Next]_vars

-----------------------------------------------------------------------------

\* The files that may hold a picture of e.  The blank id has one too: the app
\* can come up with it after a crash, and log in.
FilesOf(e) == {NoPic, Lower[e], Lower[Nobody]}

\* As long as no process serves two employees, a document links to its own
\* employee's file and the screen shows it, although the file is named and the
\* document chosen at different moments.
OwnPicture ==
    ~mixed => /\ \A e \in Employees : link[e] \in FilesOf(e)
              /\ pic \in FilesOf(employeeId)

\* A link that is shown, stored or about to be is to a file that exists.
LinkedFileExists ==
    /\ pic \in files \cup {NoPic}
    /\ \A e \in Employees : link[e] \in files \cup {NoPic}
    /\ \A i \in 1..Len(queue) : queue[i].pic \in files
==============================================================================
