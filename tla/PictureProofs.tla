---------------------------- MODULE PictureProofs ----------------------------
(***************************************************************************)
(* Picture for any number of employees, screens and pending updates.  A    *)
(* file's name travels from the upload through the queue to the document,  *)
(* so the invariants say of all three places what the properties say of    *)
(* the last.                                                               *)
(***************************************************************************)
EXTENDS Picture, HomeScreenProofs

TypeInv ==
    /\ files \subseteq Files
    /\ link \in [Employees -> Pics]
    /\ queue \in Seq(Updates)
    /\ pic \in Pics
    /\ upload \in [Screens -> Uploads]
    /\ \A s \in Screens : upload[s].pc \in {"put", "url"} => upload[s].file \in Files

\* As long as no process serves two employees.
OwnInv ==
    /\ \A e \in Employees : link[e] \in FilesOf(e)
    /\ \A i \in 1..Len(queue) :
          queue[i].to \in Employees => queue[i].pic \in FilesOf(queue[i].to)
    /\ pic \in FilesOf(employeeId)
    /\ \A s \in Screens : upload[s].file \in FilesOf(employeeId)

ExistsInv ==
    /\ LinkedFileExists
    /\ \A s \in Screens : upload[s].pc = "url" => upload[s].file \in files

PictureInv ==
    /\ HomeInv /\ TypeInv
    /\ ~mixed => OwnInv
    /\ ExistsInv

LEMMA UploadType ==
    ASSUME NEW pc \in {"idle", "pick", "put", "url"}, NEW f \in Pics
    PROVE  /\ Upload(pc, f) \in Uploads
           /\ Upload(pc, f).pc = pc /\ Upload(pc, f).file = f
BY DEF Upload, Uploads

LEMMA NoUploadType ==
    NoUpload \in Uploads /\ NoUpload.pc = "idle" /\ NoUpload.file = NoPic
BY UploadType DEF NoUpload, Pics

LEMMA PictureInitial == Init => PictureInv
<1> SUFFICES ASSUME Init PROVE PictureInv
  OBVIOUS
<1>1. HomeInv
  BY HomeInitial DEF Init
<1>2. TypeInv
  BY NoUploadType DEF Init, TypeInv, Pics
<1>3. OwnInv
  BY NoUploadType DEF Init, OwnInv, FilesOf
<1>4. ExistsInv
  BY NoUploadType DEF Init, ExistsInv, LinkedFileExists
<1> QED
  BY <1>1, <1>2, <1>3, <1>4 DEF PictureInv

LEMMA MountHomeKeeps ==
    ASSUME PictureInv, NEW s \in Screens, NEW e \in People, MountHome(s, e)
    PROVE  PictureInv'
<1>1. HomeInv' /\ employeeId' = e /\ (mixed => mixed')
  BY MountKeeps DEF PictureInv, MountHome
<1>2. UNCHANGED <<files, link, queue, pic, upload>>
  BY DEF MountHome
<1>3. ASSUME ~mixed' PROVE OwnInv'
  <2>1. ~mixed /\ employeeId \in {Nobody, e}
    BY <1>1, <1>3, Zenon DEF MountHome, Mount
  <2>2. FilesOf(employeeId) \subseteq FilesOf(e)
    BY <2>1 DEF FilesOf
  <2> QED
    BY <1>1, <1>2, <2>1, <2>2 DEF PictureInv, OwnInv
<1>4. TypeInv' /\ ExistsInv'
  BY <1>2 DEF PictureInv, TypeInv, ExistsInv, LinkedFileExists
<1> QED
  BY <1>1, <1>3, <1>4 DEF PictureInv

LEMMA LeaveKeeps ==
    ASSUME PictureInv, NEW s \in Screens, Leave(s) \/ Answer(s)
    PROVE  PictureInv'
<1>1. HomeInv' /\ employeeId' = employeeId /\ mixed' = mixed
  BY AnswerKeeps, HomeStutters DEF PictureInv, Leave, Answer, homeVars
<1>2. UNCHANGED <<files, link, queue, pic, upload>>
  BY DEF Leave, Answer
<1> QED
  BY <1>1, <1>2 DEF PictureInv, TypeInv, OwnInv, ExistsInv, LinkedFileExists

LEMMA KillKeeps ==
    ASSUME PictureInv, Kill
    PROVE  PictureInv'
<1>1. HomeInv' /\ mixed' = mixed
  BY ResetKeeps DEF PictureInv, Kill
<1>2. TypeInv'
  BY NoUploadType DEF PictureInv, TypeInv, Kill, Pics
<1>3. ~mixed => OwnInv'
  BY NoUploadType DEF PictureInv, OwnInv, Kill, FilesOf
<1>4. ExistsInv'
  BY NoUploadType DEF PictureInv, ExistsInv, LinkedFileExists, Kill
<1> QED
  BY <1>1, <1>2, <1>3, <1>4 DEF PictureInv

\* A call goes on, files may be stored, and nothing else changes.
LEMMA ResumeKeeps ==
    ASSUME PictureInv, NEW s \in Screens, NEW call \in Uploads, Resume(s, call),
           UNCHANGED <<homeVars, link, queue, pic>>,
           files \subseteq files', files' \subseteq Files,
           ~mixed => call.file \in FilesOf(employeeId),
           call.pc \in {"put", "url"} => call.file \in Files,
           call.pc = "url" => call.file \in files'
    PROVE  PictureInv'
<1> USE DEF PictureInv
<1>1. HomeInv' /\ employeeId' = employeeId /\ mixed' = mixed
  BY HomeStutters DEF homeVars
<1>2. upload' = [upload EXCEPT ![s] = call]
  BY DEF Resume
<1>3. TypeInv'
  BY <1>2 DEF TypeInv
<1>4. ~mixed => OwnInv'
  BY <1>1, <1>2 DEF OwnInv, TypeInv
<1>5. ExistsInv'
  BY <1>2 DEF ExistsInv, LinkedFileExists, TypeInv
<1> QED
  BY <1>1, <1>3, <1>4, <1>5

LEMMA UploadKeeps ==
    ASSUME PictureInv, NEW s \in Screens,
           Pick(s) \/ Picked(s) \/ Stored(s) \/ UploadFailed(s)
    PROVE  PictureInv'
<1> USE DEF PictureInv
<1>0. files \subseteq Files /\ Files \subseteq Pics /\ NoPic \in Pics
  BY DEF TypeInv, Pics
<1>1. CASE Pick(s)
  BY <1>0, <1>1, UploadType, ResumeKeeps DEF Pick, FilesOf
<1>2. CASE Picked(s)
  <2>1. Lower[employeeId] \in Files
    BY DEF HomeInv, Files
  <2> QED
    BY <1>0, <1>2, <2>1, UploadType, ResumeKeeps DEF Picked, FilesOf
<1>3. CASE Stored(s)
  <2> DEFINE f == upload[s].file
  <2>1. f \in Pics /\ (~mixed => f \in FilesOf(employeeId))
    BY DEF TypeInv, Uploads, OwnInv
  <2>2. f \in Files
    BY <1>3 DEF Stored, TypeInv
  <2> QED
    BY <1>0, <1>3, <2>1, <2>2, UploadType, ResumeKeeps DEF Stored
<1>4. CASE UploadFailed(s)
  BY <1>0, <1>4, NoUploadType, ResumeKeeps DEF UploadFailed, FilesOf
<1> QED
  BY <1>1, <1>2, <1>3, <1>4

LEMMA LinkedKeeps ==
    ASSUME PictureInv, NEW s \in Screens, Linked(s)
    PROVE  PictureInv'
<1> USE DEF PictureInv
<1> DEFINE f == upload[s].file
           u == [to |-> id, pic |-> f]
<1>1. f \in files /\ f \in Files /\ (~mixed => f \in FilesOf(employeeId))
  BY DEF Linked, ExistsInv, TypeInv, OwnInv
<1>2. u \in Updates /\ u.to = id /\ u.pic = f
  BY <1>1 DEF Updates, HomeInv
<1>3. /\ queue' \in {queue, Append(queue, u)}
      /\ pic' = f /\ upload' = [upload EXCEPT ![s] = NoUpload]
      /\ UNCHANGED <<homeVars, files, link>>
  BY DEF Linked, Resume
<1>4. /\ queue' \in Seq(Updates)
      /\ \A i \in 1..Len(queue') : queue'[i] = u \/ (i \in 1..Len(queue) /\ queue'[i] = queue[i])
  <2>1. queue \in Seq(Updates)
    BY DEF TypeInv
  <2>2. CASE queue' = queue
    BY <2>1, <2>2
  <2>3. CASE queue' = Append(queue, u)
    <3> HIDE DEF u, PictureInv
    <3> QED
      BY <1>2, <2>1, <2>3
  <2> HIDE DEF u, PictureInv
  <2> QED
    BY <1>3, <2>2, <2>3, Zenon
<1>5. HomeInv' /\ employeeId' = employeeId /\ mixed' = mixed
  BY <1>3, HomeStutters DEF homeVars
<1>6. TypeInv'
  BY <1>1, <1>3, <1>4, NoUploadType DEF TypeInv, Pics
<1>7. ASSUME ~mixed PROVE OwnInv'
  <2>1. u.to \in Employees => u.pic \in FilesOf(u.to)
    BY <1>1, <1>2, <1>7, NobodyAssumption DEF HomeInv
  <2>2. \A i \in 1..Len(queue') :
           queue'[i].to \in Employees => queue'[i].pic \in FilesOf(queue'[i].to)
    BY <1>4, <1>7, <2>1 DEF OwnInv
  <2>3. \A r \in Screens : upload'[r].file \in FilesOf(employeeId)
    BY <1>3, <1>7, NoUploadType DEF OwnInv, TypeInv, FilesOf
  <2> QED
    BY <1>1, <1>3, <1>5, <1>7, <2>2, <2>3 DEF OwnInv
<1>8. ExistsInv'
  <2>1. \A i \in 1..Len(queue') : queue'[i].pic \in files
    BY <1>1, <1>2, <1>4 DEF ExistsInv, LinkedFileExists
  <2> QED
    BY <1>1, <1>3, <2>1, NoUploadType DEF ExistsInv, LinkedFileExists, TypeInv
<1> QED
  BY <1>5, <1>6, <1>7, <1>8

LEMMA FlushKeeps ==
    ASSUME PictureInv, Flush
    PROVE  PictureInv'
<1> USE DEF PictureInv
<1> DEFINE u == Head(queue)
<1>1. queue \in Seq(Updates) /\ queue # <<>>
  BY DEF TypeInv, Flush
<1>2. u \in Updates /\ u = queue[1] /\ 1 \in 1..Len(queue)
  BY <1>1
<1>3. /\ queue' = Tail(queue) /\ queue' \in Seq(Updates)
      /\ \A i \in 1..Len(queue') : i + 1 \in 1..Len(queue) /\ queue'[i] = queue[i + 1]
  BY <1>1 DEF Flush
<1>4. /\ link' = [e \in Employees |-> IF u.to = e THEN u.pic ELSE link[e]]
      /\ UNCHANGED <<homeVars, files, pic, upload>>
  BY DEF Flush
<1>5. HomeInv' /\ employeeId' = employeeId /\ mixed' = mixed
  BY <1>4, HomeStutters DEF homeVars
<1>6. TypeInv'
  <2>1. u.pic \in Pics
    BY <1>2 DEF Updates, Pics
  <2>2. link' \in [Employees -> Pics]
    BY <1>4, <2>1 DEF TypeInv
  <2> QED
    BY <1>3, <1>4, <2>2 DEF TypeInv
<1>7. ASSUME ~mixed PROVE OwnInv'
  <2>1. \A e \in Employees : link'[e] \in FilesOf(e)
    BY <1>2, <1>4, <1>7 DEF OwnInv
  <2>2. \A i \in 1..Len(queue') :
           queue'[i].to \in Employees => queue'[i].pic \in FilesOf(queue'[i].to)
    BY <1>3, <1>7 DEF OwnInv
  <2> QED
    BY <1>4, <1>5, <1>7, <2>1, <2>2 DEF OwnInv
<1>8. ExistsInv'
  <2>1. u.pic \in files
    BY <1>2 DEF ExistsInv, LinkedFileExists
  <2>2. \A e \in Employees : link'[e] \in files \cup {NoPic}
    BY <1>4, <2>1 DEF ExistsInv, LinkedFileExists
  <2>3. \A i \in 1..Len(queue') : queue'[i].pic \in files
    BY <1>3 DEF ExistsInv, LinkedFileExists
  <2> QED
    BY <1>4, <2>2, <2>3 DEF ExistsInv, LinkedFileExists
<1> QED
  BY <1>5, <1>6, <1>7, <1>8

LEMMA PictureStep == PictureInv /\ [Next]_vars => PictureInv'
<1> SUFFICES ASSUME PictureInv, [Next]_vars PROVE PictureInv'
  OBVIOUS
<1>1. CASE UNCHANGED vars
  <2>1. UNCHANGED <<files, link, queue, pic, upload>> /\ UNCHANGED homeVars
    BY <1>1 DEF vars
  <2>2. HomeInv'
    BY <2>1, HomeStutters DEF PictureInv
  <2> QED
    BY <2>1, <2>2
       DEF homeVars, PictureInv, TypeInv, OwnInv, ExistsInv, LinkedFileExists
<1>2. CASE Next
  BY <1>2, MountHomeKeeps, LeaveKeeps, KillKeeps, UploadKeeps, LinkedKeeps, FlushKeeps
     DEF Next
<1> QED
  BY <1>1, <1>2

\* For any way in which ids are put in lower case: as long as no process serves
\* two employees, a document links to its own employee's file.
THEOREM PictureIsOwn == Spec => []OwnPicture
<1>1. PictureInv => OwnPicture
  BY DEF PictureInv, OwnInv, OwnPicture
<1> QED
  BY PictureInitial, PictureStep, <1>1, PTL DEF Spec

\* A link that is shown, pending or stored is to a file that exists.
THEOREM PictureExists == Spec => []LinkedFileExists
<1>1. PictureInv => LinkedFileExists
  BY DEF PictureInv, ExistsInv
<1> QED
  BY PictureInitial, PictureStep, <1>1, PTL DEF Spec
==============================================================================
