--------------------------- MODULE HomeScreenProofs ---------------------------
(***************************************************************************)
(* What holds of User.employeeId, User.id and the getId calls for any      *)
(* number of employees and home screens.  The proofs about Session,        *)
(* Profile, Picture, Calendar and Attribution start from it.               *)
(***************************************************************************)
EXTENDS HomeScreen, TLAPS

LEMMA CallsType ==
    /\ Done \in GetIds /\ Done.who = Nobody
    /\ \A e \in People : Asking(e) \in GetIds /\ Asking(e).who = e
BY DEF Done, Asking, GetIds, People

LEMMA HomeInitial == HomeInit => HomeInv
BY CallsType, Zenon DEF HomeInit, HomeInv, People

\* initState of a home screen.
LEMMA MountKeeps ==
    ASSUME HomeInv, NEW s \in Screens, NEW e \in People, Mount(s, e)
    PROVE  HomeInv' /\ employeeId' = e /\ id' = id /\ (mixed => mixed')
<1> USE DEF HomeInv, Mount
<1>1. employeeId' = e /\ id' = id /\ getId' = [getId EXCEPT ![s] = Asking(e)]
  OBVIOUS
<1>2. mixed' \in BOOLEAN /\ (mixed => mixed')
  OBVIOUS
<1>3. getId' \in [Screens -> GetIds]
  BY <1>1, CallsType
<1>4. ASSUME ~mixed'
      PROVE  /\ id' \in {Nobody, employeeId'}
             /\ \A r \in Screens : getId'[r].who \in {Nobody, employeeId'}
  <2>1. ~mixed /\ employeeId \in {Nobody, e}
    BY <1>4, Zenon
  <2>2. id \in {Nobody, e} /\ \A r \in Screens : getId[r].who \in {Nobody, e}
    BY <2>1
  <2>3. \A r \in Screens : getId'[r].who \in {Nobody, e}
    BY <1>1, <2>2, CallsType
  <2> QED
    BY <1>1, <2>2, <2>3
<1> QED
  BY <1>1, <1>2, <1>3, <1>4

\* The answers to getId.
LEMMA AnswerKeeps ==
    ASSUME HomeInv, NEW s \in Screens, IdShown(s) \/ IdFailed(s)
    PROVE  HomeInv' /\ employeeId' = employeeId /\ mixed' = mixed
<1> USE DEF HomeInv
<1>1. employeeId' = employeeId /\ mixed' = mixed
      /\ getId' = [getId EXCEPT ![s] = Done]
      /\ id' \in {id, getId[s].who}
  BY DEF IdShown, IdFailed
<1>2. getId' \in [Screens -> GetIds]
  BY <1>1, CallsType
<1>3. id' \in People
  BY <1>1 DEF GetIds
<1>4. \A r \in Screens : getId'[r].who \in {Nobody, getId[r].who}
  BY <1>1, CallsType
<1> QED
  BY <1>1, <1>2, <1>3, <1>4

LEMMA ResetKeeps ==
    ASSUME HomeInv, Reset
    PROVE  HomeInv' /\ employeeId' = Nobody /\ mixed' = mixed
BY CallsType DEF HomeInv, Reset, People

LEMMA HomeStutters ==
    ASSUME HomeInv, UNCHANGED homeVars
    PROVE  HomeInv'
BY DEF HomeInv, homeVars

\* However home screens are mounted, left and answered: as long as no process
\* serves two employees, User.id and every getId call are of User.employeeId.
THEOREM HomeScreenCorrect == HomeSpec => []HomeInv
<1>1. HomeInit => HomeInv
  BY HomeInitial
<1>2. HomeInv /\ [HomeNext]_homeVars => HomeInv'
  BY MountKeeps, AnswerKeeps, ResetKeeps, HomeStutters DEF HomeNext
<1> QED
  BY <1>1, <1>2, PTL DEF HomeSpec
===============================================================================
