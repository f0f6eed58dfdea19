---------------------------- MODULE SessionProofs ----------------------------
(***************************************************************************)
(* Session for any number of employees, offices, screens and taps, and any *)
(* depth of the stack and of the disk's queue.  An id gets from a LOGIN    *)
(* handler to the cache, to the queue, to the disk, back to the cache of   *)
(* the next process, to User and to the getId calls; loggedIn takes the    *)
(* same way to the stack.  SessionInv says of each of these places that    *)
(* what is there was proved.  Agrees says that the disk will come to hold  *)
(* what memory holds, and BoundInv that no handler is held back.           *)
(***************************************************************************)
EXTENDS Session, HomeScreenProofs, FiniteSetTheorems

LooseLogins ==
    [pc : {"idle", "query", "commit"}, who : People, right : BOOLEAN,
     at : Nat, left : Nat]

GoodLogin(l, pr) ==
    /\ l \in LooseLogins
    /\ l.right => l.who \in pr
    /\ l.pc = "commit" => l.right

GoodPrefs(p, pr) ==
    /\ p \in [Keys -> Values]
    /\ p["employeeId"] \in pr \cup {Nobody}
    /\ p["loggedIn"] \in BOOLEAN
    /\ p["loggedIn"] => pr # {}

GoodWrite(w, pr) ==
    /\ w \in Writes
    /\ w.key = "employeeId" => w.value \in pr \cup {Nobody}
    /\ w.key = "loggedIn" => w.value \in BOOLEAN /\ (w.value => pr # {})

GoodWrites(q, pr) ==
    q \in Seq(Writes) /\ \A i \in 1..Len(q) : GoodWrite(q[i], pr)

GoodStack(stk, pr) ==
    /\ stk \in Seq(Routes)
    /\ \A i \in 1..Len(stk) : stk[i] \notin {"form", "register"} => pr # {}

UserInv ==
    /\ employeeId \in proved \cup {Nobody} /\ id \in proved \cup {Nobody}
    /\ \A s \in Screens : getId[s].who \in proved \cup {Nobody}

LoginInv ==
    /\ login \in [Taps -> LooseLogins]
    /\ \A t \in Taps : GoodLogin(login[t], proved)

PrefsInv ==
    GoodPrefs(cache, proved) /\ GoodPrefs(disk, proved) /\ GoodWrites(unsaved, proved)

SessionInv ==
    /\ proved \subseteq Employees
    /\ HomeInv /\ UserInv /\ LoginInv /\ PrefsInv
    /\ GoodStack(stack, proved)

(***************************************************************************)
(* What is proved stays proved.                                            *)
(***************************************************************************)

LEMMA Monotonic ==
    ASSUME NEW pr, NEW qr, pr \subseteq qr
    PROVE  /\ \A p : GoodPrefs(p, pr) => GoodPrefs(p, qr)
           /\ \A q : GoodWrites(q, pr) => GoodWrites(q, qr)
           /\ \A stk : GoodStack(stk, pr) => GoodStack(stk, qr)
           /\ \A l : GoodLogin(l, pr) => GoodLogin(l, qr)
BY Zenon DEF GoodPrefs, GoodWrites, GoodWrite, GoodStack, GoodLogin

LEMMA ProvedGrows ==
    ASSUME SessionInv, [Next]_vars
    PROVE  proved \subseteq proved' /\ proved' \subseteq Employees
<1>1. CASE \E t \in Taps : LoginTap(t)
  BY <1>1, Zenon DEF SessionInv, LoginTap
<1>2. CASE UNCHANGED proved
  BY <1>2, Zenon DEF SessionInv
<1> QED
  BY <1>1, <1>2, Zenon DEF Next, vars, Start, Kill, Back, Saved, Rebuild, OfficesLoaded,
     OfficesFailed, LoginAccepted, LoginRefused, LoginDone, ChooseOffice, Logout,
     ToRegister, ToLogin, RegisterTap, RegisterFree, RegisterEnds, RegisterAdded, Answer

(***************************************************************************)
(* The home screens: what every step of Session is to HomeScreen.          *)
(***************************************************************************)

HomeStep ==
    \/ UNCHANGED homeVars
    \/ Reset
    \/ \E s \in Screens :
          Mount(s, cache["employeeId"]) \/ IdShown(s) \/ IdFailed(s)

LEMMA StepOfHome == [Next]_vars => HomeStep
<1> SUFFICES ASSUME [Next]_vars PROVE HomeStep
  OBVIOUS
<1> USE DEF HomeStep
<1>1. CASE UNCHANGED vars
  BY <1>1, Zenon DEF vars
<1>2. CASE Start \/ ToLogin \/ RegisterAdded
  BY <1>2, Zenon DEF Start, ToLogin, RegisterAdded, PushLogin
<1>3. CASE Kill
  BY <1>3, Zenon DEF Kill
<1>4. CASE \E i \in 1..Len(stack) : Rebuild(i)
  BY <1>4, Zenon DEF Rebuild
<1>5. CASE ChooseOffice
  BY <1>5, Zenon DEF ChooseOffice
<1>6. CASE \E s \in Screens : Answer(s)
  BY <1>6, Zenon DEF Answer
<1>7. CASE \/ Back \/ Saved \/ Logout \/ ToRegister
           \/ RegisterTap \/ RegisterFree \/ RegisterEnds
           \/ \E i \in 1..Len(stack) : OfficesLoaded(i) \/ OfficesFailed(i)
           \/ \E t \in Taps :
                 LoginTap(t) \/ LoginAccepted(t) \/ LoginRefused(t) \/ LoginDone(t)
  BY <1>7, Zenon DEF Back, Saved, Logout, ToRegister, RegisterTap, RegisterFree, RegisterEnds,
     OfficesLoaded, OfficesFailed, LoginTap, LoginAccepted, LoginRefused, LoginDone
<1> QED
  BY <1>1, <1>2, <1>3, <1>4, <1>5, <1>6, <1>7, Zenon DEF Next

LEMMA CacheNames == SessionInv => cache["employeeId"] \in People
BY Zenon DEF SessionInv, PrefsInv, GoodPrefs, People

LEMMA HomePart ==
    ASSUME SessionInv, [Next]_vars
    PROVE  HomeInv' /\ UserInv'
<1>1. proved \subseteq proved'
  BY ProvedGrows, Zenon
<1>2. HomeStep
  BY StepOfHome, Zenon
<1>3. HomeInv
  BY Zenon DEF SessionInv
<1>4. CASE UNCHANGED homeVars
  BY <1>1, <1>3, <1>4, HomeStutters, Zenon DEF homeVars, SessionInv, UserInv
<1>5. CASE Reset
  <2>1. employeeId' = Nobody /\ id' = Nobody /\ \A s \in Screens : getId'[s].who = Nobody
    BY <1>5, CallsType, Zenon DEF Reset
  <2> QED
    BY <1>3, <1>5, <2>1, ResetKeeps, Zenon DEF UserInv
<1>6. ASSUME NEW s \in Screens, Mount(s, cache["employeeId"])
      PROVE  HomeInv' /\ UserInv'
  <2> DEFINE e == cache["employeeId"]
  <2>1. e \in People /\ e \in proved \cup {Nobody}
    BY CacheNames, Zenon DEF SessionInv, PrefsInv, GoodPrefs
  <2>2. HomeInv' /\ employeeId' = e /\ id' = id
    BY <1>3, <1>6, <2>1, MountKeeps, Zenon
  <2>3. getId' = [getId EXCEPT ![s] = Asking(e)]
    BY <1>6, Zenon DEF Mount
  <2>4. \A r \in Screens : getId'[r].who \in {e, getId[r].who}
    BY <1>3, <2>1, <2>3, CallsType, Zenon DEF HomeInv
  <2> QED
    BY <1>1, <2>1, <2>2, <2>4, Zenon DEF UserInv, SessionInv
<1>7. ASSUME NEW s \in Screens, IdShown(s) \/ IdFailed(s)
      PROVE  HomeInv' /\ UserInv'
  <2>1. HomeInv' /\ employeeId' = employeeId
    BY <1>3, <1>7, AnswerKeeps, Zenon
  <2>2. getId' = [getId EXCEPT ![s] = Done] /\ id' \in {id, getId[s].who}
    BY <1>7, Zenon DEF IdShown, IdFailed
  <2>3. \A r \in Screens : getId'[r].who \in {Nobody, getId[r].who}
    BY <1>3, <2>2, CallsType, Zenon DEF HomeInv
  <2> QED
    BY <1>1, <2>1, <2>2, <2>3, Zenon DEF UserInv, SessionInv
<1> QED
  BY <1>2, <1>4, <1>5, <1>6, <1>7, Zenon DEF HomeStep
(***************************************************************************)
(* The preferences.                                                        *)
(***************************************************************************)

LEMMA UnsetGood == GoodPrefs(Unset, {})
<1>1. /\ Unset["loggedIn"] = FALSE /\ Unset["employeeId"] = Nobody
      /\ Unset["latitude"] = NoOffice /\ Unset["longitude"] = NoOffice
  BY Zenon DEF Unset, Keys
<1>2. \A k \in Keys : Unset[k] \in Values
  BY <1>1, Zenon DEF Keys, Values, People
<1>3. Unset \in [Keys -> Values]
  BY <1>2, Zenon DEF Unset
<1> QED
  BY <1>1, <1>3, Zenon DEF GoodPrefs

LEMMA WriteType ==
    ASSUME NEW k \in Keys, NEW v \in Values
    PROVE  Write(k, v) \in Writes /\ Write(k, v).key = k /\ Write(k, v).value = v
BY Zenon DEF Write, Writes

LEMMA PutGood ==
    ASSUME NEW pr, NEW p, NEW w, GoodPrefs(p, pr), GoodWrite(w, pr)
    PROVE  GoodPrefs(Put(p, w), pr)
<1>1. p \in [Keys -> Values] /\ w.key \in Keys /\ w.value \in Values
  BY Zenon DEF GoodPrefs, GoodWrite, Writes
<1>2. /\ Put(p, w) \in [Keys -> Values]
      /\ \A k \in Keys : Put(p, w)[k] = IF k = w.key THEN w.value ELSE p[k]
  BY <1>1, Zenon DEF Put
<1>3. "employeeId" \in Keys /\ "loggedIn" \in Keys
  BY Zenon DEF Keys
<1>4. Put(p, w)["employeeId"] \in pr \cup {Nobody}
  BY <1>2, <1>3, Zenon DEF GoodPrefs, GoodWrite
<1>5. CASE w.key = "loggedIn"
  BY <1>2, <1>3, <1>4, <1>5, Zenon DEF GoodPrefs, GoodWrite
<1>6. CASE w.key # "loggedIn"
  BY <1>2, <1>3, <1>4, <1>6, Zenon DEF GoodPrefs
<1> QED
  BY <1>5, <1>6, Zenon

\* One set more, and the oldest set gone.
LEMMA WritesGood ==
    ASSUME NEW pr, NEW q, GoodWrites(q, pr)
    PROVE  /\ \A w : GoodWrite(w, pr) => GoodWrites(Append(q, w), pr)
           /\ q # <<>> => GoodWrite(Head(q), pr) /\ GoodWrites(Tail(q), pr)
<1>1. q \in Seq(Writes) /\ \A i \in 1..Len(q) : GoodWrite(q[i], pr)
  BY Zenon DEF GoodWrites
<1>2. ASSUME NEW w, GoodWrite(w, pr)
      PROVE  GoodWrites(Append(q, w), pr)
  <2>1. w \in Writes
    BY <1>2, Zenon DEF GoodWrite
  <2>2. Append(q, w) \in Seq(Writes) /\ Len(Append(q, w)) = Len(q) + 1
    BY <1>1, <2>1
  <2>3. \A i \in 1..Len(Append(q, w)) :
           Append(q, w)[i] = w \/ (i \in 1..Len(q) /\ Append(q, w)[i] = q[i])
    BY <1>1, <2>1
  <2> QED
    BY <1>1, <1>2, <2>2, <2>3, Zenon DEF GoodWrites
<1>3. ASSUME q # <<>>
      PROVE  GoodWrite(Head(q), pr) /\ GoodWrites(Tail(q), pr)
  <2>1. 1 \in 1..Len(q) /\ Head(q) = q[1]
    BY <1>1, <1>3
  <2>2. /\ Tail(q) \in Seq(Writes)
        /\ \A i \in 1..Len(Tail(q)) : i + 1 \in 1..Len(q) /\ Tail(q)[i] = q[i + 1]
    BY <1>1, <1>3
  <2>3. \A i \in 1..Len(Tail(q)) : GoodWrite(Tail(q)[i], pr)
    BY <1>1, <2>2, Zenon
  <2> QED
    BY <1>1, <2>1, <2>2, <2>3, Zenon DEF GoodWrites
<1> QED
  BY <1>2, <1>3, Zenon

LEMMA SetPrefKeeps ==
    ASSUME PrefsInv, NEW w, GoodWrite(w, proved), SetPref(w), UNCHANGED proved
    PROVE  PrefsInv'
BY PutGood, WritesGood, Zenon DEF PrefsInv, SetPref

LEMMA SetPrefsKeeps ==
    ASSUME PrefsInv, NEW v, NEW w, GoodWrite(v, proved), GoodWrite(w, proved),
           SetPrefs(v, w), UNCHANGED proved
    PROVE  PrefsInv'
<1>1. unsaved \in Seq(Writes) /\ v \in Writes /\ w \in Writes
  BY Zenon DEF PrefsInv, GoodWrites, GoodWrite
<1>2. unsaved \o <<v, w>> = Append(Append(unsaved, v), w)
  BY <1>1
<1>3. GoodWrites(unsaved', proved)
  BY <1>2, WritesGood, Zenon DEF PrefsInv, SetPrefs
<1>4. GoodPrefs(cache', proved)
  BY PutGood, Zenon DEF PrefsInv, SetPrefs
<1> QED
  BY <1>3, <1>4, Zenon DEF PrefsInv, SetPrefs

LEMMA KeysAndValues ==
    /\ "loggedIn" \in Keys /\ "employeeId" \in Keys
    /\ "latitude" \in Keys /\ "longitude" \in Keys
    /\ BOOLEAN \subseteq Values /\ People \subseteq Values /\ Offices \subseteq Values
BY Zenon DEF Keys, Values

LEMMA PrefsPart ==
    ASSUME SessionInv, [Next]_vars
    PROVE  PrefsInv'
<1> USE DEF SessionInv
<1>0. proved \subseteq proved'
  BY ProvedGrows, Zenon
<1>1. CASE UNCHANGED prefs
  BY <1>0, <1>1, Monotonic, Zenon DEF PrefsInv, prefs
<1>2. CASE Saved
  <2>1. GoodWrite(Head(unsaved), proved) /\ GoodWrites(Tail(unsaved), proved)
    BY <1>2, WritesGood, Zenon DEF PrefsInv, Saved
  <2> QED
    BY <1>2, <2>1, PutGood, Zenon DEF PrefsInv, Saved
<1>3. CASE Kill
  <2>1. GoodWrites(<<>>, proved)
    BY DEF GoodWrites
  <2> QED
    BY <1>3, <2>1, Zenon DEF PrefsInv, Kill
<1>4. ASSUME NEW t \in Taps, LoginAccepted(t) PROVE PrefsInv'
  <2> DEFINE l == login[t]
  <2>1. l.who \in proved
    BY <1>4, Zenon DEF LoginAccepted, LoginInv, GoodLogin
  <2>2. GoodWrite(Write("loggedIn", TRUE), proved)
    BY <2>1, KeysAndValues, WriteType, Zenon DEF GoodWrite
  <2>3. GoodWrite(Write("employeeId", l.who), proved)
    BY <2>1, KeysAndValues, WriteType, Zenon DEF GoodWrite, People
  <2> QED
    BY <1>4, <2>2, <2>3, SetPrefsKeeps, Zenon DEF LoginAccepted
<1>5. CASE ChooseOffice
  <2>1. PICK o \in Offices : SetPrefs(Write("latitude", o), Write("longitude", o))
    BY <1>5, Zenon DEF ChooseOffice
  <2>2. /\ GoodWrite(Write("latitude", o), proved)
        /\ GoodWrite(Write("longitude", o), proved)
    BY KeysAndValues, WriteType, Zenon DEF GoodWrite
  <2> QED
    BY <1>5, <2>1, <2>2, SetPrefsKeeps, Zenon DEF ChooseOffice
<1>6. CASE Logout \/ RegisterFree
  <2> DEFINE w == Write("loggedIn", FALSE)
  <2>0. w \in Writes /\ w.key = "loggedIn" /\ w.value = FALSE
    BY KeysAndValues, WriteType, Zenon
  <2>1. GoodWrite(w, proved)
    BY <2>0, Zenon DEF GoodWrite
  <2> QED
    BY <1>6, <2>1, SetPrefKeeps, Zenon DEF Logout, RegisterFree
<1> QED
  BY <1>1, <1>2, <1>3, <1>4, <1>5, <1>6, Zenon
     DEF Next, vars, Start, Back, Rebuild, OfficesLoaded, OfficesFailed, LoginTap,
     LoginRefused, LoginDone, ToRegister, ToLogin, RegisterTap, RegisterEnds,
     RegisterAdded, Answer

(***************************************************************************)
(* The LOGIN handlers.                                                     *)
(***************************************************************************)

LEMMA LoginType ==
    ASSUME NEW pc \in {"idle", "query", "commit"}, NEW e \in People,
           NEW right \in BOOLEAN, NEW at \in Nat, NEW left \in Nat
    PROVE  /\ Login(pc, e, right, at, left) \in LooseLogins
           /\ Login(pc, e, right, at, left).pc = pc
           /\ Login(pc, e, right, at, left).who = e
           /\ Login(pc, e, right, at, left).right = right
BY Zenon DEF Login, LooseLogins

LEMMA NoLoginGood == \A pr : GoodLogin(NoLogin, pr)
<1>1. Nobody \in People /\ 0 \in Nat /\ FALSE \in BOOLEAN
  BY Zenon DEF People
<1>2. NoLogin \in LooseLogins /\ NoLogin.pc = "idle" /\ ~NoLogin.right
  BY <1>1, Zenon DEF NoLogin, Login, LooseLogins
<1> QED
  BY <1>2, Zenon DEF GoodLogin

LEMMA LoginFields ==
    ASSUME NEW l \in LooseLogins
    PROVE  /\ l.pc \in {"idle", "query", "commit"} /\ l.who \in People
           /\ l.right \in BOOLEAN /\ l.at \in Nat /\ l.left \in Nat
BY Zenon DEF LooseLogins

\* The disk's progress and the back button change nothing that counts.
LEMMA CountdownGood ==
    ASSUME NEW pr, NEW l, GoodLogin(l, pr), NEW n
    PROVE  GoodLogin(Countdown(l), pr) /\ GoodLogin(Orphaned(l, n), pr)
<1>1. l \in LooseLogins /\ (l.right => l.who \in pr) /\ (l.pc = "commit" => l.right)
  BY Zenon DEF GoodLogin
<1>2. /\ l.pc \in {"idle", "query", "commit"} /\ l.who \in People
      /\ l.right \in BOOLEAN /\ l.at \in Nat /\ l.left \in Nat
  BY <1>1, LoginFields, Zenon
<1>3. (IF l.left > 0 THEN l.left - 1 ELSE 0) \in Nat
  BY <1>2
<1>4. (IF l.at = n THEN 0 ELSE l.at) \in Nat
  BY <1>2, Zenon
<1>5. /\ Countdown(l) \in LooseLogins /\ Countdown(l).pc = l.pc
      /\ Countdown(l).who = l.who /\ Countdown(l).right = l.right
  BY <1>2, <1>3, Zenon DEF Countdown, Login, LooseLogins
<1>6. /\ Orphaned(l, n) \in LooseLogins /\ Orphaned(l, n).pc = l.pc
      /\ Orphaned(l, n).who = l.who /\ Orphaned(l, n).right = l.right
  BY <1>2, <1>4, Zenon DEF Orphaned, Login, LooseLogins
<1> QED
  BY <1>1, <1>5, <1>6, Zenon DEF GoodLogin

\* One handler goes on to l.
LEMMA ResumeKeeps ==
    ASSUME LoginInv, NEW t \in Taps, NEW l, proved \subseteq proved',
           GoodLogin(l, proved'), login' = [login EXCEPT ![t] = l]
    PROVE  LoginInv'
<1>1. l \in LooseLogins
  BY Zenon DEF GoodLogin
<1>2. \A r \in Taps : GoodLogin(login[r], proved')
  BY Monotonic, Zenon DEF LoginInv
<1>3. \A r \in Taps : login'[r] \in {l, login[r]}
  BY Zenon DEF LoginInv
<1> QED
  BY <1>1, <1>2, <1>3, Zenon DEF LoginInv

LEMMA LoginPart ==
    ASSUME SessionInv, [Next]_vars
    PROVE  LoginInv'
<1> USE DEF SessionInv
<1>0. proved \subseteq proved'
  BY ProvedGrows, Zenon
<1>1. CASE UNCHANGED login
  BY <1>0, <1>1, Monotonic, Zenon DEF LoginInv
<1>2. CASE Saved
  <2>1. \A t \in Taps : GoodLogin(Countdown(login[t]), proved)
    BY CountdownGood, Zenon DEF LoginInv
  <2> QED
    BY <1>2, <2>1, Zenon DEF Saved, LoginInv, GoodLogin
<1>3. CASE Back
  <2>1. \A t \in Taps : GoodLogin(Orphaned(login[t], Len(stack)), proved)
    BY CountdownGood, Zenon DEF LoginInv
  <2> QED
    BY <1>3, <2>1, Zenon DEF Back, LoginInv, GoodLogin
<1>4. CASE Kill
  <2>1. GoodLogin(NoLogin, proved)
    BY NoLoginGood, Zenon
  <2> QED
    BY <1>4, <2>1, Zenon DEF Kill, LoginInv, GoodLogin
<1>5. ASSUME NEW t \in Taps, LoginTap(t) PROVE LoginInv'
  <2>1. PICK e \in Employees, right \in BOOLEAN :
           /\ login' = [login EXCEPT ![t] = Login("query", e, right, Len(stack), 0)]
           /\ proved' = IF right THEN proved \cup {e} ELSE proved
    BY <1>5, Zenon DEF LoginTap
  <2>2. Len(stack) \in Nat /\ e \in People
    BY DEF GoodStack, People
  <2>3. GoodLogin(Login("query", e, right, Len(stack), 0), proved')
    BY <2>1, <2>2, LoginType DEF GoodLogin
  <2> QED
    BY <1>0, <2>1, <2>3, ResumeKeeps, Zenon
<1>6. ASSUME NEW t \in Taps, LoginAccepted(t) PROVE LoginInv'
  <2> DEFINE l == login[t]
             m == Login("commit", l.who, l.right, l.at, Len(unsaved) + 2)
  <2>1. GoodLogin(l, proved) /\ l.right
    BY <1>6, Zenon DEF LoginInv, LoginAccepted
  <2>2. l.who \in People /\ l.right \in BOOLEAN /\ l.at \in Nat /\ l.who \in proved
    BY <2>1, LoginFields, Zenon DEF GoodLogin
  <2>3. Len(unsaved) + 2 \in Nat
    BY DEF PrefsInv, GoodWrites
  <2>4. m \in LooseLogins /\ m.who = l.who /\ m.right = l.right
    BY <2>2, <2>3, LoginType
  <2>5. proved' = proved /\ login' = [login EXCEPT ![t] = m]
    BY <1>6, Zenon DEF LoginAccepted
  <2>6. GoodLogin(m, proved')
    BY <2>1, <2>2, <2>4, <2>5, Zenon DEF GoodLogin
  <2> QED
    BY <1>0, <2>5, <2>6, ResumeKeeps, Zenon
<1>7. ASSUME NEW t \in Taps, LoginRefused(t) \/ LoginDone(t) PROVE LoginInv'
  BY <1>0, <1>7, NoLoginGood, ResumeKeeps, Zenon DEF LoginRefused, LoginDone
<1> QED
  BY <1>1, <1>2, <1>3, <1>4, <1>5, <1>6, <1>7, Zenon
     DEF Next, vars, Start, Rebuild, OfficesLoaded, OfficesFailed, ChooseOffice, Logout,
     ToRegister, ToLogin, RegisterTap, RegisterFree, RegisterEnds, RegisterAdded, Answer

(***************************************************************************)
(* The stack.                                                              *)
(***************************************************************************)

LEMMA PushGood ==
    ASSUME NEW pr, NEW stk, GoodStack(stk, pr), NEW r \in Routes,
           r \notin {"form", "register"} => pr # {}
    PROVE  GoodStack(Append(stk, r), pr)
<1>1. stk \in Seq(Routes)
  BY Zenon DEF GoodStack
<1>2. Append(stk, r) \in Seq(Routes)
  BY <1>1
<1>3. \A i \in 1..Len(Append(stk, r)) :
         Append(stk, r)[i] = r \/ (i \in 1..Len(stk) /\ Append(stk, r)[i] = stk[i])
  BY <1>1
<1> QED
  BY <1>2, <1>3, Zenon DEF GoodStack

LEMMA ReplaceGood ==
    ASSUME NEW pr, NEW stk, GoodStack(stk, pr), NEW i \in 1..Len(stk),
           NEW r \in Routes, r \notin {"form", "register"} => pr # {}
    PROVE  GoodStack([stk EXCEPT ![i] = r], pr)
<1>1. stk \in Seq(Routes)
  BY Zenon DEF GoodStack
<1> DEFINE new == [stk EXCEPT ![i] = r]
<1>2. new \in Seq(Routes) /\ Len(new) = Len(stk)
  BY <1>1
<1>3. \A j \in 1..Len(stk) : new[j] = r \/ new[j] = stk[j]
  BY <1>1
<1> QED
  BY <1>2, <1>3, Zenon DEF GoodStack

LEMMA PopGood ==
    ASSUME NEW pr, NEW stk, GoodStack(stk, pr), Len(stk) > 1
    PROVE  GoodStack(SubSeq(stk, 1, Len(stk) - 1), pr)
<1>1. stk \in Seq(Routes)
  BY Zenon DEF GoodStack
<1> DEFINE new == SubSeq(stk, 1, Len(stk) - 1)
<1>2. new \in Seq(Routes) /\ Len(new) = Len(stk) - 1
  BY <1>1
<1>3. \A j \in 1..Len(new) : j \in 1..Len(stk) /\ new[j] = stk[j]
  BY <1>1
<1> QED
  BY <1>2, <1>3, Zenon DEF GoodStack

LEMMA PushLoginGood ==
    ASSUME SessionInv, PushLogin(cache)
    PROVE  GoodStack(stack', proved)
<1>1. "form" \in Routes /\ "formHome" \in Routes
  BY Zenon DEF Routes
<1>2. cache["loggedIn"] => proved # {}
  BY Zenon DEF SessionInv, PrefsInv, GoodPrefs
<1> QED
  BY <1>1, <1>2, PushGood, Zenon DEF PushLogin, SessionInv

LEMMA StackPart ==
    ASSUME SessionInv, [Next]_vars
    PROVE  GoodStack(stack', proved')
<1>a. GoodStack(stack, proved) /\ PrefsInv /\ LoginInv
  BY Zenon DEF SessionInv
<1>0. /\ Routes = {"form", "formHome", "register", "loading", "offices", "stuck", "home"}
      /\ proved \subseteq proved'
  BY ProvedGrows, Zenon DEF Routes
<1>1. CASE UNCHANGED stack
  BY <1>a, <1>0, <1>1, Monotonic, Zenon
<1>2. CASE Start \/ ToLogin \/ RegisterAdded
  BY <1>0, <1>2, PushLoginGood, Monotonic, Zenon DEF Start, ToLogin, RegisterAdded
<1>3. CASE Kill
  <2>1. GoodStack(<<>>, proved)
    BY DEF GoodStack
  <2> QED
    BY <1>3, <2>1, Zenon DEF Kill
<1>4. CASE Back
  BY <1>a, <1>4, PopGood, Zenon DEF Back
<1>5. ASSUME NEW i \in 1..Len(stack), Rebuild(i) PROVE GoodStack(stack', proved')
  <2>1. cache["loggedIn"] => proved # {}
    BY <1>a, Zenon DEF PrefsInv, GoodPrefs
  <2>2. PICK r \in {"form", "formHome"} :
           /\ stack' = [stack EXCEPT ![i] = r]
           /\ r = "formHome" => cache["loggedIn"]
    BY <1>5, Zenon DEF Rebuild
  <2>3. GoodStack([stack EXCEPT ![i] = r], proved)
    BY <1>a, <1>0, <2>1, <2>2, ReplaceGood, Zenon
  <2> QED
    BY <1>0, <2>2, <2>3, Monotonic, Zenon
<1>6. ASSUME NEW i \in 1..Len(stack), OfficesLoaded(i) \/ OfficesFailed(i)
      PROVE  GoodStack(stack', proved')
  <2>1. stack[i] = "loading"
    BY <1>6, Zenon DEF OfficesLoaded, OfficesFailed
  <2>2. proved # {}
    BY <1>a, <2>1, Zenon DEF GoodStack
  <2>3. PICK r \in {"offices", "stuck"} : stack' = [stack EXCEPT ![i] = r]
    BY <1>6, Zenon DEF OfficesLoaded, OfficesFailed
  <2>4. GoodStack([stack EXCEPT ![i] = r], proved)
    BY <1>a, <1>0, <2>2, ReplaceGood, Zenon
  <2> QED
    BY <1>0, <2>3, <2>4, Monotonic, Zenon
<1>7. ASSUME NEW t \in Taps, LoginDone(t) PROVE GoodStack(stack', proved')
  <2>1. proved # {}
    BY <1>a, <1>7, Zenon DEF LoginDone, LoginInv, GoodLogin
  <2> QED
    BY <1>a, <1>0, <1>7, <2>1, PushGood, Zenon DEF LoginDone
<1>8. CASE ChooseOffice
  <2>1. Len(stack) \in 1..Len(stack) /\ stack[Len(stack)] = "offices"
    BY <1>a, <1>8 DEF ChooseOffice, OnTop, Top, GoodStack
  <2>2. proved # {}
    BY <1>a, <2>1, Zenon DEF GoodStack
  <2> QED
    BY <1>a, <1>0, <1>8, <2>2, PushGood, Zenon DEF ChooseOffice
<1>9. CASE Logout \/ ToRegister
  BY <1>a, <1>0, <1>9, PushGood, Zenon DEF Logout, ToRegister
<1> QED
  BY <1>1, <1>2, <1>3, <1>4, <1>5, <1>6, <1>7, <1>8, <1>9, Zenon
     DEF Next, vars, Saved, LoginTap, LoginAccepted, LoginRefused, RegisterTap,
     RegisterFree, RegisterEnds, Answer

(***************************************************************************)
(* Memory and disk.  What a step does to the preferences, whatever else it *)
(* does.                                                                   *)
(***************************************************************************)

PrefsStep ==
    \/ UNCHANGED prefs
    \/ Saved
    \/ Kill
    \/ SetPref(Write("loggedIn", FALSE))
    \/ \E e \in People :
          SetPrefs(Write("loggedIn", TRUE), Write("employeeId", e))
    \/ \E o \in Offices :
          SetPrefs(Write("latitude", o), Write("longitude", o))

LEMMA StepOfPrefs ==
    ASSUME SessionInv, [Next]_vars
    PROVE  PrefsStep
<1>1. ASSUME NEW t \in Taps, LoginAccepted(t) PROVE PrefsStep
  <2>1. login[t].who \in People
    BY LoginFields, Zenon DEF SessionInv, LoginInv
  <2> QED
    BY <1>1, <2>1, Zenon DEF LoginAccepted, PrefsStep
<1>2. CASE ChooseOffice
  BY <1>2, Zenon DEF ChooseOffice, PrefsStep
<1>3. CASE Logout \/ RegisterFree
  BY <1>3, Zenon DEF Logout, RegisterFree, PrefsStep
<1> QED
  BY <1>1, <1>2, <1>3, Zenon
     DEF PrefsStep, Next, vars, Start, Back, Rebuild, OfficesLoaded, OfficesFailed, LoginTap,
     LoginRefused, LoginDone, ToRegister, ToLogin, RegisterTap, RegisterEnds,
     RegisterAdded, Answer

KindOfWrite(w) == w \in Writes /\ w.value \in ValuesOf(w.key)

KindOfWrites(q) ==
    q \in Seq(Writes) /\ \A i \in 1..Len(q) : q[i].value \in ValuesOf(q[i].key)

KindInv == IsPrefs(cache) /\ IsPrefs(disk) /\ KindOfWrites(unsaved)

\* The sets the app makes are of the kind of their key.
LEMMA KindsSet ==
    /\ \A b \in BOOLEAN :
         KindOfWrite(Write("loggedIn", b)) /\ Write("loggedIn", b).key = "loggedIn"
    /\ \A e \in People :
          KindOfWrite(Write("employeeId", e)) /\ Write("employeeId", e).key = "employeeId"
    /\ \A o \in Offices, k \in {"latitude", "longitude"} :
          KindOfWrite(Write(k, o)) /\ Write(k, o).key = k /\ Write(k, o).value = o
<1>1. ASSUME NEW b \in BOOLEAN
      PROVE  KindOfWrite(Write("loggedIn", b)) /\ Write("loggedIn", b).key = "loggedIn"
  <2>1. b \in Values /\ "loggedIn" \in Keys
    BY KeysAndValues, Zenon
  <2>2. ValuesOf("loggedIn") = BOOLEAN
    BY Zenon DEF ValuesOf
  <2> QED
    BY <2>1, <2>2, WriteType, Zenon DEF KindOfWrite
<1>2. ASSUME NEW e \in People
      PROVE  KindOfWrite(Write("employeeId", e)) /\ Write("employeeId", e).key = "employeeId"
  BY KeysAndValues, WriteType DEF KindOfWrite, ValuesOf
<1>3. ASSUME NEW o \in Offices, NEW k \in {"latitude", "longitude"}
      PROVE  KindOfWrite(Write(k, o)) /\ Write(k, o).key = k /\ Write(k, o).value = o
  BY KeysAndValues, WriteType DEF KindOfWrite, ValuesOf
<1> QED
  BY <1>1, <1>2, <1>3, Zenon

LEMMA PutKind ==
    ASSUME NEW p, NEW w, IsPrefs(p), KindOfWrite(w)
    PROVE  /\ IsPrefs(Put(p, w))
           /\ \A k \in Keys : Put(p, w)[k] = IF k = w.key THEN w.value ELSE p[k]
<1>1. p \in [Keys -> Values] /\ w.key \in Keys /\ w.value \in Values
  BY Zenon DEF IsPrefs, KindOfWrite, Writes
<1>2. /\ Put(p, w) \in [Keys -> Values]
      /\ \A k \in Keys : Put(p, w)[k] = IF k = w.key THEN w.value ELSE p[k]
  BY <1>1, Zenon DEF Put
<1> QED
  BY <1>1, <1>2, Zenon DEF IsPrefs, KindOfWrite

LEMMA PutOther ==
    ASSUME NEW p, NEW w, IsPrefs(p), KindOfWrite(w)
    PROVE  \A k \in Keys : k # w.key => Put(p, w)[k] = p[k]
<1>1. \A k \in Keys : Put(p, w)[k] = IF k = w.key THEN w.value ELSE p[k]
  BY PutKind, Zenon
<1> QED
  BY <1>1, Zenon

LEMMA WritesKind ==
    ASSUME NEW q, KindOfWrites(q)
    PROVE  /\ \A w : KindOfWrite(w) => KindOfWrites(Append(q, w))
           /\ q # <<>> => KindOfWrite(Head(q)) /\ KindOfWrites(Tail(q))
<1>1. q \in Seq(Writes) /\ \A i \in 1..Len(q) : q[i].value \in ValuesOf(q[i].key)
  BY Zenon DEF KindOfWrites
<1>2. ASSUME NEW w, KindOfWrite(w)
      PROVE  KindOfWrites(Append(q, w))
  <2>1. w \in Writes
    BY <1>2, Zenon DEF KindOfWrite
  <2>2. Append(q, w) \in Seq(Writes) /\ Len(Append(q, w)) = Len(q) + 1
    BY <1>1, <2>1
  <2>3. \A i \in 1..Len(Append(q, w)) :
           Append(q, w)[i] = w \/ (i \in 1..Len(q) /\ Append(q, w)[i] = q[i])
    BY <1>1, <2>1
  <2> QED
    BY <1>1, <1>2, <2>2, <2>3, Zenon DEF KindOfWrites, KindOfWrite
<1>3. ASSUME q # <<>>
      PROVE  KindOfWrite(Head(q)) /\ KindOfWrites(Tail(q))
  <2>1. 1 \in 1..Len(q) /\ Head(q) = q[1] /\ q[1] \in Writes
    BY <1>1, <1>3
  <2>2. /\ Tail(q) \in Seq(Writes)
        /\ \A i \in 1..Len(Tail(q)) : i + 1 \in 1..Len(q) /\ Tail(q)[i] = q[i + 1]
    BY <1>1, <1>3
  <2> QED
    BY <1>1, <2>1, <2>2, Zenon DEF KindOfWrites, KindOfWrite
<1> QED
  BY <1>2, <1>3, Zenon

\* Two sets are one after the other.
LEMMA TwoSets ==
    ASSUME NEW q, NEW v, NEW w, KindOfWrites(q), KindOfWrite(v), KindOfWrite(w)
    PROVE  q \o <<v, w>> = Append(Append(q, v), w)
BY DEF KindOfWrites, KindOfWrite

LEMMA UnsetKind == IsPrefs(Unset)
<1>1. /\ Unset["loggedIn"] = FALSE /\ Unset["employeeId"] = Nobody
      /\ Unset["latitude"] = NoOffice /\ Unset["longitude"] = NoOffice
  BY Zenon DEF Unset, Keys
<1>2. ValuesOf("loggedIn") = BOOLEAN
  BY Zenon DEF ValuesOf
<1>3. /\ Unset["loggedIn"] \in ValuesOf("loggedIn")
      /\ FALSE \in BOOLEAN
  BY <1>1, <1>2, Zenon
<1>4. /\ Unset["employeeId"] \in ValuesOf("employeeId")
      /\ Unset["latitude"] \in ValuesOf("latitude")
      /\ Unset["longitude"] \in ValuesOf("longitude")
  BY <1>1, Zenon DEF ValuesOf, People
<1>5. Unset \in [Keys -> Values]
  BY UnsetGood, Zenon DEF GoodPrefs
<1> QED
  BY <1>3, <1>4, <1>5, Zenon DEF IsPrefs, Keys

LEMMA KindPart ==
    ASSUME SessionInv, KindInv, [Next]_vars
    PROVE  KindInv'
<1>0. PrefsStep
  BY StepOfPrefs, Zenon
<1>1. CASE UNCHANGED prefs
  BY <1>1, Zenon DEF KindInv, prefs, IsPrefs, KindOfWrites
<1>2. CASE Saved
  <2>1. KindOfWrite(Head(unsaved)) /\ KindOfWrites(Tail(unsaved))
    BY <1>2, WritesKind, Zenon DEF KindInv, Saved
  <2> QED
    BY <1>2, <2>1, PutKind, Zenon DEF KindInv, Saved
<1>3. CASE Kill
  <2>1. KindOfWrites(<<>>)
    BY DEF KindOfWrites
  <2> QED
    BY <1>3, <2>1, Zenon DEF KindInv, Kill
<1>4. CASE SetPref(Write("loggedIn", FALSE))
  BY <1>4, KindsSet, PutKind, WritesKind, Zenon DEF KindInv, SetPref
<1>5. ASSUME NEW v, NEW w, KindOfWrite(v), KindOfWrite(w), SetPrefs(v, w)
      PROVE  KindInv'
  <2>1. unsaved' = Append(Append(unsaved, v), w)
    BY <1>5, TwoSets DEF KindInv, SetPrefs
  <2>2. KindOfWrites(unsaved')
    BY <1>5, <2>1, WritesKind, Zenon DEF KindInv
  <2>3. IsPrefs(cache') /\ IsPrefs(disk')
    BY <1>5, PutKind, Zenon DEF KindInv, SetPrefs
  <2> QED
    BY <2>2, <2>3, Zenon DEF KindInv
<1>6. TRUE \in BOOLEAN
  BY Zenon
<1> QED
  BY <1>0, <1>1, <1>2, <1>3, <1>4, <1>5, <1>6, KindsSet, Zenon DEF PrefsStep

LEMMA AgreesPut ==
    ASSUME NEW c, NEW d, NEW q, NEW w, IsPrefs(c), KindOfWrites(q), KindOfWrite(w),
           Agrees(c, d, q)
    PROVE  Agrees(Put(c, w), d, Append(q, w))
<1> DEFINE p == Append(q, w)
           I(k) == {i \in 1..Len(q) : q[i].key = k}
           J(k) == {i \in 1..Len(p) : p[i].key = k}
<1>1. q \in Seq(Writes) /\ w \in Writes
  BY Zenon DEF KindOfWrites, KindOfWrite
<1>2. /\ Len(p) = Len(q) + 1 /\ Len(q) \in Nat /\ p[Len(q) + 1] = w
      /\ \A i \in 1..Len(q) : p[i] = q[i]
  BY <1>1
<1>3. \A k \in Keys : J(k) = IF k = w.key THEN I(k) \cup {Len(q) + 1} ELSE I(k)
  BY <1>2
<1>4. \A k \in Keys : Put(c, w)[k] = IF k = w.key THEN w.value ELSE c[k]
  BY PutKind
<1>5. ASSUME NEW k \in Keys, k = w.key
      PROVE  \E i \in J(k) : Put(c, w)[k] = p[i].value /\ \A j \in J(k) : j <= i
  <2>1. Len(q) + 1 \in J(k) /\ \A j \in J(k) : j <= Len(q) + 1
    BY <1>2, <1>5
  <2> QED
    BY <1>2, <1>4, <1>5, <2>1
<1>6. ASSUME NEW k \in Keys, k # w.key
      PROVE  \/ J(k) = {} /\ Put(c, w)[k] = d[k]
             \/ \E i \in J(k) : Put(c, w)[k] = p[i].value /\ \A j \in J(k) : j <= i
  <2>1. J(k) = I(k) /\ Put(c, w)[k] = c[k]
    BY <1>3, <1>4, <1>6, Zenon
  <2>2. \/ I(k) = {} /\ c[k] = d[k]
        \/ \E i \in I(k) : c[k] = q[i].value /\ \A j \in I(k) : j <= i
    BY Zenon DEF Agrees
  <2>3. \A i \in I(k) : p[i] = q[i]
    BY <1>2, Zenon
  <2> HIDE DEF I, J, p
  <2> QED
    BY <2>1, <2>2, <2>3, Zenon
<1> QED
  BY <1>5, <1>6, Zenon DEF Agrees

LEMMA AgreesSaved ==
    ASSUME NEW c, NEW d, NEW q, IsPrefs(d), KindOfWrites(q), q # <<>>, Agrees(c, d, q)
    PROVE  Agrees(c, Put(d, Head(q)), Tail(q))
<1> DEFINE w == Head(q)
           p == Tail(q)
           I(k) == {i \in 1..Len(q) : q[i].key = k}
           J(k) == {i \in 1..Len(p) : p[i].key = k}
<1>1. q \in Seq(Writes) /\ KindOfWrite(w)
  BY WritesKind, Zenon DEF KindOfWrites
<1>2. /\ Len(p) = Len(q) - 1 /\ Len(q) \in Nat /\ Len(q) >= 1 /\ w = q[1]
      /\ \A i \in 1..Len(p) : p[i] = q[i + 1]
  BY <1>1
<1>3. \A k \in Keys : Put(d, w)[k] = IF k = w.key THEN w.value ELSE d[k]
  BY <1>1, PutKind
<1>4. \A k \in Keys : \A i \in I(k) : (i = 1 /\ w.key = k) \/ i - 1 \in J(k)
  BY <1>2
<1>5. \A k \in Keys : \A j \in J(k) : j + 1 \in I(k)
  BY <1>2
<1>6. /\ \A k : I(k) \subseteq Nat /\ J(k) \subseteq Nat \ {0}
      /\ \A k : \A j \in J(k) : p[j] = q[j + 1]
  BY <1>2
<1>6a. \A k : w.key = k => 1 \in I(k)
  BY <1>2
<1>7. ASSUME NEW k \in Keys
      PROVE  \/ J(k) = {} /\ c[k] = Put(d, w)[k]
             \/ \E i \in J(k) : c[k] = p[i].value /\ \A j \in J(k) : j <= i
  <2>1. \/ I(k) = {} /\ c[k] = d[k]
        \/ \E i \in I(k) : c[k] = q[i].value /\ \A j \in I(k) : j <= i
    BY Zenon DEF Agrees
  <2> HIDE DEF I, J, p, w
  <2>2. CASE I(k) = {} /\ c[k] = d[k]
    <3>1. J(k) = {} /\ w.key # k
      BY <1>5, <1>6a, <2>2, Zenon
    <3> QED
      BY <1>3, <2>2, <3>1, Zenon
  <2>3. ASSUME NEW i \in I(k), c[k] = q[i].value, \A j \in I(k) : j <= i
        PROVE  \/ J(k) = {} /\ c[k] = Put(d, w)[k]
               \/ \E j \in J(k) : c[k] = p[j].value /\ \A h \in J(k) : h <= j
    <3>1. CASE i - 1 \in J(k)
      <4>1. p[i - 1] = q[i] /\ \A h \in J(k) : h <= i - 1
        BY <1>5, <1>6, <2>3, <3>1
      <4> QED
        BY <2>3, <3>1, <4>1, Zenon
    <3>2. CASE i = 1 /\ w.key = k
      <4>1. J(k) = {}
        BY <1>5, <1>6, <2>3, <3>2
      <4> QED
        BY <1>2, <1>3, <2>3, <3>2, <4>1, Zenon
    <3> QED
      BY <1>4, <3>1, <3>2, Zenon
  <2> QED
    BY <2>1, <2>2, <2>3, Zenon
<1> QED
  BY <1>7, Zenon DEF Agrees

LEMMA AgreesNew == \A d : Agrees(d, d, <<>>)
BY DEF Agrees

LEMMA AgreePart ==
    ASSUME SessionInv, KindInv, MemoryAgrees, [Next]_vars
    PROVE  MemoryAgrees'
<1>0. PrefsStep
  BY StepOfPrefs, Zenon
<1>1. CASE UNCHANGED prefs
  BY <1>1 DEF MemoryAgrees, Agrees, prefs
<1>2. CASE Saved
  BY <1>2, AgreesSaved, Zenon DEF MemoryAgrees, KindInv, Saved
<1>3. CASE Kill
  BY <1>3, AgreesNew, Zenon DEF MemoryAgrees, Kill
<1>4. CASE SetPref(Write("loggedIn", FALSE))
  BY <1>4, KindsSet, AgreesPut, Zenon DEF MemoryAgrees, KindInv, SetPref
<1>5. ASSUME NEW v, NEW w, KindOfWrite(v), KindOfWrite(w), SetPrefs(v, w)
      PROVE  MemoryAgrees'
  <2>1. unsaved' = Append(Append(unsaved, v), w)
    BY <1>5, TwoSets DEF KindInv, SetPrefs
  <2>2. IsPrefs(Put(cache, v)) /\ KindOfWrites(Append(unsaved, v))
    BY <1>5, PutKind, WritesKind, Zenon DEF KindInv
  <2>3. Agrees(Put(cache, v), disk, Append(unsaved, v))
    BY <1>5, AgreesPut, Zenon DEF KindInv, MemoryAgrees
  <2>4. Agrees(Put(Put(cache, v), w), disk, Append(Append(unsaved, v), w))
    BY <1>5, <2>2, <2>3, AgreesPut, Zenon
  <2> QED
    BY <1>5, <2>1, <2>4, Zenon DEF MemoryAgrees, SetPrefs
<1>6. TRUE \in BOOLEAN
  BY Zenon
<1> QED
  BY <1>0, <1>1, <1>2, <1>3, <1>4, <1>5, <1>6, KindsSet, Zenon DEF PrefsStep

\* Only ChooseOffice and the end of the process change a coordinate in memory.
\* What the latter finds on the disk is what was in memory, by MemoryAgrees, if
\* no coordinate was unsaved.
LEMMA CentrePart ==
    ASSUME SessionInv, KindInv, MemoryAgrees, CentreIsAnOffice, [Next]_vars
    PROVE  CentreIsAnOffice'
<1>0. PrefsStep
  BY StepOfPrefs, Zenon
<1>a. "latitude" \in Keys /\ "longitude" \in Keys
  BY KeysAndValues, Zenon
<1>b. CASE Kill
  <2>1. SUFFICES ASSUME ~torn' PROVE disk["latitude"] = disk["longitude"]
    BY <1>b, Zenon DEF Kill, CentreIsAnOffice
  <2>2. /\ ~torn
        /\ \A i \in 1..Len(unsaved) : unsaved[i].key \notin {"latitude", "longitude"}
    BY <1>b, <2>1, Zenon DEF Kill
  <2>3. \A k \in {"latitude", "longitude"} : cache[k] = disk[k]
    BY <1>a, <2>2, Zenon DEF MemoryAgrees, Agrees
  <2> QED
    BY <2>2, <2>3, Zenon DEF CentreIsAnOffice
<1>c. ASSUME ~Kill PROVE torn' = torn
  BY <1>c, Zenon DEF Next, vars, Start, Back, Saved, Rebuild, OfficesLoaded, OfficesFailed,
     LoginTap, LoginAccepted, LoginRefused, LoginDone, ChooseOffice, Logout, ToRegister,
     ToLogin, RegisterTap, RegisterFree, RegisterEnds, RegisterAdded, Answer
<1>1. CASE UNCHANGED prefs /\ torn' = torn
  BY <1>1, Zenon DEF CentreIsAnOffice, prefs
<1>2. CASE Saved
  BY <1>2, Zenon DEF CentreIsAnOffice, Saved
<1>d. IsPrefs(cache)
  BY Zenon DEF KindInv
<1>4. CASE SetPref(Write("loggedIn", FALSE)) /\ torn' = torn
  <2> DEFINE w == Write("loggedIn", FALSE)
  <2>1. KindOfWrite(w) /\ w.key = "loggedIn"
    BY KindsSet, Zenon
  <2>2. cache' = Put(cache, w)
    BY <1>4, Zenon DEF SetPref
  <2> HIDE DEF w
  <2>3. \A k \in Keys : k # w.key => cache'[k] = cache[k]
    BY <1>d, <2>1, <2>2, PutOther, Zenon
  <2>4. cache'["latitude"] = cache["latitude"] /\ cache'["longitude"] = cache["longitude"]
    BY <1>a, <2>1, <2>3, Zenon
  <2> QED
    BY <1>4, <2>4, Zenon DEF CentreIsAnOffice
<1>5. ASSUME NEW e \in People,
             SetPrefs(Write("loggedIn", TRUE), Write("employeeId", e)), torn' = torn
      PROVE  CentreIsAnOffice'
  <2> DEFINE v == Write("loggedIn", TRUE)
             w == Write("employeeId", e)
  <2>1. KindOfWrite(v) /\ v.key = "loggedIn" /\ KindOfWrite(w) /\ w.key = "employeeId"
    BY KindsSet, Zenon
  <2>2. cache' = Put(Put(cache, v), w)
    BY <1>5, Zenon DEF SetPrefs
  <2> HIDE DEF v, w
  <2>3. IsPrefs(Put(cache, v))
    BY <1>d, <2>1, PutKind, Zenon
  <2>4. \A k \in Keys : k # v.key => Put(cache, v)[k] = cache[k]
    BY <1>d, <2>1, PutOther, Zenon
  <2>5. \A k \in Keys : k # w.key => cache'[k] = Put(cache, v)[k]
    BY <2>1, <2>2, <2>3, PutOther, Zenon
  <2>6. cache'["latitude"] = cache["latitude"] /\ cache'["longitude"] = cache["longitude"]
    BY <1>a, <2>1, <2>4, <2>5, Zenon
  <2> QED
    BY <1>5, <2>6, Zenon DEF CentreIsAnOffice
<1>6. ASSUME NEW o \in Offices, SetPrefs(Write("latitude", o), Write("longitude", o))
      PROVE  CentreIsAnOffice'
  <2> DEFINE v == Write("latitude", o)
             w == Write("longitude", o)
  <2>1. /\ KindOfWrite(v) /\ v.key = "latitude" /\ v.value = o
        /\ KindOfWrite(w) /\ w.key = "longitude" /\ w.value = o
    BY KindsSet, Zenon
  <2>2. IsPrefs(Put(cache, v)) /\ Put(cache, v)["latitude"] = o
    BY <1>a, <1>d, <2>1, PutKind
  <2>3. /\ Put(Put(cache, v), w)["longitude"] = o
        /\ Put(Put(cache, v), w)["latitude"] = Put(cache, v)["latitude"]
    BY <1>a, <2>1, <2>2, PutKind
  <2>4. cache' = Put(Put(cache, v), w)
    BY <1>6, Zenon DEF SetPrefs
  <2> QED
    BY <2>2, <2>3, <2>4, Zenon DEF CentreIsAnOffice
<1> QED
  BY <1>0, <1>b, <1>c, <1>1, <1>2, <1>4, <1>5, <1>6, Zenon DEF PrefsStep

(***************************************************************************)
(* The bounds.  HasRoom holds taps back so that no handler is held back:   *)
(* BoundInv says that there is always room for what the handlers under way *)
(* will push and set, and that none is under way while the app is not      *)
(* running, so Start finds room as well.                                   *)
(***************************************************************************)

Busy == {t \in Taps : login[t].pc # "idle"}

Querying == {t \in Taps : login[t].pc = "query"}

RegistersQuerying == IF register.pc = "query" THEN 1 ELSE 0

\* A stack of n routes and u unsaved sets leave room for b LOGIN handlers in
\* progress, q of them at their query, and for r REGISTER handlers, k of them.
RoomFor(n, b, r, u, q, k) == n + b + r <= MaxDepth /\ u + 2 * q + k <= MaxUnsaved

Room ==
    RoomFor(Len(stack), Cardinality(Busy), RegistersInProgress,
            Len(unsaved), Cardinality(Querying), RegistersQuerying)

NoneUnderWay == (\A t \in Taps : login[t].pc = "idle") /\ register.pc = "idle"

BoundInv ==
    /\ login \in [Taps -> Logins] /\ register \in Registers /\ torn \in BOOLEAN
    /\ Room
    /\ stack = <<>> => NoneUnderWay

\* The room is enough for what the handlers in progress go on to do.
LEMMA RoomIsLeft ==
    ASSUME NEW n \in Nat, NEW b \in Nat, NEW r \in 0..1,
           NEW u \in Nat, NEW q \in Nat, NEW k \in 0..1, RoomFor(n, b, r, u, q, k)
    PROVE  /\ n \in 0..MaxDepth
           /\ q # 0 => u + 2 \in 0..MaxUnsaved
           /\ RoomFor(n - 1, b, r, u, q, k) /\ RoomFor(n, b, r, u - 1, q, k)
           /\ RoomFor(n, b, r, u + 2, q - 1, k)
           /\ RoomFor(n, b - 1, r, u, q - 1, k) /\ RoomFor(n, b - 1, r, u, q, k)
           /\ RoomFor(n + 1, b - 1, r, u, q, k)
           /\ k = 1 => RoomFor(n, b, r, u + 1, q, 0)
           /\ r = 1 => RoomFor(n, b, 0, u, q, 0) /\ RoomFor(n + 1, b, 0, u, q, 0)
<1> USE BoundsAssumption DEF RoomFor
<1>1. n \in 0..MaxDepth /\ (q # 0 => u + 2 \in 0..MaxUnsaved)
  OBVIOUS
<1>2. RoomFor(n - 1, b, r, u, q, k) /\ RoomFor(n, b, r, u - 1, q, k)
  OBVIOUS
<1>3. RoomFor(n, b, r, u + 2, q - 1, k)
  OBVIOUS
<1>4. RoomFor(n, b - 1, r, u, q - 1, k) /\ RoomFor(n, b - 1, r, u, q, k)
  OBVIOUS
<1>5. RoomFor(n + 1, b - 1, r, u, q, k)
  OBVIOUS
<1>6. k = 1 => RoomFor(n, b, r, u + 1, q, 0)
  OBVIOUS
<1>7. r = 1 => RoomFor(n, b, 0, u, q, 0) /\ RoomFor(n + 1, b, 0, u, q, 0)
  OBVIOUS
<1> QED
  BY <1>1, <1>2, <1>3, <1>4, <1>5, <1>6, <1>7, Zenon

\* HasRoom is enough for what a tap does.
LEMMA RoomIsMade ==
    ASSUME NEW n \in Nat, NEW b \in Nat, NEW r \in 0..1,
           NEW u \in Nat, NEW q \in Nat, NEW k \in 0..1, q <= b, k <= r,
           n + b + r < MaxDepth, u + 2 * b + r + 2 <= MaxUnsaved
    PROVE  /\ RoomFor(n + 1, b, r, u, q, k) /\ RoomFor(n + 1, b, r, u + 1, q, k)
           /\ RoomFor(n + 1, b, r, u + 2, q, k)
           /\ RoomFor(n, b + 1, r, u, q + 1, k)
           /\ r = 0 => RoomFor(n, b, 1, u, q, 1)
<1> USE BoundsAssumption DEF RoomFor
<1>1. n + 1 + b + r <= MaxDepth /\ u + 2 * q + k + 2 <= MaxUnsaved
  OBVIOUS
<1>2. RoomFor(n + 1, b, r, u, q, k) /\ RoomFor(n + 1, b, r, u + 1, q, k)
  BY <1>1
<1>3. RoomFor(n + 1, b, r, u + 2, q, k)
  BY <1>1
<1>4. RoomFor(n, b + 1, r, u, q + 1, k)
  BY <1>1
<1>5. r = 0 => RoomFor(n, b, 1, u, q, 1)
  BY <1>1
<1> QED
  BY <1>2, <1>3, <1>4, <1>5, Zenon

\* There is room for an app that has just ended, and for its first screen.
LEMMA RoomAtStart ==
    RoomFor(0, 0, 0, 0, 0, 0) /\ \A u \in Nat, q \in Nat, k \in 0..1 :
        RoomFor(0, 0, 0, u, q, k) => RoomFor(1, 0, 0, u, q, k)
BY BoundsAssumption DEF RoomFor

LEMMA Counts ==
    /\ IsFiniteSet(Busy) /\ Cardinality(Busy) \in Nat
    /\ IsFiniteSet(Querying) /\ Cardinality(Querying) \in Nat
    /\ Cardinality(Querying) <= Cardinality(Busy)
<1>1. Busy \in SUBSET Taps /\ Querying \in SUBSET Busy
  BY Zenon DEF Busy, Querying
<1>2. IsFiniteSet(Busy)
  BY <1>1, TapsAssumption, FS_Subset, Zenon
<1>3. IsFiniteSet(Querying) /\ Cardinality(Querying) <= Cardinality(Busy)
  BY <1>1, <1>2, FS_Subset, Zenon
<1> QED
  BY <1>2, <1>3, FS_CardinalityType, Zenon

\* No handler starts, is answered or ends.
LEMMA SameCounts ==
    ASSUME \A t \in Taps : login'[t].pc = login[t].pc
    PROVE  Busy' = Busy /\ Querying' = Querying
BY Zenon DEF Busy, Querying

\* One handler does.
LEMMA OneCounts ==
    ASSUME NEW t \in Taps, \A r \in Taps \ {t} : login'[r].pc = login[r].pc
    PROVE  /\ login[t].pc = "idle" /\ login'[t].pc = "query" =>
                 /\ Cardinality(Busy') = Cardinality(Busy) + 1
                 /\ Cardinality(Querying') = Cardinality(Querying) + 1
           /\ login[t].pc = "query" /\ login'[t].pc = "commit" =>
                 /\ Busy' = Busy
                 /\ Cardinality(Querying') = Cardinality(Querying) - 1
           /\ login[t].pc = "query" /\ login'[t].pc = "idle" =>
                 /\ Cardinality(Busy') = Cardinality(Busy) - 1
                 /\ Cardinality(Querying') = Cardinality(Querying) - 1
           /\ login[t].pc = "commit" /\ login'[t].pc = "idle" =>
                 /\ Cardinality(Busy') = Cardinality(Busy) - 1
                 /\ Querying' = Querying
<1>1. ASSUME NEW S, IsFiniteSet(S)
      PROVE  /\ t \notin S => Cardinality(S \cup {t}) = Cardinality(S) + 1
             /\ t \in S => Cardinality(S \ {t}) = Cardinality(S) - 1
  BY <1>1, FS_AddElement, FS_RemoveElement, Zenon
<1>2. CASE login[t].pc = "idle" /\ login'[t].pc = "query"
  <2>1. /\ Busy' = Busy \cup {t} /\ t \notin Busy
        /\ Querying' = Querying \cup {t} /\ t \notin Querying
    BY <1>2, Zenon DEF Busy, Querying
  <2> QED
    BY <1>1, <1>2, <2>1, Counts, Zenon
<1>3. CASE login[t].pc = "query" /\ login'[t].pc = "commit"
  <2>1. Busy' = Busy /\ Querying' = Querying \ {t} /\ t \in Querying
    BY <1>3, Zenon DEF Busy, Querying
  <2> QED
    BY <1>1, <1>3, <2>1, Counts, Zenon
<1>4. CASE login[t].pc = "query" /\ login'[t].pc = "idle"
  <2>1. /\ Busy' = Busy \ {t} /\ t \in Busy
        /\ Querying' = Querying \ {t} /\ t \in Querying
    BY <1>4, Zenon DEF Busy, Querying
  <2> QED
    BY <1>1, <1>4, <2>1, Counts, Zenon
<1>5. CASE login[t].pc = "commit" /\ login'[t].pc = "idle"
  <2>1. Busy' = Busy \ {t} /\ t \in Busy /\ Querying' = Querying
    BY <1>5, Zenon DEF Busy, Querying
  <2> QED
    BY <1>1, <1>5, <2>1, Counts, Zenon
<1> QED
  BY <1>2, <1>3, <1>4, <1>5, Zenon

LEMMA NoneCounts ==
    (\A t \in Taps : login[t].pc = "idle") =>
        Cardinality(Busy) = 0 /\ Cardinality(Querying) = 0
<1> SUFFICES ASSUME \A t \in Taps : login[t].pc = "idle"
             PROVE  Busy = {} /\ Querying = {}
  BY FS_EmptySet, Zenon
<1> QED
  BY Zenon DEF Busy, Querying

LEMMA BoundedLogin ==
    ASSUME NEW pc \in {"idle", "query", "commit"}, NEW e \in People,
           NEW right \in BOOLEAN, NEW at \in 0..MaxDepth, NEW left \in 0..MaxUnsaved
    PROVE  Login(pc, e, right, at, left) \in Logins /\ Login(pc, e, right, at, left).pc = pc
BY Zenon DEF Login, Logins

LEMMA NoLoginBounded == NoLogin \in Logins /\ NoLogin.pc = "idle"
<1>1. Nobody \in People /\ FALSE \in BOOLEAN /\ 0 \in 0..MaxDepth /\ 0 \in 0..MaxUnsaved
  BY BoundsAssumption DEF People
<1> QED
  BY <1>1, BoundedLogin, Zenon DEF NoLogin

LEMMA CountdownBounded ==
    ASSUME NEW l \in Logins, NEW n
    PROVE  /\ Countdown(l) \in Logins /\ Countdown(l).pc = l.pc
           /\ Orphaned(l, n) \in Logins /\ Orphaned(l, n).pc = l.pc
<1>1. /\ l.pc \in {"idle", "query", "commit"} /\ l.who \in People
      /\ l.right \in BOOLEAN /\ l.at \in 0..MaxDepth /\ l.left \in 0..MaxUnsaved
  BY Zenon DEF Logins
<1>2. /\ (IF l.left > 0 THEN l.left - 1 ELSE 0) \in 0..MaxUnsaved
      /\ (IF l.at = n THEN 0 ELSE l.at) \in 0..MaxDepth
  BY <1>1, BoundsAssumption
<1> QED
  BY <1>1, <1>2, Zenon DEF Countdown, Orphaned, Login, Logins

LEMMA RegisterBounded ==
    ASSUME NEW pc \in {"idle", "query", "adding"}, NEW at \in 0..MaxDepth
    PROVE  Registering(pc, at) \in Registers /\ Registering(pc, at).pc = pc
BY Zenon DEF Registering, Registers

LEMMA Sizes ==
    ASSUME SessionInv
    PROVE  /\ stack \in Seq(Routes) /\ Len(stack) \in Nat
           /\ unsaved \in Seq(Writes) /\ Len(unsaved) \in Nat
           /\ MaxDepth \in Nat /\ MaxDepth >= 1 /\ MaxUnsaved \in Nat
BY BoundsAssumption DEF SessionInv, GoodStack, PrefsInv, GoodWrites

LEMMA BoundPart ==
    ASSUME SessionInv, BoundInv, [Next]_vars
    PROVE  BoundInv'
<1>a. /\ login \in [Taps -> Logins] /\ register \in Registers /\ torn \in BOOLEAN
      /\ register.pc \in {"idle", "query", "adding"} /\ register.at \in 0..MaxDepth
  BY Zenon DEF BoundInv, Registers
<1>b. /\ RegistersInProgress \in 0..1 /\ RegistersQuerying \in 0..1
      /\ RegistersQuerying <= RegistersInProgress
  BY <1>a DEF RegistersInProgress, RegistersQuerying
<1>c. /\ Cardinality(Busy) \in Nat /\ Cardinality(Querying) \in Nat
      /\ Cardinality(Querying) <= Cardinality(Busy)
  BY Counts, Zenon
<1> DEFINE n == Len(stack)
           b == Cardinality(Busy)
           r == RegistersInProgress
           u == Len(unsaved)
           q == Cardinality(Querying)
           k == RegistersQuerying
<1>d. n \in Nat /\ u \in Nat /\ RoomFor(n, b, r, u, q, k)
  BY Sizes, Zenon DEF BoundInv, Room
<1>h. /\ n \in 0..MaxDepth
      /\ q # 0 => u + 2 \in 0..MaxUnsaved
      /\ RoomFor(n - 1, b, r, u, q, k) /\ RoomFor(n, b, r, u - 1, q, k)
      /\ RoomFor(n, b, r, u + 2, q - 1, k)
      /\ RoomFor(n, b - 1, r, u, q - 1, k) /\ RoomFor(n, b - 1, r, u, q, k)
      /\ RoomFor(n + 1, b - 1, r, u, q, k)
      /\ k = 1 => RoomFor(n, b, r, u + 1, q, 0)
      /\ r = 1 => RoomFor(n, b, 0, u, q, 0) /\ RoomFor(n + 1, b, 0, u, q, 0)
  <2> HIDE DEF n, b, r, u, q, k
  <2> QED
    BY <1>b, <1>c, <1>d, RoomIsLeft, Zenon DEF b, r, q, k
<1>i. HasRoom =>
         /\ RoomFor(n + 1, b, r, u, q, k) /\ RoomFor(n + 1, b, r, u + 1, q, k)
         /\ RoomFor(n + 1, b, r, u + 2, q, k)
         /\ RoomFor(n, b + 1, r, u, q + 1, k)
         /\ r = 0 => RoomFor(n, b, 1, u, q, 1)
  <2>1. HasRoom => n + b + r < MaxDepth /\ u + 2 * b + r + 2 <= MaxUnsaved
    BY Zenon DEF HasRoom, LoginsInProgress, Busy
  <2> HIDE DEF n, b, r, u, q, k
  <2> QED
    BY <1>b, <1>c, <1>d, <2>1, RoomIsMade, Zenon DEF b, r, q, k
<1>e. /\ RegistersInProgress' = IF register'.pc = "idle" THEN 0 ELSE 1
      /\ RegistersQuerying' = IF register'.pc = "query" THEN 1 ELSE 0
  BY Zenon DEF RegistersInProgress, RegistersQuerying
<1>f. UNCHANGED register => UNCHANGED <<RegistersInProgress, RegistersQuerying>>
  BY Zenon DEF RegistersInProgress, RegistersQuerying
<1>g. UNCHANGED login => Busy' = Busy /\ Querying' = Querying
  BY Zenon DEF Busy, Querying
<1> DEFINE Types == /\ login' \in [Taps -> Logins]
                    /\ register' \in Registers /\ torn' \in BOOLEAN
<1> USE Sizes
\* Neither the handlers nor the sets change, and the stack gets no longer.
<1>1. CASE /\ UNCHANGED <<login, register, torn, unsaved>>
           /\ Len(stack') = Len(stack) /\ (stack' = <<>> => stack = <<>>)
  <2>1. Types
    BY <1>1, <1>a, Zenon
  <2>2. Room'
    BY <1>1, <1>d, <1>f, <1>g, Zenon DEF Room
  <2> QED
    BY <1>1, <2>1, <2>2, Zenon DEF BoundInv, NoneUnderWay
\* A route is pushed where there is room.
<1>2. ASSUME NEW x \in Routes, stack' = Append(stack, x), HasRoom,
             UNCHANGED <<login, register, torn>>, Len(unsaved') \in {u, u + 1, u + 2}
      PROVE  BoundInv'
  <2>1. Types
    BY <1>2, <1>a, Zenon
  <2>2. Len(stack') = n + 1 /\ stack' # <<>>
    BY <1>2
  <2>3. /\ Busy' = Busy /\ Querying' = Querying
        /\ UNCHANGED <<RegistersInProgress, RegistersQuerying>>
    BY <1>2, <1>f, <1>g, Zenon
  <2>4. Room'
    BY <1>2, <1>i, <2>2, <2>3, Zenon DEF Room
  <2> QED
    BY <2>1, <2>2, <2>4, Zenon DEF BoundInv
<1>3. CASE Start
  <2>1. NoneUnderWay /\ UNCHANGED <<login, register, torn, unsaved>>
    BY <1>3, Zenon DEF Start, BoundInv, prefs
  <2>2. PICK x \in {"form", "formHome"} : stack' = Append(stack, x)
    BY <1>3, Zenon DEF Start, PushLogin
  <2>3. Len(stack) = 0 /\ Len(stack') = 1 /\ stack' # <<>>
    BY <1>3, <2>2 DEF Start, Routes
  <2>4. Cardinality(Busy) = 0 /\ RegistersInProgress = 0
    BY <2>1, NoneCounts, Zenon DEF NoneUnderWay, RegistersInProgress
  <2>5. Room'
    <3>1. RoomFor(0, 0, 0, u, q, k)
      BY <1>d, <2>3, <2>4, Zenon
    <3>2. RoomFor(1, 0, 0, u, q, k)
      BY <1>b, <1>c, <1>d, <3>1, RoomAtStart, Zenon
    <3> QED
      BY <1>f, <1>g, <2>1, <2>3, <2>4, <3>2, Zenon DEF Room
  <2> QED
    BY <1>a, <2>1, <2>3, <2>5, Zenon DEF BoundInv
<1>4. CASE Kill
  <2>1. /\ login' = [t \in Taps |-> NoLogin] /\ register' = Registering("idle", 0)
        /\ stack' = <<>> /\ unsaved' = <<>>
    BY <1>4, Zenon DEF Kill, NoRegister
  <2>2. torn' \in BOOLEAN
    BY <1>4, Zenon DEF Kill
  <2>3. register' \in Registers /\ register'.pc = "idle"
    BY <2>1, RegisterBounded
  <2>4. login' \in [Taps -> Logins] /\ \A t \in Taps : login'[t].pc = "idle"
    BY <2>1, NoLoginBounded, Zenon
  <2>5. Busy' = {} /\ Querying' = {}
    BY <2>4, Zenon DEF Busy, Querying
  <2>6. Cardinality(Busy') = 0 /\ Cardinality(Querying') = 0
    BY <2>5, FS_EmptySet, Zenon
  <2>7. Room'
    <3>1. Len(stack') = 0 /\ Len(unsaved') = 0
      BY <2>1
    <3>2. RegistersInProgress' = 0 /\ RegistersQuerying' = 0
      BY <1>e, <2>3, Zenon
    <3> QED
      BY <2>6, <3>1, <3>2, RoomAtStart, Zenon DEF Room
  <2> QED
    BY <2>2, <2>3, <2>4, <2>7, Zenon DEF BoundInv, NoneUnderWay
<1>5. CASE Back
  <2>1. /\ login' = [t \in Taps |-> Orphaned(login[t], Len(stack))]
        /\ Len(stack') = Len(stack) - 1 /\ Len(stack) > 1
        /\ unsaved' = unsaved /\ torn' = torn
    BY <1>5 DEF Back, prefs
  <2>2. login' \in [Taps -> Logins] /\ \A t \in Taps : login'[t].pc = login[t].pc
    BY <1>a, <2>1, CountdownBounded, Zenon
  <2>3. (IF register.at = Len(stack) THEN 0 ELSE register.at) \in 0..MaxDepth
    BY <1>a
  <2>4. register' \in Registers /\ register'.pc = register.pc
    BY <1>5, <1>a, <2>3, RegisterBounded, Zenon DEF Back
  <2>5. /\ Busy' = Busy /\ Querying' = Querying
        /\ RegistersInProgress' = RegistersInProgress /\ RegistersQuerying' = RegistersQuerying
    BY <2>2, <2>4, SameCounts, Zenon DEF RegistersInProgress, RegistersQuerying
  <2>6. Room'
    BY <1>h, <2>1, <2>5, Zenon DEF Room
  <2>7. stack' # <<>>
    BY <2>1
  <2> QED
    BY <1>a, <2>1, <2>2, <2>4, <2>6, <2>7, Zenon DEF BoundInv
<1>6. CASE Saved
  <2>1. /\ login' = [t \in Taps |-> Countdown(login[t])]
        /\ Len(unsaved') = Len(unsaved) - 1
        /\ UNCHANGED <<stack, register, torn>>
    BY <1>6 DEF Saved
  <2>2. login' \in [Taps -> Logins] /\ \A t \in Taps : login'[t].pc = login[t].pc
    BY <1>a, <2>1, CountdownBounded, Zenon
  <2>3. Busy' = Busy /\ Querying' = Querying
    BY <2>2, SameCounts, Zenon
  <2>4. Room'
    BY <1>h, <1>f, <2>1, <2>3, Zenon DEF Room
  <2> QED
    BY <1>a, <2>1, <2>2, <2>4, Zenon DEF BoundInv, NoneUnderWay
<1>7. ASSUME NEW t \in Taps, LoginTap(t) PROVE BoundInv'
  <2>1. PICK e \in Employees, right \in BOOLEAN :
           login' = [login EXCEPT ![t] = Login("query", e, right, Len(stack), 0)]
    BY <1>7, Zenon DEF LoginTap
  <2>2. /\ login[t].pc = "idle" /\ HasRoom /\ stack # <<>>
        /\ UNCHANGED <<stack, unsaved, register, torn>>
    BY <1>7, Zenon DEF LoginTap, OnTop, prefs
  <2>3. Len(stack) \in 0..MaxDepth /\ 0 \in 0..MaxUnsaved /\ e \in People
    BY <1>h, BoundsAssumption DEF People
  <2>4. /\ Login("query", e, right, Len(stack), 0) \in Logins
        /\ Login("query", e, right, Len(stack), 0).pc = "query"
    BY <2>3, BoundedLogin
  <2>5. /\ login' \in [Taps -> Logins] /\ login'[t].pc = "query"
        /\ \A o \in Taps \ {t} : login'[o].pc = login[o].pc
    BY <1>a, <2>1, <2>4, Zenon
  <2>6. /\ Cardinality(Busy') = Cardinality(Busy) + 1
        /\ Cardinality(Querying') = Cardinality(Querying) + 1
    BY <2>2, <2>5, OneCounts, Zenon
  <2>6a. UNCHANGED <<RegistersInProgress, RegistersQuerying>>
    BY <1>f, <2>2, Zenon
  <2>7. Room'
    BY <1>i, <2>2, <2>6, <2>6a, Zenon DEF Room
  <2> QED
    BY <1>a, <2>2, <2>5, <2>7, Zenon DEF BoundInv
<1>8. ASSUME NEW t \in Taps, LoginAccepted(t) PROVE BoundInv'
  <2> DEFINE l == login[t]
  <2>1. /\ login' = [login EXCEPT ![t] =
                        Login("commit", l.who, l.right, l.at, Len(unsaved) + 2)]
        /\ l.pc = "query" /\ UNCHANGED <<stack, register, torn>>
    BY <1>8, Zenon DEF LoginAccepted
  <2>2. Len(unsaved') = Len(unsaved) + 2
    BY <1>8 DEF LoginAccepted, SetPrefs
  <2>3. t \in Querying /\ Cardinality(Querying) # 0
    BY <2>1, Counts, FS_EmptySet, Zenon DEF Querying
  <2>4. /\ l.who \in People /\ l.right \in BOOLEAN /\ l.at \in 0..MaxDepth
        /\ Len(unsaved) + 2 \in 0..MaxUnsaved
    BY <1>a, <1>h, <2>3, Zenon DEF Logins
  <2>5. /\ Login("commit", l.who, l.right, l.at, Len(unsaved) + 2) \in Logins
        /\ Login("commit", l.who, l.right, l.at, Len(unsaved) + 2).pc = "commit"
    BY <2>4, BoundedLogin
  <2>6. /\ login' \in [Taps -> Logins] /\ login'[t].pc = "commit"
        /\ \A o \in Taps \ {t} : login'[o].pc = login[o].pc
    BY <1>a, <2>1, <2>5, Zenon
  <2>7. Busy' = Busy /\ Cardinality(Querying') = Cardinality(Querying) - 1
    BY <2>1, <2>6, OneCounts, Zenon
  <2>8. Room'
    BY <1>h, <1>f, <2>1, <2>2, <2>7, Zenon DEF Room
  <2>9. stack # <<>>
    BY <2>1, Zenon DEF BoundInv, NoneUnderWay
  <2> QED
    BY <1>a, <2>1, <2>6, <2>8, <2>9, Zenon DEF BoundInv
<1>9. ASSUME NEW t \in Taps, LoginRefused(t) \/ LoginDone(t) PROVE BoundInv'
  <2>1. /\ login' = [login EXCEPT ![t] = NoLogin] /\ UNCHANGED <<unsaved, register, torn>>
        /\ \/ login[t].pc = "query" /\ stack' = stack
           \/ login[t].pc = "commit" /\ stack' \in {stack, Append(stack, "loading")}
    BY <1>9, Zenon DEF LoginRefused, LoginDone, prefs
  <2>2. /\ login' \in [Taps -> Logins] /\ login'[t].pc = "idle"
        /\ \A o \in Taps \ {t} : login'[o].pc = login[o].pc
    BY <1>a, <2>1, NoLoginBounded, Zenon
  <2>3. UNCHANGED <<RegistersInProgress, RegistersQuerying>>
    BY <1>f, <2>1, Zenon
  <2>4. "loading" \in Routes
    BY Zenon DEF Routes
  <2>5. Len(stack') \in {n, n + 1} /\ (stack' = <<>> => stack = <<>>)
    BY <2>1, <2>4
  <2>6. Room'
    <3>1. CASE login[t].pc = "query"
      <4>1. stack' = stack
        BY <2>1, <3>1, Zenon
      <4>2. /\ Cardinality(Busy') = Cardinality(Busy) - 1
            /\ Cardinality(Querying') = Cardinality(Querying) - 1
        BY <2>2, <3>1, OneCounts, Zenon
      <4> QED
        BY <1>h, <2>1, <2>3, <4>1, <4>2, Zenon DEF Room
    <3>2. CASE login[t].pc = "commit"
      <4>1. Cardinality(Busy') = Cardinality(Busy) - 1 /\ Querying' = Querying
        BY <2>2, <3>2, OneCounts, Zenon
      <4> QED
        BY <1>h, <2>1, <2>3, <2>5, <4>1, Zenon DEF Room
    <3> QED
      BY <2>1, <3>1, <3>2, Zenon
  <2>7. stack # <<>>
    BY <2>1, Zenon DEF BoundInv, NoneUnderWay
  <2> QED
    BY <1>a, <2>1, <2>2, <2>5, <2>6, <2>7, Zenon DEF BoundInv
<1>10. CASE RegisterTap
  <2>1. /\ register' = Registering("query", Len(stack)) /\ register.pc = "idle"
        /\ HasRoom /\ stack # <<>> /\ UNCHANGED <<stack, unsaved, login, torn>>
    BY <1>10, Zenon DEF RegisterTap, OnTop, prefs
  <2>2. Len(stack) \in 0..MaxDepth
    BY <1>h, Zenon
  <2>3. register' \in Registers /\ register'.pc = "query"
    BY <2>1, <2>2, RegisterBounded, Zenon
  <2>4. RegistersInProgress = 0 /\ RegistersInProgress' = 1 /\ RegistersQuerying' = 1
    BY <1>e, <2>1, <2>3, Zenon DEF RegistersInProgress
  <2>5. Room'
    BY <1>i, <1>g, <2>1, <2>4, Zenon DEF Room
  <2> QED
    BY <1>a, <2>1, <2>3, <2>5, Zenon DEF BoundInv
<1>11. CASE RegisterFree
  <2>1. /\ register' = Registering("adding", register.at) /\ register.pc = "query"
        /\ Len(unsaved') = Len(unsaved) + 1 /\ UNCHANGED <<stack, login, torn>>
    BY <1>11 DEF RegisterFree, SetPref
  <2>2. register' \in Registers /\ register'.pc = "adding"
    BY <1>a, <2>1, RegisterBounded, Zenon
  <2>3. /\ RegistersInProgress' = RegistersInProgress
        /\ RegistersQuerying' = 0 /\ RegistersQuerying = 1
    BY <1>e, <2>1, <2>2, Zenon DEF RegistersInProgress, RegistersQuerying
  <2>4. Room'
    BY <1>h, <1>g, <2>1, <2>3, Zenon DEF Room
  <2>5. stack # <<>>
    BY <2>1, Zenon DEF BoundInv, NoneUnderWay
  <2> QED
    BY <1>a, <2>1, <2>2, <2>4, <2>5, Zenon DEF BoundInv
<1>12. CASE RegisterEnds \/ RegisterAdded
  <2>1. /\ register' = Registering("idle", 0) /\ register.pc # "idle"
        /\ UNCHANGED <<unsaved, login, torn>>
        /\ stack' \in {stack, Append(stack, "form"), Append(stack, "formHome")}
    BY <1>12, Zenon DEF RegisterEnds, RegisterAdded, PushLogin, prefs, NoRegister
  <2>2. register' \in Registers /\ register'.pc = "idle"
    BY <2>1, RegisterBounded
  <2>3. RegistersInProgress' = 0 /\ RegistersQuerying' = 0 /\ RegistersInProgress = 1
    BY <1>e, <2>1, <2>2, Zenon DEF RegistersInProgress
  <2>4. "form" \in Routes /\ "formHome" \in Routes
    BY Zenon DEF Routes
  <2>5. Len(stack') \in {n, n + 1} /\ (stack' = <<>> => stack = <<>>)
    BY <2>1, <2>4
  <2>6. Room'
    BY <1>h, <1>g, <2>1, <2>3, <2>5, Zenon DEF Room
  <2>7. stack # <<>>
    BY <2>1, Zenon DEF BoundInv, NoneUnderWay
  <2> QED
    BY <1>a, <2>1, <2>2, <2>5, <2>6, <2>7, Zenon DEF BoundInv
<1>13. ASSUME NEW i \in 1..Len(stack), Rebuild(i) \/ OfficesLoaded(i) \/ OfficesFailed(i)
       PROVE  BoundInv'
  <2>1. /\ UNCHANGED <<login, register, torn, unsaved>>
        /\ \E x \in {"form", "formHome", "offices", "stuck"} : stack' = [stack EXCEPT ![i] = x]
    BY <1>13, Zenon DEF Rebuild, OfficesLoaded, OfficesFailed, prefs
  <2>2. Len(stack') = Len(stack) /\ (stack' = <<>> => stack = <<>>)
    BY <2>1 DEF Routes
  <2> QED
    BY <1>1, <2>1, <2>2, Zenon
<1>14. CASE ChooseOffice \/ Logout
  <2>1. /\ HasRoom /\ UNCHANGED <<login, register, torn>>
        /\ stack' = Append(stack, "home") \/ stack' = Append(stack, "form")
    BY <1>14, Zenon DEF ChooseOffice, Logout
  <2>2. Len(unsaved') \in {u, u + 1, u + 2}
    <3>1. CASE ChooseOffice
      BY <3>1 DEF ChooseOffice, SetPrefs
    <3>2. CASE Logout
      BY <3>2 DEF Logout, SetPref
    <3> QED
      BY <1>14, <3>1, <3>2, Zenon
  <2>3. "home" \in Routes /\ "form" \in Routes
    BY Zenon DEF Routes
  <2> QED
    BY <1>2, <2>1, <2>2, <2>3, Zenon
<1>15. CASE ToRegister \/ ToLogin
  <2>1. /\ HasRoom /\ UNCHANGED <<login, register, torn, unsaved>>
        /\ \E x \in {"register", "form", "formHome"} : stack' = Append(stack, x)
    BY <1>15, Zenon DEF ToRegister, ToLogin, PushLogin, prefs
  <2>2. {"register", "form", "formHome"} \subseteq Routes
    BY Zenon DEF Routes
  <2>3. Len(unsaved') \in {u, u + 1, u + 2}
    BY <2>1, Zenon
  <2> QED
    BY <1>2, <2>1, <2>2, <2>3, Zenon
<1>16. CASE UNCHANGED vars \/ \E s \in Screens : Answer(s)
  <2>1. UNCHANGED <<login, register, torn, unsaved, stack>>
    BY <1>16, Zenon DEF Answer, vars, prefs
  <2> QED
    BY <1>1, <2>1, Zenon
<1> QED
  BY <1>3, <1>4, <1>5, <1>6, <1>7, <1>8, <1>9, <1>10, <1>11, <1>12, <1>13, <1>14, <1>15,
     <1>16, Zenon DEF Next

(***************************************************************************)
(* The theorems.                                                           *)
(***************************************************************************)

LEMMA SessionInitial == Init => SessionInv
<1> SUFFICES ASSUME Init PROVE SessionInv
  OBVIOUS
<1>1. HomeInv
  BY HomeInitial, Zenon DEF Init
<1>2. UserInv
  BY CallsType, Zenon DEF Init, HomeInit, UserInv
<1>3. LoginInv
  <2>1. GoodLogin(NoLogin, proved)
    BY NoLoginGood, Zenon
  <2> QED
    BY <2>1, Zenon DEF Init, LoginInv, GoodLogin
<1>4. GoodWrites(<<>>, {}) /\ GoodStack(<<>>, {})
  BY DEF GoodWrites, GoodStack
<1> QED
  BY <1>1, <1>2, <1>3, <1>4, UnsetGood, Zenon DEF Init, SessionInv, PrefsInv

LEMMA SessionStep == SessionInv /\ [Next]_vars => SessionInv'
BY ProvedGrows, HomePart, PrefsPart, LoginPart, StackPart, Zenon DEF SessionInv

\* The app works for nobody whose password was not typed in on the phone, over
\* any crashes, late answers and number of logins.
THEOREM OnlyTheProved == Spec => []ProvedOnly
<1>1. SessionInv => ProvedOnly
  BY Zenon DEF SessionInv, UserInv, PrefsInv, GoodPrefs, ProvedOnly
<1> QED
  BY SessionInitial, SessionStep, <1>1, PTL DEF Spec

\* There is no home screen on the stack before anybody has logged in.
THEOREM HomeAfterLogin == Spec => []HomeNeedsLogin
<1>1. SessionInv => HomeNeedsLogin
  BY Zenon DEF SessionInv, GoodStack, Homes, HomeNeedsLogin
<1> QED
  BY SessionInitial, SessionStep, <1>1, PTL DEF Spec

\* As long as no process serves two employees, User.id is User.employeeId's.
THEOREM IdIsOfEmployee == Spec => []IdOfEmployee
<1>1. SessionInv => IdOfEmployee
  BY Zenon DEF SessionInv, HomeInv, IdOfEmployee
<1> QED
  BY SessionInitial, SessionStep, <1>1, PTL DEF Spec

LEMMA MixedStep ==
    ASSUME SessionInv, MixedNeedsTwo, [Next]_vars
    PROVE  MixedNeedsTwo'
<1>1. proved \subseteq proved'
  BY ProvedGrows, Zenon
<1>2. HomeStep
  BY StepOfHome, Zenon
<1>3. CASE UNCHANGED mixed
  BY <1>1, <1>3, Zenon DEF MixedNeedsTwo
<1>4. ASSUME NEW s \in Screens, Mount(s, cache["employeeId"])
      PROVE  MixedNeedsTwo'
  <2> DEFINE e == cache["employeeId"]
  <2>1. CASE mixed
    BY <1>1, <2>1, Zenon DEF MixedNeedsTwo
  <2>2. CASE employeeId \notin {Nobody, e}
    <3>1. employeeId \in proved /\ e # employeeId
      BY <2>2, Zenon DEF SessionInv, UserInv
    <3>2. e \in Employees
      BY <1>4, <2>2, Zenon DEF Mount
    <3>3. e \in proved
      BY <3>2, NobodyAssumption, Zenon DEF SessionInv, PrefsInv, GoodPrefs
    <3> QED
      BY <1>1, <3>1, <3>3, Zenon DEF MixedNeedsTwo
  <2>3. mixed' = (mixed \/ employeeId \notin {Nobody, e})
    BY <1>4, Zenon DEF Mount
  <2> QED
    BY <2>1, <2>2, <2>3, Zenon DEF MixedNeedsTwo
<1> QED
  BY <1>2, <1>3, <1>4, Zenon DEF HomeStep, homeVars, Reset, IdShown, IdFailed

\* A process serves two employees only if two have logged in on the phone.  So
\* what is proved of the screens for a process that serves one employee holds
\* on every phone on which one employee logs in.
THEOREM OnePhoneOneEmployee == Spec => []MixedNeedsTwo
<1>1. Init => MixedNeedsTwo
  BY Zenon DEF Init, HomeInit, MixedNeedsTwo
<1>2. SessionInv /\ MixedNeedsTwo /\ [Next]_vars => MixedNeedsTwo'
  BY MixedStep, Zenon
<1> QED
  BY SessionInitial, SessionStep, <1>1, <1>2, PTL DEF Spec

\* Session implements HomeScreen: what is proved of HomeScreen, and of the
\* screens built on it, holds however the home screens come to be mounted.
THEOREM SessionRefinesHome == Spec => HomeRefined
<1>1. Init => HomeInit
  BY Zenon DEF Init
<1>2. SessionInv /\ [Next]_vars => [HomeNext]_homeVars
  BY StepOfHome, CacheNames, Zenon DEF HomeStep, HomeNext
<1> QED
  BY SessionInitial, SessionStep, <1>1, <1>2, PTL DEF Spec, HomeRefined, HomeSpec

(***************************************************************************)
(* The inductive invariant of the preferences, the bounds and the types.   *)
(***************************************************************************)

PrefsAndBounds == KindInv /\ MemoryAgrees /\ CentreIsAnOffice /\ BoundInv

LEMMA PrefsAndBoundsInitial == Init => PrefsAndBounds
<1> SUFFICES ASSUME Init PROVE PrefsAndBounds
  OBVIOUS
<1>1. KindInv
  <2>1. KindOfWrites(<<>>)
    BY DEF KindOfWrites
  <2> QED
    BY <2>1, UnsetKind, Zenon DEF Init, KindInv
<1>2. MemoryAgrees
  BY AgreesNew, Zenon DEF Init, MemoryAgrees
<1>3. CentreIsAnOffice
  BY Zenon DEF Init, CentreIsAnOffice, Unset, Keys
<1>4. BoundInv
  <2>1. register = Registering("idle", 0) /\ stack = <<>> /\ unsaved = <<>>
    BY Zenon DEF Init, NoRegister
  <2>2. register \in Registers /\ register.pc = "idle"
    BY <2>1, RegisterBounded, BoundsAssumption
  <2>3. login \in [Taps -> Logins] /\ \A t \in Taps : login[t].pc = "idle"
    BY NoLoginBounded, Zenon DEF Init
  <2>4. torn \in BOOLEAN
    BY Zenon DEF Init
  <2>5. Room
    <3>1. Len(stack) = 0 /\ Len(unsaved) = 0
      BY <2>1
    <3>2. RegistersInProgress = 0 /\ RegistersQuerying = 0
      BY <2>2, Zenon DEF RegistersInProgress, RegistersQuerying
    <3> QED
      BY <2>3, <3>1, <3>2, NoneCounts, RoomAtStart, Zenon DEF Room
  <2> QED
    BY <2>2, <2>3, <2>4, <2>5, Zenon DEF BoundInv, NoneUnderWay
<1> QED
  BY <1>1, <1>2, <1>3, <1>4, Zenon DEF PrefsAndBounds

LEMMA PrefsAndBoundsStep ==
    SessionInv /\ PrefsAndBounds /\ [Next]_vars => PrefsAndBounds'
BY KindPart, AgreePart, CentrePart, BoundPart, Zenon DEF PrefsAndBounds

\* The preferences agree, the centre is an office and no handler is held back.
THEOREM PrefsAndBoundsAlways == Spec => [](SessionInv /\ PrefsAndBounds)
BY SessionInitial, SessionStep, PrefsAndBoundsInitial, PrefsAndBoundsStep, PTL DEF Spec

\* Type correctness, and that the model's bounds hold no handler back half way.
THEOREM SessionTyped == Spec => []TypeOK
<1>1. SessionInv /\ PrefsAndBounds => TypeOK
  <2> SUFFICES ASSUME SessionInv, PrefsAndBounds PROVE TypeOK
    OBVIOUS
  <2>1. /\ employeeId \in People /\ id \in People
        /\ getId \in [Screens -> GetIds] /\ mixed \in BOOLEAN
    BY Zenon DEF SessionInv, HomeInv
  <2>2. /\ IsPrefs(cache) /\ IsPrefs(disk) /\ unsaved \in Seq(Writes)
        /\ \A i \in 1..Len(unsaved) : unsaved[i].value \in ValuesOf(unsaved[i].key)
    BY Zenon DEF PrefsAndBounds, KindInv, KindOfWrites
  <2>3. login \in [Taps -> Logins] /\ register \in Registers /\ torn \in BOOLEAN
    BY Zenon DEF PrefsAndBounds, BoundInv
  <2>4. stack \in Seq(Routes) /\ proved \subseteq Employees
    BY Zenon DEF SessionInv, GoodStack
  <2>5. Len(stack) <= MaxDepth
    <3>1. Len(stack) + Cardinality(Busy) + RegistersInProgress <= MaxDepth
      BY Zenon DEF PrefsAndBounds, BoundInv, Room, RoomFor
    <3>2. RegistersInProgress \in Nat
      BY Zenon DEF RegistersInProgress
    <3> QED
      BY <3>1, <3>2, Counts, Sizes
  <2> QED
    BY <2>1, <2>2, <2>3, <2>4, <2>5, Zenon DEF TypeOK
<1> QED
  BY <1>1, PrefsAndBoundsAlways, PTL

\* Memory is the disk with the unsaved sets on top, over any crashes.
THEOREM MemoryAlwaysAgrees == Spec => []MemoryAgrees
<1>1. PrefsAndBounds => MemoryAgrees
  BY Zenon DEF PrefsAndBounds
<1> QED
  BY <1>1, PrefsAndBoundsAlways, PTL

\* A process that ends with nothing unsaved is resumed as it was left.
THEOREM ResumedAsLeft == Spec => [][Kill /\ unsaved = <<>> => cache' = cache]_vars
<1>1. PrefsAndBounds /\ Kill /\ unsaved = <<>> => cache' = cache
  <2> SUFFICES ASSUME PrefsAndBounds, Kill, unsaved = <<>> PROVE disk = cache
    BY Zenon DEF Kill
  <2>1. \A k \in Keys : cache[k] = disk[k]
    BY DEF PrefsAndBounds, MemoryAgrees, Agrees
  <2>2. cache \in [Keys -> Values] /\ disk \in [Keys -> Values]
    BY Zenon DEF PrefsAndBounds, KindInv, IsPrefs
  <2> QED
    BY <2>1, <2>2
<1> QED
  BY <1>1, PrefsAndBoundsAlways, PTL

\* The geofence is around one office, over any choices and crashes that do not
\* fall between the saving of its two coordinates.
THEOREM CentreAlwaysAnOffice == Spec => []CentreIsAnOffice
<1>1. PrefsAndBounds => CentreIsAnOffice
  BY Zenon DEF PrefsAndBounds
<1> QED
  BY <1>1, PrefsAndBoundsAlways, PTL
==============================================================================
