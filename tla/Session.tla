------------------------------- MODULE Session -------------------------------
(***************************************************************************)
(* Logging in and out on one phone: lib/loginscreen.dart, officescreen.    *)
(* dart, the logout of profilescreen.dart, the flag registerscreen.dart    *)
(* clears, main.dart and utils/prefs.dart.                                 *)
(*                                                                         *)
(* Preferences are read from a cache in memory that a set changes at once; *)
(* the disk follows, one set after the other, and is all that is left when *)
(* the process ends.                                                       *)
(*                                                                         *)
(* The stack holds the Navigator's routes, and is empty while the app is   *)
(* not running.  Screens are pushed and, but for the back button, never    *)
(* popped, so home screens of earlier logins stay mounted.  A LoginScreen  *)
(* is "form" or, when it was built while loggedIn was set, "formHome", a   *)
(* HomeScreen in its place.  An OfficeScreen is "loading", "offices" or,   *)
(* after a failed request, "stuck".                                        *)
(***************************************************************************)
EXTENDS HomeScreen, Sequences, FiniteSets

CONSTANTS
    Offices,
    NoOffice,      \* a coordinate that is not set
    Taps,          \* LOGIN handlers that may be in progress at one time
    MaxDepth,      \* bound: routes on the stack
    MaxUnsaved     \* bound: sets that are not on the disk

ASSUME NoOfficeAssumption == NoOffice \notin Offices
ASSUME TapsAssumption == IsFiniteSet(Taps)
ASSUME BoundsAssumption == MaxDepth \in Nat \ {0} /\ MaxUnsaved \in Nat

VARIABLES
    cache,     \* SharedPreferences in memory
    disk,      \* and on disk
    unsaved,   \* the sets the disk has not seen, oldest first
    stack,     \* the Navigator's routes
    login,     \* the LOGIN handlers
    register,  \* the REGISTER handler
    proved,    \* history: employees whose password was typed in on the phone
    torn       \* history: killed while the choice of an office was unsaved

prefs == <<cache, disk, unsaved>>
vars == <<homeVars, prefs, stack, login, register, proved, torn>>

Keys == {"loggedIn", "employeeId", "latitude", "longitude"}

\* Prefs.getBool and getString give false and "" for a key that is not set.
Unset == [k \in Keys |-> CASE k = "loggedIn" -> FALSE
                           [] k = "employeeId" -> Nobody
                           [] OTHER -> NoOffice]

Routes ==
    {"form", "formHome", "register", "loading", "offices", "stuck", "home"}

Homes == {"formHome", "home"}

\* A LOGIN handler: the id typed in, whether the password was right, the place
\* of its screen on the stack (0: popped), and how many sets are still to reach
\* the disk before setString of employeeId completes.
Logins ==
    [pc : {"idle", "query", "commit"}, who : People, right : BOOLEAN,
     at : 0..MaxDepth, left : 0..MaxUnsaved]

Login(pc, e, right, at, left) ==
    [pc |-> pc, who |-> e, right |-> right, at |-> at, left |-> left]

NoLogin == Login("idle", Nobody, FALSE, 0, 0)

\* Counts on below zero.
CountdownOn(l) == Login(l.pc, l.who, l.right, l.at, l.left - 1)

Countdown(l) ==
    Login(l.pc, l.who, l.right, l.at, IF l.left > 0 THEN l.left - 1 ELSE 0)

Orphaned(l, n) ==
    Login(l.pc, l.who, l.right, IF l.at = n THEN 0 ELSE l.at, l.left)

Registers == [pc : {"idle", "query", "adding"}, at : 0..MaxDepth]

Registering(pc, at) == [pc |-> pc, at |-> at]

NoRegister == Registering("idle", 0)

Write(key, value) == [key |-> key, value |-> value]

Put(p, w) == [p EXCEPT ![w.key] = w.value]

Init ==
    /\ HomeInit
    /\ cache = Unset
    /\ disk = Unset
    /\ unsaved = <<>>
    /\ stack = <<>>
    /\ login = [t \in Taps |-> NoLogin]
    /\ register = NoRegister
    /\ proved = {}
    /\ torn = FALSE

-----------------------------------------------------------------------------
(* Preferences and navigation.                                             *)

\* Prefs.setBool, Prefs.setString: in the cache at once, on the disk later.
SetPref(w) ==
    /\ cache' = Put(cache, w)
    /\ unsaved' = Append(unsaved, w)
    /\ UNCHANGED disk

\* Two sets without an await between them.
SetPrefs(v, w) ==
    /\ cache' = Put(Put(cache, v), w)
    /\ unsaved' = unsaved \o <<v, w>>
    /\ UNCHANGED disk

\* Sets overtake one another on their way to the disk.
SavedUnordered ==
    /\ unsaved # <<>>
    /\ disk' = Put(disk, unsaved[Len(unsaved)])
    /\ unsaved' = SubSeq(unsaved, 1, Len(unsaved) - 1)
    /\ login' = [t \in Taps |-> Countdown(login[t])]
    /\ UNCHANGED <<homeVars, cache, stack, register, proved, torn>>

\* The disk takes the oldest set.
Saved ==
    /\ unsaved # <<>>
    /\ disk' = Put(disk, Head(unsaved))
    /\ unsaved' = Tail(unsaved)
    /\ login' = [t \in Taps |-> Countdown(login[t])]
    /\ UNCHANGED <<homeVars, cache, stack, register, proved, torn>>

Top == stack[Len(stack)]

OnTop(routes) == stack # <<>> /\ Top \in routes

LoginsInProgress == Cardinality({t \in Taps : login[t].pc # "idle"})

RegistersInProgress == IF register.pc = "idle" THEN 0 ELSE 1

\* The model's bounds.  They hold taps back, and never a handler half way: LOGIN
\* will set two preferences, REGISTER one, and each push one route.
HasRoom ==
    /\ Len(stack) + LoginsInProgress + RegistersInProgress < MaxDepth
    /\ Len(unsaved) + 2 * LoginsInProgress + RegistersInProgress + 2
          <= MaxUnsaved

\* Navigator.push(LoginScreen()): its build looks at loggedIn.
PushLogin(p) ==
    \/ /\ ~p["loggedIn"]
       /\ stack' = Append(stack, "form")
       /\ UNCHANGED homeVars
    \/ /\ p["loggedIn"]
       /\ stack' = Append(stack, "formHome")
       /\ \E s \in Screens : Mount(s, p["employeeId"])

\* main: Prefs.init() and the first LoginScreen.
Start ==
    /\ stack = <<>>
    /\ PushLogin(cache)
    /\ UNCHANGED <<prefs, login, register, proved, torn>>

\* The process ends, killed or left with the back button.
Kill ==
    /\ stack # <<>>
    /\ stack' = <<>>
    /\ cache' = disk
    /\ unsaved' = <<>>
    /\ login' = [t \in Taps |-> NoLogin]
    /\ register' = NoRegister
    /\ torn' = (torn \/ \E i \in 1..Len(unsaved) :
                           unsaved[i].key \in {"latitude", "longitude"})
    /\ Reset
    /\ UNCHANGED <<disk, proved>>

\* The phone's back button: the top route goes, and its handlers lose it.
Back ==
    LET n == Len(stack)
    IN  /\ n > 1
        /\ stack' = SubSeq(stack, 1, n - 1)
        /\ login' = [t \in Taps |-> Orphaned(login[t], n)]
        /\ register' = Registering(register.pc,
                                   IF register.at = n THEN 0 ELSE register.at)
        /\ UNCHANGED <<homeVars, prefs, proved, torn>>

\* A LoginScreen is built again (the keyboard, a rotation) and looks at
\* loggedIn again.
Rebuild(i) ==
    /\ \/ /\ stack[i] = "form" /\ cache["loggedIn"]
          /\ stack' = [stack EXCEPT ![i] = "formHome"]
          /\ \E s \in Screens : Mount(s, cache["employeeId"])
       \/ /\ stack[i] = "formHome" /\ ~cache["loggedIn"]
          /\ stack' = [stack EXCEPT ![i] = "form"]
          /\ UNCHANGED homeVars
    /\ UNCHANGED <<prefs, login, register, proved, torn>>

-----------------------------------------------------------------------------
(* LOGIN.                                                                  *)

\* LOGIN is tapped with both fields filled in.
LoginTap(t) ==
    /\ OnTop({"form"})
    /\ login[t].pc = "idle"
    /\ HasRoom
    /\ \E e \in Employees, right \in BOOLEAN :
          /\ login' = [login EXCEPT ![t] =
                          Login("query", e, right, Len(stack), 0)]
          /\ proved' = IF right THEN proved \cup {e} ELSE proved
    /\ UNCHANGED <<homeVars, prefs, stack, register, torn>>

\* Forgets to compare the passwords.
LoginAcceptedUnchecked(t) ==
    LET l == login[t]
    IN  /\ l.pc = "query"
        /\ SetPrefs(Write("loggedIn", TRUE), Write("employeeId", l.who))
        /\ login' = [login EXCEPT ![t] =
                        Login("commit", l.who, l.right, l.at, Len(unsaved) + 2)]
        /\ UNCHANGED <<homeVars, stack, register, proved, torn>>

\* The password is that of docs[0].
LoginAccepted(t) ==
    LET l == login[t]
    IN  /\ l.pc = "query" /\ l.right
        /\ SetPrefs(Write("loggedIn", TRUE), Write("employeeId", l.who))
        /\ login' = [login EXCEPT ![t] =
                        Login("commit", l.who, l.right, l.at, Len(unsaved) + 2)]
        /\ UNCHANGED <<homeVars, stack, register, proved, torn>>

\* A wrong password, no such employee or an error: a message, if that.
LoginRefused(t) ==
    /\ login[t].pc = "query"
    /\ login' = [login EXCEPT ![t] = NoLogin]
    /\ UNCHANGED <<homeVars, prefs, stack, register, proved, torn>>

\* Goes to the home screen, as the code that is commented out did.
LoginDoneHome(t) ==
    /\ login[t].pc = "commit" /\ login[t].left = 0
    /\ \/ login[t].at = 0 /\ UNCHANGED <<stack, homeVars>>
       \/ /\ login[t].at # 0
          /\ stack' = Append(stack, "home")
          /\ \E s \in Screens : Mount(s, cache["employeeId"])
    /\ login' = [login EXCEPT ![t] = NoLogin]
    /\ UNCHANGED <<prefs, register, proved, torn>>

\* The employee id is on the disk: on to the offices, unless the screen whose
\* context the handler uses is gone.  initState sends the request for them.
LoginDone(t) ==
    /\ login[t].pc = "commit" /\ login[t].left = 0
    /\ stack' = IF login[t].at = 0 THEN stack ELSE Append(stack, "loading")
    /\ login' = [login EXCEPT ![t] = NoLogin]
    /\ UNCHANGED <<homeVars, prefs, register, proved, torn>>

-----------------------------------------------------------------------------
(* The office, the home screen's logout, registration.                     *)

\* Forgets isLoading = false.
OfficesLoadedStill(i) ==
    /\ stack[i] = "loading"
    /\ UNCHANGED vars

\* getData: 200 ends the loading; any other status, or an exception, does not.
OfficesLoaded(i) ==
    /\ stack[i] = "loading"
    /\ stack' = [stack EXCEPT ![i] = "offices"]
    /\ UNCHANGED <<homeVars, prefs, login, register, proved, torn>>

OfficesFailed(i) ==
    /\ stack[i] = "loading"
    /\ stack' = [stack EXCEPT ![i] = "stuck"]
    /\ UNCHANGED <<homeVars, prefs, login, register, proved, torn>>

\* The longitude is left as it was.
ChooseOfficeHalf ==
    /\ OnTop({"offices"})
    /\ HasRoom
    /\ \E o \in Offices : SetPref(Write("latitude", o))
    /\ stack' = Append(stack, "home")
    /\ \E s \in Screens : Mount(s, cache["employeeId"])
    /\ UNCHANGED <<login, register, proved, torn>>

\* An office is tapped: its two coordinates, then the home screen.
ChooseOffice ==
    /\ OnTop({"offices"})
    /\ HasRoom
    /\ \E o \in Offices :
          SetPrefs(Write("latitude", o), Write("longitude", o))
    /\ stack' = Append(stack, "home")
    /\ \E s \in Screens : Mount(s, cache["employeeId"])
    /\ UNCHANGED <<login, register, proved, torn>>

\* Logout: the employee id and the static fields stay as they are.
Logout ==
    /\ OnTop(Homes)
    /\ HasRoom
    /\ SetPref(Write("loggedIn", FALSE))
    /\ stack' = Append(stack, "form")
    /\ UNCHANGED <<homeVars, login, register, proved, torn>>

\* 'Not have an account? Register'
ToRegister ==
    /\ OnTop({"form"})
    /\ HasRoom
    /\ stack' = Append(stack, "register")
    /\ UNCHANGED <<homeVars, prefs, login, register, proved, torn>>

\* 'Already Registered? Login'
ToLogin ==
    /\ OnTop({"register"})
    /\ HasRoom
    /\ PushLogin(cache)
    /\ UNCHANGED <<prefs, login, register, proved, torn>>

RegisterTap ==
    /\ OnTop({"register"})
    /\ register.pc = "idle"
    /\ HasRoom
    /\ register' = Registering("query", Len(stack))
    /\ UNCHANGED <<homeVars, prefs, stack, login, proved, torn>>

\* The id is free: loggedIn is cleared, whatever has happened since the tap,
\* and the document is added.
RegisterFree ==
    /\ register.pc = "query"
    /\ SetPref(Write("loggedIn", FALSE))
    /\ register' = Registering("adding", register.at)
    /\ UNCHANGED <<homeVars, stack, login, proved, torn>>

\* The id exists, or a call throws.
RegisterEnds ==
    /\ register.pc # "idle"
    /\ register' = NoRegister
    /\ UNCHANGED <<homeVars, prefs, stack, login, proved, torn>>

\* The document was added: on to a LoginScreen.
RegisterAdded ==
    /\ register.pc = "adding" /\ register.at # 0
    /\ PushLogin(cache)
    /\ register' = NoRegister
    /\ UNCHANGED <<prefs, login, proved, torn>>

-----------------------------------------------------------------------------

\* An answer is taken and the call goes on waiting.
AnswerAgain(s) ==
    /\ getId[s].pc = "query" /\ getId[s].who # Nobody
    /\ id' = getId[s].who
    /\ UNCHANGED <<employeeId, getId, mixed>>
    /\ UNCHANGED <<prefs, stack, login, register, proved, torn>>

\* The answers to getId.
Answer(s) ==
    /\ IdShown(s) \/ IdFailed(s)
    /\ UNCHANGED <<prefs, stack, login, register, proved, torn>>

Next ==
    \/ Start \/ Kill \/ Back \/ Saved
    \/ \E i \in 1..Len(stack) :
          Rebuild(i) \/ OfficesLoaded(i) \/ OfficesFailed(i)
    \/ \E t \in Taps :
          LoginTap(t) \/ LoginAccepted(t) \/ LoginRefused(t) \/ LoginDone(t)
    \/ ChooseOffice \/ Logout \/ ToRegister \/ ToLogin
    \/ RegisterTap \/ RegisterFree \/ RegisterEnds \/ RegisterAdded
    \/ \E s \in Screens : Answer(s)

Spec == Init /\ [][Next]_vars

\* Requests are answered, the disk takes what it is given and Dart runs the
\* continuations.  Nothing is assumed of the employee.
Fairness ==
    /\ WF_vars(Saved)
    /\ \A t \in Taps : WF_vars(LoginDone(t))
    /\ \A i \in 1..MaxDepth : WF_vars(i <= Len(stack) /\ OfficesLoaded(i))
    /\ \A s \in Screens : WF_vars(Answer(s))

-----------------------------------------------------------------------------

Values == BOOLEAN \cup People \cup Offices \cup {NoOffice}

ValuesOf(k) ==
    CASE k = "loggedIn" -> BOOLEAN
      [] k = "employeeId" -> People
      [] OTHER -> Offices \cup {NoOffice}

IsPrefs(p) == p \in [Keys -> Values] /\ \A k \in Keys : p[k] \in ValuesOf(k)

Writes == [key : Keys, value : Values]

\* Every variable has its type.
TypeOK ==
    /\ employeeId \in People /\ id \in People
    /\ getId \in [Screens -> GetIds]
    /\ mixed \in BOOLEAN /\ torn \in BOOLEAN
    /\ IsPrefs(cache) /\ IsPrefs(disk)
    /\ unsaved \in Seq(Writes)
    /\ \A i \in 1..Len(unsaved) : unsaved[i].value \in ValuesOf(unsaved[i].key)
    /\ stack \in Seq(Routes) /\ Len(stack) <= MaxDepth
    /\ login \in [Taps -> Logins]
    /\ register \in Registers
    /\ proved \subseteq Employees

\* The app works for nobody whose password was not typed in on this phone:
\* not through a late answer, an old home screen, a rebuilt LoginScreen or a
\* restart from a disk that has only part of a login.
ProvedOnly ==
    {cache["employeeId"], disk["employeeId"], employeeId, id}
        \subseteq proved \cup {Nobody}

\* A home screen is on the stack only if somebody has logged in on the phone.
HomeNeedsLogin == (\E i \in 1..Len(stack) : stack[i] \in Homes) => proved # {}

\* As long as no process serves two employees, User.id is blank or names the
\* document of User.employeeId, however the answers to getId fall.
IdOfEmployee == ~mixed => id \in {Nobody, employeeId}

\* A process serves two employees only if the passwords of two were typed in on
\* this phone: no crash, old home screen or half-saved login brings in another.
MixedNeedsTwo == mixed => \E e, f \in proved : e # f

\* Session is one way in which home screens come to be mounted: the static
\* fields and the getId calls behave as HomeScreen says.
HomeRefined == HomeSpec

\* Memory c is disk d with the sets of q done to it, the newest of a key last.
Agrees(c, d, q) ==
    \A k \in Keys :
        LET I == {i \in 1..Len(q) : q[i].key = k}
        IN  \/ I = {} /\ c[k] = d[k]
            \/ \E i \in I : c[k] = q[i].value /\ \A j \in I : j <= i

\* What is in memory is the disk with every unsaved set on top of it; so a
\* process that ends with nothing unsaved is resumed as it was.
MemoryAgrees == Agrees(cache, disk, unsaved)

\* The centre of the geofence is an office, not the latitude of one and the
\* longitude of another, unless the app was killed before both were saved.
CentreIsAnOffice == ~torn => cache["latitude"] = cache["longitude"]

\* An accepted login opens the list of offices, unless its screen is left or
\* the app is.
LoginOpensOffices ==
    \A t \in Taps :
        (login[t].pc = "commit")
        ~> (\/ \E i \in 1..Len(stack) : stack[i] \in {"loading", "offices"}
            \/ login[t].pc = "commit" /\ login[t].at = 0
            \/ stack = <<>>)
==============================================================================
