-------------------------- MODULE AttributionProofs --------------------------
(***************************************************************************)
(* What a slide files: whose attendance it is, with Attribution for any    *)
(* number of employees and screens, and the address of the place, with     *)
(* Location for any number of screens, slides and places.  And what makes  *)
(* an employee one document: EmployeeDirectory for any number of phones,   *)
(* taps and ids.                                                           *)
(*                                                                         *)
(* OneEmployee is not inductive: the handlers in progress and the screens  *)
(* have to be of the employee too, which AttributionInv says.  OnePlace is *)
(* not either: WhereInv adds what the two coordinates are between two      *)
(* readings and that every address under way was asked for.                *)
(***************************************************************************)
EXTENDS Attribution, Location, EmployeeDirectory, HomeScreenProofs

LEMMA CallType ==
    ASSUME NEW pc \in {"idle", "auth", "query", "get"}, NEW e \in People
    PROVE  Call(pc, e) \in Calls /\ Call(pc, e).pc = pc /\ Call(pc, e).who = e
BY Zenon DEF Call, Calls

LEMMA IdleType == Idle \in Calls /\ Idle.pc = "idle" /\ Idle.who = Nobody
BY CallType, Zenon DEF Idle, People

LEMMA FilingType ==
    ASSUME NEW code \in People, NEW owner \in People, NEW shown \in People
    PROVE  /\ Filing(code, owner, shown) \in Filings
           /\ Filing(code, owner, shown).code = code
           /\ Filing(code, owner, shown).owner = owner
           /\ Filing(code, owner, shown).shown = shown
BY Zenon DEF Filing, Filings

\* Whoever a call or a screen is of is the employee of User.employeeId, or
\* nobody, and a call past its query is of an employee.
CallsInv ==
    \A s \in Screens :
        /\ {getRecord[s].who, shownFor[s], submit[s].who} \subseteq {Nobody, employeeId}
        /\ submit[s].pc = "get" => submit[s].who # Nobody

AttributionInv ==
    /\ HomeInv /\ TypeOK
    /\ ~mixed => CallsInv
    /\ OneEmployee

LEMMA AttributionInitial == Init => AttributionInv
<1> SUFFICES ASSUME Init PROVE AttributionInv
  OBVIOUS
<1>1. HomeInv
  BY HomeInitial, Zenon DEF Init
<1>2. TypeOK
  BY <1>1, IdleType, FilingType, Zenon DEF Init, TypeOK, HomeInv, NoFiling, People
<1>3. CallsInv
  BY IdleType, Zenon DEF Init, CallsInv
<1>4. OneEmployee
  BY Zenon DEF Init, OneEmployee
<1> QED
  BY <1>1, <1>2, <1>3, <1>4, Zenon DEF AttributionInv

\* A step of the screens that leaves User alone and files nothing keeps the
\* invariant if the calls and screens it leaves are as CallsInv says.
LEMMA ScreenStep ==
    ASSUME AttributionInv, UNCHANGED <<homeVars, filed>>,
           open' \subseteq Screens,
           getRecord' \in [Screens -> Calls],
           shownFor' \in [Screens -> People],
           submit' \in [Screens -> Calls],
           ~mixed => CallsInv'
    PROVE  AttributionInv'
<1>1. HomeInv'
  BY HomeStutters, Zenon DEF AttributionInv
<1>2. TypeOK'
  BY Zenon DEF AttributionInv, TypeOK, homeVars
<1>3. OneEmployee'
  BY Zenon DEF AttributionInv, OneEmployee, homeVars
<1>4. mixed' = mixed
  BY Zenon DEF homeVars
<1> QED
  BY <1>1, <1>2, <1>3, <1>4, Zenon DEF AttributionInv

LEMMA MountHomeKeeps ==
    ASSUME AttributionInv, NEW s \in Screens, NEW e \in People, MountHome(s, e)
    PROVE  AttributionInv'
<1>1. HomeInv' /\ employeeId' = e /\ (mixed => mixed')
  BY MountKeeps, Zenon DEF AttributionInv, MountHome
<1>2. Call("query", e) \in Calls /\ Call("query", e).who = e
  BY CallType, Zenon
<1>3. TypeOK'
  BY <1>1, <1>2, Zenon DEF AttributionInv, TypeOK, MountHome, HomeInv, People
<1>4. OneEmployee'
  BY <1>1, Zenon DEF AttributionInv, OneEmployee, MountHome
<1>5. ASSUME ~mixed'
      PROVE  CallsInv'
  <2>1. ~mixed /\ employeeId \in {Nobody, e}
    BY <1>1, <1>5, Zenon DEF MountHome, Mount
  <2>2. \A r \in Screens :
           /\ {getRecord[r].who, shownFor[r], submit[r].who} \subseteq {Nobody, e}
           /\ submit[r].pc = "get" => submit[r].who # Nobody
    BY <2>1, Zenon DEF AttributionInv, CallsInv
  <2>3. /\ getRecord' = [getRecord EXCEPT ![s] = Call("query", e)]
        /\ shownFor' = [shownFor EXCEPT ![s] = Nobody]
        /\ submit' = submit
    BY Zenon DEF MountHome
  <2>4. \A r \in Screens : getRecord'[r].who \in {Nobody, e}
    BY <2>2, <2>3, <1>2, Zenon DEF AttributionInv, TypeOK
  <2>5. \A r \in Screens : shownFor'[r] \in {Nobody, e}
    BY <2>2, <2>3, Zenon DEF AttributionInv, TypeOK
  <2> QED
    BY <1>1, <2>2, <2>3, <2>4, <2>5, Zenon DEF CallsInv
<1> QED
  BY <1>1, <1>3, <1>4, <1>5, Zenon DEF AttributionInv

LEMMA AnswerHomeKeeps ==
    ASSUME AttributionInv, NEW s \in Screens, Answer(s)
    PROVE  AttributionInv'
<1>1. HomeInv' /\ employeeId' = employeeId /\ mixed' = mixed
  BY AnswerKeeps, Zenon DEF AttributionInv, Answer
<1> QED
  BY <1>1, Zenon DEF AttributionInv, Answer, TypeOK, HomeInv, CallsInv, OneEmployee, today

LEMMA KillKeeps ==
    ASSUME AttributionInv, Kill
    PROVE  AttributionInv'
<1>1. HomeInv' /\ mixed' = mixed
  BY ResetKeeps, Zenon DEF AttributionInv, Kill
<1>2. TypeOK'
  BY <1>1, IdleType, Zenon DEF AttributionInv, Kill, TypeOK, HomeInv, People
<1>3. CallsInv'
  BY IdleType, Zenon DEF Kill, CallsInv
<1>4. OneEmployee'
  BY <1>1, Zenon DEF AttributionInv, Kill, OneEmployee
<1> QED
  BY <1>1, <1>2, <1>3, <1>4, Zenon DEF AttributionInv

LEMMA RecordKeeps ==
    ASSUME AttributionInv, NEW s \in Screens,
           RecordQueried(s) \/ RecordShown(s) \/ RecordFailed(s) \/ Leave(s)
    PROVE  AttributionInv'
<1> USE DEF AttributionInv, TypeOK
<1>1. CASE RecordQueried(s)
  <2>1. getRecord[s].who \in People
    BY Zenon DEF Calls
  <2>2. Call("get", getRecord[s].who) \in Calls
        /\ Call("get", getRecord[s].who).who = getRecord[s].who
    BY <2>1, CallType, Zenon
  <2>3. ~mixed => CallsInv'
    BY <1>1, <2>2, Zenon DEF RecordQueried, CallsInv, homeVars
  <2> QED
    BY <1>1, <2>2, <2>3, ScreenStep, Zenon DEF RecordQueried
<1>2. CASE RecordShown(s)
  <2>1. getRecord[s].who \in People
    BY Zenon DEF Calls
  <2>2. ~mixed => CallsInv'
    BY <1>2, IdleType DEF RecordShown, CallsInv, homeVars
  <2> QED
    BY <1>2, <2>1, <2>2, IdleType, ScreenStep, Zenon DEF RecordShown
<1>3. CASE RecordFailed(s)
  <2>1. ~mixed => CallsInv'
    BY <1>3, IdleType, Zenon DEF RecordFailed, CallsInv, homeVars
  <2> QED
    BY <1>3, <2>1, IdleType, ScreenStep, Zenon DEF RecordFailed
<1>4. CASE Leave(s)
  BY <1>4, ScreenStep, Zenon DEF Leave, CallsInv, homeVars
<1> QED
  BY <1>1, <1>2, <1>3, <1>4, Zenon

\* A handler goes on to a call that is of the employee, or of nobody.
LEMMA ResumeKeeps ==
    ASSUME AttributionInv, NEW s \in Screens, NEW call \in Calls, Resume(s, call),
           UNCHANGED <<homeVars, open, getRecord, shownFor, filed>>,
           ~mixed => call.who \in {Nobody, employeeId},
           call.pc = "get" => call.who # Nobody
    PROVE  AttributionInv'
<1> USE DEF AttributionInv, TypeOK
<1>1. submit' = [submit EXCEPT ![s] = call]
  BY Zenon DEF Resume
<1>2. ~mixed => CallsInv'
  BY <1>1, Zenon DEF CallsInv, homeVars
<1> QED
  BY <1>1, <1>2, ScreenStep, Zenon

LEMMA SubmitKeeps ==
    ASSUME AttributionInv, NEW s \in Screens,
           Slide(s) \/ Authenticated(s) \/ Queried(s) \/ SubmitFailed(s)
    PROVE  AttributionInv'
<1>1. CASE Slide(s)
  BY <1>1, CallType, ResumeKeeps DEF Slide, People
<1>2. CASE Authenticated(s)
  BY <1>2, CallType, ResumeKeeps, Zenon DEF Authenticated, AttributionInv, HomeInv
<1>3. CASE Queried(s)
  <2>1. submit[s].who \in People
    BY Zenon DEF AttributionInv, TypeOK, Calls
  <2>2. ~mixed => submit[s].who \in {Nobody, employeeId}
    BY Zenon DEF AttributionInv, CallsInv
  <2> QED
    BY <1>3, <2>1, <2>2, CallType, ResumeKeeps DEF Queried
<1>4. CASE SubmitFailed(s)
  BY <1>4, IdleType, ResumeKeeps, Zenon DEF SubmitFailed
<1> QED
  BY <1>1, <1>2, <1>3, <1>4, Zenon

LEMMA FiledKeeps ==
    ASSUME AttributionInv, NEW s \in Screens, Filed(s)
    PROVE  AttributionInv'
<1> USE DEF AttributionInv
<1> DEFINE w == submit[s].who
<1>1. w \in People /\ shownFor[s] \in People /\ employeeId \in People
  BY Zenon DEF TypeOK, Calls
<1>2. /\ filed' \in Filings /\ filed'.code = employeeId
      /\ filed'.owner = w /\ filed'.shown = shownFor[s]
  BY <1>1, FilingType DEF Filed
<1>3. UNCHANGED <<homeVars, open, getRecord, shownFor>>
      /\ submit' = [submit EXCEPT ![s] = Idle]
  BY Zenon DEF Filed, Resume
<1>4. HomeInv'
  BY <1>3, HomeStutters, Zenon
<1>5. TypeOK'
  BY <1>2, <1>3, IdleType, Zenon DEF TypeOK, homeVars
<1>6. ~mixed => CallsInv'
  BY <1>3, IdleType, Zenon DEF CallsInv, TypeOK, homeVars
<1>7. ~mixed => w \in Employees /\ w = employeeId /\ shownFor[s] \in {Nobody, w}
  BY <1>1, Zenon DEF CallsInv, Filed, People
<1>8. OneEmployee'
  BY <1>2, <1>3, <1>7, Zenon DEF OneEmployee, homeVars
<1> QED
  BY <1>3, <1>4, <1>5, <1>6, <1>8, Zenon DEF homeVars

LEMMA AttributionStep == AttributionInv /\ [Next]_vars => AttributionInv'
<1> SUFFICES ASSUME AttributionInv, [Next]_vars PROVE AttributionInv'
  OBVIOUS
<1>1. CASE UNCHANGED vars
  BY <1>1, HomeStutters, Zenon
     DEF AttributionInv, vars, today, homeVars, TypeOK, CallsInv, OneEmployee
<1>2. CASE Next
  BY <1>2, MountHomeKeeps, AnswerHomeKeeps, KillKeeps, RecordKeeps, SubmitKeeps,
     FiledKeeps, Zenon DEF Next
<1> QED
  BY <1>1, <1>2, Zenon

\* With any number of employees and screens: as long as no process serves two
\* employees, the POST, the record and the screen are of one employee.
THEOREM AttributionCorrect == Spec => []OneEmployee
<1>1. AttributionInv => OneEmployee
  BY Zenon DEF AttributionInv
<1> QED
  BY AttributionInitial, AttributionStep, <1>1, PTL DEF Spec

(***************************************************************************)
(* Location: where a slide was made.                                       *)
(***************************************************************************)

USE MaxPlaceAssumption

\* An address on the screen, on its way there or in a record was asked for.
AskedInv ==
    LET known == asked \cup {NoAddress}
    IN  /\ location \in known /\ written \in known
        /\ \A c \in Slides : lookup[c].at \in known

\* Between two readings the longitude is that of the place, otherwise that of
\* the latitude's place.
PlaceInv ==
    ~torn => /\ long = IF Halfway THEN place ELSE lat
             /\ \A a \in asked : a.lat = a.long

WhereInv == LocationTypeOK /\ AskedInv /\ PlaceInv

LEMMA WhereInitial ==
    ASSUME LocationInit
    PROVE  WhereInv
<1>1. 0 \in Places /\ 1 \in Places
  BY DEF Places
<1>2. LocationTypeOK
  BY <1>1, Zenon DEF LocationInit, LocationTypeOK, Awaits, NoLookup
<1>3. AskedInv
  BY Zenon DEF LocationInit, AskedInv, NoLookup
<1>4. PlaceInv
  BY Zenon DEF LocationInit, PlaceInv, Halfway
<1> QED
  BY <1>2, <1>3, <1>4, Zenon DEF WhereInv

\* initialize and the settings.
LEMMA PermissionKeeps ==
    ASSUME WhereInv,
           \/ Initialize \/ ServiceEnabled \/ RequestService
           \/ HasPermission \/ RequestPermission \/ Settings
    PROVE  WhereInv'
<1>1. UNCHANGED <<place, long, lat, fix, location, lookup, writing, written, asked, torn>>
  BY Zenon DEF Initialize, ServiceEnabled, RequestService,
         HasPermission, RequestPermission, Settings,
         user, screen
<1>2. service' \in BOOLEAN /\ permission' \in Permissions /\ init' \in Awaits
  BY Zenon DEF Initialize, ServiceEnabled, RequestService,
         HasPermission, RequestPermission, Settings,
         WhereInv, LocationTypeOK, Awaits
<1>3. LocationTypeOK'
  BY <1>1, <1>2, Zenon DEF WhereInv, LocationTypeOK
<1>4. AskedInv'
  BY <1>1, Zenon DEF WhereInv, AskedInv
<1>5. PlaceInv'
  BY <1>1, Zenon DEF WhereInv, PlaceInv, Halfway
<1> QED
  BY <1>3, <1>4, <1>5, Zenon DEF WhereInv

\* A move, or a step of _startLocationService.
LEMMA ReadingKeeps ==
    ASSUME WhereInv,
           \/ Move
           \/ \E s \in Homes : \/ StartLocationService(s) \/ LongRead(s)
                                 \/ LatRead(s) \/ FixFailed(s)
    PROVE  WhereInv'
<1> USE DEF WhereInv
<1>1. UNCHANGED <<service, permission, init, location, lookup, writing, written, asked>>
  BY Zenon DEF Move, StartLocationService, LongRead, LatRead, FixFailed,
         os, screen
<1>2. AskedInv'
  BY <1>1, Zenon DEF AskedInv
<1>3. CASE Move
  <2>1. /\ place' = place + 1 /\ place < MaxPlace /\ torn' = (torn \/ Halfway)
        /\ UNCHANGED <<long, lat, fix>>
    BY <1>3, Zenon DEF Move, user
  <2>2. LocationTypeOK'
    BY <1>1, <2>1 DEF LocationTypeOK, Places, Halfway
  <2>3. PlaceInv'
    BY <1>1, <2>1, Zenon DEF PlaceInv, Halfway, LocationTypeOK
  <2> QED
    BY <1>2, <2>2, <2>3, Zenon
<1>4. ASSUME NEW s \in Homes, StartLocationService(s) PROVE WhereInv'
  <2>1. /\ fix[s] = "idle" /\ fix' = [fix EXCEPT ![s] = "long"]
        /\ UNCHANGED <<place, long, lat, torn>>
    BY <1>4, Zenon DEF StartLocationService, user
  <2>2. LocationTypeOK'
    BY <1>1, <2>1, Zenon DEF LocationTypeOK
  <2>3. Halfway' = Halfway
    BY <2>1, Zenon DEF Halfway, LocationTypeOK
  <2>4. PlaceInv'
    BY <1>1, <2>1, <2>3, Zenon DEF PlaceInv
  <2> QED
    BY <1>2, <2>2, <2>4, Zenon
<1>5. ASSUME NEW s \in Homes, LongRead(s) PROVE WhereInv'
  <2>1. /\ long' = place /\ fix' = [fix EXCEPT ![s] = "lat"]
        /\ UNCHANGED <<place, lat, torn>>
    BY <1>5, Zenon DEF LongRead
  <2>2. LocationTypeOK'
    BY <1>1, <2>1, Zenon DEF LocationTypeOK
  <2>3. Halfway'
    BY <2>1, Zenon DEF Halfway, LocationTypeOK
  <2>4. PlaceInv'
    BY <1>1, <2>1, <2>3, Zenon DEF PlaceInv
  <2> QED
    BY <1>2, <2>2, <2>4, Zenon
<1>6. ASSUME NEW s \in Homes, LatRead(s) PROVE WhereInv'
  <2>1. /\ fix[s] = "lat" /\ lat' = place /\ fix' = [fix EXCEPT ![s] = "idle"]
        /\ UNCHANGED <<place, long, torn>>
    BY <1>6, Zenon DEF LatRead
  <2>2. LocationTypeOK'
    BY <1>1, <2>1, Zenon DEF LocationTypeOK
  <2>3. Halfway
    BY <2>1, Zenon DEF Halfway
  <2>4. PlaceInv'
    BY <1>1, <2>1, <2>3, Zenon DEF PlaceInv
  <2> QED
    BY <1>2, <2>2, <2>4, Zenon
<1>7. ASSUME NEW s \in Homes, FixFailed(s) PROVE WhereInv'
  <2>1. /\ fix' = [fix EXCEPT ![s] = "idle"] /\ torn' = (torn \/ fix[s] = "lat")
        /\ UNCHANGED <<place, long, lat>>
    BY <1>7, Zenon DEF FixFailed, user
  <2>2. LocationTypeOK'
    BY <1>1, <2>1, Zenon DEF LocationTypeOK
  <2>3. ~torn' => ~torn /\ Halfway' = Halfway
    BY <2>1, Zenon DEF Halfway, LocationTypeOK
  <2>4. PlaceInv'
    BY <1>1, <2>1, <2>3 DEF PlaceInv
  <2> QED
    BY <1>2, <2>2, <2>4, Zenon
<1> QED
  BY <1>3, <1>4, <1>5, <1>6, <1>7, Zenon

\* A slide asks for the address of the coordinates as they are.
LEMMA SlideKeeps ==
    ASSUME WhereInv, NEW c \in Slides, GetLocation(c)
    PROVE  WhereInv'
<1> USE DEF WhereInv
<1> DEFINE here == [lat |-> lat, long |-> long]
           call == [pc |-> "lookup", at |-> here]
<1>1. /\ lookup' = [lookup EXCEPT ![c] = call]
      /\ writing' = writing \cup {c} /\ asked' = asked \cup {here}
      /\ torn' = (torn \/ Halfway)
      /\ UNCHANGED <<service, permission, init, place, long, lat, fix, location, written>>
  BY Zenon DEF GetLocation, os, user
<1>2. here \in Addresses /\ here.lat = lat /\ here.long = long
  BY Zenon DEF LocationTypeOK, Addresses
<1>3. call.pc = "lookup" /\ call.at = here
      /\ call \in [pc : {"idle", "lookup"}, at : Addresses \cup {NoAddress}]
  BY <1>2, Zenon
<1> HIDE DEF here, call
<1>4. LocationTypeOK'
  BY <1>1, <1>2, <1>3, Zenon DEF LocationTypeOK, Halfway
<1>5. AskedInv'
  BY <1>1, <1>3, Zenon DEF AskedInv, LocationTypeOK
<1>6. PlaceInv'
  BY <1>1, <1>2, Zenon DEF PlaceInv, Halfway
<1> QED
  BY <1>4, <1>5, <1>6, Zenon

\* What happens to the address and to the record after that.
LEMMA AddressKeeps ==
    ASSUME WhereInv, NEW c \in Slides,
           \/ LookedUp(c) \/ LookupFailed(c)
           \/ Written(c) \/ WriteFailed(c)
    PROVE  WhereInv'
<1> USE DEF WhereInv
<1>1. UNCHANGED <<service, permission, init, place, long, lat, fix, asked, torn>>
  BY Zenon DEF LookedUp, LookupFailed, Written, WriteFailed,
         os, user
<1>2. PlaceInv'
  BY <1>1, Zenon DEF PlaceInv, Halfway
<1>3. /\ location' \in {location, lookup[c].at} /\ written' \in {written, location}
      /\ writing' \subseteq writing
      /\ lookup' = lookup \/ lookup' = [lookup EXCEPT ![c] = NoLookup]
  BY Zenon DEF LookedUp, LookupFailed, Written, WriteFailed
<1>4. /\ NoLookup.at = NoAddress
      /\ NoLookup \in [pc : {"idle", "lookup"}, at : Addresses \cup {NoAddress}]
  BY Zenon DEF NoLookup
<1>5. lookup[c].at \in Addresses \cup {NoAddress}
  BY Zenon DEF LocationTypeOK
<1>6. LocationTypeOK'
  BY <1>1, <1>3, <1>4, <1>5 DEF LocationTypeOK
<1>7. AskedInv'
  BY <1>1, <1>3, <1>4 DEF AskedInv, LocationTypeOK
<1> QED
  BY <1>2, <1>6, <1>7, Zenon

LEMMA PhoneKillKeeps ==
    ASSUME WhereInv, End
    PROVE  WhereInv'
<1> USE DEF WhereInv
<1>1. LocationTypeOK'
  BY DEF End, LocationTypeOK, Awaits, Places, NoLookup
<1>2. AskedInv'
  BY Zenon DEF End, AskedInv, NoLookup
<1>3. PlaceInv'
  BY Zenon DEF End, PlaceInv, Halfway
<1> QED
  BY <1>1, <1>2, <1>3, Zenon

LEMMA WhereStep == WhereInv /\ [LocationNext]_locationVars => WhereInv'
<1> SUFFICES ASSUME WhereInv, [LocationNext]_locationVars PROVE WhereInv'
  OBVIOUS
<1>1. CASE UNCHANGED locationVars
  BY <1>1, Zenon DEF locationVars, os, user, screen, WhereInv, LocationTypeOK,
              AskedInv, PlaceInv, Halfway
<1>2. CASE LocationNext
  BY <1>2, PermissionKeeps, ReadingKeeps, SlideKeeps, AddressKeeps, PhoneKillKeeps, Zenon
     DEF LocationNext
<1> QED
  BY <1>1, <1>2, Zenon

\* Type correctness of Location, for any number of screens, slides and places.
THEOREM LocationTyped == LocationSpec => []LocationTypeOK
<1>1. WhereInv => LocationTypeOK
  BY Zenon DEF WhereInv
<1>2. LocationInit => WhereInv
  BY WhereInitial, Zenon
<1> QED
  BY <1>1, <1>2, WhereStep, PTL DEF LocationSpec

\* The address of a record was looked up for coordinates of some slide, however
\* many slides and lookups overlap.
THEOREM AddressWasAsked == LocationSpec => []AddressAsked
<1>1. WhereInv => AddressAsked
  BY Zenon DEF WhereInv, AskedInv, AddressAsked
<1>2. LocationInit => WhereInv
  BY WhereInitial, Zenon
<1> QED
  BY <1>1, <1>2, WhereStep, PTL DEF LocationSpec

\* The coordinates of an address are of one place if nothing comes between two
\* readings, with however many home screens reading at a time.
THEOREM AddressOfOnePlace == LocationSpec => []OnePlace
<1>1. WhereInv => OnePlace
  BY Zenon DEF WhereInv, AskedInv, PlaceInv, OnePlace
<1>2. LocationInit => WhereInv
  BY WhereInitial, Zenon
<1> QED
  BY <1>1, <1>2, WhereStep, PTL DEF LocationSpec

(***************************************************************************)
(* EmployeeDirectory: an id stands for one document, as Attribution has    *)
(* it.  That createUser only names stored employees needs of a handler     *)
(* that its document carries its id.  That ids are unique is so for        *)
(* registrations one after another, and needs that an id found free stays  *)
(* free until it is added.                                                 *)
(***************************************************************************)

USE IdsAssumption, PhoneAssumption

LEMMA NoDocFields == NoDoc.id \in Ids /\ NoDoc.name = 0
<1>1. (CHOOSE i \in Ids : TRUE) \in Ids
  OBVIOUS
<1> QED
  BY <1>1, Zenon DEF NoDoc

LEMMA HandlerType ==
    ASSUME NEW pc \in {"idle", "query", "found", "free", "adding"}, NEW i \in Ids,
           NEW doc \in Docs \cup {NoDoc}
    PROVE  /\ Handler(pc, i, doc) \in Handlers
           /\ Handler(pc, i, doc).pc = pc
           /\ Handler(pc, i, doc).id = i
           /\ Handler(pc, i, doc).doc = doc
BY Zenon DEF Handler, Handlers

LEMMA HandlerFields ==
    ASSUME NEW h \in Handlers
    PROVE  /\ h.pc \in {"idle", "query", "found", "free", "adding"}
           /\ h.id \in Ids /\ h.doc \in Docs \cup {NoDoc}
BY Zenon DEF Handlers

LEMMA NoHandlerType == NoHandler \in Handlers /\ NoHandler.pc = "idle"
BY NoDocFields, HandlerType DEF NoHandler

LEMMA DocType ==
    ASSUME NEW n \in Names, NEW i \in Ids
    PROVE  /\ [name |-> n, id |-> i] \in Docs
           /\ [name |-> n, id |-> i].id = i
BY Zenon DEF Docs

\* A handler waits for the document with the id it registers.
AddsItsId == \A t \in Taps : tap[t].pc = "adding" => tap[t].doc.id = tap[t].id

DirectoryInv == DirectoryTypeOK /\ AddsItsId /\ CreatedAreStored

\* One handler goes on to h.
LEMMA HandlerResumes ==
    ASSUME DirectoryTypeOK, AddsItsId, NEW t \in Taps, NEW h \in Handlers,
           Proceed(t, h), h.pc = "adding" => h.doc.id = h.id
    PROVE  tap' \in [Taps -> Handlers] /\ AddsItsId'
<1>1. tap' \in [Taps -> Handlers]
  BY Zenon DEF DirectoryTypeOK, Proceed
<1>2. \A u \in Taps : tap'[u] = IF u = t THEN h ELSE tap[u]
  BY Zenon DEF DirectoryTypeOK, Proceed
<1> QED
  BY <1>1, <1>2, Zenon DEF AddsItsId

LEMMA DirectoryInitial ==
    ASSUME DirectoryInit
    PROVE  DirectoryInv
<1>1. DirectoryTypeOK
  BY NoHandlerType, Zenon DEF DirectoryInit, DirectoryTypeOK
<1>2. AddsItsId /\ CreatedAreStored
  BY NoHandlerType, Zenon DEF DirectoryInit, AddsItsId, CreatedAreStored
<1> QED
  BY <1>1, <1>2, Zenon DEF DirectoryInv

LEMMA DirectoryStep ==
    ASSUME DirectoryInv, [DirectoryNext]_directoryVars
    PROVE  DirectoryInv'
<1> USE DEF DirectoryInv
<1>1. CASE UNCHANGED directoryVars
  BY <1>1, Zenon DEF directoryVars, DirectoryTypeOK, AddsItsId, CreatedAreStored
<1>2. ASSUME NEW t \in Taps, Register(t) PROVE DirectoryInv'
  <2>1. PICK i \in Ids : Proceed(t, Handler("query", i, NoDoc))
    BY <1>2, Zenon DEF Register
  <2>2. tap' \in [Taps -> Handlers] /\ AddsItsId'
    BY <2>1, HandlerType, HandlerResumes, Zenon
  <2> QED
    BY <1>2, <2>2, Zenon DEF Register, DirectoryTypeOK, CreatedAreStored
<1>3. ASSUME NEW t \in Taps, IdQueried(t) PROVE DirectoryInv'
  <2> DEFINE pc == IF Query(Phone[t], tap[t].id) # {} THEN "found" ELSE "free"
  <2>1. tap[t].id \in Ids
    BY HandlerFields, Zenon DEF DirectoryTypeOK
  <2>2. /\ Handler(pc, tap[t].id, NoDoc) \in Handlers
        /\ Handler(pc, tap[t].id, NoDoc).pc # "adding"
    BY <2>1, HandlerType, Zenon
  <2>3. tap' \in [Taps -> Handlers] /\ AddsItsId'
    BY <1>3, <2>2, HandlerResumes, Zenon DEF IdQueried
  <2> QED
    BY <1>3, <2>3, Zenon DEF IdQueried, DirectoryTypeOK, CreatedAreStored
<1>4. ASSUME NEW t \in Taps, QueryFailed(t) \/ Refuse(t) PROVE DirectoryInv'
  <2>1. tap' \in [Taps -> Handlers] /\ AddsItsId'
    BY <1>4, NoHandlerType, HandlerResumes, Zenon DEF QueryFailed, Refuse
  <2> QED
    BY <1>4, <2>1, Zenon DEF QueryFailed, Refuse, DirectoryTypeOK, CreatedAreStored
<1>5. ASSUME NEW t \in Taps, Add(t) PROVE DirectoryInv'
  <2>1. PICK n \in Names :
           LET e == [name |-> n, id |-> tap[t].id]
           IN  /\ pending' = [pending EXCEPT ![Phone[t]] = @ \cup {e}]
               /\ Proceed(t, Handler("adding", e.id, e))
    BY <1>5, Zenon DEF Add
  <2> DEFINE e == [name |-> n, id |-> tap[t].id]
  <2>2. tap[t].id \in Ids
    BY HandlerFields, Zenon DEF DirectoryTypeOK
  <2>3. e \in Docs /\ e.id \in Ids
    BY <2>2, DocType, Zenon
  <2> HIDE DEF e
  <2>4. /\ pending' = [pending EXCEPT ![Phone[t]] = @ \cup {e}]
        /\ Proceed(t, Handler("adding", e.id, e))
    BY <2>1, Zenon DEF e
  <2>5. tap' \in [Taps -> Handlers] /\ AddsItsId'
    BY <2>3, <2>4, HandlerType, HandlerResumes
  <2>6. pending' \in [Phones -> SUBSET Docs]
    BY <2>3, <2>4, Zenon DEF DirectoryTypeOK
  <2> QED
    BY <1>5, <2>5, <2>6, Zenon DEF Add, DirectoryTypeOK, CreatedAreStored
<1>6. ASSUME NEW t \in Taps, Added(t) PROVE DirectoryInv'
  <2>1. tap' \in [Taps -> Handlers] /\ AddsItsId'
    BY <1>6, NoHandlerType, HandlerResumes, Zenon DEF Added
  <2>2. tap[t].id \in Ids
    BY HandlerFields, Zenon DEF DirectoryTypeOK
  <2>3. tap[t].doc \in docs /\ tap[t].doc.id = tap[t].id
    BY <1>6, Zenon DEF Added, AddsItsId
  <2>4. docs' = docs /\ pending' = pending /\ created' = created \cup {tap[t].id}
    BY <1>6, Zenon DEF Added, CreateUser
  <2>5. CreatedAreStored'
    BY <2>3, <2>4, Zenon DEF CreatedAreStored
  <2> QED
    BY <2>1, <2>2, <2>4, <2>5, Zenon DEF DirectoryTypeOK
<1>7. ASSUME NEW p \in Phones, Flush(p) PROVE DirectoryInv'
  <2>1. PICK e \in pending[p] : /\ docs' = docs \cup {e}
                                /\ pending' = [pending EXCEPT ![p] = @ \ {e}]
    BY <1>7, Zenon DEF Flush
  <2>2. e \in Docs /\ tap' = tap /\ created' = created
    BY <1>7, Zenon DEF Flush, DirectoryTypeOK
  <2>3. DirectoryTypeOK'
    BY <2>1, <2>2, Zenon DEF DirectoryTypeOK
  <2>4. AddsItsId' /\ CreatedAreStored'
    BY <2>1, <2>2, Zenon DEF AddsItsId, CreatedAreStored
  <2> QED
    BY <2>3, <2>4, Zenon
<1>8. ASSUME NEW p \in Phones, KillApp(p) PROVE DirectoryInv'
  <2>1. tap' \in [Taps -> Handlers]
    BY <1>8, NoHandlerType, Zenon DEF KillApp, DirectoryTypeOK
  <2>2. AddsItsId'
    BY <1>8, NoHandlerType, Zenon DEF KillApp, DirectoryTypeOK, AddsItsId
  <2> QED
    BY <1>8, <2>1, <2>2, Zenon DEF KillApp, DirectoryTypeOK, CreatedAreStored
<1> QED
  BY <1>1, <1>2, <1>3, <1>4, <1>5, <1>6, <1>7, <1>8, Zenon DEF DirectoryNext

\* Every variable has its type, for every value of the constants.
THEOREM DirectoryTyped == DirectorySpec => []DirectoryTypeOK
<1>1. DirectoryInv => DirectoryTypeOK
  BY Zenon DEF DirectoryInv
<1>2. DirectoryInit => DirectoryInv
  BY DirectoryInitial, Zenon
<1>3. DirectoryInv /\ [DirectoryNext]_directoryVars => DirectoryInv'
  BY DirectoryStep, Zenon
<1> QED
  BY <1>1, <1>2, <1>3, PTL DEF DirectorySpec

\* createUser only names employees that are in the collection, with any number
\* of registrations in progress on any number of phones.
THEOREM CreatedIsStored == DirectorySpec => []CreatedAreStored
<1>1. DirectoryInv => CreatedAreStored
  BY Zenon DEF DirectoryInv
<1>2. DirectoryInit => DirectoryInv
  BY DirectoryInitial, Zenon
<1>3. DirectoryInv /\ [DirectoryNext]_directoryVars => DirectoryInv'
  BY DirectoryStep, Zenon
<1> QED
  BY <1>1, <1>2, <1>3, PTL DEF DirectorySpec

(***************************************************************************)
(* One registration after another.  The one handler there is sees in its   *)
(* query every document there is, so that an id it finds free is in none.  *)
(***************************************************************************)

\* At most one handler is in progress.
OneAtATime ==
    \A t, u \in Taps : tap[t].pc # "idle" /\ tap[u].pc # "idle" => t = u

\* While a handler is, no phone but its own has documents to send.
OthersSent ==
    \A t \in Taps : tap[t].pc # "idle" =>
        \A p \in Phones \ {Phone[t]} : pending[p] = {}

\* No document has the id that a handler has found free.
FreeIsFree ==
    \A t \in Taps : tap[t].pc = "free" => \A e \in All : e.id # tap[t].id

InTurnInv == OneAtATime /\ OthersSent /\ FreeIsFree /\ UniqueIds

LEMMA InTurnInitial ==
    ASSUME DirectoryInit
    PROVE  InTurnInv
<1>1. All = {} /\ \A t \in Taps : tap[t].pc = "idle"
  BY NoHandlerType, Zenon DEF DirectoryInit, All
<1> QED
  BY <1>1 DEF InTurnInv, OneAtATime, OthersSent, FreeIsFree, UniqueIds

\* A query of the handler in progress leaves no document out.
LEMMA SeesAll ==
    ASSUME OthersSent, NEW t \in Taps, tap[t].pc # "idle"
    PROVE  All = docs \cup pending[Phone[t]]
<1>1. Phone[t] \in Phones
  OBVIOUS
<1>2. \A p \in Phones : p # Phone[t] => pending[p] = {}
  BY Zenon DEF OthersSent
<1>3. \A p \in Phones : pending[p] \subseteq pending[Phone[t]]
  BY <1>2, Zenon
<1> QED
  BY <1>1, <1>3, Zenon DEF All

\* The handler of t goes on, in progress or at its start with everything in
\* order, and no document comes or goes.
LEMMA ProceedKeeps ==
    ASSUME InTurnInv, DirectoryTypeOK, NEW t \in Taps, NEW h \in Handlers,
           Proceed(t, h), UNCHANGED <<docs, pending>>,
           h.pc = "idle" \/ tap[t].pc # "idle" \/ InTurn(t),
           h.pc = "free" => \A e \in All : e.id # h.id
    PROVE  InTurnInv'
<1>1. \A u \in Taps : tap'[u] = IF u = t THEN h ELSE tap[u]
  BY Zenon DEF Proceed, DirectoryTypeOK
<1>2. All' = All
  BY Zenon DEF All
<1>3. \A u \in Taps : u # t /\ h.pc # "idle" => tap[u].pc = "idle"
  BY Zenon DEF InTurnInv, OneAtATime, InTurn
<1>4. OneAtATime'
  BY <1>1, <1>3, Zenon DEF InTurnInv, OneAtATime
<1>5. h.pc # "idle" => \A p \in Phones \ {Phone[t]} : pending[p] = {}
  BY Zenon DEF InTurnInv, OthersSent, InTurn
<1>6. OthersSent'
  BY <1>1, <1>5, Zenon DEF InTurnInv, OthersSent
<1>7. FreeIsFree' /\ UniqueIds'
  BY <1>1, <1>2, Zenon DEF InTurnInv, FreeIsFree, UniqueIds
<1> QED
  BY <1>4, <1>6, <1>7, Zenon DEF InTurnInv

LEMMA AddKeeps ==
    ASSUME InTurnInv, DirectoryTypeOK, NEW t \in Taps, Add(t)
    PROVE  InTurnInv'
<1>1. PICK n \in Names :
         LET e == [name |-> n, id |-> tap[t].id]
         IN  /\ pending' = [pending EXCEPT ![Phone[t]] = @ \cup {e}]
             /\ Proceed(t, Handler("adding", e.id, e))
  BY Zenon DEF Add
<1> DEFINE e == [name |-> n, id |-> tap[t].id]
           h == Handler("adding", e.id, e)
<1>2. e.id = tap[t].id /\ h.pc = "adding"
  BY Zenon DEF Handler
<1> HIDE DEF e, h
<1>3. /\ pending' = [pending EXCEPT ![Phone[t]] = @ \cup {e}]
      /\ Proceed(t, h)
  BY <1>1, Zenon DEF e, h
<1>4. Phone[t] \in Phones /\ docs' = docs /\ tap[t].pc = "free"
  BY Zenon DEF Add
<1>5. \A p \in Phones :
         pending'[p] = IF p = Phone[t] THEN pending[p] \cup {e} ELSE pending[p]
  BY <1>3, Zenon DEF DirectoryTypeOK
<1>6. \A u \in Taps : tap'[u] = IF u = t THEN h ELSE tap[u]
  BY <1>3, Zenon DEF Proceed, DirectoryTypeOK
<1>7. \A u \in Taps : u # t => tap'[u].pc = "idle"
  BY <1>4, <1>6, Zenon DEF InTurnInv, OneAtATime
<1>8. OneAtATime'
  BY <1>7, Zenon DEF OneAtATime
<1>9. OthersSent'
  <2>1. \A p \in Phones \ {Phone[t]} : pending'[p] = {}
    BY <1>4, <1>5, Zenon DEF InTurnInv, OthersSent
  <2> QED
    BY <1>7, <2>1, Zenon DEF OthersSent
<1>10. FreeIsFree'
  BY <1>2, <1>6, <1>7, Zenon DEF FreeIsFree
<1>11. All' = All \cup {e}
  <2>1. All' = docs \cup pending'[Phone[t]]
    <3>1. tap'[t].pc # "idle"
      BY <1>2, <1>6
    <3>2. \A p \in Phones : pending'[p] \subseteq pending'[Phone[t]]
      BY <1>9, <3>1, Zenon DEF OthersSent
    <3> QED
      BY <1>4, <3>2, Zenon DEF All
  <2>2. All = docs \cup pending[Phone[t]]
    BY <1>4, SeesAll DEF InTurnInv
  <2> QED
    BY <1>4, <1>5, <2>1, <2>2, Zenon
<1>12. \A f \in All : f.id # e.id
  BY <1>2, <1>4, Zenon DEF InTurnInv, FreeIsFree
<1>13. UniqueIds'
  BY <1>11, <1>12, Zenon DEF InTurnInv, UniqueIds
<1> QED
  BY <1>8, <1>9, <1>10, <1>13, Zenon DEF InTurnInv

LEMMA FlushKeeps ==
    ASSUME InTurnInv, DirectoryTypeOK, NEW p \in Phones, Flush(p)
    PROVE  InTurnInv'
<1>1. PICK e \in pending[p] : /\ docs' = docs \cup {e}
                              /\ pending' = [pending EXCEPT ![p] = @ \ {e}]
  BY Zenon DEF Flush
<1>2. tap' = tap
  BY Zenon DEF Flush
<1>3. \A q \in Phones :
         pending'[q] = IF q = p THEN pending[q] \ {e} ELSE pending[q]
  BY <1>1, Zenon DEF DirectoryTypeOK
<1>4. All' = All
  <2>1. \A q \in Phones : pending'[q] \subseteq pending[q]
    BY <1>3, Zenon
  <2>2. \A q \in Phones : pending[q] \subseteq pending'[q] \cup {e}
    BY <1>3, Zenon
  <2>3. All' \subseteq All
    BY <1>1, <2>1, Zenon DEF All
  <2>4. All \subseteq All'
    <3>1. docs' \subseteq All' /\ \A q \in Phones : pending'[q] \subseteq All'
      BY Zenon DEF All
    <3>2. e \in All' /\ docs \subseteq All'
      BY <1>1, <3>1, Zenon
    <3>3. \A q \in Phones : pending[q] \subseteq All'
      BY <2>2, <3>1, <3>2, Zenon
    <3> QED
      BY <3>2, <3>3, Zenon DEF All
  <2> QED
    BY <2>3, <2>4, Zenon
<1>5. \A q \in Phones : pending[q] = {} => pending'[q] = {}
  BY <1>3, Zenon
<1>6. OthersSent'
  BY <1>2, <1>5, Zenon DEF InTurnInv, OthersSent
<1> QED
  BY <1>2, <1>4, <1>6, Zenon DEF InTurnInv, OneAtATime, FreeIsFree, UniqueIds

LEMMA KillAppKeeps ==
    ASSUME InTurnInv, DirectoryTypeOK, NEW p \in Phones, KillApp(p)
    PROVE  InTurnInv'
<1>1. \A t \in Taps : tap'[t] = NoHandler \/ tap'[t] = tap[t]
  BY Zenon DEF KillApp
<1>2. \A t \in Taps : tap'[t].pc # "idle" => tap'[t] = tap[t]
  BY <1>1, NoHandlerType, Zenon
<1>3. pending' = pending /\ All' = All
  BY Zenon DEF KillApp, All
<1>4. OneAtATime'
  BY <1>2, Zenon DEF InTurnInv, OneAtATime
<1>5. OthersSent'
  BY <1>2, <1>3, Zenon DEF InTurnInv, OthersSent
<1>6. FreeIsFree'
  BY <1>2, <1>3, Zenon DEF InTurnInv, FreeIsFree
<1>7. UniqueIds'
  BY <1>3, Zenon DEF InTurnInv, UniqueIds
<1> QED
  BY <1>4, <1>5, <1>6, <1>7, Zenon DEF InTurnInv

LEMMA InTurnStep ==
    ASSUME InTurnInv, DirectoryTypeOK, [InTurnNext]_directoryVars
    PROVE  InTurnInv'
<1>1. CASE UNCHANGED directoryVars
  <2>1. All' = All /\ tap' = tap /\ pending' = pending
    BY <1>1, Zenon DEF directoryVars, All
  <2> QED
    BY <2>1, Zenon DEF InTurnInv, OneAtATime, OthersSent, FreeIsFree, UniqueIds
<1>2. ASSUME NEW t \in Taps, Register(t), InTurn(t) PROVE InTurnInv'
  <2>1. PICK i \in Ids : Proceed(t, Handler("query", i, NoDoc))
    BY <1>2, Zenon DEF Register
  <2>2. /\ Handler("query", i, NoDoc) \in Handlers
        /\ Handler("query", i, NoDoc).pc = "query"
    BY HandlerType
  <2> QED
    BY <1>2, <2>1, <2>2, ProceedKeeps, Zenon DEF Register
<1>3. ASSUME NEW t \in Taps, QueryFailed(t) \/ Refuse(t) \/ Added(t)
      PROVE  InTurnInv'
  BY <1>3, NoHandlerType, ProceedKeeps, Zenon DEF QueryFailed, Refuse, Added
<1>4. ASSUME NEW t \in Taps, IdQueried(t) PROVE InTurnInv'
  <2> DEFINE pc == IF Query(Phone[t], tap[t].id) # {} THEN "found" ELSE "free"
             h == Handler(pc, tap[t].id, NoDoc)
  <2>1. tap[t].id \in Ids /\ tap[t].pc # "idle"
    BY <1>4, HandlerFields, Zenon DEF IdQueried, DirectoryTypeOK
  <2>2. h \in Handlers /\ h.pc = pc /\ h.id = tap[t].id
    BY <2>1, HandlerType
  <2>3. h.pc = "free" => \A e \in All : e.id # h.id
    BY <2>1, <2>2, SeesAll, Zenon DEF Query, InTurnInv
  <2>4. Proceed(t, h) /\ UNCHANGED <<docs, pending>>
    BY <1>4, Zenon DEF IdQueried
  <2> QED
    BY <2>1, <2>2, <2>3, <2>4, ProceedKeeps, Zenon
<1>5. ASSUME NEW t \in Taps, Add(t) PROVE InTurnInv'
  BY <1>5, AddKeeps, Zenon
<1>6. ASSUME NEW p \in Phones, Flush(p) \/ KillApp(p) PROVE InTurnInv'
  BY <1>6, FlushKeeps, KillAppKeeps, Zenon
<1> QED
  BY <1>1, <1>2, <1>3, <1>4, <1>5, <1>6, Zenon DEF InTurnNext, DirectoryNext

LEMMA InTurnAlways == InTurnSpec => [](DirectoryTypeOK /\ UniqueIds)
<1>1. DirectoryInit => DirectoryInv /\ InTurnInv
  BY DirectoryInitial, InTurnInitial, Zenon
<1>2. DirectoryInv => DirectoryTypeOK
  BY Zenon DEF DirectoryInv
<1>3. InTurnNext => DirectoryNext
  BY Zenon DEF InTurnNext
<1>4. DirectoryInv /\ InTurnInv /\ [InTurnNext]_directoryVars => DirectoryInv' /\ InTurnInv'
  BY <1>2, <1>3, DirectoryStep, InTurnStep, Zenon
<1>5. InTurnInv => UniqueIds
  BY Zenon DEF InTurnInv
<1> QED
  BY <1>1, <1>2, <1>4, <1>5, PTL DEF InTurnSpec

\* As long as employees register one after another, each when the documents of
\* the other phones have reached the server, an id that exists is refused, also
\* if it is still on its way to the server or the app was killed before.
THEOREM InTurnIsUnique == InTurnSpec => []UniqueIds
BY InTurnAlways, PTL

\* And docs[0] of an employee stays the same document for good.
THEOREM InTurnIsStable == InTurnSpec => FirstDocStable
<1>1. ASSUME DirectoryTypeOK', UniqueIds', [InTurnNext]_directoryVars
      PROVE  [\A e \in docs :
                (\A f \in docs : f.id = e.id => e.name <= f.name)
                => (\A f \in docs' : f.id = e.id => e.name <= f.name)]_docs
  <2> SUFFICES ASSUME NEW e \in docs, NEW f \in docs', f.id = e.id
               PROVE  e.name <= f.name
    OBVIOUS
  <2>1. docs \subseteq docs'
    BY <1>1, Zenon DEF InTurnNext, DirectoryNext, directoryVars, Register, IdQueried,
       QueryFailed, Refuse, Add, Added, Flush, KillApp
  <2>2. docs' \subseteq All'
    BY Zenon DEF All
  <2>3. e = f
    BY <1>1, <2>1, <2>2, Zenon DEF UniqueIds
  <2>4. f.name \in Int
    BY <1>1 DEF DirectoryTypeOK, Docs, Names
  <2> QED
    BY <2>3, <2>4
<1> QED
  BY <1>1, InTurnAlways, PTL DEF InTurnSpec, FirstDocStable

\* A phone that has the collection to itself, with one tap of REGISTER at a
\* time, needs no such care: there the two results hold of the code as it is.
THEOREM AloneIsInTurn ==
    ASSUME \A p, q \in Phones : p = q, \A t, u \in Taps : t = u
    PROVE  DirectorySpec => InTurnSpec
<1>1. ASSUME NEW t \in Taps, Register(t) PROVE InTurn(t)
  <2>1. Phone[t] \in Phones
    OBVIOUS
  <2> QED
    BY <1>1, <2>1, Zenon DEF Register, InTurn
<1>2. [DirectoryNext]_directoryVars => [InTurnNext]_directoryVars
  BY <1>1, Zenon DEF InTurnNext
<1> QED
  BY <1>2, PTL DEF DirectorySpec, InTurnSpec
==============================================================================
