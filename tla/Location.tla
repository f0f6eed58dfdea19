------------------------------- MODULE Location -------------------------------
(***************************************************************************)
(* lib/services/location_service.dart and its callers: the login and the   *)
(* register screen ask for the permission; every home screen reads the     *)
(* longitude and then, in a second reading, the latitude; every slide of   *)
(* the today screen has the address of User.lat and User.long looked up    *)
(* without waiting for it, and later writes whatever address the screen    *)
(* then has.                                                               *)
(*                                                                         *)
(* A place stands for both its coordinates, and 0 for User's initial 0.    *)
(* An address is the pair of coordinates it was looked up for.             *)
(***************************************************************************)
EXTENDS Integers

CONSTANTS
    Homes,        \* the home screens that may be reading
    Slides,       \* the onSubmit calls that may be in progress
    NoAddress,    \* the blank address
    MaxPlace      \* bound: places the phone comes to

ASSUME MaxPlaceAssumption == MaxPlace \in Nat \ {0}

VARIABLES
    service,     \* the phone's location service is on
    permission,  \* what the app is permitted
    init,        \* the await an initialize call is at
    place,       \* where the phone is
    long,        \* User.long
    lat,         \* User.lat
    fix,         \* the readings of each home screen
    location,    \* the today screen's address
    lookup,      \* the _getLocation call of each slide
    writing,     \* the slides that have not written yet
    written,     \* the address last written to a record
    asked,       \* history: the coordinates that were looked up
    torn         \* history: something came between two readings

os == <<service, permission, init>>
user == <<long, lat>>
screen == <<location, lookup, writing, written, asked>>
locationVars == <<os, place, user, fix, screen, torn>>

Places == 0..MaxPlace

Addresses == [lat : Places, long : Places]

Permissions == {"denied", "granted", "deniedForever"}

Awaits ==
    {"none", "serviceEnabled", "requestService", "hasPermission", "requestPermission"}

NoLookup == [pc |-> "idle", at |-> NoAddress]

LocationInit ==
    /\ service \in BOOLEAN /\ permission \in Permissions
    /\ init = "none"
    /\ place = 1
    /\ long = 0 /\ lat = 0
    /\ fix = [s \in Homes |-> "idle"]
    /\ location = NoAddress
    /\ lookup = [c \in Slides |-> NoLookup]
    /\ writing = {}
    /\ written = NoAddress
    /\ asked = {}
    /\ torn = FALSE

-----------------------------------------------------------------------------
(* initialize, which nothing waits for.                                    *)

Initialize ==
    /\ init = "none"
    /\ init' = "serviceEnabled"
    /\ UNCHANGED <<service, permission, place, user, fix, screen, torn>>

ServiceEnabled ==
    /\ init = "serviceEnabled"
    /\ init' = IF service THEN "hasPermission" ELSE "requestService"
    /\ UNCHANGED <<service, permission, place, user, fix, screen, torn>>

\* The user switches the service on, or refuses.
RequestService ==
    /\ init = "requestService"
    /\ \/ service' = TRUE /\ init' = "hasPermission"
       \/ UNCHANGED service /\ init' = "none"
    /\ UNCHANGED <<permission, place, user, fix, screen, torn>>

HasPermission ==
    /\ init = "hasPermission"
    /\ init' = IF permission = "denied" THEN "requestPermission" ELSE "none"
    /\ UNCHANGED <<service, permission, place, user, fix, screen, torn>>

RequestPermission ==
    /\ init = "requestPermission"
    /\ permission' \in Permissions
    /\ init' = "none"
    /\ UNCHANGED <<service, place, user, fix, screen, torn>>

\* The user switches the service off or on in the settings.
Settings ==
    /\ service' = ~service
    /\ UNCHANGED <<permission, init, place, user, fix, screen, torn>>

-----------------------------------------------------------------------------
(* _startLocationService.                                                  *)

Halfway == \E s \in Homes : fix[s] = "lat"

Permitted == service /\ permission = "granted"

\* The phone is carried to a new place.
Move ==
    /\ place < MaxPlace
    /\ place' = place + 1
    /\ torn' = (torn \/ Halfway)
    /\ UNCHANGED <<os, user, fix, screen>>

\* A home screen is mounted and asks for the longitude.
StartLocationService(s) ==
    /\ fix[s] = "idle"
    /\ fix' = [fix EXCEPT ![s] = "long"]
    /\ UNCHANGED <<os, place, user, screen, torn>>

\* Forgets to ask for the latitude.
LongReadAlone(s) ==
    /\ fix[s] = "long"
    /\ Permitted
    /\ long' = place
    /\ fix' = [fix EXCEPT ![s] = "idle"]
    /\ UNCHANGED <<os, place, lat, screen, torn>>

LongRead(s) ==
    /\ fix[s] = "long"
    /\ Permitted
    /\ long' = place
    /\ fix' = [fix EXCEPT ![s] = "lat"]
    /\ UNCHANGED <<os, place, lat, screen, torn>>

LatRead(s) ==
    /\ fix[s] = "lat"
    /\ Permitted
    /\ lat' = place
    /\ fix' = [fix EXCEPT ![s] = "idle"]
    /\ UNCHANGED <<os, place, long, screen, torn>>

\* A reading is not permitted, or has no value: the callback throws.
FixFailed(s) ==
    /\ fix[s] # "idle"
    /\ fix' = [fix EXCEPT ![s] = "idle"]
    /\ torn' = (torn \/ fix[s] = "lat")
    /\ UNCHANGED <<os, place, user, screen>>

-----------------------------------------------------------------------------
(* The today screen.                                                       *)

\* onSubmit, past the prompt: _getLocation is called and not awaited.
GetLocation(c) ==
    LET here == [lat |-> lat, long |-> long]
    IN  /\ c \notin writing /\ lookup[c].pc = "idle"
        /\ lookup' = [lookup EXCEPT ![c] = [pc |-> "lookup", at |-> here]]
        /\ writing' = writing \cup {c}
        /\ asked' = asked \cup {here}
        /\ torn' = (torn \/ Halfway)
        /\ UNCHANGED <<os, place, user, fix, location, written>>

\* Takes the coordinates as they are when the answer comes.
LookedUpNow(c) ==
    /\ lookup[c].pc = "lookup"
    /\ location' = [lat |-> lat, long |-> long]
    /\ lookup' = [lookup EXCEPT ![c] = NoLookup]
    /\ UNCHANGED <<os, place, user, fix, writing, written, asked, torn>>

LookedUp(c) ==
    /\ lookup[c].pc = "lookup"
    /\ location' = lookup[c].at
    /\ lookup' = [lookup EXCEPT ![c] = NoLookup]
    /\ UNCHANGED <<os, place, user, fix, writing, written, asked, torn>>

\* There is no network, or no address: placemark[0] throws.
LookupFailed(c) ==
    /\ lookup[c].pc = "lookup"
    /\ lookup' = [lookup EXCEPT ![c] = NoLookup]
    /\ UNCHANGED <<os, place, user, fix, location, writing, written, asked, torn>>

\* The record is written with the address the screen has.
Written(c) ==
    /\ c \in writing
    /\ written' = location
    /\ writing' = writing \ {c}
    /\ UNCHANGED <<os, place, user, fix, location, lookup, asked, torn>>

\* A read before the write throws.
WriteFailed(c) ==
    /\ c \in writing
    /\ writing' = writing \ {c}
    /\ UNCHANGED <<os, place, user, fix, location, lookup, written, asked, torn>>

\* The process ends.
End ==
    /\ init' = "none"
    /\ long' = 0 /\ lat' = 0
    /\ fix' = [s \in Homes |-> "idle"]
    /\ location' = NoAddress
    /\ lookup' = [c \in Slides |-> NoLookup]
    /\ writing' = {}
    /\ UNCHANGED <<service, permission, place, written, asked, torn>>

LocationNext ==
    \/ Initialize \/ ServiceEnabled \/ RequestService
    \/ HasPermission \/ RequestPermission
    \/ Settings \/ Move \/ End
    \/ \E s \in Homes : StartLocationService(s) \/ LongRead(s) \/ LatRead(s) \/ FixFailed(s)
    \/ \E c \in Slides :
          GetLocation(c) \/ LookedUp(c) \/ LookupFailed(c) \/ Written(c) \/ WriteFailed(c)

LocationSpec == LocationInit /\ [][LocationNext]_locationVars

\* A reading ends, one way or the other.
Fairness ==
    \A s \in Homes : WF_locationVars(LongRead(s) \/ LatRead(s) \/ FixFailed(s))

-----------------------------------------------------------------------------

\* Every variable has its type.
LocationTypeOK ==
    /\ service \in BOOLEAN /\ permission \in Permissions /\ init \in Awaits
    /\ place \in Places /\ long \in Places /\ lat \in Places
    /\ fix \in [Homes -> {"idle", "long", "lat"}]
    /\ location \in Addresses \cup {NoAddress}
    /\ lookup \in [Slides -> [pc : {"idle", "lookup"}, at : Addresses \cup {NoAddress}]]
    /\ writing \subseteq Slides
    /\ written \in Addresses \cup {NoAddress}
    /\ asked \subseteq Addresses
    /\ torn \in BOOLEAN

\* The address of a record was looked up for coordinates the app had when the
\* slider was slid, in this slide or another, whatever it has when the answer
\* comes.
AddressAsked == written \in asked \cup {NoAddress}

\* The two coordinates of an address are of one place, if nothing comes between
\* the two readings: the phone is not carried on, no slide is made and the
\* second reading does not fail.
OnePlace == ~torn /\ written # NoAddress => written.lat = written.long
===============================================================================
