-------------------------------- MODULE Clock --------------------------------
(***************************************************************************)
(* Time as the attendance app sees it.  An instant is a day and a tick of  *)
(* that day; a day has 2 * HalfDay ticks (the program's minutes).  The app *)
(* derives three strings from DateTime.now():                              *)
(*   'dd MMMM yyyy'          the key of the day's Record document (Key);   *)
(*   'hh:mm'                 a twelve-hour time without am/pm (Stamp);     *)
(*   'yyyy-MM-dd hh:mm:ss'   the LogDate sent to the attendance server.    *)
(***************************************************************************)
EXTENDS Integers

CONSTANTS
    HalfDay,  \* ticks in twelve hours
    MaxDay    \* last day of a behaviour (a bound: days are 0..MaxDay)

ASSUME HalfDayAssumption == HalfDay \in Nat \ {0}
ASSUME MaxDayAssumption == MaxDay \in Nat

Days == 0..MaxDay

Ticks == 0..(2 * HalfDay - 1)

Instants == [day : Days, tick : Ticks]

Start == [day |-> 0, tick |-> 0]

Leq(a, b) == a.day < b.day \/ (a.day = b.day /\ a.tick <= b.tick)

\* DateFormat('dd MMMM yyyy'): the id of the Record document of an instant.
Key(i) == i.day

\* DateFormat('hh:mm'): hours run 12, 01, .., 11 twice a day, so the two
\* halves of a day print alike.
Hhmm(i) == i.tick % HalfDay

\* The string a record or the screen holds; "at" is the instant it was taken
\* from, which the program does not keep and only properties look at.
Stamp(i) == [hhmm |-> Hhmm(i), at |-> i]

\* The string "--/--".
Blank == [hhmm |-> -1, at |-> Start]

Stamps == {s \in [hhmm : 0..(HalfDay - 1), at : Instants] : s = Stamp(s.at)}

\* Both instants fall in the same half of the same day.
SameHalf(a, b) ==
    a.day = b.day /\ (a.tick < HalfDay <=> b.tick < HalfDay)

\* A minute passes; midnight moves on to the next day.
Later(i) ==
    IF i.tick < 2 * HalfDay - 1
    THEN [day |-> i.day, tick |-> i.tick + 1]
    ELSE [day |-> i.day + 1, tick |-> 0]
==============================================================================
