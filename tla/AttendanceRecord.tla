--------------------------- MODULE AttendanceRecord ---------------------------
(***************************************************************************)
(* What the Record collection of one employee promises, whoever writes it: *)
(* a document appears by a check-in of its own day and a check-out only    *)
(* completes a document that is there.  Spec lets a day be checked in and  *)
(* out again; OnceNext is the life of a day as an employee expects it, one *)
(* check-in and then one check-out.                                        *)
(***************************************************************************)
EXTENDS Firestore

VARIABLE rec

Init == rec = [k \in Days |-> Absent]

Written(k, at, in, out) ==
    rec' = [rec EXCEPT ![k] = [exists |-> TRUE, date |-> at,
                               checkIn |-> in, checkOut |-> out]]

CheckIn(k, at) ==
    /\ Key(at) = k
    /\ Written(k, at, Stamp(at), Blank)

CheckOut(k, at, in) ==
    /\ rec[k].exists
    /\ Key(at) = k
    /\ Leq(in, at)
    /\ Written(k, at, Stamp(in), Stamp(at))

Next ==
    \E k \in Days, at \in Instants :
        \/ CheckIn(k, at)
        \/ \E in \in Instants : CheckOut(k, at, in)

Spec == Init /\ [][Next]_rec

OnceNext ==
    \E k \in Days, at \in Instants :
        \/ ~rec[k].exists /\ CheckIn(k, at)
        \/ /\ rec[k].checkOut = Blank
           /\ rec[k].checkIn # Blank
           /\ CheckOut(k, at, rec[k].checkIn.at)
===============================================================================
