------------------------------ MODULE Firestore ------------------------------
(***************************************************************************)
(* The Firestore client as the Record collection uses it.  A write is put  *)
(* in the device's durable queue and is applied to the server's document   *)
(* in queue order; a read by the device sees the server's document with    *)
(* the device's own pending writes on top of it.  The client is vendored   *)
(* under ios/Pods/FirebaseFirestore.                                       *)
(***************************************************************************)
EXTENDS Clock, Sequences, FiniteSets

Times == Stamps \cup {Blank}

Docs ==
    [exists : BOOLEAN, date : Instants, checkIn : Times, checkOut : Times]

Absent ==
    [exists |-> FALSE, date |-> Start, checkIn |-> Blank, checkOut |-> Blank]

\* set({..}) writes the whole document, update({..}) these fields of it; both
\* give every field that is modelled here.
Writes ==
    [op : {"set", "update"}, key : Days,
     date : Instants, checkIn : Times, checkOut : Times]

Content(w) ==
    [exists |-> TRUE, date |-> w.date,
     checkIn |-> w.checkIn, checkOut |-> w.checkOut]

\* A merge-set, the other way to write a document, also creates it.
ApplyAsMerge(doc, w) == Content(w)

\* update has the precondition that the document exists; set has none.
Apply(doc, w) ==
    IF w.op = "set" \/ doc.exists THEN Content(w) ELSE doc

\* The places in queue q of the writes to document k.
Pending(q, k) == {i \in 1..Len(q) : q[i].key = k}

Visible(doc, q, k) ==
    doc.exists \/ \E i \in Pending(q, k) : q[i].op = "set"

\* A read that goes to the server's document alone.
ViewsRemoteOnly(doc, q, k) == {doc}

\* The document a read of k returns, as a singleton: the last pending write
\* decides every field, unless the document is absent under all of them.
Views(doc, q, k) ==
    IF ~Visible(doc, q, k) THEN {Absent}
    ELSE IF Pending(q, k) = {} THEN {doc}
    ELSE {Content(q[i]) :
             i \in {m \in Pending(q, k) : \A j \in Pending(q, k) : j <= m}}
==============================================================================
