-------------------------- MODULE EmployeeDirectory --------------------------
(***************************************************************************)
(* lib/registerscreen.dart: the REGISTER button and the Employee           *)
(* collection.  The handler asks for documents with the id, and adds one   *)
(* under a random name if there is none.  The rest of the app finds an     *)
(* employee as docs[0] of a query by id, the document with the least name. *)
(*                                                                         *)
(* A tap is one handler that may be in progress, on the phone Phone gives. *)
(* The three empty-field messages change nothing and are left out, as are  *)
(* name and password, which no property looks at, and the loggedIn flag    *)
(* the handler clears, which is in Session.                                *)
(***************************************************************************)
EXTENDS Integers, FiniteSets

CONSTANTS
    Ids,       \* employee ids that are typed in
    Phones,
    Taps,
    Phone,     \* the phone of each tap
    MaxDocs    \* bound: documents ever added

ASSUME IdsAssumption == Ids # {}
ASSUME PhoneAssumption == Phone \in [Taps -> Phones]
ASSUME MaxDocsAssumption == MaxDocs \in Nat

VARIABLES
    docs,      \* the Employee collection on the server
    pending,   \* each phone's documents that the server has not taken yet
    tap,       \* the handlers
    created    \* ids sent to the attendance server by createUser

directoryVars == <<docs, pending, tap, created>>

\* Random document names, in the order a query returns them.
Names == 1..MaxDocs

Docs == [name : Names, id : Ids]

NoDoc == [name |-> 0, id |-> CHOOSE i \in Ids : TRUE]

Handlers ==
    [pc : {"idle", "query", "found", "free", "adding"},
     id : Ids, doc : Docs \cup {NoDoc}]

Handler(pc, id, doc) == [pc |-> pc, id |-> id, doc |-> doc]

NoHandler == Handler("idle", NoDoc.id, NoDoc)

All == docs \cup UNION {pending[p] : p \in Phones}

\* What a query by id on phone p returns.
Query(p, id) == {e \in docs \cup pending[p] : e.id = id}

DirectoryInit ==
    /\ docs = {}
    /\ pending = [p \in Phones |-> {}]
    /\ tap = [t \in Taps |-> NoHandler]
    /\ created = {}

Proceed(t, h) == tap' = [tap EXCEPT ![t] = h]

\* REGISTER is tapped with every field filled in.
Register(t) ==
    /\ tap[t].pc = "idle"
    /\ \E id \in Ids : Proceed(t, Handler("query", id, NoDoc))
    /\ UNCHANGED <<docs, pending, created>>

IdQueried(t) ==
    LET id == tap[t].id
    IN  /\ tap[t].pc = "query"
        /\ Proceed(t, Handler(IF Query(Phone[t], id) # {} THEN "found" ELSE "free",
                             id, NoDoc))
        /\ UNCHANGED <<docs, pending, created>>

\* The query throws; the catch clause only prints.
QueryFailed(t) ==
    /\ tap[t].pc = "query"
    /\ Proceed(t, NoHandler)
    /\ UNCHANGED <<docs, pending, created>>

\* "Employee id already exist!"
Refuse(t) ==
    /\ tap[t].pc = "found"
    /\ Proceed(t, NoHandler)
    /\ UNCHANGED <<docs, pending, created>>

\* Does not look at the answer to the query.
AddUnchecked(t) ==
    /\ tap[t].pc \in {"found", "free"}
    /\ \E n \in Names \ {e.name : e \in All} :
          LET e == [name |-> n, id |-> tap[t].id]
          IN  /\ pending' = [pending EXCEPT ![Phone[t]] = @ \cup {e}]
              /\ Proceed(t, Handler("adding", e.id, e))
    /\ UNCHANGED <<docs, created>>

\* employees.add({..}) under a name that no document has.
Add(t) ==
    /\ tap[t].pc = "free"
    /\ \E n \in Names \ {e.name : e \in All} :
          LET e == [name |-> n, id |-> tap[t].id]
          IN  /\ pending' = [pending EXCEPT ![Phone[t]] = @ \cup {e}]
              /\ Proceed(t, Handler("adding", e.id, e))
    /\ UNCHANGED <<docs, created>>

\* The employee is announced to the attendance server, without retry.
CreateUser(id) == created' = created \cup {id}

\* Does not wait for the add.
AddedEarly(t) ==
    /\ tap[t].pc = "adding"
    /\ CreateUser(tap[t].id)
    /\ Proceed(t, NoHandler)
    /\ UNCHANGED <<docs, pending>>

\* The add has completed: createUser, and on to the login screen.
Added(t) ==
    /\ tap[t].pc = "adding"
    /\ tap[t].doc \in docs
    /\ CreateUser(tap[t].id)
    /\ Proceed(t, NoHandler)
    /\ UNCHANGED <<docs, pending>>

\* The server takes a document from a phone's queue.
Flush(p) ==
    /\ \E e \in pending[p] :
          /\ docs' = docs \cup {e}
          /\ pending' = [pending EXCEPT ![p] = @ \ {e}]
    /\ UNCHANGED <<tap, created>>

\* The app on p is killed: its handlers are gone, its queue is on disk.
KillApp(p) ==
    /\ tap' = [t \in Taps |-> IF Phone[t] = p THEN NoHandler ELSE tap[t]]
    /\ UNCHANGED <<docs, pending, created>>

DirectoryNext ==
    \/ \E t \in Taps :
          \/ Register(t) \/ IdQueried(t) \/ QueryFailed(t) \/ Refuse(t)
          \/ Add(t) \/ Added(t)
    \/ \E p \in Phones : Flush(p) \/ KillApp(p)

DirectorySpec == DirectoryInit /\ [][DirectoryNext]_directoryVars

\* No registration is in progress, and the server has the documents of the
\* phones other than t's own.
InTurn(t) ==
    /\ \A u \in Taps : tap[u].pc = "idle"
    /\ \A p \in Phones \ {Phone[t]} : pending[p] = {}

\* Employees register one after another.  Nothing in the code sees to it.
InTurnNext == DirectoryNext /\ \A t \in Taps : Register(t) => InTurn(t)

InTurnSpec == DirectoryInit /\ [][InTurnNext]_directoryVars

-----------------------------------------------------------------------------

\* Every variable has its type.
DirectoryTypeOK ==
    /\ docs \subseteq Docs
    /\ pending \in [Phones -> SUBSET Docs]
    /\ tap \in [Taps -> Handlers]
    /\ created \subseteq Ids

\* An id that exists is refused, so no two documents have the same id, on the
\* server or on the way to it.
UniqueIds == \A e, f \in All : e.id = f.id => e = f

\* docs[0] of an employee, once there, is the same document for good: logins
\* and attendance records keep going to it.
FirstDocStable ==
    [][\A e \in docs :
          (\A f \in docs : f.id = e.id => e.name <= f.name)
          => (\A f \in docs' : f.id = e.id => e.name <= f.name)]_docs

\* createUser tells the attendance server only of employees that are in the
\* collection, even when the app is killed while the add is under way.
CreatedAreStored == \A id \in created : \E e \in docs : e.id = id
==============================================================================
