------------------------------ MODULE Catalogue ------------------------------
(* The catalogue of tractors and implements: rows of the library that all   *)
(* see and none may change, rows of owners, their tyres, and the runs and   *)
(* sessions that refer to them. A request reads in one step and commits in  *)
(* another, and the other requests, the seeding of a starting server and    *)
(* the migration of the library run in between.                             *)
EXTENDS Naturals, FiniteSets

CONSTANTS
    Tractors, Implements,  \* primary keys; none is used twice
    Sessions,              \* operation sessions
    Clients,               \* requests of the API that may overlap
    Owners, OwnerOf,       \* users with the role owner, and whose request each client's is;
                           \* Null for a user of another role
    TargetOwner,           \* the owner of TARGET_PHONE
    Boots,                 \* server processes that may start at the same time
    MaxSimulations,        \* BOUND on stored runs
    NewNames,              \* BOUND on the names that updates give
    Null

Machines == Tractors \cup Implements

ASSUME KeysAssumption == Tractors \cap Implements = {} /\ Null \notin Machines \cup Owners
\* Keys are UUIDs.
ASSUME FiniteKeysAssumption == IsFiniteSet(Machines)
ASSUME NamesAssumption == NewNames \subseteq {"standard", "own"}
ASSUME OwnersAssumption == OwnerOf \in [Clients -> Owners \cup {Null}] /\ TargetOwner \in Owners

VARIABLES
    rows,         \* the tables tractors and implements
    used,         \* keys that were ever given out
    tires,        \* tractors with a row in tire_specifications
    simulations,  \* stored runs
    sessions,     \* the references of operation sessions
    request,      \* what each client has read and not yet committed
    boot,         \* which halves of the library each starting server found missing
    upgraded      \* the library was replaced by the migration

vars == <<rows, used, tires, simulations, sessions, request, boot, upgraded>>

Names == {"standard", "own"}

Row == [name : Names, owner : Owners \cup {Null}, library : BOOLEAN]

ASSUME RowAssumption == Null \notin Row

LibraryRow == [name |-> "standard", owner |-> Null, library |-> TRUE]

Init ==
    /\ rows = [m \in Machines |-> Null]
    /\ used = {}
    /\ tires = {}
    /\ simulations = {}
    /\ sessions = [s \in Sessions |-> Null]
    /\ request = [c \in Clients |-> Null]
    /\ boot = [b \in Boots |-> Null]
    /\ upgraded = FALSE

Library(kind) == {m \in kind : rows[m] # Null /\ rows[m].library}

Stored(m) == m # Null /\ rows[m] # Null

Fresh(kind) == kind \ used

Keep == UNCHANGED <<rows, used, tires, simulations, sessions>>

Done(c) == request' = [request EXCEPT ![c] = Null] /\ UNCHANGED <<boot, upgraded>>

\* require_role(["owner"]).
IsOwner(c) == OwnerOf[c] \in Owners

Pend(c, r) == request' = [request EXCEPT ![c] = r] /\ UNCHANGED <<boot, upgraded>>
-----------------------------------------------------------------------------
\* What deleting rows takes along: tyres and runs go, sessions lose the implement,
\* and a session keeps its tractor from being deleted.

\* Mutant: deleting an implement looks at the first of a run only.
RefersFirst(run, gone) == {run.tractor, run.implement} \cap gone # {}

Refers(run, gone) == {run.tractor, run.implement, run.second} \cap gone # {}

Driven(gone) == \E s \in Sessions : sessions[s] # Null /\ sessions[s].tractor \in gone

Erase(gone, kept) ==
    /\ rows' = [m \in Machines |-> IF m \in gone THEN Null ELSE kept[m]]
    /\ simulations' = {run \in simulations : ~Refers(run, gone)}
    /\ sessions' = [s \in Sessions |->
            IF sessions[s] # Null /\ sessions[s].implement \in gone
            THEN [sessions[s] EXCEPT !.implement = Null] ELSE sessions[s]]
-----------------------------------------------------------------------------
\* Rows of owners.

\* Mutant: any owner may change what is not the library's.
MayChangeAny(c, m) == IsOwner(c) /\ Stored(m) /\ ~rows[m].library

\* An owner's request may change a row that is neither the library's nor another owner's.
MayChange(c, m) == IsOwner(c) /\ Stored(m) /\ ~rows[m].library /\ rows[m].owner \in {Null, OwnerOf[c]}

\* The tractor is committed before its tyres are.
CreateTractor(c) ==
    /\ request[c] = Null
    /\ IsOwner(c)
    /\ \E t \in Fresh(Tractors) :
        /\ rows' = [rows EXCEPT ![t] = [name |-> "own", owner |-> OwnerOf[c], library |-> FALSE]]
        /\ used' = used \cup {t}
        /\ Pend(c, [op |-> "tires", tractor |-> t, existing |-> FALSE])
    /\ UNCHANGED <<tires, simulations, sessions>>

\* The payload decides whether the implement is one of the library's.
CreateImplement(c) ==
    /\ request[c] = Null
    /\ IsOwner(c)
    /\ \E i \in Fresh(Implements), library \in BOOLEAN :
        /\ rows' = [rows EXCEPT ![i] = [name |-> "own", owner |-> OwnerOf[c], library |-> library]]
        /\ used' = used \cup {i}
    /\ Done(c)
    /\ UNCHANGED <<tires, simulations, sessions>>

\* The row is read and the caller's right to it checked: 404, 403 or on.
CheckRow(c) ==
    /\ request[c] = Null
    /\ \E m \in Machines, op \in {"update", "delete"} :
        /\ MayChange(c, m)
        /\ Pend(c, [op |-> op, machine |-> m])
    /\ Keep

\* The commit fails when the row has gone.
Update(c) ==
    /\ request[c] # Null /\ request[c].op = "update"
    /\ LET m == request[c].machine
       IN  rows' \in {IF Stored(m) THEN [rows EXCEPT ![m].name = n] ELSE rows : n \in NewNames}
    /\ Done(c)
    /\ UNCHANGED <<used, tires, simulations, sessions>>

Delete(c) ==
    /\ request[c] # Null /\ request[c].op = "delete"
    /\ LET gone == {request[c].machine}
       IN  IF Driven(gone)
           THEN UNCHANGED <<rows, tires, simulations, sessions>>
           ELSE Erase(gone, rows) /\ tires' = tires \ gone
    /\ Done(c)
    /\ UNCHANGED used

\* The tyres of a tractor are looked for, to be updated or inserted.
CheckTires(c) ==
    /\ request[c] = Null
    /\ \E t \in Tractors :
        /\ Stored(t)
        /\ Pend(c, [op |-> "tires", tractor |-> t, existing |-> t \in tires])
    /\ Keep

\* An insert fails when the tractor has gone or has tyres by now, an update when
\* its row has gone.
SaveTires(c) ==
    /\ request[c] # Null /\ request[c].op = "tires"
    /\ tires' = IF Stored(request[c].tractor) /\ ~request[c].existing
                THEN tires \cup {request[c].tractor} ELSE tires
    /\ Done(c)
    /\ UNCHANGED <<rows, used, simulations, sessions>>

DeleteTires(c) ==
    /\ request[c] = Null
    /\ \E t \in tires : tires' = tires \ {t}
    /\ Done(c)
    /\ UNCHANGED <<rows, used, simulations, sessions>>

\* The process dies, or the commit fails, between the two steps of a request.
Abandon(c) ==
    /\ request[c] # Null
    /\ Done(c)
    /\ Keep
-----------------------------------------------------------------------------
\* Runs and sessions.

\* The rows of a run are looked up; the second implement of a single run is not.
CheckRun(c) ==
    /\ request[c] = Null
    /\ \E t \in tires, i \in Implements, single \in BOOLEAN : \E j \in (Implements \ {i}) \cup {Null} :
        /\ Stored(t)
        /\ Stored(i)
        /\ ~single /\ j # Null => Stored(j)
        /\ Pend(c, [op |-> "run", run |-> [tractor |-> t, implement |-> i, second |-> j]])
    /\ Keep

\* The insert fails when a row it refers to is not there.
StoreRun(c) ==
    /\ request[c] # Null /\ request[c].op = "run"
    /\ LET run == request[c].run
       IN  IF /\ Stored(run.tractor) /\ Stored(run.implement)
              /\ run.second # Null => Stored(run.second)
           THEN simulations' = simulations \cup {run} /\ Cardinality(simulations') <= MaxSimulations
           ELSE UNCHANGED simulations
    /\ Done(c)
    /\ UNCHANGED <<rows, used, tires, sessions>>

DeleteRun(c) ==
    /\ request[c] = Null
    /\ \E run \in simulations : simulations' = simulations \ {run}
    /\ Done(c)
    /\ UNCHANGED <<rows, used, tires, sessions>>

\* A session is started; SessionLifecycle says what becomes of it.
StartSession(s) ==
    /\ sessions[s] = Null
    /\ \E t \in Tractors, i \in Implements \cup {Null} :
        /\ Stored(t)
        /\ i # Null => Stored(i)
        /\ sessions' = [sessions EXCEPT ![s] = [tractor |-> t, implement |-> i]]
    /\ UNCHANGED <<rows, used, tires, simulations, request, boot, upgraded>>
-----------------------------------------------------------------------------
\* The library.

\* One transaction adds the given halves of the library, its tractors with tyres.
AddLibrary(kinds, kept) ==
    \E new \in SUBSET (Machines \ used) :
        /\ \A kind \in kinds : Cardinality(new \cap kind) = 1
        /\ new \subseteq UNION kinds
        /\ rows' = [m \in Machines |-> IF m \in new THEN LibraryRow ELSE kept[m]]
        /\ used' = used \cup new
        /\ tires' = {t \in tires \cup new : t \in Tractors /\ rows'[t] # Null}

\* Mutant: both halves are seeded when either is missing.
CheckLibraryEither(b) ==
    /\ boot[b] = Null
    /\ \E kind \in {Tractors, Implements} : Library(kind) = {}
    /\ boot' = [boot EXCEPT ![b] = {Tractors, Implements}]
    /\ UNCHANGED <<rows, used, tires, simulations, sessions, request, upgraded>>

\* seed_library_if_empty: a starting server sees what is missing, and adds it later.
CheckLibrary(b) ==
    /\ boot[b] = Null
    /\ LET missing == {kind \in {Tractors, Implements} : Library(kind) = {}}
       IN  missing # {} /\ boot' = [boot EXCEPT ![b] = missing]
    /\ UNCHANGED <<rows, used, tires, simulations, sessions, request, upgraded>>

SeedLibrary(b) ==
    /\ boot[b] # Null
    /\ AddLibrary(boot[b], rows)
    /\ boot' = [boot EXCEPT ![b] = Null]
    /\ UNCHANGED <<simulations, sessions, request, upgraded>>

\* The server dies, or the seeding fails and it starts without.
SeedFails(b) ==
    /\ boot[b] # Null
    /\ boot' = [boot EXCEPT ![b] = Null]
    /\ UNCHANGED <<rows, used, tires, simulations, sessions, request, upgraded>>

\* n9o0p1q2r3s4: the old library's tractors stay, as rows without an owner. It is
\* run before the servers are started.
Upgrade ==
    /\ ~upgraded
    /\ \A b \in Boots : boot[b] = Null
    /\ \A c \in Clients : request[c] = Null
    /\ AddLibrary({Tractors},
                  [m \in Machines |-> IF m \in Library(Tractors) THEN [rows[m] EXCEPT !.library = FALSE] ELSE rows[m]])
    /\ upgraded' = TRUE
    /\ UNCHANGED <<simulations, sessions, request, boot>>

\* By hand: the library is deleted and inserted again, unless a session holds on
\* to one of its tractors.
Reseed ==
    /\ \A b \in Boots : boot[b] = Null
    /\ LET gone == Library(Tractors) \cup Library(Implements)
       IN  /\ gone # {}
           /\ ~Driven(gone)
           /\ simulations' = {run \in simulations : ~Refers(run, gone)}
           /\ sessions' = [s \in Sessions |->
                   IF sessions[s] # Null /\ sessions[s].implement \in gone
                   THEN [sessions[s] EXCEPT !.implement = Null] ELSE sessions[s]]
           /\ AddLibrary({Tractors, Implements}, [m \in Machines |-> IF m \in gone THEN Null ELSE rows[m]])
    /\ UNCHANGED <<request, boot, upgraded>>

\* By hand: one owner gets copies of the standard machines he has none of by that name.
SeedOwner ==
    /\ LET has(kind) == \E m \in kind : Stored(m) /\ rows[m].owner = TargetOwner /\ rows[m].name = "standard"
           missing == {kind \in {Tractors, Implements} : ~has(kind)}
       IN  /\ missing # {}
           /\ \E new \in SUBSET (Machines \ used) :
                /\ \A kind \in missing : Cardinality(new \cap kind) = 1
                /\ new \subseteq UNION missing
                /\ rows' = [m \in Machines |-> IF m \in new THEN [LibraryRow EXCEPT !.owner = TargetOwner, !.library = FALSE]
                                               ELSE rows[m]]
                /\ used' = used \cup new
                /\ tires' = tires \cup (new \cap Tractors)
    /\ UNCHANGED <<simulations, sessions, request, boot, upgraded>>

Next ==
    \/ \E c \in Clients :
        \/ CreateTractor(c) \/ CreateImplement(c) \/ CheckRow(c) \/ Update(c) \/ Delete(c)
        \/ CheckTires(c) \/ SaveTires(c) \/ DeleteTires(c) \/ Abandon(c)
        \/ CheckRun(c) \/ StoreRun(c) \/ DeleteRun(c)
    \/ \E s \in Sessions : StartSession(s)
    \/ \E b \in Boots : CheckLibrary(b) \/ SeedLibrary(b) \/ SeedFails(b)
    \/ Upgrade \/ Reseed \/ SeedOwner

Spec == Init /\ [][Next]_vars
-----------------------------------------------------------------------------
\* PROPERTIES

\* Whatever the order of the commits, every reference leads to a row: of tyres to
\* their tractor, of a run to its tractor and implements, of a session to its
\* tractor and, while it has one, its implement.
RowsResolve ==
    /\ \A t \in tires : Stored(t)
    /\ \A run \in simulations :
        Stored(run.tractor) /\ Stored(run.implement) /\ (run.second # Null => Stored(run.second))
    /\ \A s \in Sessions : sessions[s] # Null =>
        Stored(sessions[s].tractor) /\ (sessions[s].implement # Null => Stored(sessions[s].implement))

\* A row of the library is not changed or removed by any request, and a row of an owner
\* only by the commit of a request of his own, however long ago its right was checked:
\* seeding, migration and reseeding leave it alone.
OwnersKeepTheirRows ==
    [][\A m \in Machines : Stored(m) /\ rows'[m] # rows[m] =>
        IF rows[m].library THEN request' = request
        ELSE rows[m].owner # Null =>
                \E c \in Clients : /\ OwnerOf[c] = rows[m].owner
                                   /\ request[c] # Null /\ request'[c] = Null]_vars

\* Seeding never doubles a tractor of the library, whether the server, the
\* migration or an operator did it before.
OneLibraryTractorPerName ==
    \A t, u \in Library(Tractors) : rows[t].name = rows[u].name => t = u
=============================================================================
