--------------------------- MODULE CatalogueProofs ---------------------------
(***************************************************************************)
(* Theorems about Catalogue, for every number of rows, sessions, clients,  *)
(* owners and starting servers.                                            *)
(***************************************************************************)
EXTENDS Catalogue, FiniteSetTheorems, TLAPS

Run == [tractor : Tractors, implement : Implements, second : Implements \cup {Null}]

Session == [tractor : Tractors, implement : Implements \cup {Null}]

\* What a request has read.
RequestState(r) ==
    /\ r.op \in {"update", "delete"} => r.machine \in used
    /\ r.op = "tires" => r.tractor \in Tractors
    /\ r.op = "run" => r.run \in Run

Types ==
    /\ rows \in [Machines -> Row \cup {Null}]
    /\ used \subseteq Machines
    /\ \A m \in Machines : rows[m] # Null => m \in used
    /\ tires \subseteq Tractors
    /\ simulations \subseteq Run
    /\ sessions \in [Sessions -> Session \cup {Null}]
    /\ DOMAIN request = Clients
    /\ \A c \in Clients : request[c] # Null => RequestState(request[c])

\* A right that was checked holds as long as the row is there: a key is not given
\* out twice, and no update changes whose a row is.
RightsHold ==
    \A c \in Clients : request[c] # Null /\ request[c].op \in {"update", "delete"} =>
        LET m == request[c].machine
        IN  Stored(m) => ~rows[m].library /\ rows[m].owner \in {Null, OwnerOf[c]}

-----------------------------------------------------------------------------
\* What a step does to a row that is there.

Renamed(m) == \E n \in Names : rows'[m] = [rows[m] EXCEPT !.name = n]

\* The rows keep their type, new rows take unused keys and used keys stay used.
RowsGrow ==
    /\ rows' \in [Machines -> Row \cup {Null}]
    /\ used \subseteq used' /\ used' \subseteq Machines
    /\ \A m \in Machines : rows'[m] # Null => m \in used'
    /\ \A m \in Machines : rows[m] = Null /\ rows'[m] # Null => m \notin used

\* Nothing is removed.
RowsStay == \A m \in Machines : Stored(m) => rows'[m] # Null

LEMMA LibraryRowIsRow == LibraryRow \in Row /\ LibraryRow # Null
<1>1. LibraryRow \in Row
    BY DEF LibraryRow, Row, Names
<1> QED
    BY <1>1, RowAssumption

LEMMA MachineIsKey == \A m \in Machines : m # Null
    BY KeysAssumption

\* Rows that are added to what is kept of the others.
LEMMA AddedRows ==
    ASSUME Types, NEW new \in SUBSET (Machines \ used), NEW row \in Row,
           NEW kept \in [Machines -> Row \cup {Null}],
           \A m \in Machines : rows[m] = Null => kept[m] = Null,
           rows' = [m \in Machines |-> IF m \in new THEN row ELSE kept[m]],
           used' = used \cup new
    PROVE  /\ RowsGrow
           /\ \A m \in Machines : Stored(m) => rows'[m] = kept[m]
           /\ \A m \in new : rows'[m] # Null
<1>1. rows' \in [Machines -> Row \cup {Null}]
    OBVIOUS
<1>2. row # Null
    BY RowAssumption
<1>3. \A m \in Machines : Stored(m) => m \notin new
    BY DEF Types, Stored
<1> QED
    BY <1>1, <1>2, <1>3 DEF Types, RowsGrow

\* A commit of a request, or none, and the rows: every action of a client.
LEMMA ClientRows ==
    ASSUME Types, NEW c \in Clients,
           \/ CreateTractor(c) \/ CreateImplement(c) \/ CheckRow(c) \/ Update(c) \/ Delete(c)
           \/ CheckTires(c) \/ SaveTires(c) \/ DeleteTires(c) \/ Abandon(c)
           \/ CheckRun(c) \/ StoreRun(c) \/ DeleteRun(c)
    PROVE  /\ RowsGrow
           /\ \A m \in Machines : Stored(m) =>
                \/ rows'[m] = rows[m]
                \/ /\ request[c] # Null /\ request'[c] = Null
                   /\ request[c].op \in {"update", "delete"} /\ request[c].machine = m
                   /\ rows'[m] = Null \/ Renamed(m)
           /\ Delete(c) \/ RowsStay
<1>0. /\ rows \in [Machines -> Row \cup {Null}] /\ used \subseteq Machines
      /\ \A m \in Machines : rows[m] # Null => m \in used
      /\ DOMAIN request = Clients
    BY DEF Types
<1>1. ASSUME NEW t \in Machines \ used, NEW r \in Row,
             rows' = [rows EXCEPT ![t] = r], used' = used \cup {t}
      PROVE  RowsGrow /\ RowsStay /\ \A m \in Machines : Stored(m) => rows'[m] = rows[m]
    <2>1. RowsGrow /\ \A m \in Machines : Stored(m) => rows'[m] = rows[m]
        BY <1>0, <1>1, RowAssumption DEF RowsGrow, Stored
    <2> QED
        BY <2>1 DEF RowsStay, Stored
<1>2. CASE CreateTractor(c)
    <2>1. PICK t \in Fresh(Tractors) :
            /\ rows' = [rows EXCEPT ![t] = [name |-> "own", owner |-> OwnerOf[c], library |-> FALSE]]
            /\ used' = used \cup {t}
        BY <1>2 DEF CreateTractor
    <2>2. [name |-> "own", owner |-> OwnerOf[c], library |-> FALSE] \in Row
        BY <1>2 DEF CreateTractor, IsOwner, Row, Names
    <2>3. t \in Machines \ used
        BY DEF Fresh, Machines
    <2> QED
        BY <1>1, <2>1, <2>2, <2>3
<1>3. CASE CreateImplement(c)
    <2>1. PICK i \in Fresh(Implements), library \in BOOLEAN :
            /\ rows' = [rows EXCEPT ![i] = [name |-> "own", owner |-> OwnerOf[c], library |-> library]]
            /\ used' = used \cup {i}
        BY <1>3 DEF CreateImplement
    <2>2. [name |-> "own", owner |-> OwnerOf[c], library |-> library] \in Row
        BY <1>3 DEF CreateImplement, IsOwner, Row, Names
    <2>3. i \in Machines \ used
        BY DEF Fresh, Machines
    <2> QED
        BY <1>1, <2>1, <2>2, <2>3
<1>4. CASE Update(c)
    <2> DEFINE k == request[c].machine
    <2>1. /\ request[c] # Null /\ request'[c] = Null /\ request[c].op = "update"
          /\ used' = used /\ k \in used
        BY <1>0, <1>4 DEF Update, Done, Types, RequestState
    <2>2. CASE rows' = rows
        BY <1>0, <2>1, <2>2 DEF RowsGrow, RowsStay, Stored
    <2>3. CASE Stored(k) /\ \E n \in NewNames : rows' = [rows EXCEPT ![k].name = n]
        <3>1. PICK n \in Names : rows' = [rows EXCEPT ![k].name = n]
            BY <2>3, NamesAssumption DEF Names
        <3>2. rows[k] \in Row
            BY <1>0, <2>1, <2>3 DEF Stored
        <3>3. [rows[k] EXCEPT !.name = n] \in Row
            BY <3>2 DEF Row
        <3>4. rows' = [rows EXCEPT ![k] = [rows[k] EXCEPT !.name = n]]
            BY <3>1
        <3>5. \A m \in Machines : m # k => rows'[m] = rows[m]
            BY <1>0, <3>4
        <3>6. rows'[k] = [rows[k] EXCEPT !.name = n]
            BY <1>0, <2>1, <3>4
        <3>7. RowsGrow
            BY <1>0, <2>1, <2>3, <3>3, <3>4 DEF RowsGrow, Stored
        <3>8. RowsStay
            BY <3>3, <3>5, <3>6, RowAssumption DEF RowsStay, Stored
        <3> QED
            BY <2>1, <3>5, <3>6, <3>7, <3>8 DEF Renamed
    <2> QED
        BY <1>4, <2>2, <2>3 DEF Update
<1>5. CASE Delete(c)
    <2> DEFINE k == request[c].machine
    <2>1. /\ request[c] # Null /\ request'[c] = Null /\ request[c].op = "delete"
          /\ used' = used /\ k \in used
        BY <1>0, <1>5 DEF Delete, Done, Types, RequestState
    <2> DEFINE Kept(m) == \/ rows'[m] = rows[m]
                          \/ k = m /\ rows'[m] = Null
    <2>2. ASSUME rows' = rows
          PROVE  RowsGrow /\ \A m \in Machines : Kept(m)
        BY <1>0, <2>1, <2>2 DEF RowsGrow
    <2>3. ASSUME rows' = [m \in Machines |-> IF m \in {k} THEN Null ELSE rows[m]]
          PROVE  RowsGrow /\ \A m \in Machines : Kept(m)
        BY <1>0, <2>1, <2>3 DEF RowsGrow
    <2>4. RowsGrow /\ \A m \in Machines : Kept(m)
        BY <1>5, <2>2, <2>3 DEF Delete, Erase
    <2> QED
        BY <1>5, <2>1, <2>4
<1>6. CASE UNCHANGED <<rows, used>>
    BY <1>0, <1>6 DEF RowsGrow, RowsStay, Stored
<1> QED
    BY <1>2, <1>3, <1>4, <1>5, <1>6
    DEF CheckRow, CheckTires, SaveTires, DeleteTires, Abandon, CheckRun, StoreRun, DeleteRun, Keep

\* What a starting server, the migration and the scripts do to the rows.
LEMMA AddLibraryRows ==
    ASSUME Types, NEW kinds, NEW kept \in [Machines -> Row \cup {Null}],
           \A m \in Machines : rows[m] = Null => kept[m] = Null,
           AddLibrary(kinds, kept)
    PROVE  /\ RowsGrow
           /\ \A m \in Machines : Stored(m) => rows'[m] = kept[m]
           /\ tires' \subseteq Tractors
           /\ \A t \in tires' : rows'[t] # Null
           /\ \A t \in tires : rows'[t] # Null => t \in tires'
<1>1. PICK new \in SUBSET (Machines \ used) :
        /\ rows' = [m \in Machines |-> IF m \in new THEN LibraryRow ELSE kept[m]]
        /\ used' = used \cup new
        /\ tires' = {t \in tires \cup new : t \in Tractors /\ rows'[t] # Null}
    BY DEF AddLibrary
<1>2. RowsGrow /\ \A m \in Machines : Stored(m) => rows'[m] = kept[m]
    BY <1>1, LibraryRowIsRow, AddedRows
<1> QED
    BY <1>1, <1>2 DEF Types

\* The rows that stay under a migration, which needs all requests to be over, are the
\* old ones but for the flag of the library.
LEMMA UpgradeRows ==
    ASSUME Types, Upgrade
    PROVE  /\ RowsGrow /\ RowsStay
           /\ \A m \in Machines : Stored(m) /\ ~rows[m].library => rows'[m] = rows[m]
           /\ tires' \subseteq Tractors
           /\ \A t \in tires' : rows'[t] # Null
<1> DEFINE kept == [m \in Machines |->
                      IF m \in Library(Tractors) THEN [rows[m] EXCEPT !.library = FALSE] ELSE rows[m]]
<1>1. \A m \in Machines : m \in Library(Tractors) => rows[m] \in Row
    BY DEF Library, Types
<1>2. \A r \in Row : [r EXCEPT !.library = FALSE] \in Row
    BY DEF Row
<1>3. kept \in [Machines -> Row \cup {Null}]
    BY <1>1, <1>2 DEF Types
<1>4. \A m \in Machines : rows[m] = Null => kept[m] = Null
    BY DEF Library
<1>5. \A m \in Machines : rows[m] # Null => kept[m] # Null
    BY <1>1, <1>2, RowAssumption
<1>6. \A m \in Machines : Stored(m) /\ ~rows[m].library => kept[m] = rows[m]
    BY DEF Library
<1>7. AddLibrary({Tractors}, kept)
    BY DEF Upgrade
<1> HIDE DEF kept
<1> QED
    BY <1>3, <1>4, <1>5, <1>6, <1>7, AddLibraryRows DEF RowsStay, Stored

LEMMA SeedRows ==
    ASSUME Types, NEW b \in Boots, SeedLibrary(b)
    PROVE  /\ RowsGrow /\ \A m \in Machines : Stored(m) => rows'[m] = rows[m]
           /\ tires' \subseteq Tractors
           /\ \A t \in tires' : rows'[t] # Null
    BY AddLibraryRows DEF SeedLibrary, Types

LEMMA SeedOwnerRows ==
    ASSUME Types, SeedOwner
    PROVE  /\ RowsGrow /\ \A m \in Machines : Stored(m) => rows'[m] = rows[m]
           /\ tires' \subseteq Tractors
           /\ \A t \in tires' : t \in tires \/ rows'[t] # Null
<1> DEFINE row == [LibraryRow EXCEPT !.owner = TargetOwner, !.library = FALSE]
<1>1. PICK new \in SUBSET (Machines \ used) :
        /\ rows' = [m \in Machines |-> IF m \in new THEN row ELSE rows[m]]
        /\ used' = used \cup new
        /\ tires' = tires \cup (new \cap Tractors)
    BY DEF SeedOwner
<1>2. row \in Row
    <2>1. LibraryRow \in Row /\ TargetOwner \in Owners
        BY LibraryRowIsRow, OwnersAssumption
    <2>2. \A r \in Row, o \in Owners : [r EXCEPT !.owner = o] \in Row
        BY DEF Row
    <2>3. \A r \in Row : [r EXCEPT !.library = FALSE] \in Row
        BY DEF Row
    <2>4. row = [[LibraryRow EXCEPT !.owner = TargetOwner] EXCEPT !.library = FALSE]
        BY DEF LibraryRow
    <2> QED
        BY <2>1, <2>2, <2>3, <2>4
<1> HIDE DEF row
<1>3. /\ RowsGrow /\ \A m \in Machines : Stored(m) => rows'[m] = rows[m]
      /\ \A m \in new : rows'[m] # Null
    <2> DEFINE kept == rows
    <2>1. /\ kept \in [Machines -> Row \cup {Null}] /\ \A m \in Machines : rows[m] = Null => kept[m] = Null
          /\ \A m \in Machines : kept[m] = rows[m]
        BY DEF Types
    <2>2. rows' = [m \in Machines |-> IF m \in new THEN row ELSE kept[m]]
        BY <1>1
    <2> HIDE DEF kept
    <2>3. /\ RowsGrow /\ \A m \in Machines : Stored(m) => rows'[m] = kept[m]
          /\ \A m \in new : rows'[m] # Null
        BY <1>1, <1>2, <2>1, <2>2, AddedRows
    <2> QED
        BY <2>1, <2>3
<1> QED
    BY <1>1, <1>3 DEF Types

\* Reseeding removes rows of the library and nothing that leads to them.
LEMMA ReseedRows ==
    ASSUME Types, Reseed
    PROVE  LET gone == Library(Tractors) \cup Library(Implements)
           IN  /\ RowsGrow
               /\ \A m \in Machines : Stored(m) /\ m \notin gone => rows'[m] = rows[m]
               /\ \A m \in Machines : Stored(m) /\ m \in gone => rows'[m] = Null
               /\ tires' \subseteq Tractors
               /\ \A t \in tires' : rows'[t] # Null
<1> DEFINE gone == Library(Tractors) \cup Library(Implements)
           kept == [m \in Machines |-> IF m \in gone THEN Null ELSE rows[m]]
<1>1. AddLibrary({Tractors, Implements}, kept)
    BY DEF Reseed
<1>2. kept \in [Machines -> Row \cup {Null}] /\ \A m \in Machines : rows[m] = Null => kept[m] = Null
    BY DEF Types
<1>3. /\ \A m \in Machines : m \notin gone => kept[m] = rows[m]
      /\ \A m \in Machines : m \in gone => kept[m] = Null
    OBVIOUS
<1> HIDE DEF kept
<1> QED
    BY <1>1, <1>2, <1>3, AddLibraryRows

-----------------------------------------------------------------------------

LEMMA TypesInit == Init => Types
    BY DEF Init, Types

\* What a step writes beside the rows.
LEMMA TypesStep == Types /\ [Next]_vars => Types'
<1> SUFFICES ASSUME Types, [Next]_vars
             PROVE  Types'
    OBVIOUS
<1>0. /\ used \subseteq Machines /\ tires \subseteq Tractors /\ simulations \subseteq Run
      /\ sessions \in [Sessions -> Session \cup {Null}] /\ DOMAIN request = Clients
      /\ \A c \in Clients : request[c] # Null => RequestState(request[c])
    BY DEF Types
<1>1. CASE UNCHANGED vars
    BY <1>1 DEF vars, Types, RequestState
\* Requests that were under way stay typed, and so does a row that loses its second half.
<1>2. ASSUME RowsGrow, tires' \subseteq Tractors, simulations' \subseteq Run,
             sessions' \in [Sessions -> Session \cup {Null}], DOMAIN request' = Clients,
             \A c \in Clients : \/ request'[c] = request[c]
                                \/ request'[c] = Null
                                \/ \E r : request'[c] = r /\ RequestState(r)'
      PROVE  Types'
    <2>1. \A r : RequestState(r) => RequestState(r)'
        BY <1>2 DEF RequestState, RowsGrow
    <2> QED
        BY <1>0, <1>2, <2>1 DEF Types, RowsGrow
<1>3. ASSUME NEW gone
      PROVE  /\ {run \in simulations : ~Refers(run, gone)} \subseteq Run
             /\ [s \in Sessions |->
                    IF sessions[s] # Null /\ sessions[s].implement \in gone
                    THEN [sessions[s] EXCEPT !.implement = Null] ELSE sessions[s]]
                  \in [Sessions -> Session \cup {Null}]
    <2>1. \A x \in Session : [x EXCEPT !.implement = Null] \in Session
        BY DEF Session
    <2> QED
        BY <1>0, <2>1
<1>4. ASSUME NEW c \in Clients,
             \/ CreateTractor(c) \/ CreateImplement(c) \/ CheckRow(c) \/ Update(c) \/ Delete(c)
             \/ CheckTires(c) \/ SaveTires(c) \/ DeleteTires(c) \/ Abandon(c)
             \/ CheckRun(c) \/ StoreRun(c) \/ DeleteRun(c)
      PROVE  Types'
    <2>1. RowsGrow
        BY <1>4, ClientRows
    <2>2. tires' \subseteq Tractors
        BY <1>0, <1>4
        DEF CreateTractor, CreateImplement, CheckRow, Update, Delete, CheckTires, SaveTires,
            DeleteTires, Abandon, CheckRun, StoreRun, DeleteRun, Keep, RequestState
    <2>3. simulations' \subseteq Run
        BY <1>0, <1>3, <1>4
        DEF CreateTractor, CreateImplement, CheckRow, Update, Delete, Erase, CheckTires, SaveTires,
            DeleteTires, Abandon, CheckRun, StoreRun, DeleteRun, Keep, RequestState
    <2>4. sessions' \in [Sessions -> Session \cup {Null}]
        <3>1. CASE Delete(c)
            BY <1>0, <1>3, <3>1 DEF Delete, Erase
        <3> QED
            BY <1>0, <1>4, <3>1
            DEF CreateTractor, CreateImplement, CheckRow, Update, CheckTires, SaveTires,
                DeleteTires, Abandon, CheckRun, StoreRun, DeleteRun, Keep
    <2>5. PICK r : request' = [request EXCEPT ![c] = r] /\ (r = Null \/ RequestState(r)')
        <3>1. CASE Done(c)
            BY <3>1 DEF Done
        <3>2. CASE CreateTractor(c)
            BY <3>2 DEF CreateTractor, Pend, Fresh, RequestState
        <3>3. CASE CheckRow(c)
            <4>1. PICK m \in Machines, op \in {"update", "delete"} :
                    MayChange(c, m) /\ request' = [request EXCEPT ![c] = [op |-> op, machine |-> m]]
                BY <3>3 DEF CheckRow, Pend
            <4>2. m \in used'
                BY <3>3, <4>1 DEF CheckRow, Keep, MayChange, Stored, Types
            <4>3. RequestState([op |-> op, machine |-> m])'
                BY <4>2 DEF RequestState
            <4> QED
                BY <4>1, <4>3
        <3>4. CASE CheckTires(c)
            BY <3>4 DEF CheckTires, Pend, RequestState
        <3>5. CASE CheckRun(c)
            <4>1. PICK run \in Run : request' = [request EXCEPT ![c] = [op |-> "run", run |-> run]]
                BY <1>0, <3>5 DEF CheckRun, Pend, Run
            <4>2. RequestState([op |-> "run", run |-> run])'
                BY DEF RequestState
            <4> QED
                BY <4>1, <4>2
        <3> QED
            BY <1>4, <3>1, <3>2, <3>3, <3>4, <3>5
            DEF CreateImplement, Update, Delete, SaveTires, DeleteTires, Abandon, StoreRun, DeleteRun
    <2> QED
        BY <1>0, <1>2, <2>1, <2>2, <2>3, <2>4, <2>5
<1>5. ASSUME NEW s \in Sessions, StartSession(s)
      PROVE  Types'
    <2>1. RowsGrow
        BY <1>5 DEF StartSession, RowsGrow, Types
    <2>2. PICK x \in Session : sessions' = [sessions EXCEPT ![s] = x]
        BY <1>5 DEF StartSession, Session
    <2> QED
        BY <1>0, <1>2, <1>5, <2>1, <2>2 DEF StartSession
<1>6. ASSUME NEW b \in Boots, CheckLibrary(b) \/ SeedFails(b)
      PROVE  Types'
    BY <1>6 DEF Types, RequestState, CheckLibrary, SeedFails
<1>7. ASSUME NEW b \in Boots, SeedLibrary(b)
      PROVE  Types'
    BY <1>0, <1>2, <1>7, SeedRows DEF SeedLibrary
<1>8. CASE Upgrade
    BY <1>0, <1>2, <1>8, UpgradeRows DEF Upgrade
<1>9. CASE Reseed
    BY <1>0, <1>2, <1>3, <1>9, ReseedRows DEF Reseed
<1>10. CASE SeedOwner
    BY <1>0, <1>2, <1>10, SeedOwnerRows DEF SeedOwner
<1> QED
    BY <1>1, <1>4, <1>5, <1>6, <1>7, <1>8, <1>9, <1>10 DEF Next

-----------------------------------------------------------------------------

Leads(run) ==
    /\ Stored(run.tractor) /\ Stored(run.implement)
    /\ run.second # Null => Stored(run.second)

Drives(session) ==
    /\ Stored(session.tractor)
    /\ session.implement # Null => Stored(session.implement)

Remains(m) == m # Null /\ rows'[m] # Null

LEMMA ResolveInit == Init => RowsResolve
    BY DEF Init, RowsResolve

\* References into rows that stay lead to rows that stay; a row that goes takes its tyres
\* and runs along, is dropped from sessions as an implement, and is kept by them as a tractor.
LEMMA ResolveStep == Types /\ RowsResolve /\ [Next]_vars => RowsResolve'
<1> SUFFICES ASSUME Types, RowsResolve, [Next]_vars
             PROVE  RowsResolve'
    OBVIOUS
<1>0. /\ rows \in [Machines -> Row \cup {Null}] /\ tires \subseteq Tractors /\ simulations \subseteq Run
      /\ sessions \in [Sessions -> Session \cup {Null}]
      /\ Tractors \subseteq Machines /\ Implements \subseteq Machines
      /\ \A m \in Machines : m # Null
    BY MachineIsKey DEF Types, Machines
<1>1. CASE UNCHANGED vars
    BY <1>1 DEF vars, RowsResolve, Stored
<1>2. ASSUME \A t \in tires' : Remains(t),
             \A run \in simulations' :
                /\ Remains(run.tractor) /\ Remains(run.implement)
                /\ run.second # Null => Remains(run.second),
             \A s \in Sessions : sessions'[s] # Null =>
                /\ Remains(sessions'[s].tractor)
                /\ sessions'[s].implement # Null => Remains(sessions'[s].implement)
      PROVE  RowsResolve'
    BY <1>2 DEF RowsResolve, Stored, Remains
\* What is written leads to rows, and so does what was there, if its rows stay.
<1>3. ASSUME RowsStay, tires' \subseteq Tractors, \A t \in tires' : rows'[t] # Null,
             \A run \in simulations' : run \in simulations \/ (run \in Run /\ Leads(run)),
             \A s \in Sessions : \/ sessions'[s] = sessions[s]
                                 \/ \E x \in Session : sessions'[s] = x /\ Drives(x)
      PROVE  RowsResolve'
    <2>1. \A m \in Machines : Stored(m) => Remains(m)
        BY <1>3 DEF RowsStay, Stored, Remains
    <2>2. \A t \in tires' : Remains(t)
        BY <1>0, <1>3 DEF Remains
    <2>3. ASSUME NEW run \in simulations'
          PROVE  /\ Remains(run.tractor) /\ Remains(run.implement)
                 /\ run.second # Null => Remains(run.second)
        <3>1. run \in Run /\ Leads(run)
            BY <1>0, <1>3 DEF RowsResolve, Leads
        <3> QED
            BY <1>0, <2>1, <3>1 DEF Leads, Run
    <2>4. ASSUME NEW s \in Sessions, sessions'[s] # Null
          PROVE  /\ Remains(sessions'[s].tractor)
                 /\ sessions'[s].implement # Null => Remains(sessions'[s].implement)
        <3>1. PICK x \in Session : sessions'[s] = x /\ Drives(x)
            BY <1>0, <1>3, <2>4 DEF RowsResolve, Drives
        <3> QED
            BY <1>0, <2>1, <3>1 DEF Drives, Session
    <2> QED
        BY <1>2, <2>2, <2>3, <2>4
\* Some rows go, and what leads to them.
<1>4. ASSUME NEW gone, ~Driven(gone), tires' \subseteq Tractors, \A t \in tires' : rows'[t] # Null,
             \A m \in Machines : Stored(m) /\ m \notin gone => rows'[m] # Null,
             simulations' = {run \in simulations : ~Refers(run, gone)},
             sessions' = [s \in Sessions |->
                   IF sessions[s] # Null /\ sessions[s].implement \in gone
                   THEN [sessions[s] EXCEPT !.implement = Null] ELSE sessions[s]]
      PROVE  RowsResolve'
    <2>1. \A m \in Machines : Stored(m) /\ m \notin gone => Remains(m)
        BY <1>4 DEF Stored, Remains
    <2>2. \A t \in tires' : Remains(t)
        BY <1>0, <1>4 DEF Remains
    <2>3. ASSUME NEW run \in simulations'
          PROVE  /\ Remains(run.tractor) /\ Remains(run.implement)
                 /\ run.second # Null => Remains(run.second)
        <3>1. run \in Run /\ run \in simulations /\ ~Refers(run, gone)
            BY <1>0, <1>4, <2>3
        <3>2. run.tractor \notin gone /\ run.implement \notin gone /\ run.second \notin gone
            BY <3>1 DEF Refers
        <3> QED
            BY <1>0, <2>1, <3>1, <3>2 DEF RowsResolve, Run
    <2>4. ASSUME NEW s \in Sessions, sessions'[s] # Null
          PROVE  /\ Remains(sessions'[s].tractor)
                 /\ sessions'[s].implement # Null => Remains(sessions'[s].implement)
        <3>1. CASE sessions[s] = Null
            BY <1>4, <2>4, <3>1
        <3>2. CASE sessions[s] # Null
            <4>1. /\ sessions[s] \in Session
                  /\ Stored(sessions[s].tractor) /\ sessions[s].tractor \notin gone
                  /\ sessions[s].implement # Null => Stored(sessions[s].implement)
                BY <1>0, <1>4, <3>2 DEF RowsResolve, Driven
            <4>2. CASE sessions[s].implement \in gone
                <5>1. sessions'[s] = [sessions[s] EXCEPT !.implement = Null]
                    BY <1>4, <3>2, <4>2
                <5>2. sessions'[s].tractor = sessions[s].tractor /\ sessions'[s].implement = Null
                    BY <4>1, <5>1 DEF Session
                <5> QED
                    BY <1>0, <2>1, <4>1, <5>2 DEF Session
            <4>3. CASE sessions[s].implement \notin gone
                <5>1. sessions'[s] = sessions[s]
                    BY <1>4, <4>3
                <5> QED
                    BY <1>0, <2>1, <4>1, <4>3, <5>1 DEF Session
            <4> QED
                BY <4>2, <4>3
        <3> QED
            BY <3>1, <3>2
    <2> QED
        BY <1>2, <2>2, <2>3, <2>4
<1>5. ASSUME NEW c \in Clients, Delete(c)
      PROVE  RowsResolve'
    <2> DEFINE gone == {request[c].machine}
    <2>1. CASE Driven(gone)
        BY <1>5, <2>1 DEF Delete, RowsResolve, Stored
    <2>2. CASE ~Driven(gone)
        <3>1. Erase(gone, rows) /\ tires' = tires \ gone
            BY <1>5, <2>2 DEF Delete
        <3> HIDE DEF gone
        <3>2. rows' = [m \in Machines |-> IF m \in gone THEN Null ELSE rows[m]]
            BY <3>1 DEF Erase
        <3>3. \A m \in Machines : Stored(m) /\ m \notin gone => rows'[m] # Null
            BY <3>2 DEF Stored
        <3>4. \A t \in tires' : rows'[t] # Null
            BY <1>0, <3>1, <3>3 DEF RowsResolve
        <3> QED
            BY <1>0, <1>4, <2>2, <3>1, <3>3, <3>4 DEF Erase
    <2> QED
        BY <2>1, <2>2
<1>6. ASSUME NEW c \in Clients,
             \/ CreateTractor(c) \/ CreateImplement(c) \/ CheckRow(c) \/ Update(c)
             \/ CheckTires(c) \/ SaveTires(c) \/ DeleteTires(c) \/ Abandon(c)
             \/ CheckRun(c) \/ StoreRun(c) \/ DeleteRun(c)
      PROVE  RowsResolve'
    <2>1. RowsStay
        <3>1. CASE Delete(c)
            BY <1>6, <3>1
            DEF Delete, CreateTractor, CreateImplement, CheckRow, Update, CheckTires, SaveTires,
                DeleteTires, Abandon, CheckRun, StoreRun, DeleteRun, Keep, RowsStay, Stored
        <3> QED
            BY <1>6, <3>1, ClientRows
    <2>2. sessions' = sessions
        BY <1>6
        DEF CreateTractor, CreateImplement, CheckRow, Update, CheckTires, SaveTires,
            DeleteTires, Abandon, CheckRun, StoreRun, DeleteRun, Keep
    <2>3. \A run \in simulations' : run \in simulations \/ (run \in Run /\ Leads(run))
        <3>1. CASE StoreRun(c)
            <4>1. request[c].run \in Run
                BY <3>1 DEF StoreRun, Types, RequestState
            <4> QED
                BY <3>1, <4>1 DEF StoreRun, Leads
        <3> QED
            BY <1>6, <3>1
            DEF CreateTractor, CreateImplement, CheckRow, Update, CheckTires, SaveTires,
                DeleteTires, Abandon, CheckRun, DeleteRun, Keep
    <2>4. tires' \subseteq Tractors /\ \A t \in tires' : t \in tires \/ Stored(t)
        <3>1. CASE SaveTires(c)
            BY <1>0, <3>1 DEF SaveTires, Types, RequestState
        <3> QED
            BY <1>0, <1>6, <3>1
            DEF CreateTractor, CreateImplement, CheckRow, Update, CheckTires,
                DeleteTires, Abandon, CheckRun, StoreRun, DeleteRun, Keep
    <2>5. \A t \in tires' : rows'[t] # Null
        BY <1>0, <2>1, <2>4 DEF RowsResolve, RowsStay
    <2> QED
        BY <1>3, <2>1, <2>2, <2>3, <2>4, <2>5
<1>7. ASSUME NEW s \in Sessions, StartSession(s)
      PROVE  RowsResolve'
    <2>1. /\ UNCHANGED <<rows, tires, simulations>>
          /\ \E x \in Session : Drives(x) /\ sessions' = [sessions EXCEPT ![s] = x]
        BY <1>7 DEF StartSession, Session, Drives
    <2>2. RowsStay /\ \A t \in tires' : rows'[t] # Null
        BY <1>0, <2>1 DEF RowsStay, RowsResolve, Stored
    <2> QED
        BY <1>0, <1>3, <2>1, <2>2
<1>8. ASSUME NEW b \in Boots, CheckLibrary(b) \/ SeedFails(b)
      PROVE  RowsResolve'
    BY <1>8 DEF CheckLibrary, SeedFails, RowsResolve, Stored
<1>9. ASSUME NEW b \in Boots, SeedLibrary(b)
      PROVE  RowsResolve'
    <2>1. RowsStay
        BY <1>9, SeedRows DEF RowsStay, Stored
    <2> QED
        BY <1>3, <1>9, <2>1, SeedRows DEF SeedLibrary
<1>10. CASE Upgrade
    BY <1>3, <1>10, UpgradeRows DEF Upgrade
<1>11. CASE Reseed
    <2> DEFINE gone == Library(Tractors) \cup Library(Implements)
    <2>1. \A m \in Machines : Stored(m) /\ m \notin gone => rows'[m] # Null
        BY <1>11, ReseedRows DEF Stored
    <2>2. /\ ~Driven(gone)
          /\ simulations' = {run \in simulations : ~Refers(run, gone)}
          /\ sessions' = [s \in Sessions |->
                   IF sessions[s] # Null /\ sessions[s].implement \in gone
                   THEN [sessions[s] EXCEPT !.implement = Null] ELSE sessions[s]]
        BY <1>11 DEF Reseed
    <2>3. tires' \subseteq Tractors /\ \A t \in tires' : rows'[t] # Null
        BY <1>11, ReseedRows
    <2> HIDE DEF gone
    <2> QED
        BY <1>4, <2>1, <2>2, <2>3
<1>12. CASE SeedOwner
    <2>1. RowsStay /\ \A t \in tires' : rows'[t] # Null
        BY <1>0, <1>12, SeedOwnerRows DEF RowsStay, RowsResolve, Stored
    <2> QED
        BY <1>3, <1>12, <2>1, SeedOwnerRows DEF SeedOwner
<1> QED
    BY <1>1, <1>5, <1>6, <1>7, <1>8, <1>9, <1>10, <1>11, <1>12 DEF Next

\* Whatever is referred to is there, through every deletion, seeding, migration and
\* reseeding, and with any number of clients between their reads and their commits.
THEOREM ReferencesResolve == Spec => []RowsResolve
<1>1. Init => Types /\ RowsResolve
    BY TypesInit, ResolveInit
<1>2. Types /\ RowsResolve /\ [Next]_vars => Types' /\ RowsResolve'
    BY TypesStep, ResolveStep
<1> QED
    BY <1>1, <1>2, PTL DEF Spec

-----------------------------------------------------------------------------

\* A row of an owner, or of nobody, stays his until it goes.
OwnersStay ==
    \A m \in Machines : Stored(m) /\ ~rows[m].library /\ rows'[m] # Null =>
        ~rows'[m].library /\ rows'[m].owner = rows[m].owner

\* What a step does to the rows, as far as rights are concerned.
LEMMA StepRows ==
    ASSUME Types, [Next]_vars
    PROVE  RowsGrow /\ OwnersStay
<1>1. CASE UNCHANGED rows /\ UNCHANGED used
    BY <1>1 DEF RowsGrow, OwnersStay, Types
<1>2. ASSUME \A m \in Machines : Stored(m) /\ ~rows[m].library => rows'[m] = rows[m] \/ rows'[m] = Null
      PROVE  OwnersStay
    BY <1>2 DEF OwnersStay
<1>3. ASSUME NEW c \in Clients,
             \/ CreateTractor(c) \/ CreateImplement(c) \/ CheckRow(c) \/ Update(c) \/ Delete(c)
             \/ CheckTires(c) \/ SaveTires(c) \/ DeleteTires(c) \/ Abandon(c)
             \/ CheckRun(c) \/ StoreRun(c) \/ DeleteRun(c)
      PROVE  RowsGrow /\ OwnersStay
    <2>1. RowsGrow /\ \A m \in Machines : Stored(m) => \/ rows'[m] = rows[m]
                                                       \/ rows'[m] = Null
                                                       \/ Renamed(m)
        BY <1>3, ClientRows
    <2>2. ASSUME NEW m \in Machines, Stored(m), ~rows[m].library, Renamed(m)
          PROVE  ~rows'[m].library /\ rows'[m].owner = rows[m].owner
        <3>1. rows[m] \in Row
            BY <2>2 DEF Types, Stored
        <3> QED
            BY <2>2, <3>1 DEF Renamed, Row
    <2> QED
        BY <2>1, <2>2 DEF OwnersStay
<1>4. ASSUME NEW b \in Boots, SeedLibrary(b)
      PROVE  RowsGrow /\ OwnersStay
    BY <1>2, <1>4, SeedRows
<1>5. CASE Upgrade
    BY <1>2, <1>5, UpgradeRows
<1>6. CASE Reseed
    BY <1>2, <1>6, ReseedRows
<1>7. CASE SeedOwner
    BY <1>2, <1>7, SeedOwnerRows
<1> QED
    BY <1>1, <1>3, <1>4, <1>5, <1>6, <1>7 DEF Next, vars, StartSession, CheckLibrary, SeedFails

LEMMA RightsInit == Init => RightsHold
    BY DEF Init, RightsHold

LEMMA RightsStep == Types /\ RightsHold /\ [Next]_vars => RightsHold'
<1> SUFFICES ASSUME Types, RightsHold, [Next]_vars,
                    NEW c \in Clients, request'[c] # Null, request'[c].op \in {"update", "delete"},
                    request'[c].machine # Null, rows'[request'[c].machine] # Null
             PROVE  /\ ~rows'[request'[c].machine].library
                    /\ rows'[request'[c].machine].owner \in {Null, OwnerOf[c]}
    BY DEF RightsHold, Stored
<1>0. RowsGrow /\ OwnersStay
    BY StepRows
\* A key that was given out before is not given out again.
<1>1. CASE request'[c] = request[c]
    <2> DEFINE m == request[c].machine
    <2>1. m \in used /\ m \in Machines /\ rows'[m] # Null
        BY <1>1 DEF Types, RequestState, Stored
    <2>2. m # Null /\ rows[m] # Null
        BY <1>0, <2>1, MachineIsKey DEF RowsGrow
    <2>3. ~rows[m].library /\ rows[m].owner \in {Null, OwnerOf[c]}
        BY <1>1, <2>2 DEF RightsHold, Stored
    <2> QED
        BY <1>0, <1>1, <2>1, <2>2, <2>3 DEF OwnersStay, Stored
<1>2. CASE CheckRow(c)
    <2>1. PICK m \in Machines, op \in {"update", "delete"} :
            MayChange(c, m) /\ request' = [request EXCEPT ![c] = [op |-> op, machine |-> m]]
        BY <1>2 DEF CheckRow, Pend
    <2>2. request'[c] = [op |-> op, machine |-> m] /\ rows' = rows
        BY <1>2, <2>1 DEF CheckRow, Keep, Types
    <2>3. request'[c].machine = m
        BY <2>2
    <2> QED
        BY <2>1, <2>2, <2>3 DEF MayChange
\* The other steps of this client end a request or begin one of another kind.
<1>3. ASSUME request' # request
      PROVE  \E d \in Clients : \E r :
                /\ request' = [request EXCEPT ![d] = r]
                /\ r = Null \/ r.op \notin {"update", "delete"} \/ CheckRow(d)
    <2>1. PICK d \in Clients :
             \/ CreateTractor(d) \/ CreateImplement(d) \/ CheckRow(d) \/ Update(d) \/ Delete(d)
             \/ CheckTires(d) \/ SaveTires(d) \/ DeleteTires(d) \/ Abandon(d)
             \/ CheckRun(d) \/ StoreRun(d) \/ DeleteRun(d)
        BY <1>3 DEF Next, vars, StartSession, CheckLibrary, SeedLibrary, SeedFails, Upgrade, Reseed, SeedOwner
    <2>2. PICK r : request' = [request EXCEPT ![d] = r] /\ (r = Null \/ r.op \notin {"update", "delete"} \/ CheckRow(d))
        <3>1. CASE Done(d)
            BY <3>1 DEF Done
        <3>2. CASE CreateTractor(d)
            BY <3>2 DEF CreateTractor, Pend
        <3>3. CASE CheckRow(d)
            <4>1. PICK m \in Machines, op \in {"update", "delete"} :
                    request' = [request EXCEPT ![d] = [op |-> op, machine |-> m]]
                BY <3>3 DEF CheckRow, Pend
            <4> QED
                BY <3>3, <4>1
        <3>4. CASE CheckTires(d)
            BY <3>4 DEF CheckTires, Pend
        <3>5. CASE CheckRun(d)
            <4>1. PICK run : request' = [request EXCEPT ![d] = [op |-> "run", run |-> run]]
                BY <3>5 DEF CheckRun, Pend
            <4> DEFINE r == [op |-> "run", run |-> run]
            <4>2. r.op = "run"
                OBVIOUS
            <4>3. request' = [request EXCEPT ![d] = r]
                BY <4>1
            <4>4. "run" \notin {"update", "delete"}
                OBVIOUS
            <4> HIDE DEF r
            <4> QED
                BY <4>2, <4>3, <4>4
        <3> QED
            BY <2>1, <3>1, <3>2, <3>3, <3>4, <3>5
            DEF CreateImplement, Update, Delete, SaveTires, DeleteTires, Abandon, StoreRun, DeleteRun
    <2> QED
        BY <2>2
<1> QED
    BY <1>1, <1>2, <1>3 DEF Types

LEMMA OwnersStep ==
    ASSUME Types, RightsHold, [Next]_vars,
           NEW m \in Machines, Stored(m), rows'[m] # rows[m]
    PROVE  IF rows[m].library THEN request' = request
           ELSE rows[m].owner # Null =>
                   \E c \in Clients : /\ OwnerOf[c] = rows[m].owner
                                      /\ request[c] # Null /\ request'[c] = Null
<1>1. ASSUME NEW c \in Clients,
             \/ CreateTractor(c) \/ CreateImplement(c) \/ CheckRow(c) \/ Update(c) \/ Delete(c)
             \/ CheckTires(c) \/ SaveTires(c) \/ DeleteTires(c) \/ Abandon(c)
             \/ CheckRun(c) \/ StoreRun(c) \/ DeleteRun(c)
      PROVE  /\ request[c] # Null /\ request'[c] = Null
             /\ ~rows[m].library /\ rows[m].owner \in {Null, OwnerOf[c]}
    <2>1. /\ request[c] # Null /\ request'[c] = Null
          /\ request[c].op \in {"update", "delete"} /\ request[c].machine = m
        BY <1>1, ClientRows
    <2> QED
        BY <2>1 DEF RightsHold
<1>2. ASSUME NEW b \in Boots, SeedLibrary(b)
      PROVE  FALSE
    BY <1>2, SeedRows
<1>3. CASE Upgrade
    BY <1>3, UpgradeRows DEF Upgrade
<1>4. CASE Reseed
    BY <1>4, ReseedRows DEF Reseed, Library
<1>5. CASE SeedOwner
    BY <1>5, SeedOwnerRows
<1> QED
    BY <1>1, <1>2, <1>3, <1>4, <1>5 DEF Next, vars, StartSession, CheckLibrary, SeedFails

\* A row of the library is changed or removed by no request, and one of an owner only by
\* his own, however long before its commit the right was checked.
THEOREM RowsAreTheirOwners == Spec => OwnersKeepTheirRows
<1>1. Init => Types /\ RightsHold
    BY TypesInit, RightsInit
<1>2. Types /\ RightsHold /\ [Next]_vars => Types' /\ RightsHold'
    BY TypesStep, RightsStep
<1>3. Types /\ RightsHold /\ [Next]_vars =>
        [\A m \in Machines : Stored(m) /\ rows'[m] # rows[m] =>
            IF rows[m].library THEN request' = request
            ELSE rows[m].owner # Null =>
                    \E c \in Clients : /\ OwnerOf[c] = rows[m].owner
                                       /\ request[c] # Null /\ request'[c] = Null]_vars
    BY OwnersStep
<1> QED
    BY <1>1, <1>2, <1>3, PTL DEF Spec, OwnersKeepTheirRows

-----------------------------------------------------------------------------

\* One server at a time is between its look at the library and its seeding, however many are
\* started: the service is meant for one uvicorn worker (app/main.py:37).
StartsApart == \A a, b \in Boots : boot[a] # Null /\ boot[b] # Null => a = b

\* The library has one tractor of its only name, and a server that is about to add one
\* has found it empty, and it still is.
Unseeded ==
    \A b \in Boots : boot[b] # Null =>
        /\ boot[b] \subseteq {Tractors, Implements}
        /\ Tractors \in boot[b] => Library(Tractors) = {}

OneLibraryTractor == \A t, u \in Library(Tractors) : t = u

Seeding == DOMAIN boot = Boots /\ Unseeded /\ OneLibraryTractor

\* The tractors that seeding adds: one, when it is to add tractors at all.
LEMMA AddedTractors ==
    ASSUME NEW kinds \in SUBSET {Tractors, Implements}, NEW kept, AddLibrary(kinds, kept)
    PROVE  \E new \in SUBSET Tractors :
             /\ \A t, u \in new : t = u
             /\ Tractors \notin kinds => new = {}
             /\ \A t \in Tractors : rows'[t] = IF t \in new THEN LibraryRow ELSE kept[t]
<1>1. PICK new \in SUBSET (Machines \ used) :
        /\ \A kind \in kinds : Cardinality(new \cap kind) = 1
        /\ new \subseteq UNION kinds
        /\ rows' = [m \in Machines |-> IF m \in new THEN LibraryRow ELSE kept[m]]
    BY DEF AddLibrary
<1>2. \A t \in Tractors : rows'[t] = IF t \in new \cap Tractors THEN LibraryRow ELSE kept[t]
    BY <1>1 DEF Machines
<1>3. CASE Tractors \in kinds
    <2>1. IsFiniteSet(new \cap Tractors) /\ Cardinality(new \cap Tractors) = 1
        <3>1. new \cap Tractors \subseteq Machines
            OBVIOUS
        <3> QED
            BY <1>1, <1>3, <3>1, FiniteKeysAssumption, FS_Subset
    <2>2. PICK x : new \cap Tractors = {x}
        BY <2>1, FS_Singleton
    <2> QED
        BY <1>2, <1>3, <2>2
<1>4. CASE Tractors \notin kinds
    <2>1. new \cap Tractors = {}
        BY <1>1, <1>4, KeysAssumption
    <2> QED
        BY <1>2, <1>4, <2>1
<1> QED
    BY <1>3, <1>4

\* No request makes a tractor one of the library's.
LEMMA RequestsAddNone ==
    ASSUME Types, NEW c \in Clients,
           \/ CreateTractor(c) \/ CreateImplement(c) \/ CheckRow(c) \/ Update(c) \/ Delete(c)
           \/ CheckTires(c) \/ SaveTires(c) \/ DeleteTires(c) \/ Abandon(c)
           \/ CheckRun(c) \/ StoreRun(c) \/ DeleteRun(c)
    PROVE  Library(Tractors)' \subseteq Library(Tractors)
<1>0. /\ rows \in [Machines -> Row \cup {Null}] /\ DOMAIN request = Clients
      /\ Tractors \subseteq Machines
    BY DEF Types, Machines
<1>1. ASSUME NEW t \in Tractors, rows[t] # Null, rows'[t] # Null, rows'[t].library
      PROVE  rows[t].library
    <2>1. rows[t] \in Row /\ Stored(t) /\ t \in Machines
        BY <1>0, <1>1, MachineIsKey DEF Stored
    <2>2. rows'[t] = rows[t] \/ Renamed(t)
        BY <1>1, <2>1, ClientRows
    <2> QED
        BY <1>1, <2>1, <2>2 DEF Renamed, Row
<1>2. ASSUME NEW t \in Tractors, rows[t] = Null, rows'[t] # Null
      PROVE  ~rows'[t].library
    <2>1. CASE CreateTractor(c)
        <3>1. PICK u \in Tractors :
                rows' = [rows EXCEPT ![u] = [name |-> "own", owner |-> OwnerOf[c], library |-> FALSE]]
            BY <2>1 DEF CreateTractor, Fresh
        <3>2. t = u
            BY <1>0, <1>2, <3>1
        <3>3. rows'[t] = [name |-> "own", owner |-> OwnerOf[c], library |-> FALSE]
            BY <1>0, <3>1, <3>2
        <3> QED
            BY <3>3
    <2>2. CASE CreateImplement(c)
        <3>1. PICK i \in Implements, r \in {[name |-> "own", owner |-> OwnerOf[c], library |-> l] : l \in BOOLEAN} :
                rows' = [rows EXCEPT ![i] = r]
            BY <2>2 DEF CreateImplement, Fresh
        <3>2. t # i
            BY KeysAssumption
        <3> QED
            BY <1>0, <1>2, <3>1, <3>2
    <2>3. CASE Update(c)
        <3>1. rows' = rows \/ \E n \in NewNames : Stored(request[c].machine) /\ rows' = [rows EXCEPT ![request[c].machine].name = n]
            BY <2>3 DEF Update
        <3> QED
            BY <1>0, <1>2, <3>1 DEF Stored
    <2>4. CASE Delete(c)
        BY <1>0, <1>2, <2>4 DEF Delete, Erase
    <2>5. CASE UNCHANGED rows
        BY <1>2, <2>5
    <2> QED
        BY <2>1, <2>2, <2>3, <2>4, <2>5
        DEF CheckRow, CheckTires, SaveTires, DeleteTires, Abandon, CheckRun, StoreRun, DeleteRun, Keep
<1> QED
    BY <1>1, <1>2 DEF Library

LEMMA SeedingInit == Init => Seeding
    BY DEF Init, Seeding, Unseeded, OneLibraryTractor, Library, Machines

LEMMA SeedingStep ==
    ASSUME StartsApart, Types, Seeding, [Next]_vars
    PROVE  Seeding'
<1> USE DEF Seeding
<1>0. /\ rows \in [Machines -> Row \cup {Null}] /\ Tractors \subseteq Machines
      /\ \A t \in Tractors : t # Null
    BY MachineIsKey DEF Types, Machines
\* No server is between its look at the library and its seeding.
<1>1. ASSUME \A b \in Boots : boot'[b] = Null, DOMAIN boot' = Boots, OneLibraryTractor'
      PROVE  Seeding'
    BY <1>1 DEF Unseeded
<1>2. ASSUME Library(Tractors)' \subseteq Library(Tractors), UNCHANGED boot
      PROVE  Seeding'
    BY <1>2 DEF Unseeded, OneLibraryTractor
<1>3. ASSUME NEW c \in Clients,
             \/ CreateTractor(c) \/ CreateImplement(c) \/ CheckRow(c) \/ Update(c) \/ Delete(c)
             \/ CheckTires(c) \/ SaveTires(c) \/ DeleteTires(c) \/ Abandon(c)
             \/ CheckRun(c) \/ StoreRun(c) \/ DeleteRun(c)
      PROVE  Seeding'
    <2>1. UNCHANGED boot
        BY <1>3 DEF CreateTractor, CreateImplement, CheckRow, Update, Delete, CheckTires, SaveTires,
                    DeleteTires, Abandon, CheckRun, StoreRun, DeleteRun, Done, Pend
    <2> QED
        BY <1>2, <1>3, <2>1, RequestsAddNone
<1>4. ASSUME NEW b \in Boots, CheckLibrary(b)
      PROVE  Seeding'
    <2>1. /\ UNCHANGED rows
          /\ boot' = [boot EXCEPT ![b] = {kind \in {Tractors, Implements} : Library(kind) = {}}]
        BY <1>4 DEF CheckLibrary
    <2>2. Library(Tractors)' = Library(Tractors)
        BY <2>1 DEF Library
    <2>3. ASSUME NEW a \in Boots, boot'[a] # Null
          PROVE  /\ boot'[a] \subseteq {Tractors, Implements}
                 /\ Tractors \in boot'[a] => Library(Tractors)' = {}
        BY <2>1, <2>2, <2>3 DEF Unseeded
    <2> QED
        BY <2>1, <2>2, <2>3 DEF Unseeded, OneLibraryTractor
<1>5. ASSUME NEW b \in Boots, SeedFails(b)
      PROVE  Seeding'
    BY <1>1, <1>5 DEF SeedFails, StartsApart, OneLibraryTractor, Library
<1>6. ASSUME NEW b \in Boots, SeedLibrary(b)
      PROVE  Seeding'
    <2>1. /\ boot[b] \in SUBSET {Tractors, Implements} /\ AddLibrary(boot[b], rows)
          /\ Tractors \in boot[b] => Library(Tractors) = {}
          /\ boot' = [boot EXCEPT ![b] = Null]
        BY <1>6 DEF SeedLibrary, Unseeded
    <2>2. PICK new \in SUBSET Tractors :
             /\ \A t, u \in new : t = u
             /\ Tractors \notin boot[b] => new = {}
             /\ \A t \in Tractors : rows'[t] = IF t \in new THEN LibraryRow ELSE rows[t]
        BY <2>1, AddedTractors
    <2>3. Library(Tractors)' \subseteq new \cup Library(Tractors)
        BY <2>2 DEF Library
    <2>4. OneLibraryTractor'
        BY <2>1, <2>2, <2>3 DEF OneLibraryTractor
    <2> QED
        BY <1>1, <1>6, <2>1, <2>4 DEF StartsApart, SeedLibrary
<1>7. CASE Upgrade
    <2> DEFINE kept == [m \in Machines |->
                          IF m \in Library(Tractors) THEN [rows[m] EXCEPT !.library = FALSE] ELSE rows[m]]
    <2>1. AddLibrary({Tractors}, kept) /\ UNCHANGED boot /\ \A b \in Boots : boot[b] = Null
        BY <1>7 DEF Upgrade
    <2>2. \A t \in Tractors : kept[t] # Null => ~kept[t].library
        <3>1. ASSUME NEW t \in Library(Tractors) PROVE ~[rows[t] EXCEPT !.library = FALSE].library
            <4>1. rows[t] \in Row
                BY <1>0 DEF Library
            <4> QED
                BY <4>1 DEF Row
        <3> QED
            BY <1>0, <3>1 DEF Library
    <2> HIDE DEF kept
    <2>3. PICK new \in SUBSET Tractors :
             /\ \A t, u \in new : t = u
             /\ \A t \in Tractors : rows'[t] = IF t \in new THEN LibraryRow ELSE kept[t]
        BY <2>1, AddedTractors
    <2>4. Library(Tractors)' \subseteq new
        BY <2>2, <2>3 DEF Library
    <2> QED
        BY <1>1, <2>1, <2>3, <2>4 DEF OneLibraryTractor
<1>8. CASE Reseed
    <2> DEFINE gone == Library(Tractors) \cup Library(Implements)
               kept == [m \in Machines |-> IF m \in gone THEN Null ELSE rows[m]]
    <2>1. AddLibrary({Tractors, Implements}, kept) /\ UNCHANGED boot /\ \A b \in Boots : boot[b] = Null
        BY <1>8 DEF Reseed
    <2>2. \A t \in Tractors : kept[t] # Null => ~kept[t].library
        BY <1>0 DEF Library
    <2> HIDE DEF kept
    <2>3. PICK new \in SUBSET Tractors :
             /\ \A t, u \in new : t = u
             /\ \A t \in Tractors : rows'[t] = IF t \in new THEN LibraryRow ELSE kept[t]
        BY <2>1, AddedTractors
    <2>4. Library(Tractors)' \subseteq new
        BY <2>2, <2>3 DEF Library
    <2> QED
        BY <1>1, <2>1, <2>3, <2>4 DEF OneLibraryTractor
<1>9. CASE SeedOwner
    <2> DEFINE row == [LibraryRow EXCEPT !.owner = TargetOwner, !.library = FALSE]
    <2>1. \E new \in SUBSET (Machines \ used) : rows' = [m \in Machines |-> IF m \in new THEN row ELSE rows[m]]
        BY <1>9 DEF SeedOwner
    <2>2. ~row.library
        BY DEF LibraryRow
    <2> HIDE DEF row
    <2>3. Library(Tractors)' \subseteq Library(Tractors)
        BY <1>0, <2>1, <2>2 DEF Library
    <2> QED
        BY <1>2, <1>9, <2>3 DEF SeedOwner
<1>10. CASE UNCHANGED <<rows, boot>>
    BY <1>2, <1>10 DEF Library
<1> QED
    BY <1>3, <1>4, <1>5, <1>6, <1>7, <1>8, <1>9, <1>10 DEF Next, vars, StartSession

\* While no server starts between another's look at the library and its seeding, no seeding
\* doubles a tractor of the library, whatever the migration, the scripts and the requests
\* did before or do meanwhile.
THEOREM LibraryIsSeededOnce == Spec /\ []StartsApart => []OneLibraryTractorPerName
<1>1. Init => Types /\ Seeding
    BY TypesInit, SeedingInit
<1>2. StartsApart /\ Types /\ Seeding /\ [Next]_vars => Types' /\ Seeding'
    BY TypesStep, SeedingStep
<1>3. Seeding => OneLibraryTractorPerName
    BY DEF Seeding, OneLibraryTractor, OneLibraryTractorPerName
<1> QED
    BY <1>1, <1>2, <1>3, PTL DEF Spec
=============================================================================
