----------------------------- MODULE Repository -----------------------------
(***************************************************************************)
(* The two device repositories: `DeviceRepositoryMemory` and               *)
(* `SqliteDeviceRepository` (repository/), given the same calls in the     *)
(* same sessions.                                                          *)
(*                                                                         *)
(* A session of the one in memory works on the shared dict itself.  One of *)
(* the other has a connection of its own: it reads what is committed and   *)
(* what it wrote itself; the first to write keeps the others from writing  *)
(* until its session ends, and what it wrote is kept if that ends cleanly. *)
(* Sessions of an integration touch ids that are its own, or nobody's.     *)
(***************************************************************************)
EXTENDS FiniteSets

CONSTANTS
    Ids,
    Integrations,
    Owner,          \* whose id each is
    Sessions,       \* the sessions open at once
    Values          \* what a name, an integration's data or a parameter may be

None == "none"

\* Who may use a session: an integration, or the hub with full access.
Hub == "hub"
Scope == Integrations \cup {Hub}

\* A stored record.  Its data may be empty; it has a parameter once a DeviceState is saved.
Parameter == [value : Values, visible : BOOLEAN]
NoParameter == [value |-> None, visible |-> FALSE]
Empty == "empty"
Record == [integration : Integrations, name : Values, data : Values \cup {Empty},
           parameter : Parameter \cup {NoParameter}]
Absent == [integration |-> None, name |-> None, data |-> Empty, parameter |-> NoParameter]

VARIABLES
    memory,     \* `_store`
    committed,  \* what the file holds
    written,    \* what it would hold once the session that writes ends, as that one sees it
    writer,     \* the session that writes, or None
    open,       \* whose each session is, or None
    parted      \* whether one failed: in memory, what it did stays

vars == <<memory, committed, written, writer, open, parted>>

Init ==
    /\ memory = [i \in Ids |-> Absent]
    /\ committed = memory /\ written = memory
    /\ writer = None
    /\ open = [x \in Sessions |-> None]
    /\ parted = FALSE

-----------------------------------------------------------------------------
(* One record: `merge`. *)

\* What is saved: a Device, or a DeviceState, with its data or with that unset.
Unset == "unset"
Device == [integration : Integrations, name : Values, data : Values \cup {Empty, Unset},
           parameter : Parameter \cup {NoParameter}]

Merged(base, device) ==
    [integration |-> device.integration, name |-> device.name,
     data |-> IF device.data # Unset THEN device.data ELSE base.data,
     parameter |-> IF device.parameter # NoParameter THEN device.parameter ELSE base.parameter]

-----------------------------------------------------------------------------
(* The calls, on what each of the two has. *)

InScope(scope, record) == record # Absent /\ scope \in {Hub, record.integration}
Owned(store, scope, i) == IF InScope(scope, store[i]) THEN store[i] ELSE Absent

\* Slip: what was stored under the id before is not carried over.
SavedMemoryAnew(store, scope, i, previous, device) ==
    [store EXCEPT ![previous] = IF previous # i THEN Absent ELSE @, ![i] = Merged(store[i], device)]

\* `save` in memory: the record of the previous id is moved, whosever it is.
SavedMemory(store, scope, i, previous, device) ==
    LET base == IF previous # i /\ store[previous] # Absent THEN store[previous] ELSE store[i]
    IN  [store EXCEPT ![previous] = IF previous # i THEN Absent ELSE @, ![i] = Merged(base, device)]

\* `save` in SQLite: it is carried over if it is the integration's, and deleted in any case.
SavedSqlite(store, scope, i, previous, device) ==
    LET carried == IF previous # i THEN Owned(store, scope, previous) ELSE Absent
        base == IF carried # Absent THEN carried ELSE Owned(store, scope, i)
    IN  [store EXCEPT ![previous] = IF previous # i THEN Absent ELSE @, ![i] = Merged(base, device)]

WithParameter(store, scope, i, parameter) ==
    IF Owned(store, scope, i).parameter = NoParameter THEN store
    ELSE [store EXCEPT ![i].parameter = parameter]

WithVisibility(store, scope, i, visible) ==
    IF Owned(store, scope, i).parameter = NoParameter THEN store
    ELSE [store EXCEPT ![i].parameter.visible = visible]

\* What is read of each device: get_all, get, state and get_parameter_state are views of it.
ReadInMemory(scope) == [i \in Ids |-> Owned(memory, scope, i)]

\* In SQLite a session sees what is committed, and what it wrote itself.
ReadInSqlite(x, scope) ==
    [i \in Ids |-> Owned(IF writer = x THEN written ELSE committed, scope, i)]

Deleted(store, scope, i) ==
    IF InScope(scope, store[i]) THEN [store EXCEPT ![i] = Absent] ELSE store

-----------------------------------------------------------------------------
(* Sessions. *)

\* Bound: none once the two parted.
Open(x, scope) ==
    /\ open[x] = None /\ ~ parted
    /\ open' = [open EXCEPT ![x] = scope]
    /\ UNCHANGED <<memory, committed, written, writer, parted>>

\* A call that writes: in memory at once, in SQLite as the session that writes.
Writes(x, inMemory, inSqlite) ==
    /\ open[x] # None /\ writer \in {x, None} /\ ~ parted
    /\ memory' = inMemory
    /\ written' = inSqlite
    /\ writer' = x
    /\ UNCHANGED <<committed, open, parted>>

\* While another writes, it fails: "database is locked".
IsLocked(x) == writer \notin {x, None}

Save(x, i, previous, device) ==
    /\ open[x] \in {Hub, device.integration}
    /\ device.integration = Owner[i] /\ Owner[previous] = Owner[i]
    /\ Writes(x, SavedMemory(memory, open[x], i, previous, device),
                 SavedSqlite(written, open[x], i, previous, device))

\* One of a device it doesn't know is an error, as the next action has it.
SaveParameter(x, i, parameter) ==
    /\ Owned(written, open[x], i) # Absent
    /\ Writes(x, WithParameter(memory, open[x], i, parameter),
                 WithParameter(written, open[x], i, parameter))

\* The hub's own calls.
UpdateVisibility(x, i, visible) ==
    /\ open[x] = Hub
    /\ Writes(x, WithVisibility(memory, Hub, i, visible), WithVisibility(written, Hub, i, visible))

Delete(x, i) ==
    /\ open[x] = Hub
    /\ Writes(x, Deleted(memory, Hub, i), Deleted(written, Hub, i))

\* Slip: the connection is closed, and what it wrote is gone.
CloseUncommitted(x) ==
    /\ open[x] # None
    /\ open' = [open EXCEPT ![x] = None]
    /\ written' = committed
    /\ writer' = None
    /\ UNCHANGED <<memory, committed, parted>>

Close(x) ==
    /\ open[x] # None
    /\ open' = [open EXCEPT ![x] = None]
    /\ IF writer = x
       THEN committed' = written /\ writer' = None
       ELSE UNCHANGED <<committed, writer>>
    /\ UNCHANGED <<memory, written, parted>>

\* It ends on an error, of its own or for the lock: SQLite takes back all it wrote.
Fail(x) ==
    /\ open[x] # None
    /\ open' = [open EXCEPT ![x] = None]
    /\ IF writer = x
       THEN written' = committed /\ writer' = None /\ parted' = TRUE
       ELSE parted' = (parted \/ IsLocked(x)) /\ UNCHANGED <<written, writer>>
    /\ UNCHANGED <<memory, committed>>

\* The process dies: what is in memory is gone, what is committed is not.
Crash ==
    /\ memory' = [i \in Ids |-> Absent]
    /\ written' = committed
    /\ writer' = None
    /\ open' = [x \in Sessions |-> None]
    /\ parted' = TRUE
    /\ UNCHANGED committed

Next ==
    \/ \E x \in Sessions :
          \/ \E scope \in Scope : Open(x, scope)
          \/ Close(x) \/ Fail(x)
          \/ \E i \in Ids :
                \/ Delete(x, i)
                \/ \E p \in Parameter : SaveParameter(x, i, p)
                \/ \E visible \in BOOLEAN : UpdateVisibility(x, i, visible)
                \/ \E previous \in Ids, device \in Device : Save(x, i, previous, device)
    \/ Crash

Spec == Init /\ [][Next]_vars

-----------------------------------------------------------------------------

Store == [Ids -> Record \cup {Absent}]

TypeOK ==
    /\ {memory, committed, written} \subseteq Store
    /\ writer \in Sessions \cup {None}
    /\ open \in [Sessions -> Scope \cup {None}]
    /\ parted \in BOOLEAN

\* "The SDK ships two first-class implementations": as long as none failed, what one session
\* alone reads, also of what it just wrote, is the same in both: of each device the
\* integration's half and the parameters', to each scope.
SameInBoth ==
    ~ parted => \A x \in Sessions, scope \in Scope :
        (\A y \in Sessions \ {x} : open[y] = None) => ReadInMemory(scope) = ReadInSqlite(x, scope)
-----------------------------------------------------------------------------
(* Why: the inductive invariant. *)

\* What is stored under an id is its owner's: no save is under an id another has.
StoredByOwner ==
    \A store \in {memory, committed, written}, i \in Ids :
        store[i] # Absent => store[i].integration = Owner[i]

\* What is written beside what is committed has an open session that commits it.
WriterIsOpen ==
    IF writer = None THEN written = committed ELSE open[writer] # None

\* Each call wrote the same to both.
WritesAlike == ~ parted => memory = written

IInv == TypeOK /\ StoredByOwner /\ WriterIsOpen /\ WritesAlike
=============================================================================
