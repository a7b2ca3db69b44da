------------------------------ MODULE Zeroconf ------------------------------
(***************************************************************************)
(* mDNS discovery: `ZeroconfDiscoveryService` of providers/zeroconf.py and *)
(* the `_ServiceListenerAdapter` of each registration.                     *)
(*                                                                         *)
(* The browser of a registration tells its adapter of records; a resolve   *)
(* is scheduled, at most one per name, and then runs in a task of its own, *)
(* as do the confirmation of an expired address and, after a goodbye, the  *)
(* telling itself.  Whether and what a name answers is arbitrary, and so   *)
(* is what the cache of the zeroconf library holds.                        *)
(***************************************************************************)
EXTENDS Naturals, FiniteSets

CONSTANTS
    Registrations,  \* the calls of `register` there may be
    Names,
    Versions,       \* what a service tells of itself, as __eq__ compares it; none is 0
    MaxTasks        \* bound: timers, and tasks of one kind, of one name at once

Unknown == 0

VARIABLES
    service,        \* "off", "on", or "stopping" (`_async_zeroconf` is there until it is off)
    registration,   \* how far each one is: "none", "pending", "live" or "over"
    early,          \* the ones made before the start: what they return undoes no more than that
    browsing,       \* the ones whose browser calls their adapter
    queue,          \* of each name in `_resolve_later_queue`: whether its timer is set or fired
    known,          \* what each adapter knows of each name (`_known_names`), or Unknown
    tasks,          \* how many timers and tasks of each kind there are
    parted,         \* the <<registration, name>>s with a goodbye behind them
    told,           \* the calls to each listener about each name, until a goodbye
    last            \* the last call to it, of all

vars == <<service, registration, early, browsing, queue, known, tasks, parted, told, last>>
calls == <<told, last>>

Promise == INSTANCE Discovery WITH Things <- Names

NoTasks == [timers |-> 0, due |-> 0, resolving |-> 0, confirming |-> 0, removing |-> 0]

Init ==
    /\ service = "off"
    /\ registration = [r \in Registrations |-> "none"]
    /\ early = {}
    /\ browsing = {}
    /\ queue = [r \in Registrations |-> [n \in Names |-> "none"]]
    /\ known = [r \in Registrations |-> [n \in Names |-> Unknown]]
    /\ tasks = [r \in Registrations |-> [n \in Names |-> NoTasks]]
    /\ parted = {}
    /\ Promise!Init
    /\ last = told

-----------------------------------------------------------------------------
(* What is called from outside. *)

Register(r) ==
    /\ registration[r] = "none"
    /\ IF service = "off"
       THEN /\ registration' = [registration EXCEPT ![r] = "pending"]
            /\ early' = early \cup {r}
            /\ UNCHANGED browsing
       ELSE /\ registration' = [registration EXCEPT ![r] = "live"]
            /\ browsing' = browsing \cup {r}
            /\ UNCHANGED early
    /\ UNCHANGED <<service, queue, known, tasks, parted, calls>>

\* `cancel_all_pending`: the timers in the queues are no more; those that fired go on.
CancelQueued(rs) ==
    /\ queue' = [r \in Registrations |->
                    IF r \in rs THEN [n \in Names |-> "none"] ELSE queue[r]]
    /\ tasks' = [r \in Registrations |-> [n \in Names |->
                    IF r \in rs /\ queue[r][n] = "set"
                    THEN [tasks[r][n] EXCEPT !.timers = @ - 1] ELSE tasks[r][n]]]

\* What registering returned.  One made before the start finds nothing to undo after it.
Cancel(r) ==
    /\ \/ /\ registration[r] = "pending"
          /\ UNCHANGED <<queue, tasks>>
       \/ /\ registration[r] = "live" /\ r \notin early
          /\ CancelQueued({r})
    /\ registration' = [registration EXCEPT ![r] = "over"]
    /\ UNCHANGED <<service, early, browsing, known, parted, calls>>

Pending == {r \in Registrations : registration[r] = "pending"}
Live == {r \in Registrations : registration[r] = "live"}

Start ==
    /\ service = "off"
    /\ service' = "on"
    /\ registration' = [r \in Registrations |-> IF r \in Pending THEN "live" ELSE registration[r]]
    /\ browsing' = browsing \cup Pending
    /\ UNCHANGED <<early, queue, known, tasks, parted, calls>>

\* Then its browsers end one by one; those that did not yet still schedule.
Stop ==
    /\ service = "on"
    /\ service' = "stopping"
    /\ CancelQueued(Live)
    /\ UNCHANGED <<registration, early, browsing, known, parted, calls>>

EndBrowse(r) ==
    /\ r \in browsing
    /\ registration[r] = "over" \/ service = "stopping"
    /\ browsing' = browsing \ {r}
    /\ UNCHANGED <<service, registration, early, queue, known, tasks, parted, calls>>

\* The adapters are dropped, then zeroconf closes.
Stopped ==
    /\ service = "stopping" /\ browsing \cap Live = {}
    /\ service' = "off"
    /\ registration' = [r \in Registrations |-> IF r \in Live THEN "over" ELSE registration[r]]
    /\ browsing' = {}
    /\ UNCHANGED <<early, queue, known, tasks, parted, calls>>

-----------------------------------------------------------------------------
(* Telling a listener: what is known and the call change at once. *)

Told(r, n, call) ==
    /\ told' = IF <<r, n>> \in parted THEN told
               ELSE [told EXCEPT ![r][n] = Promise!After(@, call)]
    /\ last' = [last EXCEPT ![r][n] = call]

\* `__eq__`: all it tells of itself but its TTLs is as known.
IsAsKnown(r, n, v) == known[r][n] = v

\* It answered with this: found, changed, or refreshed silently.
Learn(r, n, v) ==
    /\ known' = [known EXCEPT ![r][n] = v]
    /\ IF known[r][n] = Unknown THEN Told(r, n, "found")
       ELSE IF ~ IsAsKnown(r, n, v) THEN Told(r, n, "updated")
       ELSE UNCHANGED calls

-----------------------------------------------------------------------------
(* Records, and the resolves they schedule. *)

\* `_schedule_resolve` of these names, not in the queue; and the confirmation of those.
Scheduled(r, resolves, confirms) ==
    /\ \A n \in resolves : tasks[r][n].timers < MaxTasks
    /\ \A n \in confirms : tasks[r][n].confirming < MaxTasks
    /\ queue' = [queue EXCEPT ![r] = [n \in Names |->
                    IF n \in resolves THEN "set" ELSE queue[r][n]]]
    /\ tasks' = [tasks EXCEPT ![r] = [n \in Names |->
                    IF n \in resolves THEN [tasks[r][n] EXCEPT !.timers = @ + 1]
                    ELSE IF n \in confirms THEN [tasks[r][n] EXCEPT !.confirming = @ + 1]
                    ELSE tasks[r][n]]]

\* `add_service`, `update_service`.
HearRecord(r, n) ==
    /\ r \in browsing
    /\ queue[r][n] = "none"
    /\ Scheduled(r, {n}, {})
    /\ UNCHANGED <<service, registration, early, browsing, known, parted, calls>>

\* `remove_service`: also of one that is not known; it is told in a task.
Goodbye(r, n) ==
    /\ r \in browsing
    /\ tasks[r][n].removing < MaxTasks
    /\ queue' = [queue EXCEPT ![r][n] = "none"]
    /\ tasks' = [tasks EXCEPT ![r][n].removing = @ + 1,
                              ![r][n].timers = IF queue[r][n] = "set" THEN @ - 1 ELSE @]
    /\ known' = [known EXCEPT ![r][n] = Unknown]
    /\ parted' = parted \cup {<<r, n>>}
    /\ UNCHANGED <<service, registration, early, browsing, calls>>

TellRemoved(r, n) ==
    /\ tasks[r][n].removing > 0
    /\ tasks' = [tasks EXCEPT ![r][n].removing = @ - 1]
    /\ Told(r, n, "lost")
    /\ UNCHANGED <<service, registration, early, browsing, queue, known, parted>>

\* The one in the queue, or one that is there no more since another resolve took its place.
TimerFires(r, n) ==
    /\ tasks[r][n].timers > 0 /\ tasks[r][n].due < MaxTasks
    /\ tasks' = [tasks EXCEPT ![r][n].timers = @ - 1, ![r][n].due = @ + 1]
    /\ \/ queue[r][n] = "set" /\ queue' = [queue EXCEPT ![r][n] = "fired"]
       \/ (queue[r][n] = "set" => tasks[r][n].timers > 1) /\ UNCHANGED queue
    /\ UNCHANGED <<service, registration, early, browsing, known, parted, calls>>

\* `_do_resolve`: it pops whatever is in the queue by now, and is answered by the cache at
\* once, asks the network, or ends on its assertion.
BeginResolve(r, n) ==
    /\ tasks[r][n].due > 0
    /\ queue' = [queue EXCEPT ![r][n] = "none"]
    /\ \/ /\ service # "off"
          /\ tasks[r][n].resolving < MaxTasks
          /\ tasks' = [tasks EXCEPT ![r][n].due = @ - 1, ![r][n].resolving = @ + 1]
          /\ UNCHANGED <<known, calls>>
       \/ /\ service # "off"
          /\ tasks' = [tasks EXCEPT ![r][n].due = @ - 1]
          /\ \E v \in Versions : Learn(r, n, v)
       \/ /\ service = "off"
          /\ tasks' = [tasks EXCEPT ![r][n].due = @ - 1]
          /\ UNCHANGED <<known, calls>>
    /\ UNCHANGED <<service, registration, early, browsing, parted>>

\* Answered, also after a goodbye, a cancel or a stop; or not, or without its port.
EndResolve(r, n) ==
    /\ tasks[r][n].resolving > 0
    /\ tasks' = [tasks EXCEPT ![r][n].resolving = @ - 1]
    /\ \/ \E v \in Versions : Learn(r, n, v)
       \/ UNCHANGED <<known, calls>>
    /\ UNCHANGED <<service, registration, early, browsing, queue, parted>>

-----------------------------------------------------------------------------
(* The poll of the cache: `sync_with_cache` of an adapter. *)

\* It confirms the names it knows whose addresses expired, but those in the queue, and
\* schedules those that the cache has a live record of and it knows nothing of.
SyncWithCache(r) ==
    /\ service = "on" /\ registration[r] = "live"
    /\ \E expired, alive \in SUBSET Names :
          Scheduled(r, {n \in alive : known[r][n] = Unknown /\ queue[r][n] = "none"},
                       {n \in expired : known[r][n] # Unknown /\ queue[r][n] = "none"})
    /\ UNCHANGED <<service, registration, early, browsing, known, parted, calls>>

\* Slip: told though it is known no more.
UnreachableAnyway(r, n) ==
    /\ known' = [known EXCEPT ![r][n] = Unknown]
    /\ Told(r, n, "lost")

Unreachable(r, n) ==
    IF known[r][n] = Unknown THEN UNCHANGED <<known, calls>>
    ELSE /\ known' = [known EXCEPT ![r][n] = Unknown]
         /\ Told(r, n, "lost")

\* `_confirm_evict`: no answer, or one about a name still known; without a port it is no news.
EndConfirm(r, n) ==
    /\ tasks[r][n].confirming > 0
    /\ tasks' = [tasks EXCEPT ![r][n].confirming = @ - 1]
    /\ \/ Unreachable(r, n)
       \/ known[r][n] # Unknown /\ \E v \in Versions : Learn(r, n, v)
       \/ UNCHANGED <<known, calls>>
    /\ UNCHANGED <<service, registration, early, browsing, queue, parted>>

-----------------------------------------------------------------------------
(* Together. *)

Next ==
    \/ Start \/ Stop \/ Stopped
    \/ \E r \in Registrations :
          \/ Register(r) \/ Cancel(r) \/ EndBrowse(r) \/ SyncWithCache(r)
          \/ \E n \in Names :
                \/ HearRecord(r, n) \/ Goodbye(r, n) \/ TellRemoved(r, n)
                \/ TimerFires(r, n) \/ BeginResolve(r, n) \/ EndResolve(r, n)
                \/ EndConfirm(r, n)

Spec == Init /\ [][Next]_vars

-----------------------------------------------------------------------------
(* What it promises. *)

TypeOK ==
    /\ service \in {"off", "on", "stopping"}
    /\ registration \in [Registrations -> {"none", "pending", "live", "over"}]
    /\ early \subseteq Registrations /\ browsing \subseteq Registrations
    /\ queue \in [Registrations -> [Names -> {"none", "set", "fired"}]]
    /\ known \in [Registrations -> [Names -> Versions \cup {Unknown}]]
    /\ tasks \in [Registrations -> [Names -> [DOMAIN NoTasks -> 0..MaxTasks]]]
    /\ parted \subseteq Registrations \X Names
    /\ told \in [Registrations -> [Names -> Promise!Call]]
    /\ last \in [Registrations -> [Names -> Promise!Call]]

\* Until a goodbye of a name, whatever resolves, confirmations, cancels and restarts come in
\* between, each listener hears found, updated and lost in order about it.
ToldInOrder == Promise!Spec

\* The documented contract (capabilities/zeroconf.py): a listener is called about services
\* as they come, change and go; so what its registration knows, it was told of last.
KnownIsTold ==
    \A r \in Live, n \in Names :
        service = "on" /\ tasks[r][n].removing = 0 /\ known[r][n] # Unknown
            => last[r][n] \in {"found", "updated"}
-----------------------------------------------------------------------------
(* Why: the inductive invariant. *)

\* Each resolve in the queue whose timer is set has one.
QueuedIsTimed ==
    \A r \in Registrations, n \in Names : queue[r][n] = "set" => tasks[r][n].timers > 0

\* What is removed had a goodbye.
RemovedIsParted ==
    \A r \in Registrations, n \in Names : tasks[r][n].removing > 0 => <<r, n>> \in parted

\* Until a goodbye, what is known was told found or updated last, and only that.
KnownWasFound ==
    \A r \in Registrations, n \in Names : <<r, n>> \notin parted =>
        (known[r][n] # Unknown <=> told[r][n] \in {"found", "updated"})

IInv == TypeOK /\ QueuedIsTimed /\ RemovedIsParted /\ KnownWasFound
=============================================================================
