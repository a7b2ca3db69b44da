----------------------------- MODULE BleSources -----------------------------
(***************************************************************************)
(* The sources of the Bluetooth router and the leases of them: `BLEService`*)
(* of providers/ble/router.py.                                             *)
(*                                                                         *)
(* The runtime adds, removes, starts and stops the sources, clients lease  *)
(* one each, the eviction loop restarts silent ones, and a burst switches  *)
(* how they scan.  Each awaits the source it works on, all in turns on one *)
(* asyncio loop: `jobs` are the awaited operations.  Which source is asked *)
(* for, which is silent and when a wait times out are arbitrary.  A source *)
(* does what it is asked in turn, as `LocalAdapter` has it (`_scan_lock`). *)
(* That a start lets go of sources a cut-off stop left, if they are not    *)
(* bound any more, is left out.                                            *)
(***************************************************************************)
EXTENDS Naturals, Sequences, SequencesExt

CONSTANTS
    Names,      \* the names sources have
    Given,      \* the ones the router is made with; the others the runtime binds
    Pausable,   \* the ones that are a PausableBLESource; the others are stopped
    Clients     \* the calls of `exclusive` at once

VARIABLES
    isRunning,  \* `_is_running`
    sources,    \* the names in `_sources`
    radio,      \* what the source of each name does: "off", "scanning" or "paused"
    runtime,    \* what the runtime awaits of the router: "none", "start", "stop" or "hook"
    loop,       \* the eviction loop: where it is, what it is yet to revive and whose source
                \* it has is not the one of that name any more
    client,     \* how far each call of `exclusive` is, and with which source
    holder,     \* who holds the lock of each name in `_leases`, or NoOne
    leased,     \* the names in `_leased`
    jobs        \* the operations awaited, in the order they were asked for: by whom, of which
                \* source, what, and whether it still is the one of that name

vars == <<isRunning, sources, radio, runtime, loop, client, holder, leased, jobs>>

NoOne == "no one"
None  == "none"

Job == [by : Clients \cup {"runtime", "loop", "burst", "connect"}, source : Names, same : BOOLEAN,
        at : {"stopping", "starting", "pausing", "resuming", "switching", "restarting", "connecting"}]

JobOf(by, n, at, same) == [by |-> by, source |-> n, same |-> same, at |-> at]
Out == [at |-> "out", source |-> None]
NoLoop == [at |-> "off", todo |-> {}, old |-> {}]

Init ==
    /\ isRunning = FALSE
    /\ sources = Given
    /\ radio = [n \in Names |-> "off"]
    /\ runtime = "none"
    /\ loop = NoLoop
    /\ client = [c \in Clients |-> Out]
    /\ holder = [n \in Names |-> NoOne]
    /\ leased = {}
    /\ jobs = <<>>

IsLeased(n) == holder[n] # NoOne
MayStart(n) == ~ IsLeased(n) \/ n \in Pausable

Awaits(by) == \E i \in DOMAIN jobs : jobs[i].by = by
Without(by) == SelectSeq(jobs, LAMBDA j : j.by # by)
AskAll(ns, at) == jobs \o SetToSeq({JobOf("runtime", n, at, TRUE) : n \in ns})

\* What the source does once the operation is over; one let go of does nothing anyone hears.
Does(j, what) == radio' = [radio EXCEPT ![j.source] = IF j.same THEN what ELSE @]

\* `_sources` has this source no more.
LetGo(n) ==
    /\ sources' = sources \ {n}
    /\ loop' = [loop EXCEPT !.old = @ \cup (loop.todo \cap {n})]

Outdated(js, n) == [i \in DOMAIN js |-> [js[i] EXCEPT !.same = @ /\ js[i].source # n]]

-----------------------------------------------------------------------------
(* The runtime: it awaits one of start, stop and a hook at a time. *)

\* `start`: `_follow_bound` finds what is bound, and `_start_sources` starts all that may.
Start(bound) ==
    /\ runtime = "none" /\ ~ isRunning
    /\ bound \cap sources = {}
    /\ isRunning' = TRUE
    /\ runtime' = "start"
    /\ sources' = sources \cup bound
    /\ radio' = [n \in Names |-> IF n \in bound THEN "off" ELSE radio[n]]
    /\ jobs' = AskAll({n \in sources' : MayStart(n)}, "starting")
    /\ UNCHANGED <<loop, client, holder, leased>>

Started ==
    /\ runtime = "start" /\ ~ Awaits("runtime")
    /\ runtime' = "none"
    /\ loop' = [NoLoop EXCEPT !.at = "asleep"]
    /\ UNCHANGED <<isRunning, sources, radio, client, holder, leased, jobs>>

\* A hook finds one more bound: `add_source`.
AddSource(n) ==
    /\ runtime = "none" /\ isRunning
    /\ n \notin sources
    /\ sources' = sources \cup {n}
    /\ radio' = [radio EXCEPT ![n] = "off"]
    /\ IF MayStart(n)
       THEN /\ runtime' = "hook"
            /\ jobs' = Append(jobs, JobOf("runtime", n, "starting", TRUE))
       ELSE UNCHANGED <<runtime, jobs>>
    /\ UNCHANGED <<isRunning, loop, client, holder, leased>>

\* A hook finds one lost: `remove_source`, which lets go of it and then stops it.
RemoveSource(n) ==
    /\ runtime = "none" /\ isRunning
    /\ n \in sources \ Given
    /\ runtime' = "hook"
    /\ LetGo(n)
    /\ jobs' = Append(Outdated(jobs, n), JobOf("runtime", n, "stopping", FALSE))
    /\ UNCHANGED <<isRunning, radio, client, holder, leased>>

HookDone ==
    /\ runtime = "hook" /\ ~ Awaits("runtime")
    /\ runtime' = "none"
    /\ UNCHANGED <<isRunning, sources, radio, loop, client, holder, leased, jobs>>

Stop ==
    /\ runtime = "none" /\ isRunning
    /\ isRunning' = FALSE
    /\ runtime' = "stop"
    /\ jobs' = AskAll(sources, "stopping")
    /\ UNCHANGED <<sources, radio, loop, client, holder, leased>>

\* All stopped: what was bound is let go of, and the tasks it spawned are cancelled.
Stopped ==
    /\ runtime = "stop" /\ ~ Awaits("runtime")
    /\ runtime' = "none"
    /\ sources' = sources \cap Given
    /\ loop' = NoLoop
    /\ jobs' = LET left == SelectSeq(jobs, LAMBDA j : j.by \notin {"loop", "burst"})
               IN  [i \in DOMAIN left |-> [left[i] EXCEPT !.same = @ /\ left[i].source \in Given]]
    /\ UNCHANGED <<isRunning, radio, client, holder, leased>>

\* The runtime cuts off what takes too long; the source is left as it was.
CutOff ==
    /\ Awaits("runtime")
    /\ runtime' = "none"
    /\ jobs' = Without("runtime")
    /\ UNCHANGED <<isRunning, sources, radio, loop, client, holder, leased>>

-----------------------------------------------------------------------------
(* A lease: `exclusive` and `_acquire`. *)

\* The next candidate: any, also one that heard the device before it was removed.
WaitFor(c, n) ==
    /\ client[c].at = "out"
    /\ client' = [client EXCEPT ![c] = [at |-> "waiting", source |-> n]]
    /\ UNCHANGED <<isRunning, sources, radio, runtime, loop, holder, leased, jobs>>

\* Its wait for this one, or for any, is over.
GiveUp(c) ==
    /\ client[c].at = "waiting"
    /\ client' = [client EXCEPT ![c] = Out]
    /\ UNCHANGED <<isRunning, sources, radio, runtime, loop, holder, leased, jobs>>

\* Slip: the lock of one removed meanwhile is kept.
PassOverHeld(c, n) ==
    /\ client' = [client EXCEPT ![c] = Out]
    /\ holder' = [holder EXCEPT ![n] = c]
    /\ UNCHANGED <<leased, jobs>>

\* One removed meanwhile: its lock is released, the next candidate is tried.
PassOver(c, n) ==
    /\ client' = [client EXCEPT ![c] = Out]
    /\ UNCHANGED <<holder, leased, jobs>>

\* It has the lock: leased from now on, the source is silenced.
Lease(c, n) ==
    /\ client' = [client EXCEPT ![c].at = "pausing"]
    /\ holder' = [holder EXCEPT ![n] = c]
    /\ leased' = leased \cup {n}
    /\ jobs' = Append(jobs, JobOf(c, n, IF n \in Pausable THEN "pausing" ELSE "stopping", TRUE))

Acquire(c) ==
    LET n == client[c].source IN
    /\ client[c].at = "waiting" /\ ~ IsLeased(n)
    /\ IF n \in sources THEN Lease(c, n) ELSE PassOver(c, n)
    /\ UNCHANGED <<isRunning, sources, radio, runtime, loop>>

\* The holder goes on with the source of that name, if there is one by now.
Hold(c) ==
    /\ client[c].at = "pausing" /\ ~ Awaits(c)
    /\ client' = [client EXCEPT ![c].at = IF client[c].source \in sources THEN "in" ELSE "leaving"]
    /\ UNCHANGED <<isRunning, sources, radio, runtime, loop, holder, leased, jobs>>

\* It is done, or cancelled, also while the source is being silenced.
Leave(c) ==
    /\ client[c].at \in {"pausing", "in"}
    /\ client' = [client EXCEPT ![c].at = "leaving"]
    /\ jobs' = Without(c)
    /\ UNCHANGED <<isRunning, sources, radio, runtime, loop, holder, leased>>

\* `_release`, shielded: the source hears again.
Resume(c) ==
    LET n == client[c].source IN
    /\ client[c].at = "leaving"
    /\ client' = [client EXCEPT ![c].at = "resuming"]
    /\ jobs' = IF isRunning /\ n \in sources
               THEN Append(jobs, JobOf(c, n, IF n \in Pausable THEN "resuming" ELSE "starting", TRUE))
               ELSE jobs
    /\ UNCHANGED <<isRunning, sources, radio, runtime, loop, holder, leased>>

Release(c) ==
    LET n == client[c].source IN
    /\ client[c].at = "resuming" /\ ~ Awaits(c)
    /\ client' = [client EXCEPT ![c] = Out]
    /\ leased' = leased \ {n}
    /\ holder' = [holder EXCEPT ![n] = NoOne]
    /\ UNCHANGED <<isRunning, sources, radio, runtime, loop, jobs>>

-----------------------------------------------------------------------------
(* The eviction loop's `_revive_silent`, and a burst's `_rescan`. *)

BeginRevive ==
    /\ loop.at = "asleep"
    /\ loop' = IF isRunning THEN [at |-> "reviving", todo |-> sources, old |-> {}] ELSE NoLoop
    /\ UNCHANGED <<isRunning, sources, radio, runtime, client, holder, leased, jobs>>

\* The next one: passed over if it is leased or heard something, else stopped.
ReviveNext(n) ==
    /\ loop.at = "reviving" /\ ~ Awaits("loop")
    /\ n \in loop.todo
    /\ loop' = [loop EXCEPT !.todo = @ \ {n}, !.old = @ \ {n}]
    /\ \/ UNCHANGED jobs
       \/ /\ ~ IsLeased(n)
          /\ jobs' = Append(jobs, JobOf("loop", n, "stopping", n \notin loop.old))
    /\ UNCHANGED <<isRunning, sources, radio, runtime, client, holder, leased>>

EndRevive ==
    /\ loop.at = "reviving" /\ loop.todo = {} /\ ~ Awaits("loop")
    /\ loop' = [NoLoop EXCEPT !.at = "asleep"]
    /\ UNCHANGED <<isRunning, sources, radio, runtime, client, holder, leased, jobs>>

\* A burst began or ended: one that scans starts its scan anew.
Switch(n) ==
    /\ isRunning /\ n \in sources /\ ~ Awaits("burst")
    /\ ~ IsLeased(n) /\ radio[n] = "scanning"
    /\ jobs' = Append(jobs, JobOf("burst", n, "switching", TRUE))
    /\ UNCHANGED <<isRunning, sources, radio, runtime, loop, client, holder, leased>>

\* The next source a connect tries: free as that began, maybe leased by now.  A proxy does
\* not hold off what it is asked meanwhile.
Connect(n) ==
    /\ n \in sources \ Pausable /\ ~ Awaits("connect")
    /\ jobs' = Append(jobs, JobOf("connect", n, "connecting", TRUE))
    /\ UNCHANGED <<isRunning, sources, radio, runtime, loop, client, holder, leased>>

-----------------------------------------------------------------------------
(* An operation is over: the first one asked of its source. *)

IsFirst(i) == \A k \in 1..i-1 : jobs[k].source = jobs[i].source => jobs[k].same # jobs[i].same

Then(i, next) == jobs' = RemoveAt(jobs, i) \o next

\* Stopped, also when that failed: the loop starts the source of that name, or ends on its
\* KeyError when there is none.
EndStopping(i) ==
    LET j == jobs[i] IN
    /\ j.at = "stopping"
    /\ Does(j, "off")
    /\ IF j.by # "loop"
       THEN Then(i, <<>>) /\ UNCHANGED loop
       ELSE IF j.source \in sources
       THEN Then(i, <<JobOf("loop", j.source, "starting", TRUE)>>) /\ UNCHANGED loop
       ELSE Then(i, <<>>) /\ loop' = [NoLoop EXCEPT !.at = "dead"]

\* `_start_source`: one that can pause is paused or not as it is leased now.
EndStarting(i) ==
    LET j == jobs[i] IN
    /\ j.at = "starting"
    /\ \/ /\ Does(j, "scanning")
          /\ Then(i, IF j.source \notin Pausable THEN <<>>
                     ELSE <<[j EXCEPT !.at = IF IsLeased(j.source) THEN "pausing" ELSE "resuming"]>>)
       \/ /\ UNCHANGED radio            \* it failed
          /\ Then(i, <<>>)
    /\ UNCHANGED loop

EndPausing(i) ==
    LET j == jobs[i] IN
    /\ j.at \in {"pausing", "resuming"}
    /\ Does(j, IF radio[j.source] = "off" THEN "off"
               ELSE IF j.at = "pausing" THEN "paused" ELSE "scanning")
    /\ Then(i, <<>>) /\ UNCHANGED loop

\* `set_scan_mode` of one that scans: it stops and starts.
EndSwitching(i) ==
    LET j == jobs[i] IN
    /\ \/ /\ j.at = "switching"
          /\ Does(j, "off")
          /\ Then(i, <<[j EXCEPT !.at = "restarting"]>>)
       \/ /\ j.at = "restarting"
          /\ Does(j, "scanning")
          /\ Then(i, <<>>)
    /\ UNCHANGED loop

\* Connected, failed or cancelled: a scan that it stopped goes on.
EndConnecting(i) ==
    /\ jobs[i].at = "connecting"
    /\ Then(i, <<>>) /\ UNCHANGED <<radio, loop>>

End(i) ==
    /\ IsFirst(i)
    /\ EndStopping(i) \/ EndStarting(i) \/ EndPausing(i) \/ EndSwitching(i) \/ EndConnecting(i)
    /\ UNCHANGED <<isRunning, sources, runtime, client, holder, leased>>

-----------------------------------------------------------------------------
(* Together. *)

Next ==
    \/ \E bound \in SUBSET (Names \ Given) : Start(bound)
    \/ Started \/ HookDone \/ Stop \/ Stopped \/ CutOff
    \/ BeginRevive \/ EndRevive
    \/ \E n \in Names : AddSource(n) \/ RemoveSource(n) \/ ReviveNext(n) \/ Switch(n) \/ Connect(n)
    \/ \E c \in Clients :
          \/ GiveUp(c) \/ Acquire(c) \/ Hold(c) \/ Leave(c) \/ Resume(c) \/ Release(c)
          \/ \E n \in Names : WaitFor(c, n)
    \/ \E i \in DOMAIN jobs : End(i)

Spec == Init /\ [][Next]_vars

-----------------------------------------------------------------------------
(* What it promises. *)

TypeOK ==
    /\ isRunning \in BOOLEAN /\ sources \subseteq Names
    /\ radio \in [Names -> {"off", "scanning", "paused"}]
    /\ runtime \in {"none", "start", "stop", "hook"}
    /\ loop.at \in {"off", "asleep", "reviving", "dead"} /\ loop.old \subseteq loop.todo
    /\ client \in [Clients -> [at : {"out", "waiting", "pausing", "in", "leaving", "resuming"},
                               source : Names \cup {None}]]
    /\ holder \in [Names -> Clients \cup {NoOne}]
    /\ leased \subseteq Names
    /\ jobs \in Seq(Job)

HasLease(c, n) ==
    client[c].source = n /\ client[c].at \in {"pausing", "in", "leaving", "resuming"}

\* A source is locked exactly while one client has its lease, and marked leased exactly then,
\* whatever is removed, cancelled, stopped or cut off in between: no lease outlives its
\* client, and a device is kept no longer than the lease for it.
LeasesEnd ==
    \A n \in Names :
        /\ \A c \in Clients : holder[n] = c <=> HasLease(c, n)
        /\ n \in leased <=> IsLeased(n)

\* The documented contract of a lease (capabilities/ble.py): a source held for a device does
\* not scan.
LeasedIsSilent ==
    \A c \in Clients :
        client[c].at = "in" /\ client[c].source \in sources => radio[client[c].source] # "scanning"

\* "paused exactly while leased, though a lease ended while stopped" (router.py, on starting a
\* source): at rest, none stays paused without a lease.
PausedWhileLeased ==
    \A n \in sources : isRunning /\ runtime = "none" /\ jobs = <<>> /\ radio[n] = "paused" => IsLeased(n)
=============================================================================
