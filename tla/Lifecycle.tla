----------------------------- MODULE Lifecycle -----------------------------
(***************************************************************************)
(* The runtime running its peripherals: class `Runtime` of                 *)
(* runtime/runtime.py, every change it makes, the starts it spawns and     *)
(* what happens between them while it awaits.                              *)
(*                                                                         *)
(* Everything happens in tasks of one asyncio loop.  A task changes what   *)
(* runs only while it holds the runtime's lock, which is first come first  *)
(* served: `queue` is the tasks waiting for it, `work` what its holder     *)
(* still has to do, one step per stretch between two awaits.  What a call  *)
(* does before its task asks for the lock (a disabling kept, settings      *)
(* replaced, a failure told to one that starts) happens at any moment,     *)
(* also between two steps of the holder.                                   *)
(*                                                                         *)
(* An entry <<p, l>> is the l-th `_Entry` of peripheral p: one brought     *)
(* along anew, or removed and added again, gets a new one, while tasks may *)
(* still hold the one before.                                              *)
(***************************************************************************)
EXTENDS Resolution, SequencesExt

CONSTANTS
    Hubs,           \* what the runtime may be given, each a record as HubsAssumption says
    NumPasses,      \* _PASSES
    NumLives        \* bound: entries of one peripheral that are still referred to

Owner == 0

\* The calls from outside and from the peripherals.
AllDoings == {"enable", "disable", "restart", "settings", "platform", "add", "remove",
              "plug", "offer", "fail", "quit", "close", "reboot", "hook", "raise"}

(***************************************************************************)
(* A hub is:                                                               *)
(*   home        its world (Resolution), with what is offered at first     *)
(*   given       the peripherals given at first                            *)
(*   bringer     who brings each one along: Owner when it is given         *)
(*   unplugged   the brought-along ones not there at first                 *)
(*   inside      the endpoints that carry the provider's own object        *)
(*               (Endpoint.instance)                                       *)
(*   retries     Len(retry_delays)                                         *)
(*   doings      the calls explored on it                                  *)
(*   waiting     bound: no call comes while that many tasks wait           *)
(*   tasks       bound: start tasks of one entry at once, the ones left    *)
(*               behind included                                           *)
(***************************************************************************)
ASSUME HubsAssumption ==
    \A h \in Hubs :
        /\ h.home \in World
        /\ h.bringer \in [Peripherals -> Peripherals \cup {Owner}]
        /\ \A p \in Peripherals : h.bringer[p] < p
        /\ h.given \subseteq {p \in Peripherals : h.bringer[p] = Owner}
        /\ h.unplugged \subseteq {p \in Peripherals : h.bringer[p] # Owner}
        /\ h.inside \subseteq Endpoints
        /\ h.doings \subseteq AllDoings
        /\ h.retries \in Nat /\ h.waiting \in Nat /\ h.tasks \in Nat \ {0}
\* A runtime given nothing is one with a peripheral that is not given.
ASSUME BoundsAssumption ==
    NumPeripherals # 0 /\ NumPasses \in Nat \ {0} /\ NumLives \in Nat \ {0}

VARIABLES
    hub,        \* the hub the runtime is given; it stays
    entry,      \* every entry there was
    known,      \* the life of each one's current entry (`_entries`)
    given,      \* the ones given and added
    plugged,    \* the ones their bringers list in `provides`
    offers,     \* the endpoints their providers list in `provides`
    store,      \* the disabled store
    gaveUp,     \* `_failed`: the keys given up on in this session
    settings,   \* the kept settings of each, one of two values
    platform,   \* the platform's facts, one of two values
    bound,      \* `_wanted` and `_bound`: who should run, bound to what
    queue,      \* the tasks waiting for the lock
    work,       \* what the holder of the lock still has to do
    round,      \* the pass it is in, what there was before it, whether it changed anything
    starts,     \* the start tasks that are not waiting for the lock
    timer,      \* the retries a timer is set for
    running,    \* `_is_running`
    object      \* the peripherals themselves, as the calls they get leave them

vars == <<hub, entry, known, given, plugged, offers, store, gaveUp, settings, platform, bound,
          queue, work, round, starts, timer, running, object>>

Children == {p \in Peripherals : hub.bringer[p] # Owner}
Lives    == 1..NumLives
Tasks    == 1..hub.tasks
Entry    == Peripherals \X Lives
NoLife   == 0
NoTask   == 0

\* A binding: an endpoint of the entry that provides it.
Link        == Endpoints \X Lives
Provider(l) == <<hub.home.provider[l[1]], l[2]>>

\* What is bound to each need of p; nothing.
LinksOf(p) == [DOMAIN hub.home.needs[p] -> SUBSET Link]
Unlinked(p) == [i \in DOMAIN hub.home.needs[p] |-> {}]

\* Nothing to wait for: it did not stop by itself.
NotStopped == [stopped |-> FALSE, on |-> <<>>]

State   == {"disabled", "waiting", "starting", "running", "failed"}
GivenUp == {"disabled", "failed"}
Started == {"starting", "running"}

NewEntry(p, state) ==
    [state |-> state, attempts |-> 0, retry |-> FALSE, bindings |-> Unlinked(p),
     stoppedWith |-> NotStopped, toldFailure |-> FALSE, stopping |-> FALSE,
     missedSettings |-> FALSE, missedPlatform |-> FALSE, task |-> NoTask]

-----------------------------------------------------------------------------
(* Tasks and steps. *)

\* A task waiting for the lock.  n and ok are a start's, all is a platform change's.
Task(do, e) == [do |-> do, e |-> e, n |-> NoTask, ok |-> TRUE, all |-> {}]
NoEntry     == <<1, 1>>
Refresh     == Task("refresh", NoEntry)

\* A step of the holder: to is the state a stop leaves its entry in.
Step(do, e)    == [do |-> do, e |-> e, to |-> "waiting"]
\* Slip: what to leave it in is lost.
StopToWait(e, to) == [do |-> "stop", e |-> e, to |-> "waiting"]
StopTo(e, to)  == [do |-> "stop", e |-> e, to |-> to]
Stop(e)        == StopTo(e, "waiting")
Pass           == Step("pass", NoEntry)
Settle         == Step("settle", NoEntry)

Hooks == {"tell_settings", "tell_platform", "tell_need"}

\* A step for each entry of a sequence.
Each(step(_), entries) == [i \in DOMAIN entries |-> step(entries[i])]

\* The members of S one after the other: `next` says which of those left.
InTurn(S, next) ==
    LET order[left \in SUBSET S] ==
            IF left = {} THEN <<>> ELSE <<next[left]>> \o order[left \ {next[left]}]
    IN  order[S]

\* The members of a sequence that are in T, in its order.
Kept(s, T) ==
    LET upTo[i \in 0..Len(s)] ==
            IF i = 0 THEN <<>>
            ELSE IF s[i] \in T THEN Append(upTo[i - 1], s[i])
            ELSE upTo[i - 1]
    IN  upTo[Len(s)]

-----------------------------------------------------------------------------
(* What the runtime reads. *)

Current(p)   == <<p, known[p]>>
Known        == {p \in Peripherals : known[p] # NoLife}
CurrentEntries == {Current(p) : p \in Known}
IsCurrent(e) == known[e[1]] = e[2]
StateOf(p)   == IF p \in Known THEN entry[Current(p)].state ELSE "waiting"
IsServing(p) == p \in Known /\ entry[Current(p)].state = "running"
IsStarted(e) == entry[e].state \in Started

\* Its needs that are required, or not.
Required(p) == {i \in DOMAIN hub.home.needs[p] : hub.home.needs[p][i].required}

\* The members of S as a sequence, in binding order.
InOrder(S) ==
    InTurn(S, [left \in (SUBSET S) \ {{}} |-> CHOOSE e \in left : \A f \in left : e[1] <= f[1]])

\* A user bound to what a provider provides.
IsUsing(user, provider) ==
    \E i \in DOMAIN entry[user].bindings :
        \E l \in entry[user].bindings[i] : Provider(l) = provider

\* Slip: only a user that runs, forgetting one that starts.
RunsInsideRunning(user, provider) ==
    /\ entry[user].state = "running"
    /\ \E i \in Required(user[1]) : \E l \in entry[user].bindings[i] :
            Provider(l) = provider /\ l[1] \in hub.inside

\* A user with a required need bound to the object a provider runs in process.
RunsInside(user, provider) ==
    /\ IsStarted(user)
    /\ \E i \in Required(user[1]) : \E l \in entry[user].bindings[i] :
            Provider(l) = provider /\ l[1] \in hub.inside

\* Its start tasks that have not ended, by number.
StartTasks(e) == {s.n : s \in {t \in starts : t.e = e}}
                 \cup {t.n : t \in {u \in ToSet(queue) : u.do = "started" /\ u.e = e}}

InsideUsers(e) == {u \in CurrentEntries : RunsInside(u, e)}

\* S in the order to stop it: each after what is bound to it, else last given first.
UsersFirst(S) ==
    LET unused(left) == {e \in left : \A u \in left : ~ IsUsing(u, e)}
        last(left)   == CHOOSE e \in left : \A f \in left : f[1] <= e[1]
    IN  InTurn(S, [left \in (SUBSET S) \ {{}} |->
                      last(IF unused(left) # {} THEN unused(left) ELSE left)])

\* What it is bound to: an optional need only to what runs, or what it was handed before.
Handed(e) ==
    [i \in DOMAIN hub.home.needs[e[1]] |->
        {l \in bound.links[e[1]][i] :
            \/ i \in Required(e[1])
            \/ IsServing(Provider(l)[1])
            \/ l \in entry[e].bindings[i]}]

\* Nothing keeps a waiting one from starting now.
CanStart(p) ==
    LET e == Current(p)
    IN  /\ entry[e].state = "waiting"
        /\ ~ entry[e].stoppedWith.stopped
        /\ hub.bringer[p] \in Known => IsServing(hub.bringer[p])
        /\ p \in bound.wanted
        /\ ~ entry[e].retry
        /\ \A i \in Required(p) : \A l \in bound.links[p][i] : IsServing(Provider(l)[1])

\* What each peripheral known provides (`_snapshot`).
Snapshot ==
    [known |-> Known, offers |-> {x \in offers : hub.home.provider[x] \in Known},
     plugged |-> {c \in plugged : hub.bringer[c] \in Known}]

-----------------------------------------------------------------------------
(* Collecting what there is. *)

\* The ones there when `owned` are given and `listed` is what bringers list: given, or
\* brought along by one that runs.
PresentOf(owned, listed) ==
    LET isThere[p \in Peripherals] ==
            IF hub.bringer[p] = Owner THEN p \in owned
            ELSE p \in listed /\ isThere[hub.bringer[p]] /\ IsServing(hub.bringer[p])
    IN  {p \in Peripherals : isThere[p]}

Present == PresentOf(given, plugged)

\* Somebody still refers to the entry: a task, the holder, a binding.
IsReferred(e) ==
    \/ \E i \in DOMAIN queue : queue[i].e = e \/ e \in queue[i].all
    \/ \E i \in DOMAIN work : work[i].e = e
    \/ \E s \in starts : s.e = e
    \/ \E u \in Entry : IsUsing(u, e)

FreshLives(p) == {l \in Lives : ~ IsReferred(<<p, l>>)}
FreshLife(p)  == CHOOSE l \in FreshLives(p) : TRUE

\* Slip: one brought along anew gets a fresh chance.
AdoptedAnew(p) == NewEntry(p, IF p \in store THEN "disabled" ELSE "waiting")

\* How an adopted one begins.
Adopted(p) ==
    NewEntry(p, IF p \in store THEN "disabled"
                ELSE IF p \in gaveUp THEN "failed" ELSE "waiting")

\* `_collect`: the ones there, each with its entry, a new one when it has none (NumLives
\* bounds how many there may be).
Collect(there) ==
    LET new == there \ Known
        at  == [p \in Peripherals |-> IF p \in new THEN FreshLife(p) ELSE NoLife]
    IN  /\ \A p \in new : FreshLives(p) # {}
        /\ known' = [p \in Peripherals |->
                        IF p \notin there THEN NoLife
                        ELSE IF p \in new THEN at[p] ELSE known[p]]
        /\ entry' = [e \in Entry |->
                        IF e[1] \in new /\ e[2] = at[e[1]] THEN Adopted(e[1]) ELSE entry[e]]

\* `_resolve`: the ones that should run and their bindings, with the entries there are.
Resolved(lives, entries) ==
    LET alive == {p \in Peripherals : lives[p] # NoLife
                                      /\ entries[<<p, lives[p]>>].state \notin GivenUp}
        r == Resolve([hub.home EXCEPT !.offers = offers], alive)
    IN  [wanted |-> alive \cap r.wanted,
         links  |-> [p \in Peripherals |->
                       [i \in DOMAIN hub.home.needs[p] |->
                           {l \in Link : /\ l[2] = lives[hub.home.provider[l[1]]]
                                         /\ l[1] \in r.holds[p][i]}]]]

-----------------------------------------------------------------------------
(* The start: collected, nothing running, the lock free. *)

Init ==
    /\ hub \in Hubs
    /\ given = hub.given
    /\ plugged = Children \ hub.unplugged
    /\ offers = hub.home.offers
    /\ store = {}
    /\ gaveUp = {}
    /\ settings = [p \in Peripherals |-> 0]
    /\ platform = 0
    /\ known = [p \in Peripherals |-> IF p \in hub.given THEN 1 ELSE NoLife]
    /\ entry = [e \in Entry |-> NewEntry(e[1], "waiting")]
    /\ bound = [wanted |-> {}, links |-> [p \in Peripherals |-> Unlinked(p)]]
    /\ queue = <<>>
    /\ work = <<>>
    /\ round = [n |-> 0, changed |-> FALSE,
                before |-> [known |-> {}, offers |-> {}, plugged |-> {}]]
    /\ starts = {}
    /\ timer = {}
    /\ running = FALSE
    /\ object = [p \in Peripherals |->
                    [call |-> "off", settings |-> 0, platform |-> 0,
                     failed |-> FALSE, quit |-> FALSE]]

-----------------------------------------------------------------------------
(* What every task ends with, and what it is made of. *)

\* The holder goes on with more steps before the rest of its work.
GoOn(steps) == work' = steps \o Tail(work)
HeadIs(do)  == work # <<>> /\ Head(work).do = do

\* The task goes to wait for the lock.
Queue(task) ==
    /\ queue' = Append(queue, task)
    /\ UNCHANGED <<entry, known>>

\* So does a refresh, unless the runtime is stopped, when it only collects what there is,
\* without the lock.
QueueRefresh(there) ==
    \/ running /\ Queue(Refresh)
    \/ ~ running /\ Collect(there) /\ UNCHANGED queue

\* Another task runs only while nobody holds the lock or its holder awaits: a cancelled
\* start, a stop, a hook.
IsYielding == work # <<>> => Head(work).do \in {"cancelled", "stopping", "hook"}

CanCall(doing) == doing \in hub.doings /\ Len(queue) < hub.waiting /\ IsYielding

-----------------------------------------------------------------------------
(* What the owner calls (the Hub, or you): the part before the lock. *)

\* Runtime.start.
Boot ==
    /\ ~ running /\ IsYielding
    /\ round.n = 0 \/ CanCall("reboot")
    /\ running' = TRUE
    /\ queue' = Append(queue, Task("boot", NoEntry))
    /\ UNCHANGED <<hub, entry, known, given, plugged, offers, store, gaveUp, settings, platform,
                   bound, work, round, starts, timer, object>>

\* Runtime.stop: from here on nothing refreshes; its own turn comes with the lock.
Close ==
    /\ CanCall("close")
    /\ running
    /\ running' = FALSE
    /\ timer' = {}
    /\ queue' = Append(queue, Task("close", NoEntry))
    /\ UNCHANGED <<hub, entry, known, given, plugged, offers, store, gaveUp, settings, platform,
                   bound, work, round, starts, object>>

\* enable, disable: kept at once.
Enable(p) ==
    /\ CanCall("enable") /\ p \in Known /\ p \in store
    /\ store' = store \ {p}
    /\ Queue(Task("enable", Current(p)))
    /\ UNCHANGED <<hub, given, plugged, offers, gaveUp, settings, platform, bound,
                   work, round, starts, timer, running, object>>

Disable(p) ==
    /\ CanCall("disable") /\ p \in Known /\ p \notin store
    /\ store' = store \cup {p}
    /\ Queue(Task("disable", Current(p)))
    /\ UNCHANGED <<hub, given, plugged, offers, gaveUp, settings, platform, bound,
                   work, round, starts, timer, running, object>>

Restart(p) ==
    /\ CanCall("restart") /\ p \in Known /\ StateOf(p) # "disabled"
    /\ Queue(Task("restart", Current(p)))
    /\ UNCHANGED <<hub, given, plugged, offers, store, gaveUp, settings, platform, bound,
                   work, round, starts, timer, running, object>>

\* update_settings, update_platform: replaced at once for whoever reads them.
UpdateSettings(p) ==
    /\ CanCall("settings") /\ p \in Known
    /\ settings' = [settings EXCEPT ![p] = 1 - @]
    /\ Queue(Task("settings", Current(p)))
    /\ UNCHANGED <<hub, given, plugged, offers, store, gaveUp, platform, bound,
                   work, round, starts, timer, running, object>>

UpdatePlatform ==
    /\ CanCall("platform")
    /\ platform' = 1 - platform
    /\ Queue([Task("platform", NoEntry) EXCEPT
                !.all = {e \in CurrentEntries : IsStarted(e)}])
    /\ UNCHANGED <<hub, given, plugged, offers, store, gaveUp, settings, bound,
                   work, round, starts, timer, running, object>>

RemoveGiven(p) ==
    /\ CanCall("remove") /\ p \in given
    /\ given' = given \ {p}
    /\ QueueRefresh(PresentOf(given', plugged))
    /\ UNCHANGED <<hub, plugged, offers, store, gaveUp, settings, platform, bound,
                   work, round, starts, timer, running, object>>

\* add: as if given last, so here only one that comes after the others given.
AddGiven(p) ==
    /\ CanCall("add") /\ p \notin Children \cup given \cup Known
    /\ \A q \in given : q < p
    /\ given' = given \cup {p}
    /\ QueueRefresh(PresentOf(given', plugged))
    /\ UNCHANGED <<hub, plugged, offers, store, gaveUp, settings, platform, bound,
                   work, round, starts, timer, running, object>>

-----------------------------------------------------------------------------
(* What the peripherals do and tell. *)

\* What one brings along changes (a stick plugged in or out), and it tells.
Plug(c) ==
    /\ CanCall("plug") /\ c \in Children /\ hub.bringer[c] \in Known
    /\ object[hub.bringer[c]].call \in {"on", "asked"}
    /\ plugged' = IF c \in plugged THEN plugged \ {c} ELSE plugged \cup {c}
    /\ QueueRefresh(PresentOf(given, plugged'))
    /\ UNCHANGED <<hub, given, offers, store, gaveUp, settings, platform, bound,
                   work, round, starts, timer, running, object>>

\* What one serves changes, and it tells.
Offer(x) ==
    /\ CanCall("offer") /\ hub.home.provider[x] \in Known
    /\ object[hub.home.provider[x]].call \in {"on", "asked"}
    /\ offers' = IF x \in offers THEN offers \ {x} ELSE offers \cup {x}
    /\ QueueRefresh(Present)
    /\ UNCHANGED <<hub, given, plugged, store, gaveUp, settings, platform, bound,
                   work, round, starts, timer, running, object>>

\* peripheral_did_fail: one that starts only has it noted.
TellFailure(p) ==
    /\ CanCall("fail") /\ p \in Known /\ object[p].call \in {"starting", "on", "asked"}
    /\ object' = [object EXCEPT ![p].failed = TRUE]
    /\ IF StateOf(p) = "starting"
       THEN /\ entry' = [entry EXCEPT ![Current(p)].toldFailure = TRUE]
            /\ UNCHANGED <<known, queue>>
       ELSE Queue(Task("fail", Current(p)))
    /\ UNCHANGED <<hub, given, plugged, offers, store, gaveUp, settings, platform, bound,
                   work, round, starts, timer, running>>

\* peripheral_did_stop, the same.
TellStop(p) ==
    /\ CanCall("quit") /\ p \in Known /\ object[p].call \in {"starting", "on", "asked"}
    /\ object' = [object EXCEPT ![p].quit = TRUE]
    /\ IF StateOf(p) = "starting"
       THEN /\ entry' = [entry EXCEPT ![Current(p)].stopping = TRUE]
            /\ UNCHANGED <<known, queue>>
       ELSE Queue(Task("quit", Current(p)))
    /\ UNCHANGED <<hub, given, plugged, offers, store, gaveUp, settings, platform, bound,
                   work, round, starts, timer, running>>

-----------------------------------------------------------------------------
(* The start tasks. *)

\* The task begins: start is called, reading the settings and the platform there are.
BeginStart(s) ==
    /\ IsYielding /\ s.at = "spawned"
    /\ starts' = (starts \ {s}) \cup {[s EXCEPT !.at = "in"]}
    /\ object' = [object EXCEPT ![s.e[1]] =
                    [call |-> "starting", settings |-> settings[s.e[1]],
                     platform |-> platform, failed |-> FALSE, quit |-> FALSE]]
    /\ UNCHANGED <<hub, entry, known, given, plugged, offers, store, gaveUp, settings, platform,
                   bound, queue, work, round, timer, running>>

\* start returns or fails (raises, takes too long): its task goes for the lock.  One left
\* behind by a stop says nothing any more about the peripheral.
EndStart(s, ok) ==
    /\ IsYielding /\ s.at \in {"in", "left"}
    /\ s.at = "left" \/ ok \/ "raise" \in hub.doings
    /\ starts' = starts \ {s}
    /\ queue' = Append(queue, [Task("started", s.e) EXCEPT !.n = s.n, !.ok = ok])
    /\ object' = IF s.at = "in" /\ ok THEN [object EXCEPT ![s.e[1]].call = "on"] ELSE object
    /\ UNCHANGED <<hub, entry, known, given, plugged, offers, store, gaveUp, settings, platform,
                   bound, work, round, timer, running>>

-----------------------------------------------------------------------------
(* The lock. *)

\* Slip: a start that has not returned is nothing to stop.
ClosingRunning == UsersFirst({e \in CurrentEntries : entry[e].state = "running"})

\* The ones to stop as the runtime stops.
Closing == UsersFirst({e \in CurrentEntries : IsStarted(e)})

\* What a task does once it holds the lock, and that it refreshes after.
StepsOf(t) ==
    CASE t.do \in {"boot", "refresh"} -> <<Pass>>
      [] t.do = "close"    -> Each(Stop, Closing) \o <<Step("closed", NoEntry)>>
      [] t.do = "disable"  -> <<StopTo(t.e, "disabled"), Settle>>
      [] t.do = "restart"  -> <<Stop(t.e), Step("revive", t.e), Settle>>
      [] t.do = "platform" -> Each(LAMBDA e : Step("platform", e), InOrder(t.all))
                              \o <<Settle>>
      [] OTHER             -> <<Step(t.do, t.e), Settle>>

\* Slip: a failure told while it started is forgotten.
EndedDeaf(x, ok) ==
    IF ~ ok THEN [x EXCEPT !.task = NoTask]
    ELSE IF x.stopping
    THEN [x EXCEPT !.task = NoTask, !.stoppedWith = [stopped |-> TRUE, on |-> x.bindings]]
    ELSE [x EXCEPT !.task = NoTask, !.state = "running"]

\* What a start that ended makes of its entry: a failure, returned or told meanwhile, and
\* a stop told meanwhile leave the state to the stop that follows.
Ended(x, ok) ==
    IF x.toldFailure \/ ~ ok THEN [x EXCEPT !.task = NoTask]
    ELSE IF x.stopping
    THEN [x EXCEPT !.task = NoTask, !.stoppedWith = [stopped |-> TRUE, on |-> x.bindings]]
    ELSE [x EXCEPT !.task = NoTask, !.state = "running"]

\* Slip: any start of an entry that is starting.
IsSomeStart(t) == entry[t.e].state = "starting"

\* Whether the start that ended is the one its entry waits for.
IsItsStart(t) == entry[t.e].task = t.n

\* Slip: nothing is bound anew once it runs.
ServesUnnoticed(e) == <<Step("missed", e)>>

\* What follows once it runs: it hears what it missed, and the others start on it.
Serves(e) == <<Step("missed", e), Settle>>

\* The first waiting task gets the lock.  A start whose entry was stopped meanwhile
\* (or started anew) ends there; the others become what its entry needs.
Acquire ==
    /\ work = <<>> /\ queue # <<>>
    /\ queue' = Tail(queue)
    /\ LET t == Head(queue)
       IN  \/ /\ t.do = "started" /\ ~ IsItsStart(t)
              /\ UNCHANGED <<entry, work, round>>
           \/ /\ t.do = "started" /\ IsItsStart(t)
              /\ entry' = [entry EXCEPT ![t.e] = Ended(@, t.ok)]
              /\ work' = IF entry'[t.e].state = "running" THEN Serves(t.e)
                         ELSE IF entry'[t.e].stoppedWith.stopped THEN <<Stop(t.e), Settle>>
                         ELSE <<Stop(t.e), Step("failed", t.e), Settle>>
              /\ UNCHANGED round
           \/ /\ t.do # "started"
              /\ work' = StepsOf(t)
              /\ round' = IF t.do \in {"boot", "refresh"} THEN [round EXCEPT !.n = 1] ELSE round
              /\ UNCHANGED entry
    /\ UNCHANGED <<hub, known, given, plugged, offers, store, gaveUp, settings, platform, bound,
                   starts, timer, running, object>>

\* The change is made: the lock is free, and the task refreshes.
SettleChange ==
    /\ HeadIs("settle")
    /\ work' = <<>>
    /\ QueueRefresh(Present)
    /\ UNCHANGED <<hub, given, plugged, offers, store, gaveUp, settings, platform, bound,
                   round, starts, timer, running, object>>

\* Runtime.stop is over: the runtime's own tasks are cancelled, not its callers'.  A start
\* that swallows its cancellation goes on.
Closed ==
    /\ HeadIs("closed")
    /\ work' = <<>>
    /\ queue' = Kept(queue, {t \in ToSet(queue) : t.do \in {"boot", "close"}})
    /\ \E deaf \in SUBSET {s \in starts : s.at = "in"} :
            starts' = {s \in starts : s.at = "left" \/ s \in deaf}
    /\ UNCHANGED <<hub, entry, known, given, plugged, offers, store, gaveUp, settings, platform,
                   bound, round, timer, running, object>>

-----------------------------------------------------------------------------
(* The changes themselves. *)

\* _revive: the user's say.
Revived(x) == [x EXCEPT !.attempts = 0, !.retry = FALSE, !.stoppedWith = NotStopped]

Revive ==
    /\ HeadIs("revive")
    /\ LET e == Head(work).e
       IN  /\ entry' = [entry EXCEPT ![e] = Revived(@)]
           /\ gaveUp' = gaveUp \ {e[1]}
    /\ GoOn(<<>>)
    /\ UNCHANGED <<hub, known, given, plugged, offers, store, settings, platform, bound,
                   queue, round, starts, timer, running, object>>

\* enable, and update_settings of one that failed or waits: it may start again.
LetStart ==
    /\ \/ HeadIs("enable") /\ entry[Head(work).e].state = "disabled"
       \/ HeadIs("settings") /\ entry[Head(work).e].state \in {"failed", "waiting"}
    /\ LET e == Head(work).e
       IN  /\ entry' = [entry EXCEPT ![e] = [Revived(@) EXCEPT !.state = "waiting"]]
           /\ gaveUp' = gaveUp \ {e[1]}
    /\ GoOn(<<>>)
    /\ UNCHANGED <<hub, known, given, plugged, offers, store, settings, platform, bound,
                   queue, round, starts, timer, running, object>>

\* What changed is told to one that runs, and noted for one that starts, which may have
\* read what was there before.
TellOrNote ==
    /\ HeadIs("settings") \/ HeadIs("platform")
    /\ LET e == Head(work).e
           hook == IF HeadIs("settings") THEN "tell_settings" ELSE "tell_platform"
       IN  \/ /\ entry[e].state = "running"
              /\ GoOn(<<Step(hook, e)>>)
              /\ UNCHANGED entry
           \/ /\ entry[e].state = "starting"
              /\ entry' = IF HeadIs("settings")
                          THEN [entry EXCEPT ![e].missedSettings = TRUE]
                          ELSE [entry EXCEPT ![e].missedPlatform = TRUE]
              /\ GoOn(<<>>)
    /\ UNCHANGED <<hub, known, given, plugged, offers, store, gaveUp, settings, platform, bound,
                   queue, round, starts, timer, running, object>>

\* Slip: the settings are not told.
MissedPlatform(e) ==
    IF entry[e].missedPlatform THEN <<Step("tell_platform", e)>> ELSE <<>>

\* What one that just started missed.
Missed(e) ==
    (IF entry[e].missedPlatform THEN <<Step("tell_platform", e)>> ELSE <<>>)
    \o (IF entry[e].missedSettings THEN <<Step("tell_settings", e)>> ELSE <<>>)

\* _tell_missed, once it runs.
TellMissed ==
    /\ HeadIs("missed")
    /\ LET e == Head(work).e
       IN  /\ GoOn(Missed(e))
           /\ entry' = [entry EXCEPT ![e].missedPlatform = FALSE, ![e].missedSettings = FALSE]
    /\ UNCHANGED <<hub, known, given, plugged, offers, store, gaveUp, settings, platform, bound,
                   queue, round, starts, timer, running, object>>

\* What one that runs told: it failed, or stopped by itself.
TakeTold ==
    /\ HeadIs("fail") \/ HeadIs("quit")
    /\ LET e == Head(work).e
       IN  /\ entry[e].state = "running"
           /\ IF HeadIs("fail")
              THEN /\ GoOn(<<Stop(e), Step("failed", e)>>)
                   /\ UNCHANGED entry
              ELSE /\ GoOn(<<Stop(e)>>)
                   /\ entry' = [entry EXCEPT ![e].stoppedWith =
                                   [stopped |-> TRUE, on |-> entry[e].bindings]]
    /\ UNCHANGED <<hub, known, given, plugged, offers, store, gaveUp, settings, platform, bound,
                   queue, round, starts, timer, running, object>>

\* A change that finds its entry in another state changes nothing.
NoChange ==
    /\ work # <<>>
    /\ LET state == entry[Head(work).e].state
       IN  \/ HeadIs("enable")   /\ state # "disabled"
           \/ HeadIs("settings") /\ state = "disabled"
           \/ HeadIs("platform") /\ state \notin Started
           \/ HeadIs("fail")     /\ state # "running"
           \/ HeadIs("quit")     /\ state # "running"
    /\ GoOn(<<>>)
    /\ UNCHANGED <<hub, entry, known, given, plugged, offers, store, gaveUp, settings, platform,
                   bound, queue, round, starts, timer, running, object>>

\* Slip: one retry too many.
IsLastLate(x) == x.attempts > hub.retries

\* Whether this failure spends the retries.
IsLast(x) == x.attempts + 1 > hub.retries

\* _fail: one more failure in a row, and a retry or the end of it.
CountFailure ==
    /\ HeadIs("failed")
    /\ LET e == Head(work).e
       IN  IF IsLast(entry[e])
           THEN /\ entry' = [entry EXCEPT ![e].state = "failed", ![e].attempts = 0]
                /\ gaveUp' = gaveUp \cup {e[1]}
           ELSE /\ entry' = [entry EXCEPT ![e].state = "waiting", ![e].retry = TRUE,
                                         ![e].attempts = @ + 1]
                /\ UNCHANGED gaveUp
    /\ GoOn(<<>>)
    /\ UNCHANGED <<hub, known, given, plugged, offers, store, settings, platform, bound,
                   queue, round, starts, timer, running, object>>

-----------------------------------------------------------------------------
(* Stopping: `_stop`. *)

\* Slip: any stop ends a disabling.
StopsAny == HeadIs("stop")

\* Whether the stop is one to carry out.
StopsEntry == HeadIs("stop") /\ ~ (entry[Head(work).e].state = "disabled"
                                    /\ Head(work).to # "disabled")

\* Only enabling ends a disabling.
StopDisabled ==
    /\ HeadIs("stop") /\ ~ StopsEntry
    /\ GoOn(<<>>)
    /\ UNCHANGED <<hub, entry, known, given, plugged, offers, store, gaveUp, settings, platform,
                   bound, queue, round, starts, timer, running, object>>

\* What runs inside what it provides stops first.
StopUsers ==
    /\ StopsEntry
    /\ LET e == Head(work).e
       IN  /\ IsStarted(e) /\ InsideUsers(e) # {}
           /\ work' = Each(Stop, UsersFirst(InsideUsers(e))) \o work
    /\ UNCHANGED <<hub, entry, known, given, plugged, offers, store, gaveUp, settings, platform,
                   bound, queue, round, starts, timer, running, object>>

\* Its start is cancelled and waited for: it ends, whether in start or waiting for the
\* lock, or goes on past STOP_TIMEOUT and is left behind.
CancelStart ==
    /\ StopsEntry
    /\ LET e == Head(work).e
           n == entry[e].task
       IN  /\ n # NoTask /\ ~ (IsStarted(e) /\ InsideUsers(e) # {})
           /\ entry' = [entry EXCEPT ![e].task = NoTask]
           /\ \/ /\ queue' = Kept(queue, {t \in ToSet(queue) :
                                ~ (t.do = "started" /\ t.e = e /\ t.n = n)})
                 /\ starts' = {s \in starts : ~ (s.e = e /\ s.n = n)}
              \/ /\ Cardinality(StartTasks(e)) < hub.tasks
                 /\ \E s \in starts :
                        /\ s.e = e /\ s.n = n /\ s.at = "in"
                        /\ starts' = (starts \ {s}) \cup {[s EXCEPT !.at = "left"]}
                 /\ UNCHANGED queue
    /\ GoOn(<<[Head(work) EXCEPT !.do = "cancelled"]>>)
    /\ UNCHANGED <<hub, known, given, plugged, offers, store, gaveUp, settings, platform,
                   bound, round, timer, running, object>>

\* stop is called on one that started; a run long enough forgets its failures.
CallStop ==
    /\ work # <<>>
    /\ LET e == Head(work).e
       IN  /\ \/ HeadIs("cancelled")
              \/ /\ StopsEntry
                 /\ IsStarted(e) /\ InsideUsers(e) = {} /\ entry[e].task = NoTask
           /\ object' = [object EXCEPT ![e[1]].call = "stopping"]
           /\ \E stable \in BOOLEAN :
                entry' = [entry EXCEPT ![e].attempts =
                            IF stable /\ entry[e].state = "running" THEN 0 ELSE @]
           /\ GoOn(<<[Head(work) EXCEPT !.do = "stopping"]>>)
    /\ UNCHANGED <<hub, known, given, plugged, offers, store, gaveUp, settings, platform,
                   bound, queue, round, starts, timer, running>>

\* It stopped, or took longer than STOP_TIMEOUT, or did not run: its entry is left as
\* wished, bound to nothing.
EndStop ==
    /\ \/ HeadIs("stopping")
       \/ StopsEntry /\ ~ IsStarted(Head(work).e)
    /\ LET e == Head(work).e
       IN  /\ entry' = [entry EXCEPT ![e].state = Head(work).to,
                                     ![e].bindings = Unlinked(e[1])]
           /\ object' = IF HeadIs("stopping") THEN [object EXCEPT ![e[1]].call = "off"]
                        ELSE object
    /\ GoOn(<<>>)
    /\ UNCHANGED <<hub, known, given, plugged, offers, store, gaveUp, settings, platform,
                   bound, queue, round, starts, timer, running>>

-----------------------------------------------------------------------------
(* Hooks: `_ask`. *)

\* A hook is called: the peripheral reads what is there now.
BeginHook ==
    /\ work # <<>> /\ Head(work).do \in Hooks
    /\ LET p == Head(work).e[1]
       IN  object' = [object EXCEPT
                        ![p].call = "asked",
                        ![p].settings = IF HeadIs("tell_settings") THEN settings[p] ELSE @,
                        ![p].platform = IF HeadIs("tell_platform") THEN platform ELSE @]
    /\ GoOn(<<Step("hook", Head(work).e)>>)
    /\ UNCHANGED <<hub, entry, known, given, plugged, offers, store, gaveUp, settings, platform,
                   bound, queue, round, starts, timer, running>>

\* Slip: the other hooks are called though it was stopped.
PastNone(e, rest) == rest

\* The work after the hooks still to be called on e.
PastHooks(e, rest) ==
    LET n == CHOOSE k \in 0..Len(rest) :
                /\ \A i \in 1..k : rest[i].do \in Hooks /\ rest[i].e = e
                /\ k < Len(rest) => ~ (rest[k + 1].do \in Hooks /\ rest[k + 1].e = e)
    IN  SubSeq(rest, n + 1, Len(rest))

\* It was handled in place; or it was not, which restarts it; or the hook raised, or took
\* too long, which counts as a failure.
EndHook ==
    /\ HeadIs("hook")
    /\ LET e == Head(work).e
           rest == PastHooks(e, Tail(work))
       IN  \/ GoOn(<<>>)
           \/ "hook" \in hub.doings /\ work' = <<Stop(e)>> \o rest
           \/ "raise" \in hub.doings /\ work' = <<Stop(e), Step("failed", e)>> \o rest
    /\ object' = [object EXCEPT ![Head(work).e[1]].call = "on"]
    /\ UNCHANGED <<hub, entry, known, given, plugged, offers, store, gaveUp, settings, platform,
                   bound, queue, round, starts, timer, running>>

-----------------------------------------------------------------------------
(* A pass: `_pass`, up to NumPasses of them in a refresh. *)

\* Slip: one gone while it starts is forgotten.
GoneRunning == {e \in CurrentEntries : e[1] \notin Present /\ entry[e].state = "running"}

\* The entries known until now that nothing brings along any more.
Gone == {e \in CurrentEntries : e[1] \notin Present}

\* Collect and resolve; then stop what is gone, stop what should not run, deliver what
\* moved, start what can.
BeginPass ==
    /\ HeadIs("pass")
    /\ Collect(Present)
    /\ bound' = Resolved(known', entry')
    /\ round' = [round EXCEPT !.before = Snapshot, !.changed = Gone # {}]
    /\ GoOn(Each(Stop, InOrder(Gone)) \o <<Step("drop", NoEntry)>>)
    /\ UNCHANGED <<hub, given, plugged, offers, store, gaveUp, settings, platform, queue, starts,
                   timer, running, object>>

DropUnwanted ==
    /\ HeadIs("drop")
    /\ LET unwanted == {e \in CurrentEntries : IsStarted(e) /\ e[1] \notin bound.wanted}
       IN  /\ GoOn(Each(Stop, UsersFirst(unwanted)) \o <<Step("moves", NoEntry)>>)
           /\ round' = [round EXCEPT !.changed = @ \/ unwanted # {}]
    /\ UNCHANGED <<hub, entry, known, given, plugged, offers, store, gaveUp, settings, platform,
                   bound, queue, starts, timer, running, object>>

\* Each one there is in turn looked at, and then what can start.
BeginDeliver ==
    /\ HeadIs("moves")
    /\ GoOn(Each(LAMBDA e : Step("deliver", e), InOrder(CurrentEntries))
            \o <<Step("start", NoEntry)>>)
    /\ UNCHANGED <<hub, entry, known, given, plugged, offers, store, gaveUp, settings, platform,
                   bound, queue, round, starts, timer, running, object>>

\* One that runs is told each need that moved; one that does not, and stopped by itself,
\* waits for that no longer.
Deliver ==
    /\ HeadIs("deliver")
    /\ LET e == Head(work).e
           now == Handed(e)
           moved == {i \in DOMAIN now : now[i] # entry[e].bindings[i]}
       IN  IF entry[e].state = "running"
           THEN /\ entry' = [entry EXCEPT ![e].bindings = now]
                /\ GoOn([i \in 1..Cardinality(moved) |-> Step("tell_need", e)])
                /\ round' = [round EXCEPT !.changed = @ \/ moved # {}]
           ELSE /\ entry' = [entry EXCEPT ![e].stoppedWith =
                                IF entry[e].state # "starting" /\ now # @.on THEN NotStopped
                                ELSE @]
                /\ GoOn(<<>>)
                /\ UNCHANGED round
    /\ UNCHANGED <<hub, known, given, plugged, offers, store, gaveUp, settings, platform, bound,
                   queue, starts, timer, running, object>>

\* The task of a new start: one that no other start of the entry has.
NewTask(e) == CHOOSE n \in Tasks \ StartTasks(e) : TRUE

\* Slip: a timer for the ones given up on.
ScheduledFailed(entries) ==
    {e \in CurrentEntries : running /\ entries[e].state = "failed" /\ entries[e].retry}

\* The retries still to come that the timer is set for.
Scheduled(entries) ==
    {e \in CurrentEntries : running /\ entries[e].state = "waiting" /\ entries[e].retry}

\* Whatever can start is started.  When the pass changed nothing, or was the last, the
\* lock is free again and the earliest retry is scheduled.
EndPass ==
    /\ HeadIs("start")
    /\ LET starting == {Current(p) : p \in {q \in Known : CanStart(q)}}
           again == round.changed \/ Snapshot # round.before
       IN  /\ entry' = [e \in Entry |->
                IF e \notin starting THEN entry[e]
                ELSE [entry[e] EXCEPT !.state = "starting", !.bindings = Handed(e),
                                      !.toldFailure = FALSE, !.stopping = FALSE,
                                      !.missedSettings = FALSE, !.missedPlatform = FALSE,
                                      !.task = NewTask(e)]]
           /\ starts' = starts \cup
                {[e |-> e, n |-> NewTask(e), at |-> "spawned"] : e \in starting}
           /\ IF again /\ round.n < NumPasses
              THEN /\ GoOn(<<Pass>>)
                   /\ round' = [round EXCEPT !.n = @ + 1]
                   /\ UNCHANGED timer
              ELSE /\ GoOn(<<>>)
                   /\ UNCHANGED round
                   /\ timer' = Scheduled(entry')
    /\ UNCHANGED <<hub, known, given, plugged, offers, store, gaveUp, settings, platform, bound,
                   queue, running, object>>

\* The time of a retry comes, and the timer set for it goes off.
RetryDue(e) ==
    /\ IsYielding
    /\ entry[e].retry
    /\ entry' = [entry EXCEPT ![e].retry = FALSE]
    /\ UNCHANGED <<hub, known, given, plugged, offers, store, gaveUp, settings, platform, bound,
                   queue, work, round, starts, timer, running, object>>

TimerFires ==
    /\ IsYielding
    /\ \E e \in timer : ~ entry[e].retry
    /\ timer' = {}
    /\ QueueRefresh(Present)
    /\ UNCHANGED <<hub, given, plugged, offers, store, gaveUp, settings, platform, bound,
                   work, round, starts, running, object>>

-----------------------------------------------------------------------------
(* Together. *)

Holder ==
    \/ Acquire \/ SettleChange \/ Closed
    \/ Revive \/ LetStart \/ TellOrNote \/ TellMissed \/ TakeTold \/ NoChange \/ CountFailure
    \/ StopDisabled \/ StopUsers \/ CancelStart \/ CallStop \/ EndStop
    \/ BeginHook \/ EndHook
    \/ BeginPass \/ DropUnwanted \/ BeginDeliver \/ Deliver \/ EndPass

Begins == \E s \in starts : BeginStart(s)
Ends   == \E s \in starts, ok \in BOOLEAN : EndStart(s, ok)
Retry  == TimerFires \/ \E e \in Entry : RetryDue(e)

Called ==
    \/ Close \/ UpdatePlatform
    \/ \E p \in Peripherals :
          \/ Enable(p) \/ Disable(p) \/ Restart(p) \/ UpdateSettings(p)
          \/ RemoveGiven(p) \/ AddGiven(p) \/ Plug(p) \/ TellFailure(p) \/ TellStop(p)
    \/ \E x \in Endpoints : Offer(x)

Next == Boot \/ Holder \/ Begins \/ Ends \/ Retry \/ Called

Spec == Init /\ [][Next]_vars

\* The loop runs every task that can go on, and every call to a peripheral the runtime
\* waits on ends: start_timeout, STOP_TIMEOUT and HOOK_TIMEOUT cut it short.
Fairness ==
    /\ WF_vars(Boot) /\ WF_vars(Holder) /\ WF_vars(Begins) /\ WF_vars(Ends)
    /\ WF_vars(TimerFires) /\ \A e \in Entry : WF_vars(RetryDue(e))

FairSpec == Spec /\ Fairness

-----------------------------------------------------------------------------
(* What it implements, and types. *)

\* What each peripheral is promised about the calls it gets.
Calls == INSTANCE PeripheralCalls WITH call <- [p \in Peripherals |-> object[p].call]

TaskType ==
    [do : {"boot", "refresh", "close", "enable", "disable", "restart", "settings",
           "platform", "fail", "quit", "started"},
     e : Entry, n : Tasks \cup {NoTask}, ok : BOOLEAN, all : SUBSET Entry]

StepType ==
    [do : {"pass", "drop", "moves", "deliver", "start", "settle", "closed", "revive", "enable",
           "settings", "platform", "missed", "fail", "quit", "failed", "stop", "cancelled",
           "stopping", "hook"} \cup Hooks,
     e : Entry, to : {"waiting", "disabled"}]

EntryType(p) ==
    [state : State, attempts : 0..hub.retries, retry : BOOLEAN, bindings : LinksOf(p),
     stoppedWith : [stopped : BOOLEAN, on : LinksOf(p) \cup {<<>>}],
     toldFailure : BOOLEAN, stopping : BOOLEAN, missedSettings : BOOLEAN,
     missedPlatform : BOOLEAN, task : Tasks \cup {NoTask}]

TypeOK ==
    /\ hub \in Hubs
    /\ DOMAIN entry = Entry /\ \A e \in Entry : entry[e] \in EntryType(e[1])
    /\ known \in [Peripherals -> Lives \cup {NoLife}]
    /\ given \subseteq Peripherals /\ plugged \subseteq Children
    /\ offers \subseteq Endpoints
    /\ store \subseteq Peripherals /\ gaveUp \subseteq Peripherals
    /\ settings \in [Peripherals -> 0..1] /\ platform \in 0..1
    /\ bound.wanted \subseteq Peripherals
    /\ \A p \in Peripherals : bound.links[p] \in LinksOf(p)
    /\ queue \in Seq(TaskType)
    /\ work \in Seq(StepType)
    /\ round \in [n : 0..NumPasses, changed : BOOLEAN,
                   before : [known : SUBSET Peripherals, offers : SUBSET Endpoints,
                             plugged : SUBSET Peripherals]]
    /\ starts \subseteq [e : Entry, n : Tasks, at : {"spawned", "in", "left"}]
    /\ timer \subseteq Entry
    /\ running \in BOOLEAN
    /\ object \in [Peripherals -> [call : Calls!Call,
                                   settings : 0..1, platform : 0..1,
                                   failed : BOOLEAN, quit : BOOLEAN]]

-----------------------------------------------------------------------------
(* What the runtime promises. *)

\* Nobody holds the lock or waits for it, so every change asked for is made.
Calm == queue = <<>> /\ work = <<>>

\* Nothing is left to do until somebody calls, a retry falls due or a peripheral tells.
Quiet ==
    /\ Calm /\ running
    /\ \A s \in starts : s.at = "left"
    /\ \A e \in timer : entry[e].retry

\* Once quiet, the hub runs by the one rule: whatever may start was started, whatever runs
\* should, with the bindings of now, and nothing known is gone.  No change is lost between
\* two passes, between a start and its refresh, or while the lock was waited for.
Settled ==
    Quiet =>
        /\ Known = Present
        /\ bound = Resolved(known, entry)
        /\ \A p \in Known :
             LET x == entry[Current(p)]
             IN  /\ ~ CanStart(p)
                 /\ x.state # "starting"
                 /\ x.state = "running" => p \in bound.wanted /\ x.bindings = Handed(Current(p))

\* No order of calls from outside, failures, timeouts and retries makes the runtime call a
\* peripheral out of turn: two starts at once, a stop during a hook, a hook on one that
\* does not run, a start before the stop before it ended (`start`, `stop` and the hooks of
\* peripherals/peripheral.py).
CallsInOrder == Calls!Spec

\* What the user disabled does not run, and nothing else is disabled, whatever happened to
\* its entry (stopped, replaced, failed) while the call waited for the lock.
StoreAgrees == Calm => \A p \in Known : StateOf(p) = "disabled" <=> p \in store

\* What the user disabled does not run until enabled again, whatever is stopped and
\* started around it (`Runtime.disable`: "until enabled again; kept across restarts").
DisabledStaysOff == Calm /\ running => \A p \in Known \cap store : ~ IsStarted(Current(p))

\* One that runs works with the settings and the platform of now: it read them as it
\* started, or was told since, also of what changed while it was starting.
KnowsWhatChanged ==
    Calm => \A p \in Known : StateOf(p) = "running" =>
                object[p].settings = settings[p] /\ object[p].platform = platform

\* One that told it failed, or that it stopped by itself, is not left running: the word
\* is taken, whether told while it started, while it ran, or while the lock was waited for.
NoWordIsLost ==
    Calm => \A p \in Known : StateOf(p) = "running" => ~ object[p].failed /\ ~ object[p].quit

\* What is shown as running was started and not stopped since: a start left behind by an
\* earlier stop, however late it returns, makes nothing run.
RunningWasStarted ==
    \A p \in Known : StateOf(p) = "running" => object[p].call \in {"on", "asked", "stopping"}

\* A peripheral started and not stopped is one the runtime knows as started, or is about
\* to stop, and none is once the runtime stopped: none runs on unseen, holding its radio.
NoneRunsUnseen ==
    Calm => \A p \in Peripherals :
        object[p].call # "off" => running /\ p \in Known /\ IsStarted(Current(p))

\* What NoneRunsUnseen says of a stopped runtime (`stop`), by itself.
StoppedMeansStopped ==
    Calm /\ ~ running => \A p \in Peripherals : object[p].call = "off"

\* What runs inside another one's process object runs only while that one does: the
\* provider is not stopped before its users are, nor they started before it.
InsideRunsWithin ==
    \A u \in CurrentEntries : IsStarted(u) =>
        \A i \in Required(u[1]) : \A l \in entry[u].bindings[i] :
            l[1] \in hub.inside => entry[Provider(l)].state = "running"

\* One given up on in this session stays so while it is known, also when what brought it
\* along brings it anew.
GaveUpStays == IsYielding => \A p \in gaveUp \cap Known : StateOf(p) \in GivenUp

\* Only the user revives: an entry leaves the disabled state by its enabling, and the
\* failed one by a restart or new settings.
OnlyTheUserRevives ==
    [][\A e \in Entry :
        IsCurrent(e) =>
          /\ entry[e].state = "disabled" /\ entry'[e].state # "disabled" =>
                HeadIs("enable") /\ Head(work).e = e
          /\ entry[e].state = "failed" /\ entry'[e].state \notin GivenUp =>
                \/ HeadIs("settings") /\ Head(work).e = e
                \/ \E i \in DOMAIN work : work[i] = Step("revive", e)]_vars

\* A disabling takes effect, unless it is taken back or the peripheral goes first.
DisablingTakesEffect ==
    \A p \in Peripherals :
        p \in store ~> p \notin store \/ p \notin Known \/ StateOf(p) = "disabled"

\* One that should run does not wait for ever: a provider that starts, a retry, a stop it
\* waits for and a refresh of its own or another's are all followed by its start.
WaitsToRun(p) ==
    /\ running /\ p \in Known /\ p \in bound.wanted
    /\ StateOf(p) = "waiting" /\ ~ entry[Current(p)].stoppedWith.stopped

IsTriedAgain == \A p \in Peripherals : WaitsToRun(p) ~> ~ WaitsToRun(p)
=============================================================================
