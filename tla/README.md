# TLA+ models of the MajorDom integration SDK

This directory models the SDK as a smart-home hub runs it. Its core is what decides *what runs*:
the runtime that binds, starts, stops and restarts the hub's *peripherals* (integrations, radio
sticks, network browsers, containers), the timer of its retries, and the Docker Compose host of the
services it runs in containers. Around it: who discovers things on the network and over Bluetooth,
the sources and leases of the Bluetooth router, the USB scanner and its radios, the host ports of
the services, the setting up of a Thread border router, and the two device repositories. The
modules are TLA+ proper, model-checked with TLC; of every part the safety properties that the runs
check are also proved with TLAPS, for any values of the constants, but for the three that section 4
names. Paths below are relative to `src/majordom_integration_sdk/`.

## 1. The system

| Part | Source | State it keeps | Operations |
|---|---|---|---|
| Runtime, binding | `runtime/runtime.py` 654-715 | none between calls: computes `_wanted`, `_bound` | `_resolve`, `_bind`, `_candidates` |
| Runtime, lifecycle | `runtime/runtime.py` | `_entries` (state, attempts, bindings, what it missed, its start task), `_failed`, the disabled store, `_lock`, `_timer`, `_tasks` | `start`, `stop`, `refresh`, `enable`, `disable`, `restart`, `update_settings`, `update_platform`, `add`, `remove`, `peripheral_did_change/fail/stop` |
| Runtime, its calls | `runtime/runtime.py` 495-541, 911-918 | `_lock`, `_holder`, `_calls`, the mark each task inherits | `_in_own_task`, `_is_driving`, `_call`, `_spawn` |
| Runtime, retries | `runtime/runtime.py` 729, 806-824, 838-842, 893-910 | `attempts`, `retry_at`, `running_since`, `_timer` | `_fail`, `_schedule_retry` |
| Peripheral contract | `peripherals/*.py` | that of each peripheral | `start`, `stop`, the three `..._did_change` hooks |
| Compose host | `runtime/peripherals/services/compose.py`, `peripherals/service.py` | `_running`, `_rendered`, `_applied`, `_applying`, ports | `up`, `down`, `_apply_in_turn`, `_keep_ports`, `_ports`, `wipe` |
| Built-in services | `runtime/peripherals/services/builtin.py` | the router's datasets, what the hub knows of the network | join, form, move off Zigbee's channel, tell |
| Bluetooth router | `runtime/peripherals/providers/ble/router.py` | sources, leases, tracked devices, listeners | `add_source`, `remove_source`, `exclusive`, scan, evict, revive |
| Bluetooth sources | `runtime/peripherals/providers/ble/{bluez,cpc_hci}.py` | an adapter's connection | start, stop, pause, resume |
| Zeroconf, SSDP | `runtime/peripherals/providers/{zeroconf,ssdp}.py` | known services per subscriber, resolves and confirmations under way | subscribe, notify, resolve, confirm, expire |
| USB scanner | `runtime/peripherals/hardware/usb.py` | sticks found, radios remembered, busy sticks | scan, probe, flash, forget |
| Device repository | `repository/*.py` | devices by id | get, save, delete in a session |
| Kept files | `files.py` | JSON on disk | `read_json`, `write_json` |
| Controllers, schemas, dev tools | `controller/`, `schemas/`, `dev/`, `testing/` | none of their own, or data | - |

**How they interact.** Everything runs in tasks of one asyncio loop. Each `Runtime` call spawns a
task of its own, which takes the runtime's one lock, changes what it has to, and refreshes: up to
ten passes that collect the peripherals there are, resolve their needs against what the others
provide, stop what should not run, deliver moved bindings through hooks and spawn a start task for
what can start. The start tasks run without the lock and come back for it. Peripherals call back
(`peripheral_did_change/fail/stop`), also while a call to them is under way. Services call
`up`/`down` of the Compose host inside their `start` and `stop`; those calls share one chain of
`docker compose` runs that goes on when the caller is cancelled. The discovery providers and the
Bluetooth router are peripherals whose objects others run inside; they call their subscribers
and await them.

**What is hard.** The lock is *not* held while a start is under way, and it *is* held across
cancelled starts, stops and hooks, during which everything else moves: words told meanwhile, settings replaced,
calls queueing, entries replaced. Starts that swallow their cancellation outlive their entry.
`Runtime.stop` cancels other calls' tasks. A clock is read twice. Docker fails half way; the hub's
process dies with containers running. The providers have no lock at all: each telling of a listener
is an await, in which another task of the same provider evicts, expires or discovers the same
thing; UDP loses, repeats and reorders; a goodbye overtakes a resolve. A lease waits while its source
is removed; a stick leaves the bus while it is flashed; a border router's answer is lost after it
did what it was asked. Peripherals call the runtime from inside calls the runtime waits on, and from tasks
of theirs that outlive those. PROJECT.json lists these hazards at their lines with the properties aimed
at them, and for the few no property covers, why.

**What makes each part correct.** *Binding*: single-use endpoints have one holder, nothing taken
leaks, what should run can, the one given first wins, the computation ends. *Lifecycle*: calls to a
peripheral come in order, no word or change is lost between awaits, the disabled and the given up
on stay so, nothing runs unseen or outside what it runs in, quiet means settled, and starts and disablings
eventually happen. *Calls*: nobody waits for itself. *Retries*: never early, exactly as many as there are delays, none forgotten.
*Compose*: what is believed applied is what docker runs, a service that serves runs what it
rendered, nothing else has a container; no two services keep one port, and the container of one that was
started has the ports it keeps. *Discovery*: a listener hears found, then updated, then lost, of each
thing, and of all there is. *Leases*: none outlives its client. *Radios*: what one serves, and what
is remembered of it, is what its stick runs. *Border routers*: one that serves is on the network the
hub told it, or the hub is told its own, on the channel it stays on, which on a shared radio is the one Thread was on before it joined. *Repositories*: the two answer alike.

## 2. The modules

| Module | Models | Role |
|---|---|---|
| `Resolution` | `_bind`, `_resolve` as functions of the world and who is alive | shared operators; no state |
| `Binding` | the same computation, one step per need and per round | detailed machine, proved about |
| `BindingUsers` | `users`, `uses` | reads `Binding`; proved about |
| `BindingViews` | `_Reasons`, `_why_waiting` of what is not wanted | reads `Binding`; TLC only (recursive operators) |
| `BindingProofs` | - | TLAPS theorems about `Binding` and `BindingUsers` |
| `PeripheralCalls` | the calls a peripheral may see, in which order | abstract specification |
| `Lifecycle` | `Runtime`: calls, lock, passes, starts, stops, hooks, retries | composes `Resolution`; implements `PeripheralCalls` |
| `LifecycleSteps` | - | TLAPS: what each step of `Lifecycle` does to the work, the tasks and the entries; types |
| `LifecycleProofs` | - | TLAPS theorems about `Lifecycle`, its refinement of `PeripheralCalls` among them |
| `Driving` | who waits for whom: tasks, the lock, calls to peripherals and their marks | details what `Lifecycle` leaves out of callers |
| `RetryTimer` | failures, delays, the two clock readings, the one timer | details what `Lifecycle` leaves untimed |
| `Waits` | - | `RetryTimer` and `Driving` side by side, for one run and one module of proofs |
| `WaitsProofs` | - | TLAPS theorems about `RetryTimer` and `Driving` |
| `Compose` | class `Compose` under `Service.start/stop` | a component of its own |
| `ComposeProofs` | - | TLAPS theorems about `Compose` |
| `ComposePorts` | `_ports`, `_keep_ports`, ports.json; which ports the applies hand to docker | details what `Compose` leaves out of ports |
| `Discovery` | what a registration hears of each thing | abstract specification |
| `Ssdp` | `SSDPDiscoveryService` | implements `Discovery` |
| `SsdpProofs` | - | TLAPS theorems about `Ssdp`, this refinement among them |
| `Zeroconf` | `ZeroconfDiscoveryService`, `_ServiceListenerAdapter` | implements `Discovery` |
| `BleTracking` | `BLEService`: tracked devices, listeners, evictors | implements `Discovery` |
| `BleSources` | `BLEService`: sources, leases, bursts, revival; `LocalAdapter` | a component of its own |
| `BleSourcesProofs` | - | a TLAPS theorem about `BleSources` |
| `UsbRadios` | `UsbScanner`, `Radio`, sticks.json | a component of its own |
| `BorderRouter` | `_BorderRouter`, `_MultiPanBorderRouter` over the REST API; what entrypoint.sh does with Thread | a component of its own |
| `Repository` | `DeviceRepositoryMemory`, `SqliteDeviceRepository` | both, under the same calls |
| `Parts` | - | `Compose`, and one instance or more of each part from `ComposePorts` on, side by side |
| `PartsProofs` | - | TLAPS theorems about the `Parts` |
| `MCBinding`, `MCLifecycle`, `MCRetryTimer`, `MCWaits`, `MCCompose`, `MCUsbRadios`, `MCParts` | - | small instances for TLC |

A module the proofs need a stronger invariant of ends with it, under "Why": the conjuncts of `IInv`
say what, besides the properties, is true of every state.

A definition whose comment starts with "Slip:" is no part of any specification: it is a plausible
mistake in the definition that follows it, kept to show that the properties would notice.

### Resolution and Binding

A *world* gives each peripheral's needs (which endpoints it accepts, required or not, one or
many), who provides each endpoint, which are offered, which are shared, and which peripherals run
on demand only. Peripherals and endpoints are numbered in binding order, the order `_entries` has
(given first comes first); `_candidates`' filtering by type, protocol and the user's choice is the
set `accepts`. Bring-along order is left out.

`Binding` has one action per branch of `_bind` (`SkipUnwanted`, `BindNeed`, `FailOwner`,
`BindOwnerDone`) and of `_resolve`'s two loops (`WidenWanted`, `LeaveOut`, `Conclude`). `Resolve`
in `Resolution` is the same as a recursive *function*, so that `Lifecycle` can call it in one step
and modules that extend it stay provable; `AgreesWithResolve` checks the two against each other.

`BindingUsers` and `BindingViews` read a concluded binding as the hub does: `Users` and `Uses` walk
it in either direction, `Reasons` goes through the peripherals and their needs in the code's order, since what
`_Reasons.of` finds in a circle depends on where it came from, and `ShownUnused` are those whose
status is "unused".

### PeripheralCalls and Lifecycle

`PeripheralCalls` is the promise to an author of a peripheral: `start`, hooks and `stop` come one
at a time and in order: no second start before a stop, no hook on one that does not run, a stop after each
start, however that came out. `Lifecycle` implements it under the mapping
`call <- [p |-> object[p].call]` (property `CallsInOrder`).

In `Lifecycle` an entry `<<p, l>>` is the l-th `_Entry` made for peripheral p, because tasks keep
the old one while a new one is in `_entries`. `queue` is the lock's FIFO of waiters, `work` what
its holder still has to do, a sequence of steps that runs from one await to the next; `IsYielding`
says when the holder awaits, and only then may anything else happen. The correspondence:

| Actions | Code |
|---|---|
| `Boot`, `Close`, `Closed` | `start`, `stop` before and after the lock, cancelling the runtime's tasks |
| `Enable`, `Disable`, `Restart`, `UpdateSettings`, `UpdatePlatform`, `AddGiven`, `RemoveGiven` | the public calls up to the lock |
| `Plug`, `Offer`, `TellFailure`, `TellStop` | `peripheral_did_change`, `_did_fail`, `_did_stop` |
| `Acquire`, `SettleChange` | a task gets the lock; it is released and the task refreshes |
| `Revive`, `LetStart`, `TellOrNote`, `TellMissed`, `TakeTold`, `CountFailure`, `NoChange` | the bodies run under the lock |
| `StopDisabled`, `StopUsers`, `CancelStart`, `CallStop`, `EndStop` | `_stop`: users inside first, the start cancelled (and perhaps left behind after STOP_TIMEOUT), `stop` called, the entry left waiting or disabled |
| `BeginHook`, `EndHook` | `_ask`: handled in place, refused (restart) or failed |
| `BeginPass`, `DropUnwanted`, `BeginDeliver`, `Deliver`, `EndPass` | `_pass` and the loop of `refresh` |
| `BeginStart`, `EndStart` | the start task, `start_timeout` included; a start left behind ends at any later time |
| `RetryDue`, `TimerFires` | a delay is over; the timer asks for a refresh |

A refresh that finds the runtime stopped collects at once, without the lock, with what is there by
then (`QueueRefresh`, `Collect`): section 6 says what becomes of that.

The variable `object` records what the peripheral itself saw (the last call, the settings and the
platform it read, what it told), independently of what the runtime believes in `entry`: most
safety properties relate the two.

### Driving

A task is a slot; `kind` says whether it is the runtime's own (and which) or somebody else's. A
call the runtime makes to a peripheral has a mark, which the tasks made in it inherit (`mark`) and
keep when it is over; `calls` is the marks of the calls under way.

| Actions | Code |
|---|---|
| `Come`, `Make`, `Await`, `CancelAwait`, `End` | the tasks of others: the owner's, and what the code of a peripheral does with its own |
| `InOwnTask` | `_act`, `_settle`: the runtime's task is made, outside any call; the caller waits unless `IsDriving` |
| `Acquire`, `Release` | `_locked`; after a change its task queues again, to refresh |
| `BeginCall`, `EndCall` | `_call` around a stop or a hook; a start that returned queues for the lock |
| `Start`, `StopStart` | the start task; its cancellation by `_stop`, waited for |

Two things are assumed of peripherals, as `PeripheralOutput` words them: a call awaits, without
cancelling them, only tasks made in it, and what is cancelled goes on no more than to its end. A
stop that awaits a keeper of its start without cancelling it, while the keeper awaits the runtime,
does wait for itself, until STOP_TIMEOUT.

### RetryTimer

`Lifecycle` lets a retry fall due at any moment. `RetryTimer` has the clock: `Pass` compares
`retry_at` with one reading of `monotonic()`, `ScheduleRetry` takes a later one, `Tick` may come
in between. A stable run, the count of failures in a row, giving up and the user's revival are
modelled with their numbers. `failures` and `tries` are history variables the properties compare
with.

### Compose

One service renders as one of several `Versions` (settings, platform and bindings decide which).
`Up` renders and asks for an apply, `Down` forgets the service and asks for another; the applies
take turns (`_apply_in_turn`) and survive their callers (`Unheeded`). `BeginApply` forgets what was
applied before docker starts, `SkipApply` is "nothing changed", `DockerTakes` and `DockerRefuses`
end it, the latter with any mixture of old and new containers, and `Crash` loses all but docker's
containers. `Ready` is a service's wait for its ports and health check (external; it only has to
find its container there).

### ComposePorts

The ports behind one `Compose`. `Provided` is rendering, or telling what a service provides: it
fixes `_tentative`. `KeepPorts` is the step of `up` that keeps them and renders with them, or, when
something listens on one, goes on to ask docker which containers run. `DockerLooks` is docker's
look at that moment, and `FoundRunning`, `FoundStopped` and `AskFailed` are what becomes of the answer
when it comes, after whatever came in between.

| State | Code |
|---|---|
| `kept`, `tentative` | `ports` with ports.json; `_tentative` |
| `asking` | the locals of `_keep_ports` while it awaits docker, and what docker saw |
| `stage` | off; "up": in `_running`; "created": an apply that had it went through |
| `rendered`, `applied`, `taking` | the ports in `_rendered`, in `_applied`, and in the project of the apply under way |
| `left` | docker may still be at the apply of a hub that died |
| `container`, `taken` | docker's containers, with the ports each was created with; what other programs listen on |

An apply takes the project as it is when its turn comes (`BeginApply`, `SkipApply`) and goes on
without its caller: `Down`, and a new `KeepPorts` with other ports, may come before its end.
`DockerTakes` creates one container after the other, `EndApply` and `FailApply` end it. `Crash`
leaves docker at it: `LeftTakes` creates a container with ports kept at some earlier time, at any
time after. `Flips` has a container exit, or docker bring it back as it was created.

### Discovery, Ssdp, Zeroconf and BleTracking

`Discovery` is the promise of the three listener protocols in `capabilities/`: about each thing a
registration is told "found", then any "updated", then "lost", and only then "found" again. In
the three below `told` holds the last call, and `ToldInOrder` says the module implements
`Discovery` (for `BleTracking` for those listeners whose matcher no change of an advertisement
leaves; section 6 says what the others see).

| Actions of `Ssdp` | Code of `providers/ssdp.py` |
|---|---|
| `Register`, `Cancel`, `Start`, `Stop` | the calls from outside; `Stop` cancels every task where it awaits |
| `Hear`, `TellAlive`, `TellByebye`, `HeardOut` | the task that listens: one message, one subscriber after the other; a byebye goes by place in the list, which a cancellation shifts |
| `BeginScan`, `NextReply`, `TellReply`, `EndScan` | the periodic scan, and `perform_scan` |
| `GoStale`, `BeginCheck`, `CheckNext`, `EvictNext` | what was not heard for some scans, and the task that tells it lost |

| Actions of `Zeroconf` | Code of `providers/zeroconf.py` |
|---|---|
| `Register`, `Cancel`, `Start`, `Stop`, `EndBrowse`, `Stopped` | registrations before and while the service runs; what a cancellation made of a pending one does |
| `HearRecord`, `Goodbye`, `TellRemoved` | add, update and remove of the library's browser |
| `TimerFires`, `BeginResolve`, `EndResolve` | `_resolve_later_queue`: one per name; the answer, or the cache |
| `SyncWithCache`, `EndConfirm` | the poll of the cache; an address that expired, confirmed or not |

| Actions of `BleTracking` | Code of `providers/ble/router.py` |
|---|---|
| `Register`, `Cancel` | `register` and what it returns |
| `Advertise`, `Fade` | one advertisement, all tellings begun at once; the grace of a source's last one is over |
| `Hold` | a lease of a source, with or for a device, begins or ends: the device is not evicted |
| `BeginEvict`, `Keep`, `Evict`, `Stumble`, `Restart` | the eviction loop and `perform_scan`, device by device; the loop that ends on a `KeyError`, and the next start |

### BleSources

`jobs` are the operations on sources that are awaited, by whom and in which order; `End` is one
of them ending, and goes on with what its awaiter does next. `Start`, `Started`, `AddSource`, `RemoveSource`,
`HookDone`, `Stop`, `Stopped`, `CutOff` are the runtime's calls (the last a call cut off by its
timeout), `WaitFor` to `Release` one `exclusive`, from waiting for a lease to letting go of it,
`BeginRevive` to `EndRevive` the loop's restart of silent sources, `Switch` a burst's
`set_scan_mode`, `Connect` a connect through a source. A source that is removed and bound again is
another object of the same name: a job whose `same` is false works on the one before.

### UsbRadios

One scan at a time (`BeginScan`, `ScanNext`, `EndRecognise`, `EndScan`) goes through the sticks,
reads `sticks.json` for what it does not know (`Restored`), and asks drivers. `Probe`, `Flash`,
`Forget` and their ends are the user's, each under the lock of the *object*; `Plug`, `Unplug`, `Bind`,
`Start`, `Stop`, `Crash` happen meanwhile. A stick off the bus takes its object out of the list,
and the operation under way goes on with it ("lost").

### BorderRouter

A start is a sequence of requests: `at` says which is next, and of which part (channel, join, move, tell).
Each fails, is done without an answer (`Goes` back to where the part begins), or is done. `Lands` is a pending change of
channel taking effect in the router, `Learn` the hub being told of another network, by another router or the
owner. `Start` is the container as it first answers: with what OpenThread had stored (`Stored`), or, on a
radio that serves Zigbee too, with the network its entrypoint formed (`Restored`) and the move to Zigbee's
channel it asked for (`Following`). Either may not have come about: the entrypoint ignores a
refusal, and moves nothing when it reads no channel. `radio` is "followed" if Thread is on Zigbee's channel
or on its way there all the same, and "apart" otherwise. The port Compose waits for last, that of
Zigbee, opens only after this part of the entrypoint, so no request of the start is answered during it.

### Repository

One call of a session is one action, which updates the dict of the one and the file of the other:
`Save`, `SaveParameter`, `UpdateVisibility`, `Delete`; `Close`, `Fail` and `Crash` end sessions
with or without a commit. `ReadInMemory` and `ReadInSqlite` are what a session would be answered
now; `SameInBoth` compares them until a session fails, after which the one in memory keeps what the
other rolls back, as documented.

### Waits and Parts

What shares no state needs no run of its own. A behaviour of `Waits` is one of `RetryTimer` or one
of `Driving`; a behaviour of `Parts` is one of the part that `which` names from the start:
`Compose`, or one of eleven instances of the components around the runtime. `Compose` is extended
and has its own variables and names (`TypeOK` is its type invariant, `PartsTypeOK` everybody's);
for the others the variables `v1` to `v10` stand for that instance's. What is said of a part is the
property of the same name of its module, of the behaviours of that part; the parts not chosen stand
still. `Ssdp` is there twice, once with scans, `BleSources` once for each kind of source.

In `MCParts` the two pairs of model values `c`, `d` and `x`, `y` (clients or versions, services or
sessions) are alike in every instance that uses them, which the symmetry uses.

## 3. Runs

| Run | Instance | Shows |
|---|---|---|
| `binding` | 5 peripherals, 4 endpoints; chains of on-demand providers over single-use radios, and tangled worlds (cycles, self-provided needs, competition), a ring that stays wanted; every set of alive ones | types, `HeldOnce`, `TakenIsHeld`, `Grounded`, `GivenFirstWins`, `OnDemandIsUsed`, `AgreesWithResolve`, `Terminates` |
| `life` | six hubs of up to three peripherals: one alone, an on-demand in-process provider and its user (twice, with different calls), shared and single-use providers, a stick that brings along a radio and an integration on it (twice) | types, `NoWordIsLost`, `RunningWasStarted`, `KnowsWhatChanged`, `StoreAgrees`, `InsideRunsWithin`, `Settled`, `NoneRunsUnseen`, `GaveUpStays`, `OnlyTheUserRevives`, `CallsInOrder` |
| `life_live` | the stick's hub with its object used in process, fair | `DisablingTakesEffect`, `IsTriedAgain` |
| `waits` | `RetryTimer`: 2 peripherals, delays 1 and 2, clock to 6; `Driving`: 4 tasks, 3 marks | types, `GivenUpAfterAll`, `NextRetryIsTimed`, `NoneTooEarly`; `NoneWaitsForItself` |
| `parts` | the `Parts` of `MCParts`, below | types; `AppliedIsTrue`, `ServesAsRendered`, `LastIsApplied` of `Compose`; `ToldInOrder`, `HeardIsKnown`, `LeasesEnd`, `ServesWhatRuns`, `RemembersRight`, `PortsStand`, `JoinedIsOn`, `ToldAsItStays`, `SameInBoth` |
| `life_closed_radio`, `life_closed_disabled`, `retry_late`, `compose_left`, `usb_flashed`, `zeroconf_known`, `unused_shown` | the smallest instance each needs | one disagreement of the code with its own words each (section 6) |

What the properties say, and of which code, is in the comment above each. The ones
that carry most:

- `Settled`: when nobody holds or waits for the lock and no start, timer or call is pending, the
  hub is exactly where a resolve from scratch would put it. It catches a refresh that is not asked
  for, a moved binding not delivered, an entry not dropped.
- `KnowsWhatChanged` and `NoWordIsLost`: what the *peripheral* read is what is kept now, and what
  it told was acted upon, across starts under way and waits for the lock.
- `RunningWasStarted`, `NoneRunsUnseen`: what the runtime believes of a
  peripheral against what the peripheral was last called with, starts left behind included.
- `NoneWaitsForItself`: whatever a peripheral calls from inside its stop or hook, the tasks these
  await, or the keepers they cancel, no circle of waiting closes. It breaks as soon as only the
  holder of the lock is taken for driving, and not the tasks its call awaits.
- `OnDemandIsUsed`: nothing on demand stays wanted by a binding that no longer stands, but for a ring of
  two that use one another (section 6), and `users` and `uses` tell the same.
- `InsideRunsWithin`: in-process users stop before, and start after, the object they run in.
- `AppliedIsTrue`, `ServesAsRendered`: the shortcut "nothing changed" is only taken when nothing
  did, whatever failed, was cancelled or crashed before.
- `ToldInOrder`: the three who discover, each with several tasks that tell the same listener,
  implement one abstract specification. `HeardIsKnown` is its counterpart for Bluetooth: a listener
  is not left without a device that is heard and matches.
- `LeasesEnd`: a source is locked and marked exactly while one client has its lease, through removals,
  cancellations, timeouts and a router stopped meanwhile.
- `ServesWhatRuns`, `RemembersRight`: what a radio serves is the firmware on its stick, and what
  sticks.json keeps is not older than what the scanner knows, across scans, drivers that come and go and restarts.
- `PortsStand`: what is chosen before docker answers is still right when it does; and what the endpoints
  of a started service tell is where its container listens, though applies outlive the starts they are of,
  one serves another's start, or is skipped. Only a container that docker made for a hub that died may
  have others (section 6).
- `JoinedIsOn`, `ToldAsItStays`: whatever request failed or whose answer was lost, a router that
  serves is on the network it was told, and what the hub is told is what the router stays on: with a shared
  radio on the channel it had as its container answered, whatever network it joined since. That this is
  Zigbee's is claimed only where the entrypoint had Thread follow.
- `SameInBoth`: an integration tested against the repository in memory sees in sqlite what it saw there.

### Bounds and why they are enough

- *Binding*: a chain in which widening takes two rounds and leaving one out undoes a widening
  needs two sticks, two on-demand providers and a user, five peripherals; the worlds are the
  needs such a hub can have, 0.55 million states. The proved properties hold for any size.
- *Lifecycle*: a hub's `doings` pick the calls its instance explores, so that each is exhaustive
  for its question; `Hubs` is the set the initial state picks from. `waiting` bounds calls from *outside* while others wait (a task's own refresh is
  never refused): two waiting tasks already reorder in every way the FIFO allows. `tasks = 2` of the
  hub of one is one start left behind and one new; `NumLives = 3` covers an entry in use, one
  still referred to and a new one. `NumPasses` is the code's 10 and no instance needs them all.
  Settings and platform are one of two values: only "the one of now or an earlier one" matters. A
  number is always free for a start (proved, `StartsApart`), and no state of `life` or `life_live` has a peripheral without
  a free life, which `Collect` would wait for.
- *RetryTimer*: six ticks hold both delays, a stable run of two and a third failure.
- *Driving*: a circle takes the holder of the lock, a task its call awaits and the runtime's task that one
  waits for; the fourth is a keeper, a start or another caller. Three marks are the holder's call, a start's
  and one that is over.
- *Compose* (two interchangeable services, two versions, `MaxApplies` 4): two services are what it takes for one apply to serve another's start; four applies are a
  cancelled start, an abandoned stop, a new start and the other service's.

- *Parts*, with the states of each instance in thousands (1406 in all, `Compose` 56 of them):

| Instance | Of | Size | States |
|---|---|---|---|
| ssdp | `Ssdp` | one subscriber, two services of two versions, the periodic scan | 35 |
| notified | `Ssdp` | two subscribers, two services, no scans: byebyes by place while one cancels | 60 |
| zeroconf | `Zeroconf` | one registration, one name, two versions, `MaxTasks` 2: two of a kind under way at once | 141 |
| adapter, stick, proxy | `BleSources` | one source each, the hub's own, one bound, one that is paused; two clients | 38, 256, 199 |
| tracking | `BleTracking` | two listeners (one of all, one whose match changes), a device, two sources, the loop and a scan | 57 |
| usb | `UsbRadios` | one stick, a driver of the SDK and one that knows one more firmware; `DropsWhileBusy` FALSE (section 6) | 15 |
| ports | `ComposePorts` | a service of two ports and one of one, one port to move to, `MaxTaken` 1 | 493 |
| router | `BorderRouter` | one network to be told of and the one formed, two channels, both kinds of router | 30 |
| repository | `Repository` | two ids of one integration, two sessions | 27 |

  Registrations, names and sources do not interact in the code but through what the sizes have: the
  list of subscribers (two), the queue per name (one), the lock per source (one source, two
  clients). Two sources at once matter only to which one a lease takes, which is arbitrary here.

`parts` and `waits` check for deadlock and find none; in `waits` the last tick of the clock repeats
itself. The runs of the runtime and the binding do not: the hub may be at rest, the binding ends.

### Fairness

`Binding` is one synchronous function: weak fairness of `Next` is that Python goes on.
`Lifecycle!Fairness` assumes that the loop runs every ready task (`Holder`, `Begins`), that a call to
a peripheral the runtime waits on ends (`Ends`, and `EndStop`/`EndHook` within `Holder`), which
`start_timeout`, STOP_TIMEOUT and HOOK_TIMEOUT enforce, and that the retry timer goes off
(`TimerFires`, `RetryDue`). The owner starts the runtime (`Boot`). Nothing outside is assumed:
no user ever has to call, no failure has to end. Timeouts are not separate actions: an end that
the timeout forces is one of the outcomes of `EndStart`, `EndStop` and `EndHook`.

## 4. What is proved

`BindingProofs` proves, for every number of peripherals and endpoints and every set of worlds:

| Theorem | States |
|---|---|
| `TypeCorrect` | `Spec => []TypeOK` |
| `NothingLeaks` | `Spec => []TakenIsHeld` |
| `SingleUse` | `Spec => []HeldOnce` |
| `WantedIsGrounded` | `Spec => []Grounded` |
| `FirstComesFirst` | `Spec => []GivenFirstWins` |
| `RoundsResolve` | `Spec => []AgreesWithResolve`: the loops arrive at what `Resolve` gives |
| `ResolveGrants` | who should run is alive, and `Resolve` grants each its required needs from others that should |
| `OnDemandServes` | `Spec => []OnDemandIsUsed`: what runs on demand is wanted while it is used |

`LifecycleSteps` and `LifecycleProofs` prove, for any hubs, numbers of peripherals and endpoints,
waiting calls, starts left behind, retries, passes and lives:

| Theorem | States | For |
|---|---|---|
| `Types` | `Spec => []TypeOK` | every hub |
| `RevivedByTheUser` | `Spec => OnlyTheUserRevives` | every hub |
| `EveryCallInOrder` | `Spec => CallsInOrder`: `Lifecycle` implements `PeripheralCalls` | `ClosesWhole` |
| `RunsOnlyWhatWasStarted` | `Spec => []RunningWasStarted` | `ClosesWhole` |
| `NoneIsForgotten` | `Spec => [](NoneRunsUnseen /\ StoppedMeansStopped)` | `ClosesWhole` |
| `GivenUpForGood` | `Spec => []GaveUpStays` | `ClosesWhole` |
| `EveryWordIsTaken` | `Spec => []NoWordIsLost` | `ClosesWhole` |
| `EveryChangeIsKnown` | `Spec => []KnowsWhatChanged` | `ClosesWhole` |
| `InsideIsServed` | `Spec => []InsideRunsWithin`: who runs inside another runs only while that one does | `ClosesWhole`, `InsideByOne` |
| `DisabledIsKept` | `Spec => []StoreAgrees` | `NoneCutOff` |
| `DisabledNeverRuns` | `Spec => []DisabledStaysOff` | `NoneCutOff` |

`ClosesWhole` and `NoneCutOff` are hypotheses on the hubs: each leaves out what a finding of section 6
shows to go wrong. `ClosesWhole`: a hub whose runtime is ever stopped is given all it runs (nothing
is brought along) and nothing is removed from it; without it `life_closed_radio` shows one that runs on
unseen. `NoneCutOff`: in a hub whose runtime is ever stopped nothing is disabled; without it
`life_closed_disabled` shows one that runs though disabled. A hub whose runtime is never stopped
meets both whatever else it does, and so does each hub of the run `life`. `InsideByOne`: what a
required need accepts in process is provided by one peripheral. So it is for the four needs of the SDK that
get an object, each served by one built-in with a dialect of its own: the Bluetooth router
(`ble/router.py:104`), mDNS (`zeroconf.py:33`), SSDP (`ssdp.py:57`) and the container host
(`compose.py:54`). The code does not demand it of others; without it a binding that moves between two providers is
handed over too early (section 6). In the run `life` the hub `Browser` has such a provider.

`ComposeProofs` proves, for any services, versions and number of applies:

| Theorem | States |
|---|---|
| `TypeCorrect` | `Spec => []TypeOK` |
| `NothingChangedIsTrue` | `Spec => []AppliedIsTrue` |
| `RendersStand` | `Spec => []ServesAsRendered` |
| `LastAppliedStands` | `Spec => []LastIsApplied` |

`WaitsProofs` proves, for any peripherals, delays, tasks and marks:

| Theorem | States |
|---|---|
| `EveryTypeCorrect` | `WaitsSpec => []WaitsTypeOK` (`TypeCorrect` has it for `RetryTimer` alone) |
| `NobodyWaitsForItself` | `WaitsSpec => []NoneWaitsForItself` |
| `GivenUpRight` | `Spec => []GivenUpAfterAll` |
| `RetryAlwaysTimed` | `Spec => []NextRetryIsTimed` |
| `NeverTooEarly` | `Spec => NoneTooEarly` |
| `RetriesAreAPart` | `WaitsSpec => Spec`: these three hold in the run `waits` |

`PartsProofs` proves, for any number of clients, listeners, services, sources, sticks, networks,
devices and sessions, and of tasks, scans and evictors at once:

| Theorem | States | Part |
|---|---|---|
| `PromisesAreKept` | `PartsSpec => ToldInOrder`: `Ssdp`, `Zeroconf` and `BleTracking` implement `Discovery` | the three who discover |
| `TrackedIsTold` | `PartsSpec => []HeardIsKnown` | `BleTracking` |
| `LeasesOfEachKindEnd` | `PartsSpec => []LeasesEnd` | `BleSources` |
| `RadiosServeWhatTheyRun` | `PartsSpec => []ServesWhatRuns` | `UsbRadios` |
| `RadiosAreRemembered` | `PartsSpec => []RemembersRight` | `UsbRadios` |
| `PortsAlwaysStand` | `PartsSpec => []PortsStand` | `ComposePorts` |
| `RoutersJoin` | `PartsSpec => []JoinedIsOn` | `BorderRouter` |
| `RoutersTell` | `PartsSpec => []ToldAsItStays` | `BorderRouter` |
| `RepositoriesAgree` | `PartsSpec => []SameInBoth` | `Repository` |
| `PartsTypeCorrect` | `PartsSpec => []PartsTyped`: the types of all but `BleSources` | all |
| `ComposeIsAPart` | `PartsSpec => Spec`: the theorems of `ComposeProofs` hold in the run `parts` | `Compose` |

The theorems of two components are in modules of their own, about the component alone:
`SsdpProofs!TypeCorrect`, `SsdpProofs!KeepsThePromise` (`Spec => ToldInOrder`) and
`BleSourcesProofs!LeasesAlwaysEnd` (`Spec => []LeasesEnd`). `PartsProofs` takes these modules by
INSTANCE, twice and three times, and cites their lemmas for each of the parts.

*Assumptions*, all evaluated by TLC in the run named. `binding`: `NumAssumption` of `Resolution`
(the sizes are natural numbers) and `WorldsAssumption` of `Binding` (the worlds are worlds). `life`:
`HubsAssumption` of `Lifecycle` (the hubs are hubs: what brings another along comes before it, the
owner brings what is given) and `BoundsAssumption` (there is a peripheral, a pass and a life).
`waits`: `TimeAssumption` of `RetryTimer` (the delays are delays within the clock's bound) and
`TasksAssumption` of `Waits` (no task is "nobody", a mark is a number). `parts`: `ComposeAssumption`
(one apply at least may wait) and `VersionsAssumption` (no version is "no container") of `Compose`;
and of `Parts` one for each component that needs one: what stands for nothing is no version, client,
network or session (`DiscoveryAssumption`, `ZeroconfAssumption`, `SourcesAssumption`,
`RouterAssumption`, `RepositoryAssumption`), matchers match advertisements (`TrackingAssumption`),
ports are numbers and each service has one at least (`PortsAssumption`), Zigbee has one of the channels, each device is an
integration's. Nowhere are services, clients, tasks, sticks or sessions assumed to be finitely many.
`UsbRadios` is proved with `DropsWhileBusy` FALSE, as `parts` checks it: that no stick is off the
bus as something is done to it. `usb_flashed` shows what else may happen.

*The argument for the binding.* `TypeOK` is inductive with help of lemmas on what `Chosen`, `Take`
and `GiveBack` return. `TakenIsHeld` is not inductive alone: that `BindNeed` may overwrite
`holds[owner][need]` without losing a mark requires that a need not yet reached holds nothing, and
that owners not yet reached hold nothing; `FailOwner` restores exactly this for its owner. The
strengthening says so, and with it `HeldOnce` follows, since `Chosen` never picks an endpoint that
is taken and what an owner picks for two needs is told apart by the mark it just set. `Grounded`
needs that every bound owner has all its required needs met by candidates among the alive that are
not left out, that `wanted` never includes anyone left out, and that `Conclude` only fires when what
is used is wanted and what is wanted is bound. `GivenFirstWins` is kept with it need by need: who
took an endpoint holds it, so is the owner or one before it (`TakersComeBefore`), a need for one
takes the first of those free (`ChosenIsFirst`, by `FirstIs`), and an owner that fails gives back
only what is its own, never what one bound before it took.

`RoundsResolve` is what lets `Lifecycle` bind in one step. A recursive function is known only by
what it is chosen to be, so each of the three is unfolded first: those that go through owners and
needs count up (`CountsUp`, `StepsUnfold`, with the counterexample that comes first), those that
widen and leave out go along sets that grow within a finite one (`GrowthUnfolds`, `GrowthEnds`).
Then the invariant `AInv` carries, through each step, what is left of the function from here: the
turn under way and the owners still to come give the round `RoundIs`, that round and those after it
give `Resolve` of the start (`From`), and what is left out is left out of both.

`OnDemandServes` compares rounds. That an on-demand peripheral is wanted because *some* earlier
round used it is inductive (`UsedBefore`); what matters is whether the last one still does, though
each round has more owners to take the single-use endpoints. It does (`StillUsed`): where in the end
nobody is left unbound, an endpoint one round binds and the wider one does not bind to the same need
was taken there by another, so it is bound there too (`Behind`, `RoundBehind`, need by need and owner
by owner). So each wanted on-demand peripheral has a user; going up from one to the next with fewest
users of its own comes to one that runs anyway, or round a ring (`UsedFromAbove`). `Users` and `Uses`
are the least sets closed under using and being used (`UsersAre`, `UsesAre`), and tell the same since
only what is bound holds anything (`OnlyBoundHold`).

`ResolveGrants` says of the function, for any set of the ones alive, what `Grounded` says of the loops
when they conclude: widening ends in what uses only itself, and leaving out ends where nobody wanted is
unbound, so whoever is wanted holds, need by need, what the need accepts from others that are wanted, and no
required need is left empty (`WidenUnfolds`, `ResolveUnfolds`). `Lifecycle` cites it for its passes.

*The argument for the lifecycle.* The inductive invariant has six layers, each proved on top of
those before it, one lemma per action.

1. `Steady`. Types, and the shape of what is under way. `WorkInOrder`: what is awaited comes first
   in `work`, stops come before all else, the failure counted right after its stops, hooks only
   before hooks of one entry, and a disabling is the last stop, before its refresh. `StartsApart`: a
   start and its entry know each other by their number unless `_stop` left it behind, no two starts
   of an entry have one number, and one number is always free; so a start that returns late is never
   taken for another. `StepsMatch`: the steps still to be made find their entry in the state they
   were made for. `LifecycleSteps` has this layer, with lemmas that say of each action which steps,
   tasks and entries it leaves; the recursive functions of the model (`Kept`, the stops in turn,
   users first) are unfolded by minimal counterexample, from `FirstIs`, where all that is needed is
   which steps they return.
2. `CallsApart` and `NoneForgotten`, each of which needs the other. The first ties the call a
   peripheral is in to the one entry of it that started: "off" while its start is spawned,
   "starting" while it is in it, asked or stopping only while the head of `work` says so. The second
   says who will stop what started: it is current or about to be stopped; while the runtime is
   stopped a close still to be made stops it, after each refresh that waits and after a pass under
   way. A new entry may be adopted only because nobody forgot the one before, and a stop calls its
   object only because no other entry of the peripheral started. `RunningWasStarted`,
   `NoneRunsUnseen` and each step of `PeripheralCalls` are read off.
3. `Failing`. That one given up on stays so is not inductive: its stop leaves the entry waiting for
   a moment on the way of a restart. `RevivedNext` says the revival is the very next step
   (`LetStart` and `Revive` put both into the work at once), `FailsCurrent` that a failure still to
   be counted is of an entry that is current, so no revival of a newer entry is undone.
4. `AllNoted`. What a peripheral told, and what changed since it read it, is on its way: the entry
   is about to be stopped, heard it while it starts, or a task or a step brings it. When nothing
   waits and nothing is left to do no way is left, so nothing was told.
5. `StoreHeard`. The store changes when the user calls, the entry when the call has the lock: the
   *last* task that says enable or disable of an entry says what the store keeps, and when none says
   so, the work under way leaves the entry as the store has it, also when it is replaced meanwhile.
6. `WithinUsers` and `WithinPass`. `InsideRunsWithin` is not inductive: a stop that has come to call the
   provider must have no user left (`UsersStopFirst`), and a pass that hands a user other bindings
   must hand it the provider it runs in. The second holds because whoever started has its required needs met
   by what they accept (`StartedAreMet`); because a pass grants the same to whoever it wants
   (`WantedAreMet`, from `ResolveGrants`), and under `InsideByOne` that is the same provider; and because
   between the binding of a pass and its deliveries no entry of a provider is replaced by another that runs
   (`LinksAreCurrent`) and whoever is not wanted has been stopped (`StartedAreWanted`). A start takes its
   bindings only when each provider runs. The rounds of `BindingProofs` and the function of `Lifecycle` are two
   instances of one definition: `SameBind`, `SameWiden` and `SameResolve` bridge them, one recursive
   function at a time.

*The argument for the Compose host.* `TypeOK` says that `_running` holds exactly the services whose
start goes on or succeeded; a failing apply keeps that only if its caller still waits for it
(`WaitersWait`) and no second apply carries the same caller (`WaitsForOne`). While docker takes a
project for the first apply nothing is kept as applied (`TakesForFirst`): that is why an apply that
fails half way leaves nothing false behind (`AppliedIsTrue`). For `ServesAsRendered` one must follow
the container from before it exists: `CreatedAsRendered` says that each service past its apply has
its container as rendered, that the project docker is taking has it so too, and also for the service
whose apply docker is taking. A skipped apply gives it from `AppliedIsTrue`. For `LastIsApplied`,
`ChangesAreAsked` says that what was rendered after docker was given its last project has an apply
of its own that still waits.

*The argument for the retries.* `Counts` ties the history of failures to the state: as many failures
as attempts, one start more while one starts or runs. `WaitsItsDelay` says that one which waits has
the delay of its last failure. With both, `GivenUpAfterAll` is read off, and a pass starts none too
early. `NextRetryIsTimed` is kept with them because each refresh ends by taking the earliest retry
of all that are still to come; that a set of times has a first is `FirstIs`, by well-founded
induction.

*The argument for who waits for whom.* That nobody waits for itself *now* is not inductive: a task
that does not wait yet may be about to. `WInv` therefore keeps a larger relation without circles,
`Edge`: whom a task awaits; the holder of the lock, for those who queue; and whom it may come to
await (`MayAwait`): tasks made in the calls it is in. `InOrder` is what the marks say of those: who
inherits which, that a free slot has none, that the queue has each task once, that only the holder
is in a stop or hook. Then each step adds edges in one of three ways that close no circle: none at
all (`FewerEdges`); from a task nobody waits for, as one just made (`SourceIsAcyclic`); or from
outside into a set that no edge leaves and that gets no edge itself (`StaysAcyclic`, `EdgesInto`):
what a cancellation reaches is such a set, as is the holder with what its call made. A task in that
set would close a circle if it awaited its own refresh, which queues behind the holder: `IsDriving`
is what keeps it from that.

*The argument for discovery.* For `Ssdp` and `Zeroconf` it is `KnownWasFound`: what a registration
knows it was told found or updated last, and only that. It makes each telling one that may follow
the last, wherever the tasks stand. For `Ssdp` the rest says that a task that tells has a message
and a listener (`TasksTellSomething`), and that only what is known can expire (`StaleIsKnown`). For
`Zeroconf` both the promise and what is known are followed until a goodbye (`zeroconf_known` shows
why no longer): a removal comes after one (`RemovedIsParted`), and no timer is counted off that was
not counted (`QueuedIsTimed`). For `BleTracking` what is told depends on what the device advertised
before, so `HeardIsKnown` itself is the strengthening: a listener that matches what is tracked was
told found or updated (`TellKeeps`), one that does not was told nothing or lost (`TracksAsTold`),
and one that was never registered nothing (`NewIsTold`); two evictors at one device part because the
second finds nothing tracked.

*The argument for leases.* `LeasesEnd` is inductive once each client past its beginning has a
source: `Lease` finds the lock free and `Release` frees the one of its own client; no other step
touches locks, whatever becomes of the source.

*The argument for the radios.* `ServesWhatRuns` says nothing of a radio that is busy, and becomes
one of it when it is done. `ToldIsRun` holds of all that are not being flashed, of the radio and of
what is kept alike: each firmware ever written there was read off the stick, or is what the flash
told. What lets the operations end well is that their object is still the scanner's (`NoneIsLost`,
`AskedIsThere`, `ScannedExists`), which is where `DropsWhileBusy` is needed. `RemembersRight` then
follows a stick from the scan that found it: nothing is read off or flashed without being remembered
before the lock is let go. One lemma, `StickStep`, says what a step that moves one stick has to
show; each action is an instance of it.

*The argument for the ports.* What is chosen is apart from what others keep *as it is chosen*
(`ChoiceApart`, `PortsOfApart`). `FoundStopped` chooses again with what others keep by then;
`FoundRunning` keeps what was chosen before docker answered, which others may have chosen meanwhile.
`AskedIsKept` closes that: one whose container runs asks about the very ports it keeps, so keeping
them changes nothing. For the containers: `RenderedIsKept` says that what is in `_rendered` is what is
kept, so an apply that begins now takes that. One that began before may have older ports of a service,
but then this service is not "created", and comes to be so only by an apply that has what it renders
with (`AppliedIsThere`, `GoesThrough`); `applied` is unknown while docker works, which makes that
one come. `CreatedKeeps` leaves no container to a service that never kept ports.

*The argument for the border routers.* `JoinsRight` says what is written by the time the router is
switched on. For what the hub is told, one must know what a reading of the datasets is worth when it
is used: `SeenStands` says that the pending one is still pending, or has landed and is the active
one; `IsOnItsWay`, that a router that serves Zigbee too is on the channel it read before the join or has a move there
pending; `ReadsZigbee`, that this channel is Zigbee's if Thread followed; so what is told of the pending network, or of the active one where there is none, is what
the router stays on.

*The argument for the repositories.* A call writes the same to both if the record stored under the
id is of the integration that saves (`StoredByOwner`, with which `SavedAlike` has the two saves,
moves and merges agree), and what sqlite has not committed belongs to a session that is open and
commits it (`WriterIsOpen`). `WritesAlike` then is one equation, until a session fails: what is in
memory is what sqlite has written, committed or not.

*The parts together.* `PartsIInv` says of the chosen part what its module's `IInv` says. `SsdpIs`,
`AdapterIs` and the like bridge the two instances of one module, that of `Parts` and that inside the
module of proofs: they are equal definition by definition.

*Only model-checked*, and why:

- Termination and the other liveness properties (`DisablingTakesEffect`, `IsTriedAgain`,
  `Terminates`): out of the prover's reach.
- `Settled` of `Lifecycle` is not true of every hub: where what needs a thing brings along another,
  which is needed in turn, each such layer takes a pass of its own to go, and ten passes
  (`runtime.py:41`) end before more than ten layers are gone.
- The types of `BleSources`, a part of `PartsTypeOK`: its list of jobs is filtered by `SelectSeq`,
  which the library defines by recursion; `PartsTyped` is the rest. `LeasesEnd` is proved without them.

The invariants `IInv` were checked by TLC on the instances of the runs before they were proved; no
run lists them, since each of them is proved for all instances.

## 5. What the models leave out

- *Binding*: the wording of reasons; how `accepts` comes about.
- *Lifecycle*: settings that do not validate (no `INVALID_SETTINGS` refusals), two peripherals with
  one key, peripherals added before others, status reports to the owner, reach, callers awaiting the end of their calls (`Driving`), the identity of an endpoint's instance when it is
  replaced without being withdrawn. A start reads settings and platform as it begins; one that
  reads them later reads something newer, which it is told again.
- *Driving*: the timeouts of the calls, which would end a circle of waiting; `stop()` cancelling the
  runtime's tasks; a start that swallows its cancellation (STOP_TIMEOUT leaves it behind).
- *Compose*: `wipe`, bound folders and their failures, the contents of the rendered
  file; a compose.json that cannot be written. `write_json` raises before `_applied` is cleared
  (`compose.py:171`), and the container of a service stopped just then stays until the next apply, with
  `_applied` known: `LastIsApplied` does not hold of a full disk.
- *ComposePorts*: whose apply it is and in which order they come (`Compose` has that): one is due
  whenever anything may have asked for it; ports.json that is lost or cannot be written;
  a service whose declared ports change; no free port at all; a container that listens on some of its ports only.
- *Ssdp, Zeroconf*: sockets, parsing, interfaces; several search targets and groups, which share
  only the tasks. `Zeroconf` hears the library's records in any order.
- *BleSources, BleTracking*: sources that a stop cut off by its timeout left and that are not bound any
  more at the next start, which lets go of them (`router.py:116`); which source hears a device best and is tried next (arbitrary), silence and
  grace as times (arbitrary), pairing, the secure channels, D-Bus and the controllers on sticks.
- *UsbRadios*: radios soldered on the board, whether a firmware has Bluetooth, a user's call cut
  short, the drivers' own protocols; the scan that a user's `forget` asked for (`usb.py:150`) going on after the scanner
  stopped, which cancels only its own task (`usb.py:213`).
- *BorderRouter*: the router and its REST API are external, modelled from how the code uses them; the
  entrypoint but for what it does with Thread's network and channel; a container that restarts by
  itself in the middle of a start.
- *Repository*: a save under an id another integration has; the sessions of one object
  overlapping (each caller makes an object of its own); the JSON of a record.
- Parts not modelled at all are listed in PROJECT.json with the reason.

## 6. Where the code and its words differ

- `life_closed_radio`. A refresh that finds the runtime stopped collects *without* the lock. If the
  runtime is stopping a restarted stick just then, the refresh drops the radio the stick brought
  along; `stop()` no longer sees the radio, which runs on. The comment at `runtime.py:229` says
  there is nothing to stop.
- `life_closed_disabled`. `disable()` keeps its word in the store and queues for the lock;
  `stop()` cancels it there. After `start()` the entry is as it was, and the peripheral runs,
  disabled in the store.
- `retry_late`. A retry that falls due between the pass and `_schedule_retry`'s own reading of the
  clock is neither started nor timed, and the old timer is cancelled: it waits for somebody else's
  refresh. Within the same instant or before, `NextRetryIsTimed` holds.
- `compose_left`. `up()` whose apply failed forgets the service in `_running` but not in
  `_rendered`, and the `down()` of the `stop` that follows returns early: the next apply of any
  service starts its container.

- `usb_flashed`. A radio is busy by the lock of its Python object. A stick that is off the bus for one scan
  while its firmware is written, or a scanner restarted meanwhile, gets a new object, which is
  restored from sticks.json and serves the firmware of before. The class says it serves nothing
  "while another program holds it or it is being flashed" (`hardware/usb.py:44`).
- `zeroconf_known`. A goodbye cancels the timer of a resolve but not one whose timer has fired.
  That one discovers the service from the cache, and then the goodbye is told: the listener believes it gone,
  the adapter knows it and tells of it no more unless it changes.
- `unused_shown`. A round leaves out for good what it could not bind, also a peripheral whose need
  was only taken by another one that is itself left out a round later. With one stick, an
  integration given first requires it and a container that lacks something; the next integration
  requires the stick. Both integrations wait in the end though the stick is free, and the second, which
  could run, is shown as unused, with no reason, where `runtime.py:60` says "on demand, and nothing
  that runs uses it" and it is not on demand (`runtime.py:671`; the docstring of `_resolve` speaks of those
  "whose required need finds nothing").

Observations that no run carries, most of them met as a property that had to be stated more weakly:

- *Runtime*. A required need that moves
  between two in-process providers is delivered whether or not the new one runs yet
  (`runtime.py:747`, `858`), so a user that takes it in place runs on in an object that is not
  started; where one peripheral provides all that a need takes in process, `InsideRunsWithin` is proved (`InsideIsServed`).
- *Runtime*. Two on-demand peripherals that use one another may stay wanted when nothing else uses them
  any more: one is wanted for an integration, the other for it, and the other, given first, then takes what the
  one was wanted for, while the integration is served by somebody else (`Ring` of `MCBinding`).
  `_resolve` only widens (`runtime.py:668`), where its docstring has what runs reached "from the ones
  alive that run anyway, down through what they bind". `OnDemandIsUsed` therefore allows a ring.
- *Runtime*. What is gone in one pass is stopped in the order of the entries (`runtime.py:548`), and `_stop` looks for
  those that run inside among the entries that are left (`runtime.py:830`): a provider and its in-process user removed
  before the same pass are stopped provider first when it was given first, where the docstring of `_stop` has the user stop first.
- *Compose*. Two ports of one service may be the same: the next free one is looked for among
  those of the *others* (`compose.py:146`; `OwnPortsApart` states it).
- *Compose*. An apply goes on in docker when the hub's process dies. A start of the next hub may find the
  service's port taken by another program and its container not running, and keep another port
  (`compose.py:154`); what docker is still at then has the old one, and may replace the container that was just
  created. The service's endpoints tell a port where its container does not listen, until something is
  applied again (`LeftTakes`; `isOurs` in `PortsStand`).
- *Bluetooth router*. A source held for a device does scan when a burst, a revival or a connect works on it as the
  lease begins (`LeasedIsSilent`); a proxy may stay paused without a lease when `_start_source`
  sees the lease that is just being released and pauses after the release resumed
  (`PausedWhileLeased`; `router.py:311`). Two evictors at once end in a `KeyError`, which ends
  the eviction loop until the next start (`router.py:407`; the action `Stumble`). A listener whose
  matcher a changed advertisement leaves is never told the device is lost, and hears "found" again when it
  comes back. `_acquire` spins while every source it tries was removed as it got the lock.
  `LocalAdapter.start` twice without a stop leaves the first scanner running.
- *SSDP*. A byebye between two of the awaits in `_evict_expired` takes what was listed as expired, and the
  `pop` raises: the task that checks expiry ends until the next start (`ssdp.py:257`; the expiry task is "dead").
- *Zeroconf*. What `register` returns before the start cancels the pending registration only: after
  the start it does nothing (`zeroconf.py:59`).
- *USB*. A hub that dies while a stick is flashed remembers the firmware of before.
- *Border routers*. `_MultiPanBorderRouter` takes the channel Thread has when its container answers for
  Zigbee's: "the one its container put Thread on before it answered" (`builtin.py:52`). The container does not put it there
  when it reads no channel of it or the change is refused (`entrypoint.sh:183`, `193`), as one whose clock
  is behind may be (`builtin.py:259`): the hub is then told a network off Zigbee's channel, and a network it has this
  router join is moved to that channel, too (`radio` "apart").
- *Border routers*. Two routers started with no network known form one each; the hub keeps the one
  told last.
- *Repositories*. The one in memory merges a save into a record of another integration under that
  id, the one in sqlite does not see it. A second session that writes waits for the first for
  sqlite's five seconds and fails, in memory it does not.

## 7. Running it

    tlc -workers 2 -config life.cfg MCLifecycle
    tlc -workers 2 -config parts.cfg MCParts
    tlc -workers 2 -config waits.cfg MCWaits
    for m in Binding Compose Waits Ssdp BleSources Parts Lifecycle
    do tlapm ${m}Proofs.tla; done
    tlapm LifecycleSteps.tla

The runs take from a few seconds to about four minutes each, the proofs of `Lifecycle` about ten
and twenty-five minutes and those of `Parts` about twenty, since each obligation carries the definitions of
eleven instances; the others less than a minute or two.

## 8. What comes next

Proofs:

1. What `FlashedServesNothing` and `ServesWhatRuns` become with `DropsWhileBusy` TRUE, for sticks that stay on the bus.
2. `Settled` for hubs in which what is brought along brings nothing along.

Models:

1. A compose.json that cannot be written, in `Compose`, with what is then still true of the last apply.
2. Several Bluetooth sources at once, with which one a lease takes and how long each is waited for.
3. The settings that do not validate, in `Lifecycle`.
