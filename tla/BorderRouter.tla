---------------------------- MODULE BorderRouter ----------------------------
(***************************************************************************)
(* A Thread border router set up over its REST API: `_BorderRouter`,       *)
(* `_MultiPanBorderRouter` and the calls of services/builtin.py they make  *)
(* (runtime/peripherals/services/), and what the entrypoint of a container *)
(* on a shared radio does with Thread before it answers                    *)
(* (images/multiprotocol-sisdk/entrypoint.sh).                             *)
(*                                                                         *)
(* Each call is one request: it fails and changes nothing, it changes      *)
(* something and the answer is lost, or it is answered.  A failed one      *)
(* starts over what it is part of.  OpenThread itself is external: it has  *)
(* a network or none, Thread on or off, and a change pending that lands at *)
(* any time.  When a start is cut short its container goes, and the        *)
(* request under way with it; a container that restarts by itself          *)
(* meanwhile is left out.                                                  *)
(***************************************************************************)
CONSTANTS
    Networks,   \* the ones the hub may be told of
    Formed,     \* the one a router forms
    Channels,
    Zigbee      \* the channel Zigbee is on

None == "none"
NoNetwork == [name |-> None, channel |-> None]
Network == [name : Networks \cup {Formed}, channel : Channels]

VARIABLES
    radio,      \* its own; or one that serves Zigbee too: followed, if its container left Thread
                \* where Zigbee is or on its way there, or apart
    active,     \* the active dataset of the router
    pending,    \* its pending one
    isOn,       \* whether Thread is on
    hub,        \* `platform.thread_dataset`
    dataset,    \* what it was as the join began
    at,         \* the call the start is at, and what that is part of
    seen,       \* the pending dataset as it was read
    channel,    \* `_zigbee_channel`
    told        \* the dataset told to the hub once it serves

vars == <<radio, active, pending, isOn, hub, dataset, at, seen, channel, told>>
router == <<active, pending, isOn>>

Step(part, call) == [part |-> part, call |-> call]
Off == Step("off", None)

\* Where each part begins; `_datasets` reads the pending one first.
Begins(part) == Step(part, IF part = "join" THEN "active" ELSE "pending")

IsMultiPan == radio # "own"

\* What OpenThread has stored: a network, and a change that is pending, of it or of another.
Stored == {NoNetwork} \X {NoNetwork} \cup Network \X (Network \cup {NoNetwork})

\* The network that is restored, or that a shared radio's container forms, if it can.
Restored(stored) ==
    IF IsMultiPan /\ stored = NoNetwork
    THEN [name : {Formed}, channel : Channels] \cup {NoNetwork}
    ELSE {stored}

\* Such a container then moves it to where Zigbee is: unless it reads no channel of it, or the
\* change is refused.
Following(network, change) ==
    IF IsMultiPan /\ network # NoNetwork /\ network.channel # Zigbee
    THEN {[network EXCEPT !.channel = Zigbee], change}
    ELSE {change}

\* Where a network is, or is moving to.
Heading(network, change) == IF change.name = network.name THEN change ELSE network

Init ==
    /\ radio \in {"own", "apart"}
    /\ active = NoNetwork /\ pending = NoNetwork /\ isOn = FALSE
    /\ hub = NoNetwork /\ dataset = NoNetwork
    /\ at = Off
    /\ seen = NoNetwork
    /\ channel = None
    /\ told = NoNetwork

-----------------------------------------------------------------------------

\* Its container is up, and answers.
Start ==
    /\ at = Off
    /\ \E stored \in Stored :
          active' \in Restored(stored[1]) /\ pending' \in Following(active', stored[2])
    /\ isOn' \in IF active' = NoNetwork THEN {FALSE} ELSE BOOLEAN
    /\ radio' = IF ~ IsMultiPan THEN "own"
                ELSE IF Heading(active', pending').channel = Zigbee THEN "followed" ELSE "apart"
    /\ at' = Begins(IF IsMultiPan THEN "channel" ELSE "join")
    /\ dataset' = hub
    /\ UNCHANGED <<hub, seen, channel, told>>

\* The start fails, is cancelled, or the service stops.
Stop ==
    /\ at # Off
    /\ at' = Off
    /\ told' = NoNetwork
    /\ UNCHANGED <<radio, router, hub, dataset, seen, channel>>

\* The hub learns of a network elsewhere.
Learn(n) ==
    /\ hub' = n
    /\ UNCHANGED <<radio, router, dataset, at, seen, channel, told>>

\* The move lands; one pending for another network moves nothing, and may be dropped.
Lands ==
    /\ pending # NoNetwork
    /\ active' = IF pending.name = active.name THEN pending ELSE active
    /\ pending' = NoNetwork
    /\ UNCHANGED <<radio, isOn, hub, dataset, at, seen, channel, told>>

\* No answer: what it is part of begins again.  Moving gives up after a while.
Fails ==
    /\ at.part \notin {"off", "serving"}
    /\ \/ at' = Begins(at.part)
       \/ at.part = "move" /\ at' = Off
    /\ UNCHANGED <<radio, router, hub, dataset, seen, channel, told>>

\* Answered, or the answer is lost.
Goes(next) == at' \in {next, Begins(at.part)}

-----------------------------------------------------------------------------
(* Reading the datasets: `_datasets`. *)

ReadPending ==
    /\ at.call = "pending"
    /\ at' = [at EXCEPT !.call = "datasets"]
    /\ seen' = pending
    /\ UNCHANGED <<radio, router, hub, dataset, channel, told>>

\* Slip: one pending for another network is one, too.
PendingAtAll == seen

\* One pending for another network is none.
PendingSeen == IF seen.name = active.name THEN seen ELSE NoNetwork
OrMoving == IF PendingSeen # NoNetwork THEN PendingSeen ELSE active

\* `network_channel`: the one it is on, or moving to.
ReadChannel ==
    /\ at = Step("channel", "datasets")
    /\ IF active = NoNetwork
       THEN at' = Begins("channel") /\ UNCHANGED <<channel, dataset>>
       ELSE at' = Begins("join") /\ channel' = OrMoving.channel /\ dataset' = hub
    /\ UNCHANGED <<radio, router, hub, seen, told>>

\* `move_channel`: unless it is there or on its way.
ReadMove ==
    /\ at = Step("move", "datasets")
    /\ at' = IF OrMoving.channel = channel THEN Begins("tell") ELSE Step("move", "put")
    /\ UNCHANGED <<radio, router, hub, dataset, seen, channel, told>>

\* The active dataset, on another channel.
MovedTo(c) == [active EXCEPT !.channel = c]

\* A pending dataset needs a network to go to.
PutPending ==
    /\ at = Step("move", "put")
    /\ isOn
    /\ pending' = MovedTo(channel)
    /\ Goes(Begins("tell"))
    /\ UNCHANGED <<radio, active, isOn, hub, dataset, seen, channel, told>>

\* `peripheral_did_learn`: the hub's platform facts are what the router tells.
Learned(facts) == hub' = facts

\* `active_dataset`, once nothing is pending: told to the hub, which is on that network now.
Tell ==
    /\ at = Step("tell", "datasets")
    /\ IF active # NoNetwork /\ PendingSeen = NoNetwork
       THEN at' = Step("serving", None) /\ told' = active /\ Learned(active)
       ELSE at' = Begins("tell") /\ UNCHANGED <<told, hub>>
    /\ UNCHANGED <<radio, router, dataset, seen, channel>>

-----------------------------------------------------------------------------
(* Joining: `join_network`. *)

Joined == Begins(IF IsMultiPan THEN "move" ELSE "tell")
IsAnother == dataset # NoNetwork /\ active.name # dataset.name

\* Without a network it is asked again, until patience is over and one is given or formed.
ReadActive ==
    /\ at = Step("join", "active")
    /\ IF active # NoNetwork
       THEN at' = Step("join", IF IsAnother THEN "disable" ELSE "state")
       ELSE at' \in {at, Step("join", "write")}
    /\ UNCHANGED <<radio, router, hub, dataset, seen, channel, told>>

\* Slip: the network is the one it should be on, that is all.
IsThere ==
    /\ at = Step("join", "state")
    /\ at' = Joined
    /\ UNCHANGED <<radio, router, hub, dataset, seen, channel, told>>

\* A join or a forming whose enable failed is enabled.
ReadState ==
    /\ at = Step("join", "state")
    /\ at' = IF isOn THEN Joined ELSE Step("join", "enable")
    /\ UNCHANGED <<radio, router, hub, dataset, seen, channel, told>>

Disable ==
    /\ at = Step("join", "disable")
    /\ isOn' = FALSE
    /\ Goes(Step("join", "write"))
    /\ UNCHANGED <<radio, active, pending, hub, dataset, seen, channel, told>>

\* Written only while Thread is off.
WriteActive ==
    /\ at = Step("join", "write")
    /\ ~ isOn
    /\ IF dataset # NoNetwork THEN active' = dataset
       ELSE \E c \in Channels : active' = [name |-> Formed, channel |-> c]
    /\ Goes(Step("join", "enable"))
    /\ UNCHANGED <<radio, pending, isOn, hub, dataset, seen, channel, told>>

Enable ==
    /\ at = Step("join", "enable")
    /\ isOn' = TRUE
    /\ Goes(Joined)
    /\ UNCHANGED <<radio, active, pending, hub, dataset, seen, channel, told>>

Next ==
    \/ Start \/ Stop \/ Lands \/ Fails
    \/ \E n \in [name : Networks, channel : Channels] : Learn(n)
    \/ ReadPending \/ ReadChannel \/ ReadMove \/ PutPending \/ Tell
    \/ ReadActive \/ ReadState \/ Disable \/ WriteActive \/ Enable

Spec == Init /\ [][Next]_vars

-----------------------------------------------------------------------------

TypeOK ==
    /\ radio \in {"own", "followed", "apart"} /\ isOn \in BOOLEAN
    /\ {active, pending, hub, dataset, seen, told} \subseteq Network \cup {NoNetwork}
    /\ at.part \in {"off", "channel", "join", "move", "tell", "serving"}
    /\ channel \in Channels \cup {None}

\* Once the join returned, after whatever requests that failed or took without an answer,
\* Thread is on and the network is the hub's, or one was formed.
JoinedIsOn ==
    at.part \in {"move", "tell", "serving"} =>
        /\ isOn /\ active # NoNetwork
        /\ dataset # NoNetwork => active.name = dataset.name

\* The hub is told the network as it stays: no move of it lands after.  On a radio that serves
\* Zigbee too that is the channel read as Zigbee's when its container answered, whatever the
\* join did to the network, and where Zigbee is if its container could have Thread follow.
ToldAsItStays ==
    at.part = "serving" =>
        /\ told = active
        /\ pending.name # active.name
        /\ IsMultiPan => told.channel = channel
        /\ radio = "followed" => told.channel = Zigbee
-----------------------------------------------------------------------------
(* Why: the inductive invariant. *)

Parts == {"off", "channel", "join", "move", "tell", "serving"}
Calls == {None, "active", "pending", "datasets", "disable", "write", "state", "enable", "put"}
AtACall == at \in [part : Parts, call : Calls]

\* The network is written, or found to be the one it should be.
JoinsRight ==
    at \in {Step("join", "state"), Step("join", "enable")} =>
        active # NoNetwork /\ (dataset # NoNetwork => active.name = dataset.name)

\* Only a radio that serves Zigbee too has its channel read, and moves.  If Thread followed,
\* what is read is Zigbee's.
ReadsZigbee ==
    /\ at.part \in {"channel", "move"} => IsMultiPan
    /\ IsMultiPan /\ at.part \in {"join", "move"} => channel # None
    /\ radio = "followed" /\ at.part = "channel" =>
          active # NoNetwork /\ Heading(active, pending).channel = Zigbee
    /\ radio = "followed" /\ at.part \in {"join", "move", "tell", "serving"} => channel = Zigbee

\* What was read as pending still is, or has landed.
SeenStands ==
    at.call = "datasets" =>
        \/ pending = seen
        \/ pending = NoNetwork /\ (seen.name = active.name => active = seen)

\* Once its move was found or asked for, it is there or on its way.
IsOnItsWay ==
    IsMultiPan /\ at.part \in {"tell", "serving"} => Heading(active, pending).channel = channel

IInv ==
    /\ TypeOK /\ AtACall
    /\ JoinsRight /\ JoinedIsOn
    /\ ReadsZigbee /\ SeenStands /\ IsOnItsWay /\ ToldAsItStays
=============================================================================
