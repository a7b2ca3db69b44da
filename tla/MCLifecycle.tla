---------------------------- MODULE MCLifecycle ----------------------------
(***************************************************************************)
(* Instances of Lifecycle for TLC: small hubs and the calls each explores. *)
(***************************************************************************)
EXTENDS Lifecycle

Needs(accepts) == [accepts |-> accepts, required |-> TRUE, many |-> FALSE]
Likes(accepts)    == [accepts |-> accepts, required |-> FALSE, many |-> FALSE]

HomeOf(needs, provider, offered, shared, onDemand) ==
    [needs |-> needs, provider |-> provider, offers |-> offered, shared |-> shared,
     onDemand |-> onDemand]

\* A hub of given peripherals only, one task waiting for the lock, no retry.
Hub(home, members, doings) ==
    [home |-> home, given |-> members, bringer |-> [p \in Peripherals |-> Owner],
     unplugged |-> {}, inside |-> {}, retries |-> 0, doings |-> doings, waiting |-> 1,
     tasks |-> 1]

\* One peripheral, no needs: an integration that talks to the cloud.
AloneHome == HomeOf(<< <<>>, <<>>, <<>> >>, <<1, 1>>, {}, {}, {})
Alone(doings) == [Hub(AloneHome, {1}, doings) EXCEPT !.retries = 1, !.waiting = 2, !.tasks = 2]

\* A browser (1) run on demand, in process, and an integration (2) that requires it.
BrowserHome == HomeOf(<< <<>>, <<Needs({1})>>, <<>> >>, <<1, 3>>, {1}, {1}, {1})
Browser(doings) == [Hub(BrowserHome, {1, 2}, doings) EXCEPT !.retries = 1, !.inside = {1}]

\* A shared server (1) and a radio for one only (2), and an integration (3) that requires
\* either and likes the radio besides.
MixedHome == HomeOf(<< <<>>, <<>>, <<Needs({1, 2}), Likes({2})>> >>, <<1, 2>>, {1, 2}, {1}, {})
Mixed(doings) == Hub(MixedHome, {1, 2, 3}, doings)

\* A stick (1) that brings along a radio (2), and an integration (3) that requires it.
StickHome == HomeOf(<< <<>>, <<>>, <<Needs({1})>> >>, <<2, 2>>, {1}, {1, 2}, {})
Stick(doings) == [Hub(StickHome, {1, 3}, doings) EXCEPT !.bringer = <<Owner, 1, Owner>>,
                                                        !.unplugged = {2}]

SmallHubs ==
    {Alone({"enable", "disable", "settings", "fail", "quit", "raise", "hook"}),
     Browser({"enable", "disable", "restart", "fail", "offer", "hook", "raise"}),
     Browser({"restart", "fail", "offer", "hook", "raise", "close", "reboot"}),
     Mixed({"restart", "offer", "hook", "raise"}),
     Stick({"plug", "platform", "raise"}),
     Stick({"plug", "remove", "add", "raise"})}

\* The stick's hub with its object used in process, for liveness.
LiveHubs == {[Stick({"disable", "raise"}) EXCEPT !.unplugged = {}, !.inside = {1}, !.retries = 1]}

\* A stick (1) that brings along a radio (2); one peripheral.
ClosedRadio == {[Hub(AloneHome, {1}, {"restart", "close"}) EXCEPT !.bringer = <<Owner, 1, Owner>>,
                                                            !.retries = 1]}
ClosedDisabled == {Alone({"disable", "close", "reboot"})}
=============================================================================
