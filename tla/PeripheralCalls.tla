-------------------------- MODULE PeripheralCalls --------------------------
(***************************************************************************)
(* What a peripheral is promised about the calls it gets, whoever runs it: *)
(* `start`, `stop` and the hooks of peripherals/peripheral.py.             *)
(*                                                                         *)
(* One call at a time, whatever tasks the runtime has: a start only after  *)
(* the stop before it ended, a stop after each start, one that failed or   *)
(* was cut short too (before it began, at the earliest), and a hook only   *)
(* between a start that returned and the stop after it.                    *)
(***************************************************************************)
EXTENDS Naturals

CONSTANT Peripherals

VARIABLE call       \* what each is in, or was left in by the last call

Call == {"off", "starting", "on", "asked", "stopping"}

Init == call = [p \in Peripherals |-> "off"]

Becomes(p, from, to) == call[p] \in from /\ call' = [call EXCEPT ![p] = to]

\* start is called, and returns.
Start(p)   == Becomes(p, {"off"}, "starting")
Started(p) == Becomes(p, {"starting"}, "on")

\* A hook is called, and returns or raises.
Ask(p)     == Becomes(p, {"on"}, "asked")
Answer(p)  == Becomes(p, {"asked"}, "on")

\* stop is called, and returns, raises or takes too long.
Stop(p)    == Becomes(p, {"off", "starting", "on"}, "stopping")
Stopped(p) == Becomes(p, {"stopping"}, "off")

Next == \E p \in Peripherals :
            Start(p) \/ Started(p) \/ Ask(p) \/ Answer(p) \/ Stop(p) \/ Stopped(p)

Spec == Init /\ [][Next]_call
=============================================================================
