------------------------------ MODULE Compose ------------------------------
(***************************************************************************)
(* Docker Compose as the container host of the services: `up`, `down` and  *)
(* the applies they share, of class `Compose`                              *)
(* (runtime/peripherals/services/compose.py), as `Service.start` and       *)
(* `Service.stop` call them (peripherals/service.py).                      *)
(*                                                                         *)
(* The calls each service gets are in order (module PeripheralCalls); those*)
(* of different services overlap.  An apply goes on when the call that     *)
(* asked for it is cancelled, and they take turns.  A service renders as   *)
(* one of several versions, by its settings, the platform and what it is   *)
(* bound to.  The ports it keeps are module ComposePorts'; that writing    *)
(* compose.json may fail is left out.                                      *)
(***************************************************************************)
EXTENDS Naturals, Sequences

CONSTANTS
    Services,
    Versions,       \* what a service can render as
    MaxApplies      \* bound: applies that wait or run at once

ASSUME ComposeAssumption == MaxApplies \in Nat \ {0}

None == "none"      \* no container
ASSUME VersionsAssumption == None \notin Versions

Project == [Services -> Versions \cup {None}]
Empty   == [s \in Services |-> None]
Unknown == <<>>     \* `_applied` is None

VARIABLES
    renders,    \* what each service would render as now
    stage,      \* how far its start or its stop is
    running,    \* `_running`
    rendered,   \* `_rendered`
    applied,    \* `_applied`: the project docker last took, or Unknown
    applies,    \* the applies, in turn: for which service, and who waits for it
    taking,     \* the project docker is taking for the first of them, or Unknown
    containers  \* what docker runs

vars == <<renders, stage, running, rendered, applied, applies, taking, containers>>

Waiter == {"up", "down", "nobody"}

\* One asked for, and those whose caller for s waits no more.
Apply(s, waiter) == [for |-> s, waiter |-> waiter]
Unheeded(s) == [i \in DOMAIN applies |->
                    IF applies[i].for = s THEN [applies[i] EXCEPT !.waiter = "nobody"]
                    ELSE applies[i]]

\* The hub's process starts: docker may run what one before left.
Fresh ==
    /\ stage' = [s \in Services |-> "off"]
    /\ running' = {}
    /\ rendered' = Empty
    /\ applied' = Unknown
    /\ applies' = <<>>
    /\ taking' = Unknown

Init ==
    /\ renders \in [Services -> Versions]
    /\ stage = [s \in Services |-> "off"]
    /\ running = {}
    /\ rendered = Empty
    /\ applied = Unknown
    /\ applies = <<>>
    /\ taking = Unknown
    /\ containers \in Project

-----------------------------------------------------------------------------
(* Starting and stopping a service. *)

\* Its settings, the platform's facts or its bindings change.
Change(s) ==
    /\ \E v \in Versions \ {renders[s]} : renders' = [renders EXCEPT ![s] = v]
    /\ UNCHANGED <<stage, running, rendered, applied, applies, taking, containers>>

\* up: it renders as it is created.
Up(s) ==
    /\ stage[s] = "off" /\ Len(applies) < MaxApplies
    /\ stage' = [stage EXCEPT ![s] = "applying"]
    /\ running' = running \cup {s}
    /\ rendered' = [rendered EXCEPT ![s] = renders[s]]
    /\ applies' = Append(applies, Apply(s, "up"))
    /\ UNCHANGED <<renders, applied, taking, containers>>

\* Compose reports it running, its ports answer, it is set up and healthy.
Ready(s) ==
    /\ stage[s] = "checking"
    /\ containers[s] # None
    /\ stage' = [stage EXCEPT ![s] = "on"]
    /\ UNCHANGED <<renders, running, rendered, applied, applies, taking, containers>>

\* stop, whatever the start came to: down.  An apply it waited for goes on without it.
Down(s) ==
    /\ stage[s] \in {"applying", "checking", "on", "failed"}
    /\ IF s \in running
       THEN /\ Len(applies) < MaxApplies
            /\ running' = running \ {s}
            /\ rendered' = [rendered EXCEPT ![s] = None]
            /\ applies' = Append(Unheeded(s), Apply(s, "down"))
            /\ stage' = [stage EXCEPT ![s] = "leaving"]
       ELSE /\ stage' = [stage EXCEPT ![s] = "off"]
            /\ applies' = Unheeded(s)
            /\ UNCHANGED <<running, rendered>>
    /\ UNCHANGED <<renders, applied, taking, containers>>

\* The runtime waits for a stop no longer than STOP_TIMEOUT.
AbandonDown(s) ==
    /\ stage[s] = "leaving"
    /\ stage' = [stage EXCEPT ![s] = "off"]
    /\ applies' = Unheeded(s)
    /\ UNCHANGED <<renders, running, rendered, applied, taking, containers>>

-----------------------------------------------------------------------------
(* Applying: `_apply_in_turn`. *)

\* Slip: the services are those docker took, whatever they render.
HasTheServices(project) ==
    applied # Unknown /\ \A s \in Services : project[s] = None <=> applied[s] = None

\* Slip: docker took at least that.
HasAll(project) ==
    applied # Unknown /\ \A s \in Services : project[s] \in {None, applied[s]}

\* Docker took just that last.
IsApplied(project) == applied = project

\* How far the start or the stop is that waited for an apply.
After(a, ok) ==
    CASE a.waiter = "up" /\ ok   -> [stage EXCEPT ![a.for] = "checking"]
      [] a.waiter = "up" /\ ~ ok -> [stage EXCEPT ![a.for] = "failed"]
      [] a.waiter = "down"       -> [stage EXCEPT ![a.for] = "off"]
      [] OTHER                   -> stage

\* Slip: an apply that fails does so for whoever started since, too.
ReturnToAll(ok) ==
    /\ stage' = After(Head(applies), ok)
    /\ running' = IF ok THEN running ELSE running \ {Head(applies).for}
    /\ applies' = Tail(applies)

\* Who waited for the first apply goes on.
Return(ok) ==
    LET a == Head(applies)
    IN  /\ stage' = After(a, ok)
        /\ running' = IF a.waiter = "up" /\ ~ ok THEN running \ {a.for} ELSE running
        /\ applies' = Tail(applies)

\* Nothing changed since docker took it all.
SkipApply ==
    /\ applies # <<>> /\ taking = Unknown
    /\ IsApplied(rendered)
    /\ Return(TRUE)
    /\ UNCHANGED <<renders, rendered, applied, taking, containers>>

\* Slip: what docker took before is kept until it took this.
BeginApplyKept ==
    /\ applies # <<>> /\ taking = Unknown
    /\ ~ IsApplied(rendered)
    /\ taking' = rendered
    /\ UNCHANGED <<renders, stage, running, rendered, applied, applies, containers>>

\* It is unknown what docker runs until it took it all.
BeginApply ==
    /\ applies # <<>> /\ taking = Unknown
    /\ ~ IsApplied(rendered)
    /\ taking' = rendered
    /\ applied' = Unknown
    /\ UNCHANGED <<renders, stage, running, rendered, applies, containers>>

DockerTakes ==
    /\ taking # Unknown
    /\ containers' = taking
    /\ applied' = taking
    /\ taking' = Unknown
    /\ Return(TRUE)
    /\ UNCHANGED <<renders, rendered>>

\* Some of the containers as asked for, the others as they were.
Between(before, after) == {c \in Project : \A s \in Services : c[s] \in {before[s], after[s]}}

\* It fails half way.
DockerRefuses ==
    /\ taking # Unknown
    /\ containers' \in Between(containers, taking)
    /\ taking' = Unknown
    /\ Return(FALSE)
    /\ UNCHANGED <<renders, rendered, applied>>

\* The hub's process dies and starts again; docker may go on with what it was given.
Crash ==
    /\ Fresh
    /\ IF taking = Unknown THEN UNCHANGED containers
       ELSE containers' \in Between(containers, taking)
    /\ UNCHANGED renders

Next ==
    \/ \E s \in Services : Change(s) \/ Up(s) \/ Ready(s) \/ Down(s) \/ AbandonDown(s)
    \/ SkipApply \/ BeginApply \/ DockerTakes \/ DockerRefuses \/ Crash

Spec == Init /\ [][Next]_vars

-----------------------------------------------------------------------------

TypeOK ==
    /\ renders \in [Services -> Versions]
    /\ stage \in [Services -> {"off", "applying", "checking", "on", "failed", "leaving"}]
    /\ running = {s \in Services : stage[s] \in {"applying", "checking", "on"}}
    /\ rendered \in Project
    /\ applied \in Project \cup {Unknown}
    /\ applies \in Seq([for : Services, waiter : Waiter])
    /\ Len(applies) <= MaxApplies
    /\ taking \in Project \cup {Unknown}
    /\ containers \in Project

\* What is kept as applied is what docker runs, also after an apply failed half way or its
\* caller was cancelled: the next one, "finding nothing changed", never keeps a container
\* that is not there or runs with something else.
AppliedIsTrue == applied # Unknown => containers = applied

\* Once a service serves, docker runs it as it was rendered when it was created, whatever
\* applies of other services and of its own earlier starts and stops come in between.
ServesAsRendered == \A s \in Services : stage[s] = "on" => containers[s] = rendered[s]

\* Nobody starts, stops or applies.
Idle == applies = <<>> /\ \A s \in Services : stage[s] \in {"off", "on"}

\* The last apply is never skipped for one that only resembled it: once nobody waits and
\* what docker runs is known, that is what the services rendered and no longer what one
\* taken down, or started anew with other settings, had before.
LastIsApplied == Idle /\ applied # Unknown => containers = rendered

\* Docker runs the containers "of the services that run" (Compose), no more: once all is
\* applied, a service whose start failed or was stopped half way has none.
OnlyWhatRuns ==
    Idle /\ applied # Unknown => \A s \in Services : containers[s] # None => stage[s] = "on"
=============================================================================
