---------------------------- MODULE ComposePorts ----------------------------
(***************************************************************************)
(* The host ports of the services: `_ports`, `_keep_ports` and ports.json  *)
(* of class `Compose` (runtime/peripherals/services/compose.py), and the   *)
(* containers that come of them.                                           *)
(*                                                                         *)
(* Ports are chosen at once, by what listens at that moment; but keeping   *)
(* them may first have to ask docker which containers run, and its answer  *)
(* is old when it comes.  What is kept is rendered into the project; an    *)
(* apply takes the project as it is once it has its turn, and outlives the *)
(* start that asked for it.  Docker creates the containers one by one,     *)
(* goes on with those of a hub that died, and brings one that exited back  *)
(* as it was.  Other programs take ports and let go of them at any time.   *)
(* Compose has the order of the applies; here one is due whenever anything *)
(* may have asked for it.                                                  *)
(*                                                                         *)
(* A service has ports, by names that stay; PORTS do not run out;          *)
(* ports.json is not lost and writing files does not fail; a container     *)
(* listens on all of its ports or on none.                                 *)
(***************************************************************************)
EXTENDS Naturals, FiniteSets, FiniteSetsExt

CONSTANTS
    Services,
    Preferred,      \* the ports each service prefers, by the names it gives them
    PORTS,          \* where one goes whose preferred port is taken, lowest first
    MaxTaken        \* bound: ports other programs have at once

VARIABLES
    kept,           \* `ports`, which is ports.json
    tentative,      \* `_tentative`: what each one that keeps none yet was told it would get
    asking,         \* the ports one had as it asked docker, and the answer
    stage,          \* off, up (it is in `_running`), or created: an apply that had it went through
    rendered,       \* the ports in `_rendered`, or NoPorts
    applied,        \* those in `_applied`
    taking,         \* those docker is taking for this hub
    left,           \* whether it may still be at some for a hub that died
    container,      \* the ports each container was created with, whether it listens, for whom it is
    taken           \* what other programs listen on

vars == <<kept, tentative, asking, stage, rendered, applied, taking, left, container, taken>>
projects == <<rendered, applied, taking, left>>

NoPorts == <<>>
None == [s \in Services |-> NoPorts]
Unknown == <<>>
PortsIn(ports) == {ports[n] : n \in DOMAIN ports}

AllPorts == PORTS \cup UNION {PortsIn(Preferred[s]) : s \in Services}

Ports(s) == {NoPorts} \cup [DOMAIN Preferred[s] -> AllPorts]

NoAsk == [ports |-> NoPorts, answer |-> "none"]
NoContainer == [ports |-> NoPorts, listens |-> FALSE, isOurs |-> TRUE]

Init ==
    /\ kept = None /\ tentative = None
    /\ asking = [s \in Services |-> NoAsk]
    /\ stage = [s \in Services |-> "off"]
    /\ rendered = None /\ applied = Unknown /\ taking = Unknown /\ left = FALSE
    /\ container = [s \in Services |-> NoContainer]
    /\ taken = {}

IsListening(p) ==
    p \in taken \/ \E s \in Services : container[s].listens /\ p \in PortsIn(container[s].ports)

-----------------------------------------------------------------------------
(* Choosing: `_ports`. *)

OfOthers(s) == UNION {PortsIn(kept[t]) : t \in Services \ {s}}

\* The preferred one, or the first of PORTS; one may listen or be another's.
Free(s) == {p \in PORTS : p \notin OfOthers(s) /\ ~ IsListening(p)}
Choice(s, preferred) ==
    IF preferred \notin OfOthers(s) /\ ~ IsListening(preferred) THEN preferred ELSE Min(Free(s))

\* One it had, kept or only told, stays unless another service keeps it by now.
PortsOf(s, had) ==
    [n \in DOMAIN Preferred[s] |->
        IF n \in DOMAIN had /\ had[n] \notin OfOthers(s) THEN had[n]
        ELSE Choice(s, Preferred[s][n])]

Had(s) == IF kept[s] # NoPorts THEN kept[s] ELSE tentative[s]

\* What it keeps comes first: what one was told matters until then.
Told(s, ports) == IF kept[s] = NoPorts THEN [tentative EXCEPT ![s] = ports] ELSE tentative

\* It renders, or tells what it provides.
Provided(s) ==
    /\ Free(s) # {}
    /\ tentative' = Told(s, PortsOf(s, Had(s)))
    /\ UNCHANGED <<kept, asking, stage, projects, container, taken>>

-----------------------------------------------------------------------------
(* Keeping: `_keep_ports`, at the start of `up`, which renders what is kept. *)

\* Its ports are kept, and it renders with them.
Keep(s, ports) ==
    /\ kept' = [kept EXCEPT ![s] = ports]
    /\ tentative' = [tentative EXCEPT ![s] = NoPorts]
    /\ rendered' = [rendered EXCEPT ![s] = ports]
    /\ stage' = [stage EXCEPT ![s] = "up"]
    /\ asking' = [asking EXCEPT ![s] = NoAsk]
    /\ UNCHANGED <<applied, taking, left, container, taken>>

IsAsking(s) == asking[s].ports # NoPorts

\* up: it keeps its ports, or first asks docker when something listens on one.
KeepPorts(s) ==
    LET ports == PortsOf(s, Had(s)) IN
    /\ stage[s] = "off" /\ ~ IsAsking(s) /\ Free(s) # {}
    /\ IF \E p \in PortsIn(ports) : IsListening(p)
       THEN /\ tentative' = Told(s, ports)
            /\ asking' = [asking EXCEPT ![s] = [ports |-> ports, answer |-> "none"]]
            /\ UNCHANGED <<kept, stage, projects, container, taken>>
       ELSE Keep(s, ports)

\* Docker looks which containers run; one that runs need not listen yet.
DockerLooks(s) ==
    /\ IsAsking(s) /\ asking[s].answer = "none"
    /\ \E answer \in {"runs", "not"} :
          /\ answer = "runs" => container[s].ports # NoPorts
          /\ answer = "not" => ~ container[s].listens
          /\ asking' = [asking EXCEPT ![s].answer = answer]
    /\ UNCHANGED <<kept, tentative, stage, projects, container, taken>>

\* Its container ran: what listens is taken for its own.
FoundRunning(s) == asking[s].answer = "runs" /\ Keep(s, asking[s].ports)

\* Those of the ports it had that nothing listens on.
StillFree(s) == {n \in DOMAIN asking[s].ports : ~ IsListening(asking[s].ports[n])}

\* Slip: it keeps these as it had them when it asked.
MovedAsAsked(s) ==
    [n \in DOMAIN asking[s].ports |->
        IF n \in StillFree(s) THEN asking[s].ports[n] ELSE Choice(s, Preferred[s][n])]

\* It moves off what something listens on.
Moved(s) == PortsOf(s, [n \in StillFree(s) |-> asking[s].ports[n]])

FoundStopped(s) ==
    /\ asking[s].answer = "not" /\ Free(s) # {}
    /\ Keep(s, Moved(s))

\* Not knowing which containers run it moves nothing; or its start is cancelled.
AskFailed(s) ==
    /\ IsAsking(s)
    /\ asking' = [asking EXCEPT ![s] = NoAsk]
    /\ UNCHANGED <<kept, tentative, stage, projects, container, taken>>

\* down
Down(s) ==
    /\ stage[s] # "off"
    /\ stage' = [stage EXCEPT ![s] = "off"]
    /\ rendered' = [rendered EXCEPT ![s] = NoPorts]
    /\ UNCHANGED <<kept, tentative, asking, applied, taking, left, container, taken>>

-----------------------------------------------------------------------------
(* Applying: `_apply_in_turn`.  Services without ports, too, have it apply. *)

\* Those that are up with what was applied.
GoesThrough(project) ==
    stage' = [s \in Services |->
                IF stage[s] = "up" /\ rendered[s] = project[s] THEN "created" ELSE stage[s]]

BeginApply ==
    /\ taking = Unknown /\ rendered # applied
    /\ taking' = rendered /\ applied' = Unknown
    /\ UNCHANGED <<kept, tentative, asking, stage, rendered, left, container, taken>>

SkipApply ==
    /\ taking = Unknown /\ applied # Unknown /\ rendered = applied
    /\ GoesThrough(applied)
    /\ UNCHANGED <<kept, tentative, asking, projects, container, taken>>

\* Docker creates a container, or removes it; one that is as it should be it leaves as it is.
Takes(s, project, isOurs) ==
    /\ container' = [container EXCEPT ![s] =
                       [ports |-> project[s], isOurs |-> isOurs,
                        listens |-> container[s].ports = project[s] /\ container[s].listens]]
    /\ UNCHANGED <<kept, tentative, asking, stage, projects, taken>>

DockerTakes(s) == taking # Unknown /\ Takes(s, taking, TRUE)

\* What it kept then is not told apart: any ports that may be chosen for it.
MayBeChosen(s, ports) == \A n \in DOMAIN ports : ports[n] \in PORTS \cup {Preferred[s][n]}

LeftTakes(s) ==
    /\ left /\ kept[s] # NoPorts
    /\ \E ports \in Ports(s) :
          MayBeChosen(s, ports) /\ Takes(s, [kept EXCEPT ![s] = ports], FALSE)

\* It is through: each container is as the project has it, or a dead hub's docker was there.
EndApply ==
    /\ taking # Unknown
    /\ \A s \in Services : container[s].isOurs => container[s].ports = taking[s]
    /\ applied' = taking /\ taking' = Unknown
    /\ GoesThrough(taking)
    /\ UNCHANGED <<kept, tentative, asking, rendered, left, container, taken>>

\* It failed half way, and with it the start that asked for it, which may be one without ports.
FailApply ==
    /\ taking # Unknown
    /\ taking' = Unknown
    /\ stage' \in {stage} \cup {[stage EXCEPT ![s] = "off"] : s \in Services}
    /\ UNCHANGED <<kept, tentative, asking, rendered, applied, left, container, taken>>

-----------------------------------------------------------------------------
(* The containers, other programs, and the hub's process. *)

\* It is up, exits, or is restarted.
Flips(s) ==
    /\ container[s].ports # NoPorts
    /\ container' = [container EXCEPT ![s].listens = ~ container[s].listens]
    /\ UNCHANGED <<kept, tentative, asking, stage, projects, taken>>

Take(p) ==
    /\ ~ IsListening(p) /\ Cardinality(taken) < MaxTaken
    /\ taken' = taken \cup {p}
    /\ UNCHANGED <<kept, tentative, asking, stage, projects, container>>

LetGo(p) ==
    /\ p \in taken
    /\ taken' = taken \ {p}
    /\ UNCHANGED <<kept, tentative, asking, stage, projects, container>>

\* The hub's process dies and starts again.  Docker goes on with what it was taking.
Crash ==
    /\ left' = (left \/ taking # Unknown)
    /\ tentative' = None /\ rendered' = None /\ applied' = Unknown /\ taking' = Unknown
    /\ asking' = [s \in Services |-> NoAsk]
    /\ stage' = [s \in Services |-> "off"]
    /\ container' = [s \in Services |-> [container[s] EXCEPT !.isOurs = TRUE]]
    /\ UNCHANGED <<kept, taken>>

Next ==
    \/ \E s \in Services :
          \/ Provided(s) \/ KeepPorts(s) \/ DockerLooks(s) \/ FoundRunning(s) \/ FoundStopped(s)
          \/ AskFailed(s) \/ Down(s) \/ DockerTakes(s) \/ LeftTakes(s) \/ Flips(s)
    \/ BeginApply \/ SkipApply \/ EndApply \/ FailApply
    \/ \E p \in AllPorts : Take(p) \/ LetGo(p)
    \/ Crash

Spec == Init /\ [][Next]_vars

-----------------------------------------------------------------------------

TypeOK ==
    /\ taken \subseteq AllPorts
    /\ \A s \in Services :
          /\ {kept[s], tentative[s], asking[s].ports, rendered[s], container[s].ports} \subseteq Ports(s)
          /\ asking[s].answer \in {"none", "runs", "not"}
          /\ stage[s] \in {"off", "up", "created"}
          /\ container[s].listens \in BOOLEAN /\ container[s].isOurs \in BOOLEAN
          /\ \A project \in {applied, taking} : project # Unknown => project[s] \in Ports(s)
    /\ left \in BOOLEAN

\* Two services never keep one port, however their starts, docker's answers, other programs and
\* restarts of the hub come in between.  And once the apply of a service's start went through,
\* its container has the ports the service keeps, which its endpoints tell: no apply of an
\* earlier start of it, nor one of another's, comes after with others.  Only what docker was
\* still at for a hub that died may.
PortsStand ==
    /\ \A s, t \in Services : s # t => PortsIn(kept[s]) \cap PortsIn(kept[t]) = {}
    /\ \A s \in Services :
          stage[s] = "created" /\ container[s].isOurs => container[s].ports = kept[s]

\* "ports: ... the runtime uses it when free, else assigns another" (Service): two ports of
\* one service are two.
OwnPortsApart ==
    \A s \in Services : \A m, n \in DOMAIN kept[s] : kept[s][m] = kept[s][n] => m = n
-----------------------------------------------------------------------------
(* Why: the inductive invariant. *)

AnyPorts == UNION {Ports(s) : s \in Services}
Projects == [Services -> AnyPorts]

PortsTyped ==
    /\ TypeOK
    /\ kept \in Projects /\ tentative \in Projects /\ rendered \in Projects
    /\ {applied, taking} \subseteq Projects \cup {Unknown}
    /\ asking \in [Services -> [ports : AnyPorts, answer : {"none", "runs", "not"}]]
    /\ stage \in [Services -> {"off", "up", "created"}]
    /\ container \in [Services -> [ports : AnyPorts, listens : BOOLEAN, isOurs : BOOLEAN]]

\* One that asks is not up; it asks about the ports it keeps, if it keeps some, and one
\* whose container docker found keeps some.
AskedIsKept ==
    \A s \in Services :
        /\ IsAsking(s) => stage[s] = "off" /\ (kept[s] # NoPorts => asking[s].ports = kept[s])
        /\ asking[s].answer # "none" => IsAsking(s)
        /\ asking[s].answer = "runs" => kept[s] # NoPorts

\* What renders does with the ports it keeps.
RenderedIsKept ==
    \A s \in Services :
        /\ rendered[s] \in {NoPorts, kept[s]}
        /\ stage[s] # "off" => rendered[s] = kept[s]

\* Only one that keeps ports has a container, or is getting one.
CreatedKeeps ==
    \A s \in Services : kept[s] = NoPorts =>
        container[s].ports = NoPorts /\ (taking # Unknown => taking[s] = NoPorts)

\* What docker is taking has those whose container it is not to change as they are; what is
\* known to be applied is what there is.
AppliedIsThere ==
    /\ taking # Unknown =>
          applied = Unknown /\ \A s \in Services : stage[s] = "created" => taking[s] = kept[s]
    /\ applied # Unknown =>
          \A s \in Services : container[s].isOurs => container[s].ports = applied[s]

IInv ==
    /\ PortsTyped /\ PortsStand
    /\ AskedIsKept /\ RenderedIsKept /\ CreatedKeeps /\ AppliedIsThere
=============================================================================
