------------------------------ MODULE Binding ------------------------------
(***************************************************************************)
(* The runtime deciding what binds what, need by need: `Runtime._resolve`  *)
(* and the `Runtime._bind` it repeats (runtime/runtime.py).                *)
(*                                                                         *)
(* A round binds the needs of every wanted peripheral in binding order.    *)
(* After a round, what the bound ones use is wanted too and all of it is   *)
(* bound anew; when nothing widens any more, the wanted ones left unbound  *)
(* are left out and it starts over from the peripherals that run anyway.   *)
(* The same computation as a function is in module Resolution.             *)
(***************************************************************************)
EXTENDS Resolution

CONSTANT Worlds     \* the worlds to bind in

ASSUME WorldsAssumption == Worlds \subseteq World

VARIABLES
    world,      \* what the peripherals declare
    alive,      \* the ones neither disabled nor given up on
    leftOut,    \* the alive ones a required need of which found nothing
    wanted,     \* the ones that should run
    owner,      \* whose needs this round binds now
    need,       \* which of them
    bound,      \* the owners this round bound
    holds,      \* what this round bound to each need
    taken,      \* who took each single-use endpoint
    done        \* whether the result stands

vars == <<world, alive, leftOut, wanted, owner, need, bound, holds, taken, done>>

among == alive \ leftOut

NoHolds == [p \in Peripherals |-> [i \in DOMAIN world.needs[p] |-> {}]]

\* A new round: nothing bound, nothing taken.
NewRound ==
    /\ owner' = 1
    /\ need' = 1
    /\ bound' = {}
    /\ holds' = NoHolds
    /\ taken' = NoTakers

Init ==
    /\ world \in Worlds
    /\ alive \in SUBSET Peripherals
    /\ leftOut = {}
    /\ wanted = alive \ world.onDemand
    /\ owner = 1
    /\ need = 1
    /\ bound = {}
    /\ holds = [p \in Peripherals |-> [i \in DOMAIN world.needs[p] |-> {}]]
    /\ taken = NoTakers
    /\ done = FALSE

-----------------------------------------------------------------------------
(* One owner: `for key in ...` of `_bind`. *)

IsBinding == owner \in Peripherals /\ owner \in wanted

\* Slip: the next one is passed over.
NextButOne == owner' = owner + 2 /\ need' = 1

\* The owner's turn is over.
NextOwner == owner' = owner + 1 /\ need' = 1

\* One that is not wanted binds nothing.
SkipUnwanted ==
    /\ owner \in Peripherals \ wanted
    /\ NextOwner
    /\ UNCHANGED <<world, alive, leftOut, wanted, bound, holds, taken, done>>

\* The next need takes what it can: an optional one may stay empty.
BindNeed ==
    /\ IsBinding
    /\ need \in DOMAIN world.needs[owner]
    /\ LET chosen == Chosen(world, owner, need, among, taken)
       IN  /\ chosen # {} \/ ~ world.needs[owner][need].required
           /\ holds' = [holds EXCEPT ![owner][need] = chosen]
           /\ taken' = Take(world, owner, chosen, taken)
    /\ need' = need + 1
    /\ UNCHANGED <<world, alive, leftOut, wanted, owner, bound, done>>

\* A required need finds nothing: what its owner took goes back.
FailOwner ==
    /\ IsBinding
    /\ need \in DOMAIN world.needs[owner]
    /\ Chosen(world, owner, need, among, taken) = {}
    /\ world.needs[owner][need].required
    /\ holds' = [holds EXCEPT ![owner] = NoHolds[owner]]
    /\ taken' = GiveBack(owner, taken)
    /\ NextOwner
    /\ UNCHANGED <<world, alive, leftOut, wanted, bound, done>>

\* Every need of the owner went through.
BindOwnerDone ==
    /\ IsBinding
    /\ need \notin DOMAIN world.needs[owner]
    /\ bound' = bound \cup {owner}
    /\ NextOwner
    /\ UNCHANGED <<world, alive, leftOut, wanted, holds, taken, done>>

-----------------------------------------------------------------------------
(* After a round: the two loops of `_resolve`. *)

RoundOver == owner = NumPeripherals + 1 /\ ~ done

used == {world.provider[e] : e \in UNION {HeldBy(holds, p) : p \in bound}}

\* What they use is wanted too: bind anew.
WidenWanted ==
    /\ RoundOver
    /\ ~ (used \subseteq wanted)
    /\ wanted' = wanted \cup used
    /\ NewRound
    /\ UNCHANGED <<world, alive, leftOut, done>>

\* Slip: what only they used stays wanted.
LeaveOutOnly ==
    /\ RoundOver
    /\ used \subseteq wanted
    /\ wanted \ bound # {}
    /\ leftOut' = leftOut \cup (wanted \ bound)
    /\ wanted' = wanted \cap bound
    /\ NewRound
    /\ UNCHANGED <<world, alive, done>>

\* Slip: the ones left out before are let in again.
LeaveOutAnew ==
    /\ RoundOver
    /\ used \subseteq wanted
    /\ wanted \ bound # {}
    /\ leftOut' = wanted \ bound
    /\ wanted' = (alive \ leftOut') \ world.onDemand
    /\ NewRound
    /\ UNCHANGED <<world, alive, done>>

\* The wanted ones left unbound are left out: start over without them.
LeaveOut ==
    /\ RoundOver
    /\ used \subseteq wanted
    /\ wanted \ bound # {}
    /\ leftOut' = leftOut \cup (wanted \ bound)
    /\ wanted' = (alive \ leftOut') \ world.onDemand
    /\ NewRound
    /\ UNCHANGED <<world, alive, done>>

\* Nothing to widen, nobody unbound.
Conclude ==
    /\ RoundOver
    /\ used \subseteq wanted
    /\ wanted \subseteq bound
    /\ done' = TRUE
    /\ UNCHANGED <<world, alive, leftOut, wanted, owner, need, bound, holds, taken>>

Next ==
    \/ SkipUnwanted
    \/ BindNeed
    \/ FailOwner
    \/ BindOwnerDone
    \/ WidenWanted
    \/ LeaveOut
    \/ Conclude

\* It is one synchronous function: it goes on until it returns.
Spec == Init /\ [][Next]_vars /\ WF_vars(Next)

-----------------------------------------------------------------------------
(* What the computation keeps to. *)

TypeOK ==
    /\ world \in World
    /\ alive \in SUBSET Peripherals
    /\ leftOut \in SUBSET Peripherals
    /\ wanted \in SUBSET Peripherals
    /\ owner \in 1..(NumPeripherals + 1)
    /\ need \in Nat \ {0}
    /\ bound \in SUBSET Peripherals
    /\ DOMAIN holds = Peripherals
    /\ \A p \in Peripherals : holds[p] \in [DOMAIN world.needs[p] -> SUBSET Endpoints]
    /\ taken \in [Endpoints -> Peripherals \cup {Nobody}]
    /\ done \in BOOLEAN

Holds(p, e) == e \in HeldBy(holds, p)

\* A single-use endpoint (Endpoint.is_shared false: exactly one consumer) is
\* never bound to two owners, nor to two needs of one owner, at any point of the
\* computation.
HeldOnce ==
    \A e \in Endpoints \ world.shared :
        \A p, q \in Peripherals : \A i \in DOMAIN world.needs[p], j \in DOMAIN world.needs[q] :
            e \in holds[p][i] /\ e \in holds[q][j] => p = q /\ i = j

\* `taken` says who holds each single-use endpoint and nothing else: what an owner
\* took before a required need of it found nothing is never left marked taken,
\* which would keep a radio from everyone else.
TakenIsHeld ==
    \A e \in Endpoints, p \in Peripherals :
        taken[e] = p <=> e \notin world.shared /\ Holds(p, e)

\* What should run can: every wanted one is bound, each of its required needs to
\* something, and whatever it is bound to belongs to another one that is alive and
\* wanted too, so nothing waits for a provider that will never run.
Grounded ==
    done => \A p \in wanted :
        /\ p \in alive /\ p \in bound
        /\ \A i \in DOMAIN world.needs[p] :
             /\ world.needs[p][i].required => holds[p][i] # {}
             /\ \A e \in holds[p][i] : world.provider[e] \in (wanted \cap alive) \ {p}

\* One given first wins a single-use endpoint: a bound owner lacks a candidate only
\* because it took an earlier one, or because an owner before it has it.
GivenFirstWins ==
    done => \A p \in bound : \A i \in DOMAIN world.needs[p] :
        \A f \in Candidates(world, p, i, among) \ holds[p][i] :
            \/ taken[f] \in 1..p
            \/ ~ world.needs[p][i].many /\ \E e \in holds[p][i] : e < f

\* The rounds arrive at the same result as the function of module Resolution, which
\* the lifecycle modules bind with.
AgreesWithResolve ==
    done => LET r == Resolve(world, alive)
            IN  r.wanted = wanted /\ r.holds = holds /\ r.taken = taken

\* Rebinding after every widening and every leaving out comes to an end: the refresh
\* that holds the runtime's lock returns.
Terminates == <>done
=============================================================================
