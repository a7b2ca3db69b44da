---------------------------- MODULE BindingViews ----------------------------
(***************************************************************************)
(* What the hub reads of a binding: why a need is not bound (`_Reasons`),  *)
(* and which of the waiting are shown as unused (`_why_waiting`), of       *)
(* runtime/runtime.py.  Who runs on whom is in module BindingUsers.        *)
(***************************************************************************)
EXTENDS BindingUsers

-----------------------------------------------------------------------------

(* Why a need is not bound: `_Reasons`, need by need and candidate by      *)
(* candidate.  `told` is what it has told so far: of each peripheral the   *)
(* needs with a reason, or that it has not come to it.                     *)

Untold == {0}

RequiredNeeds(p) == {i \in DOMAIN world.needs[p] : world.needs[p][i].required}

First(candidates) == CHOOSE e \in candidates : \A f \in candidates : e <= f

RECURSIVE Of(_, _), Why(_, _, _), TellNeeds(_, _, _)

\* `of`: told once; one it is coming to has no reasons yet, which also ends the circles.
Of(p, told) ==
    IF told[p] # Untold THEN told ELSE TellNeeds(p, 1, [told EXCEPT ![p] = {}])

TellNeeds(p, i, told) ==
    IF i \notin DOMAIN world.needs[p] THEN told
    ELSE IF holds[p][i] # {} THEN TellNeeds(p, i + 1, told)
    ELSE LET why == Why(p, Candidates(world, p, i, Peripherals), told)
         IN  TellNeeds(p, i + 1,
                IF why.bindable THEN why.told ELSE [why.told EXCEPT ![p] = @ \cup {i}])

\* `why`: each candidate is taken, is not alive, or cannot run (`blocking`); else the need
\* could be bound.
Why(p, candidates, told) ==
    IF candidates = {} THEN [bindable |-> FALSE, told |-> told]
    ELSE
    LET e == First(candidates)
        q == world.provider[e]
        isRejected == taken[e] \notin {Nobody, p} \/ q \notin alive
        later == IF isRejected \/ q \in wanted THEN told ELSE Of(q, told)
        isBlocked == q \notin wanted /\ later[q] \cap RequiredNeeds(q) # {}
    IN  IF isRejected \/ isBlocked THEN Why(p, candidates \ {e}, later)
        ELSE [bindable |-> TRUE, told |-> later]

\* `all`: in binding order.
Reasons ==
    LET upTo[n \in 0..NumPeripherals] ==
            IF n = 0 THEN [p \in Peripherals |-> Untold]
            ELSE IF n \in alive THEN Of(n, upTo[n - 1]) ELSE upTo[n - 1]
    IN  upTo[NumPeripherals]

\* The ones that wait as UNUSED: not wanted, and no required need of theirs has a reason.
ShownUnused == {p \in alive \ wanted : Reasons[p] \cap RequiredNeeds(p) = {}}

-----------------------------------------------------------------------------

\* "unused: waiting: on demand, and nothing that runs uses it" (StatusKind): one that runs
\* anyway and is left out is told why.
UnusedIsOnDemand == done => ShownUnused \subseteq world.onDemand
=============================================================================
