---------------------------- MODULE BindingUsers ----------------------------
(***************************************************************************)
(* Who runs on whom: `Runtime.users` and `Runtime.uses` of                 *)
(* runtime/runtime.py, read off a binding.                                 *)
(***************************************************************************)
EXTENDS Binding

ProvidersOf(p) == {world.provider[e] : e \in HeldBy(holds, p)}

\* `users`: more of them until there are no more.
Users(p) ==
    LET from[users \in SUBSET Peripherals] ==
            LET more == {q \in bound \ users : ProvidersOf(q) \cap (users \cup {p}) # {}}
            IN  IF more = {} THEN users ELSE from[users \cup more]
    IN  from[{}]

\* Slip: it looks at its own providers only.
UsesDirectly(p) == ProvidersOf(p)

\* `uses`: what the owners bind that was not met yet are the next owners.
Uses(p) ==
    LET from[so \in [met : SUBSET Peripherals, owners : SUBSET Peripherals]] ==
            LET more == (UNION {ProvidersOf(q) : q \in so.owners}) \ so.met
            IN  IF so.owners = {} THEN so.met
                ELSE from[[met |-> so.met \cup more, owners |-> more]]
    IN  from[[met |-> {}, owners |-> {p}]]

-----------------------------------------------------------------------------

\* An on-demand peripheral is only wanted while something that runs anyway binds it, directly
\* or through others (`_resolve`: "from the ones alive that run anyway, down through what they
\* bind"), as `users` tells it, or else while something that uses it is used by itself: widening
\* over several rounds leaves none wanted that nothing uses any more.  `uses` tells the same
\* from the other end, also where needs go round in circles.
OnDemandIsUsed ==
    done =>
        /\ \A p \in wanted \cap world.onDemand :
               Users(p) \ world.onDemand # {} \/ \E q \in Users(p) : q \in Users(q)
        /\ \A p, q \in Peripherals : q \in Users(p) <=> p \in Uses(q)
=============================================================================
