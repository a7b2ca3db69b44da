----------------------------- MODULE Resolution -----------------------------
(***************************************************************************)
(* How the runtime binds needs: `Runtime._bind` and `Runtime._resolve` of  *)
(* runtime/runtime.py, as functions of what there is.                      *)
(*                                                                         *)
(* Peripherals and endpoints are numbered in binding order: peripheral 1   *)
(* is collected first, and endpoint e comes before endpoint f wherever     *)
(* both are candidates.  The numbering stands for the dictionary order of  *)
(* `_entries` and the list order of `provides`.  An endpoint is the triple *)
(* (provider, family, url) that the code keys single-use endpoints by.  A  *)
(* world is what the peripherals declare:                                  *)
(*   w.needs[p]     the needs of p in order, each with the endpoints it    *)
(*                  accepts, whether it is required and whether it is many *)
(*   w.provider[e]  who e belongs to                                       *)
(*   w.offers       the endpoints their providers list in `provides` now   *)
(*   w.shared       the endpoints several consumers may bind               *)
(*   w.onDemand     the peripherals that run only while something uses them*)
(***************************************************************************)
EXTENDS Naturals, Sequences, FiniteSets

CONSTANTS
    NumPeripherals,
    NumEndpoints

ASSUME NumAssumption == NumPeripherals \in Nat /\ NumEndpoints \in Nat

Peripherals == 1..NumPeripherals
Endpoints   == 1..NumEndpoints

\* Nobody took the endpoint.
Nobody == 0

Need == [accepts : SUBSET Endpoints, required : BOOLEAN, many : BOOLEAN]

World == [needs    : [Peripherals -> Seq(Need)],
          provider : [Endpoints -> Peripherals],
          offers   : SUBSET Endpoints,
          shared   : SUBSET Endpoints,
          onDemand : SUBSET Peripherals]

NoTakers == [e \in Endpoints |-> Nobody]

(***************************************************************************)
(* Binding one need, one owner, all of them.                               *)
(***************************************************************************)
\* Slip: one that is disabled, failed or left out serves too.
CandidatesAny(w, p, i, among) ==
    {e \in w.needs[p][i].accepts \cap w.offers : w.provider[e] # p}

\* What could serve need i of p: offered by another one that may serve.
Candidates(w, p, i, among) ==
    {e \in w.needs[p][i].accepts \cap w.offers :
        w.provider[e] \in among /\ w.provider[e] # p}

\* Slip: what somebody took is bound again.
ChosenTaken(w, p, i, among, taken) ==
    LET free == Candidates(w, p, i, among)
    IN  IF w.needs[p][i].many THEN free
        ELSE {e \in free : \A f \in free : e <= f}

\* Slip: the one given last.
ChosenLast(w, p, i, among, taken) ==
    LET free == {e \in Candidates(w, p, i, among) : taken[e] = Nobody}
    IN  IF w.needs[p][i].many THEN free
        ELSE {e \in free : \A f \in free : f <= e}

\* Of those, the ones nobody took: all of them for an is_many need, else the
\* first.
Chosen(w, p, i, among, taken) ==
    LET free == {e \in Candidates(w, p, i, among) : taken[e] = Nobody}
    IN  IF w.needs[p][i].many THEN free
        ELSE {e \in free : \A f \in free : e <= f}

\* Single-use endpoints are taken by the owner that binds them.
Take(w, p, chosen, taken) ==
    [e \in Endpoints |-> IF e \in chosen \ w.shared THEN p ELSE taken[e]]

\* Slip: it keeps what it took.
KeepTaken(p, taken) == taken

\* What an owner took goes back to the others.
GiveBack(p, taken) == [e \in Endpoints |-> IF taken[e] = p THEN Nobody ELSE taken[e]]

Unbound(w, p) == [i \in DOMAIN w.needs[p] |-> {}]

\* A need of p bound to what was chosen for it, or the end of p's turn.
BindTo(w, p, i, chosen, so) ==
    IF ~ so.bound THEN so
    ELSE IF chosen = {} /\ w.needs[p][i].required
    THEN [bound |-> FALSE, holds |-> Unbound(w, p), taken |-> GiveBack(p, so.taken)]
    ELSE [bound |-> TRUE, holds |-> [so.holds EXCEPT ![i] = chosen],
          taken |-> Take(w, p, chosen, so.taken)]

BindNext(w, p, i, among, so) == BindTo(w, p, i, Chosen(w, p, i, among, so.taken), so)

\* The needs of p bound one after the other: what it holds per need (an empty
\* set is a need left unbound), or that it is left out.
BindOwner(w, p, among, before) ==
    LET upTo[n \in 0..Len(w.needs[p])] ==
            IF n = 0 THEN [bound |-> TRUE, holds |-> Unbound(w, p), taken |-> before]
            ELSE BindNext(w, p, n, among, upTo[n - 1])
    IN  upTo[Len(w.needs[p])]

\* What the turn of p adds to the bindings so far.
Added(p, mine, so) ==
    [bound |-> IF mine.bound THEN so.bound \cup {p} ELSE so.bound,
     holds |-> [so.holds EXCEPT ![p] = mine.holds],
     taken |-> mine.taken]

AddOwner(w, p, among, so) == Added(p, BindOwner(w, p, among, so.taken), so)

\* Every wanted one in binding order: who is bound, what each holds, what is
\* taken.
Bind(w, wanted, among) ==
    LET upTo[n \in 0..NumPeripherals] ==
            IF n = 0 THEN [bound |-> {}, holds |-> [p \in Peripherals |-> Unbound(w, p)],
                           taken |-> NoTakers]
            ELSE IF n \in wanted THEN AddOwner(w, n, among, upTo[n - 1])
            ELSE upTo[n - 1]
    IN  upTo[NumPeripherals]

\* Every endpoint p holds, over all its needs.
HeldBy(holds, p) == UNION {holds[p][i] : i \in DOMAIN holds[p]}

\* The providers of what the bound ones hold.
Used(w, b) == {w.provider[e] : e \in UNION {HeldBy(b.holds, p) : p \in b.bound}}

(***************************************************************************)
(* Which ones should run.                                                  *)
(***************************************************************************)
\* Down through what they bind: the wanted ones and what those use.
Widen(w, among) ==
    LET from[wanted \in SUBSET Peripherals] ==
            LET b == Bind(w, wanted, among)
            IN  IF Used(w, b) \subseteq wanted THEN [wanted |-> wanted, bind |-> b]
                ELSE from[wanted \cup Used(w, b)]
    IN  from[among \ w.onDemand]

\* The wanted ones and their bindings, once nobody wanted is left unbound.
Resolve(w, alive) ==
    LET without[leftOut \in SUBSET Peripherals] ==
            LET r == Widen(w, alive \ leftOut)
                unbound == r.wanted \ r.bind.bound
            IN  IF unbound = {}
                THEN [wanted |-> r.wanted, holds |-> r.bind.holds, taken |-> r.bind.taken]
                ELSE without[leftOut \cup unbound]
    IN  without[{}]
=============================================================================
