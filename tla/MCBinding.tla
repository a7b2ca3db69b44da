----------------------------- MODULE MCBinding -----------------------------
(***************************************************************************)
(* Instances of Binding and its views for TLC.                             *)
(***************************************************************************)
EXTENDS BindingViews

Needing(accepts, required, many) ==
    [accepts |-> accepts, required |-> required, many |-> many]

Requires(accepts) == Needing(accepts, TRUE, FALSE)
Likes(accepts)    == Needing(accepts, FALSE, FALSE)
Gathers(accepts)  == Needing(accepts, FALSE, TRUE)

\* The worlds in which each peripheral has one of the lists of needs given for it.
WorldsOf(NeedsFor(_), providers, shareds, onDemands) ==
    [needs    : {<<a, b, c, d, e>> : a \in NeedsFor(1), b \in NeedsFor(2), c \in NeedsFor(3),
                                     d \in NeedsFor(4), e \in NeedsFor(5)},
     provider : providers,
     offers   : {Endpoints},
     shared   : shareds,
     onDemand : onDemands]

\* Chains of on-demand peripherals over single-use endpoints, the shape of a hub: radio
\* sticks, a router or a container that serves them on demand, integrations that use
\* those.  Peripherals 1 and 2 are sticks with a radio each (endpoints 1 and 2), 3 and 4
\* run on demand on a stick and offer endpoints 3 and 4, 5 is an integration.
HubNeeds(p) ==
    CASE p \in {1, 2} -> {<<>>}
      [] p \in {3, 4} -> {<<Requires(a)>> : a \in SUBSET {1, 2} \ {{}}}
                         \cup {<<Gathers({1, 2})>>, <<Requires({7 - p}), Likes({1, 2})>>}
      [] OTHER        -> {<<Requires(a), b>> : a \in {{3}, {3, 4}},
                                               b \in {Requires({1, 2}), Requires({4}),
                                                      Likes({2}), Likes({3, 4})}}

HubWorlds ==
    WorldsOf(HubNeeds, {<<1, 2, 3, 4>>}, {{}, {3}}, {{3, 4}, {1, 3, 4}})

\* No order of its own: needs that go round in circles, that nothing but their own
\* peripheral offers, that several compete for, that take the radio a later one needs,
\* or that only one left out itself would have met.
TangledNeeds(p) ==
    CASE p = 1 -> {<<>>, <<Requires({3, 4})>>, <<Likes({2})>>}
      [] p = 2 -> {<<Requires({1})>>, <<Requires({})>>, <<Gathers({3, 4}), Requires({1, 2})>>}
      [] p = 3 -> {<<Requires({1}), n>> : n \in {Requires({4}), Likes({4}), Gathers({3, 4})}}
      [] p = 4 -> {<<>>, <<Requires({})>>, <<Requires({3}), Requires({1, 2})>>}
      [] p = 5 -> {<<Requires({1, 2})>>}

TangledWorlds ==
    WorldsOf(TangledNeeds, {<<1, 2, 3, 4>>, <<1, 1, 2, 3>>}, {{}, {1}}, {{}, {1, 3}})

\* A need accepts endpoints of one family, and the needs of one peripheral are of different
\* ones: it finds what it is bound to by family (`Peripherals`).
HasFamilies(w) ==
    \E family \in [Endpoints -> Endpoints] : \A p \in Peripherals : \A i, j \in DOMAIN w.needs[p] :
        \A e \in w.needs[p][i].accepts, f \in w.needs[p][j].accepts :
            family[e] = family[f] <=> i = j

\* One stick (1), a container (2) that lacks what it requires, an integration (3) that requires
\* both, and one (4) that requires the stick.
OneStick ==
    {[needs    |-> << <<>>, <<Requires({})>>, <<Requires({1}), Requires({2})>>, <<Requires({1})>> >>,
      provider |-> <<1, 2>>, offers |-> Endpoints, shared |-> {}, onDemand |-> onDemand] :
        onDemand \in {{}, {2}}}

\* Two that run on demand and could use one another (1, 2), an integration (3), and one that
\* runs anyway and has what the integration needs too (4): 2 is wanted for the integration, 1
\* for 2, and 1 then takes from the integration what it was wanted for.
Ring ==
    {[needs    |-> << <<Requires({1, 3})>>, <<Likes({2})>>, <<Requires({1, 3})>>, <<>>, <<>> >>,
      provider |-> <<2, 1, 4, 4>>, offers |-> Endpoints, shared |-> shared, onDemand |-> {1, 2}] :
        shared \in {{}, {1}}}

SomeWorlds == {w \in HubWorlds \cup TangledWorlds \cup Ring : HasFamilies(w)}
=============================================================================
