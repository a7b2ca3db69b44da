---------------------------- MODULE BleTracking ----------------------------
(***************************************************************************)
(* The devices the Bluetooth router tracks, and what it tells listeners of *)
(* them: `_tracked` and `_listeners` of `BLEService`, providers/ble/       *)
(* router.py.                                                              *)
(*                                                                         *)
(* An advertisement is handled in a task of its own, up to the tellings at *)
(* once.  The eviction loop and the calls of perform_scan each go through  *)
(* the devices there were when they began, and await the tellings about    *)
(* one before the next: meanwhile any other may evict, and a device may    *)
(* be heard anew.                                                          *)
(***************************************************************************)
EXTENDS Naturals, FiniteSets

CONSTANTS
    Listeners,  \* the registrations there may be
    Devices,    \* addresses
    Sources,    \* source names: of two that hear as well, the greater counts as the stronger
    Strengths,  \* what a source may hear a device with, as a number
    Data,       \* what else than a name an advertisement may tell
    Wants,      \* what each listener's matchers match, of all advertisements
    Evictors    \* "loop", and the calls of perform_scan at once

VARIABLES
    listeners,  \* `_listeners`
    cancelled,  \* the ones cancelled
    tracked,    \* the advertisement each tracked device is known by, or NoAdv
    named,      \* the ones whose tracked object has heard a name
    heard,      \* how strong each source heard it within the grace, or Unheard
    held,       \* the ones a source is leased for
    todo,       \* what each evictor is yet to look at
    old,        \* and the advertisement of what it looks at, if another object is tracked by now
    loop,       \* whether the eviction loop still goes round
    told        \* the calls to each listener about each device

vars == <<listeners, cancelled, tracked, named, heard, held, todo, old, loop, told>>

Unheard == 0
Adv == [name : BOOLEAN, data : Data]
NoAdv == [name |-> FALSE, data |-> 0]

\* Those for whom no change of an advertisement matters, and what they are promised.
Steady == {l \in Listeners : Wants[l] \in {{}, Adv}}
Promise == INSTANCE Discovery
    WITH Registrations <- Steady, Things <- Devices, told <- [l \in Steady |-> told[l]]

None == [d \in Devices |-> NoAdv]
NotHeard == [s \in Sources |-> Unheard]

Init ==
    /\ listeners = {} /\ cancelled = {}
    /\ tracked = None
    /\ named = {}
    /\ heard = [d \in Devices |-> NotHeard]
    /\ held = {}
    /\ todo = [e \in Evictors |-> {}]
    /\ old = [e \in Evictors |-> None]
    /\ loop = "on"
    /\ told = [l \in Listeners |-> [d \in Devices |-> "none"]]

IsTracked(d) == tracked[d] # NoAdv

\* `BLEMatcher.matches`, of one of its matchers; none matches what is not tracked.
Matches(l, adv) == adv \in Wants[l]

IsRecent(d) == \E s \in Sources : heard[d][s] # Unheard

\* What a listener is told last, now that it is told this too.
Told(l, d, call) ==
    IF call = "none" THEN told[l][d]
    ELSE IF call = "updated" /\ told[l][d] \in {"none", "lost"} THEN "unfound"
    ELSE IF l \in Steady THEN Promise!After(told[l][d], call) ELSE call

-----------------------------------------------------------------------------
(* Listeners. *)

\* Devices heard before it registered are new to it.
Register(l) ==
    /\ l \notin listeners \cup cancelled
    /\ listeners' = listeners \cup {l}
    /\ told' = [told EXCEPT ![l] =
                    [d \in Devices |->
                        IF Matches(l, tracked[d]) THEN Told(l, d, "found") ELSE @[d]]]
    /\ UNCHANGED <<cancelled, tracked, named, heard, held, todo, old, loop>>

Cancel(l) ==
    /\ l \in listeners
    /\ listeners' = listeners \ {l}
    /\ cancelled' = cancelled \cup {l}
    /\ UNCHANGED <<tracked, named, heard, held, todo, old, loop, told>>

-----------------------------------------------------------------------------
(* Advertisements: `_handle_advertisement`. *)

IsStrongest(d, s, strengths) ==
    \A o \in Sources :
        \/ strengths[o] < strengths[s]
        \/ strengths[o] = strengths[s] /\ o <= s

\* Slip: found only if the device is new.
CallForNew(l, before, adv) ==
    IF ~ Matches(l, adv) THEN "none"
    ELSE IF before = NoAdv THEN "found"
    ELSE IF before # adv THEN "updated" ELSE "none"

\* What a listener is told: found when the device matches what it did not match before.
CallFor(l, before, adv) ==
    IF ~ Matches(l, adv) THEN "none"
    ELSE IF ~ Matches(l, before) THEN "found"
    ELSE IF before # adv THEN "updated" ELSE "none"

\* A weaker source only keeps the device alive; the name heard last stays with it.
Advertise(d, s, strength, adv) ==
    LET strengths == [heard[d] EXCEPT ![s] = strength]
        known == [adv EXCEPT !.name = @ \/ d \in named]
    IN  /\ heard' = [heard EXCEPT ![d] = strengths]
        /\ named' = IF adv.name THEN named \cup {d} ELSE named
        /\ IF IsStrongest(d, s, strengths)
           THEN /\ tracked' = [tracked EXCEPT ![d] = known]
                /\ told' = [l \in Listeners |->
                              IF l \notin listeners THEN told[l]
                              ELSE [told[l] EXCEPT ![d] =
                                        Told(l, d, CallFor(l, tracked[d], known))]]
           ELSE UNCHANGED <<tracked, told>>
        /\ UNCHANGED <<listeners, cancelled, held, todo, old, loop>>

\* The grace since the source heard it last is over.
Fade(d, s) ==
    /\ heard[d][s] # Unheard
    /\ heard' = [heard EXCEPT ![d][s] = Unheard]
    /\ UNCHANGED <<listeners, cancelled, tracked, named, held, todo, old, loop, told>>

\* A source is leased for it, or no more (BleSources).
Hold(d) ==
    /\ held' = IF d \in held THEN held \ {d} ELSE held \cup {d}
    /\ UNCHANGED <<listeners, cancelled, tracked, named, heard, todo, old, loop, told>>

-----------------------------------------------------------------------------
(* Eviction: `_evict_stale`. *)

BeginEvict(e) ==
    /\ todo[e] = {}
    /\ e = "loop" => loop = "on"
    /\ todo' = [todo EXCEPT ![e] = {d \in Devices : IsTracked(d)}]
    /\ UNCHANGED <<listeners, cancelled, tracked, named, heard, held, old, loop, told>>

\* Looked at, and passed over.
LookedAt(e, d) ==
    /\ todo' = [todo EXCEPT ![e] = @ \ {d}]
    /\ old' = [old EXCEPT ![e][d] = NoAdv]

\* The object it looks at is the tracked one or, evicted by another, one that was.
Looked(e, d) == IF old[e][d] = NoAdv THEN tracked[d] ELSE old[e][d]

\* Heard within the grace, as one evicted by another though heard anew may have been; or leased.
IsKept(e, d) ==
    /\ d \in todo[e]
    /\ d \in held \/ IsRecent(d) \/ old[e][d] # NoAdv

Keep(e, d) ==
    /\ IsKept(e, d)
    /\ LookedAt(e, d)
    /\ UNCHANGED <<listeners, cancelled, tracked, named, heard, held, loop, told>>

\* Whatever is tracked by now is deleted; to others that are to look at it, it is an old one.
Evict(e, d) ==
    /\ d \in todo[e] \ held
    /\ old[e][d] = NoAdv => ~ IsRecent(d)
    /\ IsTracked(d)
    /\ tracked' = [tracked EXCEPT ![d] = NoAdv]
    /\ named' = named \ {d}
    /\ heard' = [heard EXCEPT ![d] = NotHeard]
    /\ todo' = [todo EXCEPT ![e] = @ \ {d}]
    /\ old' = [o \in Evictors |->
                 [old[o] EXCEPT ![d] = IF o = e THEN NoAdv
                                       ELSE IF d \in todo[o] /\ @ = NoAdv THEN tracked[d] ELSE @]]
    /\ told' = [l \in Listeners |->
                  IF l \in listeners /\ Matches(l, Looked(e, d))
                  THEN [told[l] EXCEPT ![d] = Told(l, d, "lost")] ELSE told[l]]
    /\ UNCHANGED <<listeners, cancelled, held, loop>>

\* Evicted by another already: it ends on the KeyError, the loop for good.
Stumble(e, d) ==
    /\ d \in todo[e] \ held
    /\ old[e][d] # NoAdv /\ ~ IsTracked(d)
    /\ todo' = [todo EXCEPT ![e] = {}]
    /\ old' = [old EXCEPT ![e] = None]
    /\ loop' = IF e = "loop" THEN "dead" ELSE loop
    /\ UNCHANGED <<listeners, cancelled, tracked, named, heard, held, told>>

\* The router stops and starts, between two tellings: its loop begins anew, wherever it was.
Restart ==
    /\ todo' = [e \in Evictors |-> IF e = "loop" THEN {} ELSE todo[e]]
    /\ old' = [e \in Evictors |-> IF e = "loop" THEN None ELSE old[e]]
    /\ loop' = "on"
    /\ UNCHANGED <<listeners, cancelled, tracked, named, heard, held, told>>

-----------------------------------------------------------------------------
(* Together. *)

Next ==
    \/ \E l \in Listeners : Register(l) \/ Cancel(l)
    \/ \E d \in Devices :
          \/ Hold(d)
          \/ \E s \in Sources :
                \/ Fade(d, s)
                \/ \E strength \in Strengths, adv \in Adv : Advertise(d, s, strength, adv)
    \/ \E e \in Evictors :
          \/ BeginEvict(e)
          \/ \E d \in Devices : Keep(e, d) \/ Evict(e, d) \/ Stumble(e, d)
    \/ Restart

Spec == Init /\ [][Next]_vars

-----------------------------------------------------------------------------
(* What it promises. *)

TypeOK ==
    /\ listeners \subseteq Listeners /\ cancelled \subseteq Listeners
    /\ tracked \in [Devices -> Adv \cup {NoAdv}]
    /\ named \subseteq Devices /\ held \subseteq Devices
    /\ heard \in [Devices -> [Sources -> Strengths \cup {Unheard}]]
    /\ todo \in [Evictors -> SUBSET Devices]
    /\ old \in [Evictors -> [Devices -> Adv \cup {NoAdv}]]
    /\ loop \in {"on", "dead"}
    /\ told \in [Listeners -> [Devices -> {"none", "found", "updated", "lost", "repeated", "unfound"}]]

\* A registered listener was told of each device it wants, as that is known now: one heard
\* before it registered, one that came to match, one that came back.
HeardIsKnown ==
    \A l \in listeners, d \in Devices :
        Matches(l, tracked[d]) => told[l][d] \in {"found", "updated"}

\* A listener that wants a device whatever it advertises hears found, updated and lost in
\* order, however evictors, advertisements and cancels come in between.
ToldInOrder == Promise!Spec
-----------------------------------------------------------------------------
(* Why: the inductive invariant. *)

\* Who has not registered was told nothing.
NewIsTold == \A l \in Listeners \ (listeners \cup cancelled), d \in Devices : told[l][d] = "none"

\* A steady listener was told in order and, while it is registered, knows of nothing that is not
\* tracked.
TracksAsTold ==
    \A l \in Steady, d \in Devices :
        /\ told[l][d] \in Promise!Call
        /\ l \in listeners /\ ~ Matches(l, tracked[d]) => told[l][d] \in {"none", "lost"}

IInv == TypeOK /\ HeardIsKnown /\ NewIsTold /\ TracksAsTold
=============================================================================
