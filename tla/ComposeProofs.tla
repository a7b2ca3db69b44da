--------------------------- MODULE ComposeProofs ---------------------------
(***************************************************************************)
(* Theorems about Compose, for any services, versions and number of        *)
(* applies: what is kept as applied is what docker runs, a service that    *)
(* serves runs as it was rendered, and the last apply is not skipped.      *)
(***************************************************************************)
EXTENDS Compose, SequenceTheorems, TLAPS

Request == [for : Services, waiter : Waiter]

\* Who waits for an apply is at the stage that waits.
WaitersWait ==
    \A i \in DOMAIN applies :
        /\ applies[i].waiter = "up" => stage[applies[i].for] = "applying"
        /\ applies[i].waiter = "down" => stage[applies[i].for] = "leaving"

\* A service waits for one apply at most.
WaitsForOne ==
    \A i, j \in DOMAIN applies :
        /\ i # j
        /\ applies[i].waiter # "nobody" /\ applies[j].waiter # "nobody"
        => applies[i].for # applies[j].for

\* While docker takes a project for the first apply, what it runs is unknown.
TakesForFirst == taking # Unknown => applies # <<>> /\ applied = Unknown

IInv == TypeOK /\ WaitersWait /\ WaitsForOne /\ TakesForFirst /\ AppliedIsTrue

\* A service whose start got past its apply has its container, as it was rendered, and
\* keeps it whatever docker is taking; so will the one whose apply docker is taking.
Created == {s \in Services : stage[s] \in {"checking", "on"}}
CreatedAsRendered ==
    /\ \A s \in Created : containers[s] = rendered[s]
    /\ taking # Unknown =>
        /\ \A s \in Created : taking[s] = rendered[s]
        /\ Head(applies).waiter = "up" =>
              taking[Head(applies).for] = rendered[Head(applies).for]

\* What was rendered since docker was given its last project asked for an apply of its own.
ChangesAreAsked ==
    /\ taking # Unknown /\ Len(applies) = 1 => taking = rendered
    /\ applies = <<>> /\ applied # Unknown => applied = rendered

-----------------------------------------------------------------------------
(* The queue of the applies. *)

\* An apply a service waits for no more stays in its place.
LEMMA UnheededShape ==
    ASSUME NEW s \in Services, applies \in Seq(Request)
    PROVE  /\ Unheeded(s) \in Seq(Request)
           /\ Len(Unheeded(s)) = Len(applies)
           /\ DOMAIN Unheeded(s) = DOMAIN applies
           /\ \A i \in DOMAIN applies :
                /\ Unheeded(s)[i].for = applies[i].for
                /\ Unheeded(s)[i].waiter =
                     IF applies[i].for = s THEN "nobody" ELSE applies[i].waiter
<1>1. DOMAIN applies = 1..Len(applies) /\ Len(applies) \in Nat
  OBVIOUS
<1>2. \A i \in DOMAIN applies : applies[i] \in Request
  OBVIOUS
<1>3. \A i \in DOMAIN applies :
        /\ Unheeded(s)[i] \in Request
        /\ Unheeded(s)[i].for = applies[i].for
        /\ Unheeded(s)[i].waiter = IF applies[i].for = s THEN "nobody" ELSE applies[i].waiter
  BY <1>2 DEF Unheeded, Request, Waiter
<1>4. Unheeded(s) \in [1..Len(applies) -> Request]
  BY <1>1, <1>3 DEF Unheeded
<1>5. Unheeded(s) \in Seq(Request) /\ Len(Unheeded(s)) = Len(applies)
  BY <1>1, <1>4
<1>6. QED
  BY <1>1, <1>3, <1>5

\* A new apply comes last.
LEMMA AppendShape ==
    ASSUME NEW q \in Seq(Request), NEW a \in Request
    PROVE  /\ Append(q, a) \in Seq(Request)
           /\ Len(Append(q, a)) = Len(q) + 1
           /\ DOMAIN Append(q, a) = DOMAIN q \cup {Len(q) + 1}
           /\ \A i \in DOMAIN q : Append(q, a)[i] = q[i]
           /\ Append(q, a)[Len(q) + 1] = a
           /\ Append(q, a) # <<>>
OBVIOUS

\* The first apply goes, the others move up.
LEMMA TailShape ==
    ASSUME NEW q \in Seq(Request), q # <<>>
    PROVE  /\ Head(q) = q[1] /\ Head(q) \in Request /\ 1 \in DOMAIN q
           /\ Tail(q) \in Seq(Request)
           /\ Len(Tail(q)) = Len(q) - 1 /\ Len(q) \in Nat \ {0}
           /\ \A i \in DOMAIN Tail(q) : i + 1 \in DOMAIN q /\ Tail(q)[i] = q[i + 1]
           /\ \A i, j \in DOMAIN Tail(q) : i # j => i + 1 # j + 1
           /\ \A i \in DOMAIN Tail(q) : i + 1 # 1
OBVIOUS

\* Whoever waited for the first apply, and nobody else, goes on.
LEMMA ReturnGoesOn ==
    ASSUME TypeOK, WaitersWait, WaitsForOne, applies # <<>>, NEW ok \in BOOLEAN, Return(ok)
    PROVE  /\ stage' \in [Services ->
                {"off", "applying", "checking", "on", "failed", "leaving"}]
           /\ running' = {s \in Services : stage'[s] \in {"applying", "checking", "on"}}
           /\ applies' \in Seq(Request)
           /\ Len(applies') <= MaxApplies
           /\ WaitersWait' /\ WaitsForOne'
           /\ \A s \in Services : stage'[s] \in {"checking", "on"} =>
                \/ stage[s] \in {"checking", "on"}
                \/ ok /\ Head(applies).waiter = "up" /\ Head(applies).for = s
<1> DEFINE a == Head(applies)
<1>0. applies \in Seq(Request) /\ Len(applies) <= MaxApplies
  BY DEF TypeOK, Request
<1>1. /\ a = applies[1] /\ a \in Request /\ 1 \in DOMAIN applies
      /\ Tail(applies) \in Seq(Request)
      /\ Len(Tail(applies)) = Len(applies) - 1 /\ Len(applies) \in Nat \ {0}
      /\ \A i \in DOMAIN Tail(applies) :
            i + 1 \in DOMAIN applies /\ Tail(applies)[i] = applies[i + 1] /\ i + 1 # 1
      /\ \A i, j \in DOMAIN Tail(applies) : i # j => i + 1 # j + 1
  BY <1>0, TailShape
<1> HIDE DEF a
<1>2. stage' = After(a, ok) /\ applies' = Tail(applies)
      /\ running' = IF a.waiter = "up" /\ ~ ok THEN running \ {a.for} ELSE running
  BY DEF Return, a
<1>3. a.for \in Services /\ a.waiter \in Waiter
  BY <1>1 DEF Request
<1>4. /\ a.waiter = "up" => stage[a.for] = "applying"
      /\ a.waiter = "down" => stage[a.for] = "leaving"
  BY <1>1 DEF WaitersWait
<1>5. \A s \in Services : s # a.for \/ a.waiter = "nobody" => stage'[s] = stage[s]
  BY <1>2, <1>3 DEF After, TypeOK, Waiter
<1>6. applies' \in Seq(Request) /\ Len(applies') <= MaxApplies
  BY <1>0, <1>1, <1>2, ComposeAssumption
<1>7. WaitersWait'
  <2> SUFFICES ASSUME NEW i \in DOMAIN applies'
               PROVE  /\ applies'[i].waiter = "up" => stage'[applies'[i].for] = "applying"
                      /\ applies'[i].waiter = "down" => stage'[applies'[i].for] = "leaving"
    BY DEF WaitersWait
  <2>1. i + 1 \in DOMAIN applies /\ applies'[i] = applies[i + 1] /\ i + 1 # 1
    BY <1>1, <1>2
  <2>2. applies[i + 1] \in Request
    BY <1>0, <2>1
  <2>3. CASE applies'[i].waiter = "nobody"
    BY <2>3
  <2>4. CASE applies'[i].waiter # "nobody"
    <3>1. applies'[i].for # a.for \/ a.waiter = "nobody"
      BY <2>1, <2>4, <1>1 DEF WaitsForOne
    <3>2. stage'[applies'[i].for] = stage[applies'[i].for]
      BY <3>1, <2>1, <2>2, <1>5 DEF Request
    <3>3. QED
      BY <3>2, <2>1 DEF WaitersWait
  <2>5. QED
    BY <2>3, <2>4
<1>8. WaitsForOne'
  <2> SUFFICES ASSUME NEW i \in DOMAIN applies', NEW j \in DOMAIN applies', i # j,
                      applies'[i].waiter # "nobody", applies'[j].waiter # "nobody"
               PROVE  applies'[i].for # applies'[j].for
    BY DEF WaitsForOne
  <2>1. /\ i + 1 \in DOMAIN applies /\ applies'[i] = applies[i + 1]
        /\ j + 1 \in DOMAIN applies /\ applies'[j] = applies[j + 1]
        /\ i + 1 # j + 1
    BY <1>1, <1>2
  <2>2. QED
    BY <2>1 DEF WaitsForOne
<1>9. /\ stage' \in [Services -> {"off", "applying", "checking", "on", "failed", "leaving"}]
      /\ running' = {s \in Services : stage'[s] \in {"applying", "checking", "on"}}
      /\ \A s \in Services : stage'[s] \in {"checking", "on"} =>
            stage[s] \in {"checking", "on"} \/ (ok /\ a.waiter = "up" /\ a.for = s)
  <2> DEFINE Stages == {"off", "applying", "checking", "on", "failed", "leaving"}
  <2>0. /\ stage \in [Services -> Stages]
        /\ running = {s \in Services : stage[s] \in {"applying", "checking", "on"}}
    BY DEF TypeOK
  <2>1. CASE a.waiter = "up" /\ ok
    <3>1. stage' = [stage EXCEPT ![a.for] = "checking"] /\ running' = running
      BY <1>2, <2>1 DEF After
    <3>2. QED
      BY <3>1, <2>0, <1>3, <1>4, <2>1
  <2>2. CASE a.waiter = "up" /\ ~ ok
    <3>1. stage' = [stage EXCEPT ![a.for] = "failed"] /\ running' = running \ {a.for}
      BY <1>2, <2>2 DEF After
    <3>2. QED
      BY <3>1, <2>0, <1>3, <1>4, <2>2
  <2>3. CASE a.waiter = "down"
    <3>1. stage' = [stage EXCEPT ![a.for] = "off"] /\ running' = running
      BY <1>2, <2>3 DEF After
    <3>2. QED
      BY <3>1, <2>0, <1>3, <1>4, <2>3
  <2>4. CASE a.waiter = "nobody"
    <3>1. stage' = stage /\ running' = running
      BY <1>2, <2>4 DEF After
    <3>2. QED
      BY <3>1, <2>0
  <2>5. QED
    BY <1>3, <2>1, <2>2, <2>3, <2>4 DEF Waiter
<1>10. QED
  BY <1>6, <1>7, <1>8, <1>9 DEF a

-----------------------------------------------------------------------------
(* What holds of every state. *)

LEMMA InitIInv == Init => IInv
<1> SUFFICES ASSUME Init PROVE IInv
  OBVIOUS
<1>1. TypeOK
  BY ComposeAssumption DEF Init, TypeOK, Project, Empty
<1>2. QED
  BY <1>1 DEF Init, IInv, WaitersWait, WaitsForOne, TakesForFirst, AppliedIsTrue

\* A start or a stop of s that asks for an apply, or asks no longer.
LEMMA CallKeeps ==
    ASSUME IInv, NEW s \in Services, Up(s) \/ Down(s) \/ AbandonDown(s)
    PROVE  IInv'
<1> DEFINE Stages == {"off", "applying", "checking", "on", "failed", "leaving"}
<1>0. /\ stage \in [Services -> Stages]
      /\ rendered \in Project /\ renders \in [Services -> Versions]
      /\ running = {q \in Services : stage[q] \in {"applying", "checking", "on"}}
      /\ applies \in Seq(Request) /\ Len(applies) <= MaxApplies /\ MaxApplies \in Nat
      /\ Len(applies) \in Nat /\ DOMAIN applies = 1..Len(applies)
      /\ Len(applies) + 1 \notin DOMAIN applies
  BY ComposeAssumption DEF IInv, TypeOK, Request
<1>1. /\ Apply(s, "up") \in Request /\ Apply(s, "down") \in Request
      /\ Apply(s, "up").for = s /\ Apply(s, "down").for = s
      /\ Apply(s, "up").waiter = "up" /\ Apply(s, "down").waiter = "down"
  BY DEF Apply, Request, Waiter
<1>2. /\ Unheeded(s) \in Seq(Request)
      /\ Len(Unheeded(s)) = Len(applies)
      /\ DOMAIN Unheeded(s) = DOMAIN applies
      /\ \A i \in DOMAIN applies :
            /\ Unheeded(s)[i].for = applies[i].for
            /\ Unheeded(s)[i].waiter =
                 IF applies[i].for = s THEN "nobody" ELSE applies[i].waiter
  BY <1>0, UnheededShape
<1>3. \A i \in DOMAIN applies : applies[i].for \in Services /\ applies[i].waiter \in Waiter
  <2>1. \A i \in DOMAIN applies : applies[i] \in Request
    BY <1>0
  <2>2. QED
    BY <2>1 DEF Request
<1>4. /\ WaitersWait /\ WaitsForOne /\ TakesForFirst /\ AppliedIsTrue
      /\ TypeOK
  BY DEF IInv
<1>5. CASE Up(s)
  <2> USE <1>5 DEF Up
  <2> DEFINE new == Append(applies, Apply(s, "up"))
  <2>1. /\ new \in Seq(Request) /\ Len(new) = Len(applies) + 1 /\ new # <<>>
        /\ DOMAIN new = DOMAIN applies \cup {Len(applies) + 1}
        /\ \A i \in DOMAIN applies : new[i] = applies[i]
        /\ new[Len(applies) + 1] = Apply(s, "up")
    BY <1>0, <1>1, AppendShape
  <2>2. applies' = new
    OBVIOUS
  <2> HIDE DEF new
  <2>3. \A i \in DOMAIN applies : applies[i].waiter # "nobody" => applies[i].for # s
    BY <1>3, <1>4 DEF WaitersWait, Waiter
  <2>4. stage' = [stage EXCEPT ![s] = "applying"]
    OBVIOUS
  <2>5. rendered' \in Project
    BY <1>0 DEF Project
  <2>6. running' = {q \in Services : stage'[q] \in {"applying", "checking", "on"}}
    BY <1>0
  <2>7. applies' \in Seq(Request) /\ Len(applies') <= MaxApplies
    BY <1>0, <2>1, <2>2
  <2>8. WaitersWait'
    BY <1>0, <1>1, <1>3, <1>4, <2>1, <2>2, <2>3, <2>4 DEF WaitersWait, Waiter
  <2>9. WaitsForOne'
    BY <1>0, <1>1, <1>3, <1>4, <2>1, <2>2, <2>3 DEF WaitsForOne
  <2>10. TakesForFirst' /\ AppliedIsTrue'
    BY <1>4, <2>1, <2>2 DEF TakesForFirst, AppliedIsTrue
  <2>11. QED
    BY <1>0, <1>4, <2>4, <2>5, <2>6, <2>7, <2>8, <2>9, <2>10 DEF IInv, TypeOK, Request
<1>6. CASE Down(s) /\ s \in running
  <2> USE <1>6 DEF Down
  <2> DEFINE new == Append(Unheeded(s), Apply(s, "down"))
  <2>1. /\ new \in Seq(Request) /\ Len(new) = Len(applies) + 1 /\ new # <<>>
        /\ DOMAIN new = DOMAIN applies \cup {Len(applies) + 1}
        /\ \A i \in DOMAIN applies : new[i] = Unheeded(s)[i]
        /\ new[Len(applies) + 1] = Apply(s, "down")
    BY <1>0, <1>1, <1>2, AppendShape
  <2>2. applies' = new
    OBVIOUS
  <2> HIDE DEF new
  <2>4. stage' = [stage EXCEPT ![s] = "leaving"]
    OBVIOUS
  <2>5. rendered' \in Project
    BY <1>0 DEF Project
  <2>6. running' = {q \in Services : stage'[q] \in {"applying", "checking", "on"}}
    BY <1>0
  <2>7. applies' \in Seq(Request) /\ Len(applies') <= MaxApplies
    BY <1>0, <2>1, <2>2
  <2>8. WaitersWait'
    BY <1>0, <1>1, <1>2, <1>3, <1>4, <2>1, <2>2, <2>4 DEF WaitersWait, Waiter
  <2>9. WaitsForOne'
    BY <1>0, <1>1, <1>2, <1>3, <1>4, <2>1, <2>2 DEF WaitsForOne
  <2>10. TakesForFirst' /\ AppliedIsTrue'
    BY <1>4, <2>1, <2>2 DEF TakesForFirst, AppliedIsTrue
  <2>11. QED
    BY <1>0, <1>4, <2>4, <2>5, <2>6, <2>7, <2>8, <2>9, <2>10 DEF IInv, TypeOK, Request
<1>7. CASE AbandonDown(s) \/ (Down(s) /\ s \notin running)
  <2>1. /\ stage' = [stage EXCEPT ![s] = "off"] /\ applies' = Unheeded(s)
        /\ stage[s] \in {"applying", "checking", "on", "failed", "leaving"}
        /\ s \notin running
        /\ UNCHANGED <<renders, running, rendered, applied, taking, containers>>
    BY <1>7, <1>0 DEF AbandonDown, Down
  <2>2. running' = {q \in Services : stage'[q] \in {"applying", "checking", "on"}}
    BY <2>1, <1>0
  <2>3. TypeOK'
    BY <1>0, <1>2, <1>4, <2>1, <2>2 DEF TypeOK, Request
  <2>4. WaitersWait'
    BY <1>0, <1>2, <1>3, <1>4, <2>1 DEF WaitersWait, Waiter
  <2>5. WaitsForOne'
    BY <1>2, <1>4, <2>1 DEF WaitsForOne
  <2>6. applies # <<>> => applies' # <<>>
    BY <1>0, <1>2, <2>1
  <2>7. TakesForFirst' /\ AppliedIsTrue'
    BY <1>4, <2>1, <2>6 DEF TakesForFirst, AppliedIsTrue
  <2>8. QED
    BY <2>3, <2>4, <2>5, <2>7 DEF IInv
<1>8. QED
  BY <1>5, <1>6, <1>7

\* What docker runs after it failed half way is one project still.
LEMMA BetweenShape ==
    ASSUME NEW before, NEW after, NEW c \in Between(before, after)
    PROVE  c \in Project /\ \A s \in Services : c[s] \in {before[s], after[s]}
BY DEF Between

LEMMA NextIInv == IInv /\ [Next]_vars => IInv'
<1> SUFFICES ASSUME IInv, [Next]_vars PROVE IInv'
  OBVIOUS
<1>0. /\ TypeOK /\ WaitersWait /\ WaitsForOne /\ TakesForFirst /\ AppliedIsTrue
      /\ renders \in [Services -> Versions] /\ rendered \in Project
      /\ applied \in Project \cup {Unknown} /\ taking \in Project \cup {Unknown}
      /\ containers \in Project
  BY DEF IInv, TypeOK
<1>1. ASSUME NEW s \in Services, Change(s) PROVE IInv'
  <2>1. renders' \in [Services -> Versions]
    BY <1>0, <1>1 DEF Change
  <2>2. TypeOK'
    BY <1>0, <1>1, <2>1 DEF Change, TypeOK
  <2>3. QED
    BY <1>0, <1>1, <2>2 DEF Change, IInv, WaitersWait, WaitsForOne, TakesForFirst, AppliedIsTrue
<1>2. ASSUME NEW s \in Services, Up(s) \/ Down(s) \/ AbandonDown(s) PROVE IInv'
  BY <1>2, CallKeeps
<1>3. ASSUME NEW s \in Services, Ready(s) PROVE IInv'
  <2>1. /\ stage[s] = "checking" /\ stage' = [stage EXCEPT ![s] = "on"]
        /\ UNCHANGED <<renders, running, rendered, applied, applies, taking, containers>>
    BY <1>3 DEF Ready
  <2>2. TypeOK'
    BY <1>0, <2>1 DEF TypeOK
  <2>3. WaitersWait'
    BY <1>0, <2>1 DEF WaitersWait, TypeOK
  <2>4. QED
    BY <1>0, <2>1, <2>2, <2>3 DEF IInv, WaitsForOne, TakesForFirst, AppliedIsTrue
<1>4. CASE SkipApply
  <2>1. /\ applies # <<>> /\ taking = Unknown /\ Return(TRUE)
        /\ UNCHANGED <<renders, rendered, applied, taking, containers>>
    BY <1>4 DEF SkipApply
  <2>2. QED
    BY <1>0, <2>1, ReturnGoesOn DEF IInv, TypeOK, Request, TakesForFirst, AppliedIsTrue
<1>5. CASE BeginApply
  BY <1>0, <1>5
     DEF BeginApply, IInv, TypeOK, WaitersWait, WaitsForOne, TakesForFirst, AppliedIsTrue
<1>6. CASE DockerTakes
  <2>1. /\ applies # <<>> /\ Return(TRUE)
        /\ taking \in Project /\ containers' = taking /\ applied' = taking /\ taking' = Unknown
        /\ UNCHANGED <<renders, rendered>>
    BY <1>0, <1>6 DEF DockerTakes, TakesForFirst
  <2>2. QED
    BY <1>0, <2>1, ReturnGoesOn DEF IInv, TypeOK, Request, TakesForFirst, AppliedIsTrue
<1>7. CASE DockerRefuses
  <2>1. /\ applies # <<>> /\ Return(FALSE) /\ applied = Unknown /\ taking' = Unknown
        /\ UNCHANGED <<renders, rendered, applied>>
    BY <1>0, <1>7 DEF DockerRefuses, TakesForFirst
  <2>2. containers' \in Project
    BY <1>7, BetweenShape DEF DockerRefuses
  <2>3. QED
    BY <1>0, <2>1, <2>2, ReturnGoesOn DEF IInv, TypeOK, Request, TakesForFirst, AppliedIsTrue
<1>8. CASE Crash
  <2>1. containers' \in Project
    BY <1>0, <1>8, BetweenShape DEF Crash
  <2>2. TypeOK'
    BY <1>0, <1>8, <2>1, ComposeAssumption DEF Crash, Fresh, TypeOK, Project, Empty
  <2>3. QED
    BY <1>8, <2>2
       DEF Crash, Fresh, IInv, WaitersWait, WaitsForOne, TakesForFirst, AppliedIsTrue
<1>9. CASE UNCHANGED vars
  BY <1>0, <1>9 DEF vars, IInv, TypeOK, WaitersWait, WaitsForOne, TakesForFirst, AppliedIsTrue
<1>10. QED
  BY <1>1, <1>2, <1>3, <1>4, <1>5, <1>6, <1>7, <1>8, <1>9 DEF Next

\* Every variable keeps its type, and the services running are those whose start or run is
\* under way (`_running`), whatever fails, is cancelled or crashes.
THEOREM TypeCorrect == Spec => []TypeOK
<1>1. IInv => TypeOK
  BY DEF IInv
<1>2. QED
  BY InitIInv, NextIInv, <1>1, PTL DEF Spec

\* What is kept as applied is what docker runs.
THEOREM NothingChangedIsTrue == Spec => []AppliedIsTrue
<1>1. IInv => AppliedIsTrue
  BY DEF IInv
<1>2. QED
  BY InitIInv, NextIInv, <1>1, PTL DEF Spec

-----------------------------------------------------------------------------
(* What serves runs as it was rendered. *)

LEMMA InitCreated == Init => CreatedAsRendered
BY DEF Init, CreatedAsRendered, Created

LEMMA NextCreated == IInv /\ CreatedAsRendered /\ [Next]_vars => CreatedAsRendered'
<1> SUFFICES ASSUME IInv, CreatedAsRendered, [Next]_vars PROVE CreatedAsRendered'
  OBVIOUS
<1>0. /\ TypeOK /\ WaitersWait /\ WaitsForOne /\ TakesForFirst /\ AppliedIsTrue
      /\ stage \in [Services -> {"off", "applying", "checking", "on", "failed", "leaving"}]
      /\ rendered \in [Services -> Versions \cup {None}]
      /\ applies \in Seq(Request)
  BY DEF IInv, TypeOK, Request, Project
<1>a. applies # <<>> => /\ 1 \in DOMAIN applies /\ Head(applies) = applies[1]
                        /\ Head(applies).for \in Services
  BY <1>0, TailShape DEF Request
<1>1. ASSUME NEW s \in Services, Change(s) PROVE CreatedAsRendered'
  BY <1>1 DEF Change, CreatedAsRendered, Created
<1>2. ASSUME NEW s \in Services, Up(s) PROVE CreatedAsRendered'
  <2>1. /\ stage[s] = "off" /\ stage' = [stage EXCEPT ![s] = "applying"]
        /\ rendered' = [rendered EXCEPT ![s] = renders[s]]
        /\ applies' = Append(applies, Apply(s, "up"))
        /\ taking' = taking /\ containers' = containers
    BY <1>2 DEF Up
  <2>2. Created' = Created /\ s \notin Created
    BY <1>0, <2>1 DEF Created
  <2>3. \A q \in Services \ {s} : rendered'[q] = rendered[q]
    BY <1>0, <2>1
  <2>4. ASSUME taking # Unknown, Head(applies').waiter = "up"
        PROVE  taking[Head(applies').for] = rendered'[Head(applies').for]
    <3>1. applies # <<>>
      BY <1>0, <2>4 DEF TakesForFirst
    <3>2. Apply(s, "up") \in Request
      BY DEF Apply, Request, Waiter
    <3>3. Head(applies') = applies[1] /\ Head(applies') = Head(applies)
      BY <1>0, <1>a, <2>1, <3>1, <3>2, AppendShape, TailShape
    <3>4. Head(applies).for # s
      BY <1>0, <1>a, <2>1, <2>4, <3>1, <3>3 DEF WaitersWait
    <3>5. QED
      BY <1>a, <2>3, <2>4, <3>1, <3>3, <3>4 DEF CreatedAsRendered
  <2>5. Created \subseteq Services \ {s}
    BY <2>2 DEF Created
  <2>6. QED
    BY <2>1, <2>2, <2>3, <2>4, <2>5 DEF CreatedAsRendered
<1>3. ASSUME NEW s \in Services, Down(s) \/ AbandonDown(s) PROVE CreatedAsRendered'
  <2>1. /\ \A q \in Services \ {s} : stage'[q] = stage[q] /\ rendered'[q] = rendered[q]
        /\ stage'[s] \in {"leaving", "off"}
        /\ \/ applies' = Unheeded(s)
           \/ applies' = Append(Unheeded(s), Apply(s, "down"))
        /\ taking' = taking /\ containers' = containers
    BY <1>0, <1>3 DEF Down, AbandonDown
  <2>2. Created' = Created \ {s}
    BY <2>1 DEF Created
  <2>3. ASSUME taking # Unknown, Head(applies').waiter = "up"
        PROVE  taking[Head(applies').for] = rendered'[Head(applies').for]
    <3>1. applies # <<>>
      BY <1>0, <2>3 DEF TakesForFirst
    <3>2. /\ Unheeded(s) \in Seq(Request) /\ Unheeded(s) # <<>>
          /\ 1 \in DOMAIN Unheeded(s)
          /\ Unheeded(s)[1].for = applies[1].for
          /\ Unheeded(s)[1].waiter = IF applies[1].for = s THEN "nobody" ELSE applies[1].waiter
      BY <1>0, <1>a, <3>1, UnheededShape
    <3>3. Apply(s, "down") \in Request
      BY DEF Apply, Request, Waiter
    <3>4. Head(applies') = Unheeded(s)[1]
      BY <2>1, <3>2, <3>3, AppendShape, TailShape
    <3>5. Head(applies).for # s /\ Head(applies).waiter = "up"
          /\ Head(applies').for = Head(applies).for
      BY <1>a, <2>3, <3>1, <3>2, <3>4
    <3>6. QED
      BY <1>a, <2>1, <2>3, <3>1, <3>5 DEF CreatedAsRendered
  <2>4. QED
    BY <2>1, <2>2, <2>3 DEF CreatedAsRendered, Created
<1>4. ASSUME NEW s \in Services, Ready(s) PROVE CreatedAsRendered'
  <2>1. Created' = Created
    BY <1>0, <1>4 DEF Ready, Created
  <2>2. QED
    BY <1>4, <2>1 DEF Ready, CreatedAsRendered
<1>5. CASE SkipApply
  <2>1. /\ applies # <<>> /\ taking' = Unknown /\ applied = rendered /\ Return(TRUE)
        /\ UNCHANGED <<rendered, applied, containers>>
    BY <1>5 DEF SkipApply, IsApplied
  <2>2. rendered = containers \/ applied = Unknown
    BY <1>0, <2>1 DEF AppliedIsTrue
  <2>3. CASE rendered = containers
    BY <2>1, <2>3 DEF CreatedAsRendered, Created
  <2>4. CASE applied = Unknown
    <3>1. Services = {}
      BY <1>0, <2>1, <2>4 DEF Unknown
    <3>2. QED
      BY <2>1, <3>1 DEF CreatedAsRendered, Created
  <2>5. QED
    BY <2>2, <2>3, <2>4
<1>6. CASE BeginApply
  <2>1. taking' = rendered /\ UNCHANGED <<stage, rendered, applies, containers>>
    BY <1>6 DEF BeginApply
  <2>2. QED
    BY <2>1 DEF CreatedAsRendered, Created
<1>7. CASE DockerTakes
  <2>1. /\ taking # Unknown /\ applies # <<>> /\ Return(TRUE)
        /\ containers' = taking /\ taking' = Unknown /\ rendered' = rendered
    BY <1>0, <1>7 DEF DockerTakes, TakesForFirst
  <2>2. \A s \in Created' : s \in Created \/ (Head(applies).waiter = "up" /\ Head(applies).for = s)
    BY <1>0, <2>1, ReturnGoesOn DEF Created
  <2>3. QED
    BY <2>1, <2>2 DEF CreatedAsRendered
<1>8. CASE DockerRefuses
  <2>1. /\ taking # Unknown /\ applies # <<>> /\ Return(FALSE)
        /\ containers' \in Between(containers, taking) /\ taking' = Unknown
        /\ rendered' = rendered
    BY <1>0, <1>8 DEF DockerRefuses, TakesForFirst
  <2>2. Created' \subseteq Created
    BY <1>0, <2>1, ReturnGoesOn DEF Created
  <2>3. \A s \in Created : containers'[s] \in {containers[s], taking[s]}
    BY <2>1, BetweenShape DEF Created
  <2>4. QED
    BY <2>1, <2>2, <2>3 DEF CreatedAsRendered
<1>9. CASE Crash
  BY <1>9 DEF Crash, Fresh, CreatedAsRendered, Created
<1>10. CASE UNCHANGED vars
  BY <1>10 DEF vars, CreatedAsRendered, Created
<1>11. QED
  BY <1>1, <1>2, <1>3, <1>4, <1>5, <1>6, <1>7, <1>8, <1>9, <1>10 DEF Next

\* A service that serves runs as it was rendered when it was created.
THEOREM RendersStand == Spec => []ServesAsRendered
<1>1. CreatedAsRendered => ServesAsRendered
  BY DEF CreatedAsRendered, Created, ServesAsRendered
<1>2. QED
  BY InitIInv, NextIInv, InitCreated, NextCreated, <1>1, PTL DEF Spec

-----------------------------------------------------------------------------
(* The last apply is not skipped. *)

LEMMA InitAsked == Init => ChangesAreAsked
BY DEF Init, ChangesAreAsked

LEMMA NextAsked == IInv /\ ChangesAreAsked /\ [Next]_vars => ChangesAreAsked'
<1> SUFFICES ASSUME IInv, ChangesAreAsked, [Next]_vars PROVE ChangesAreAsked'
  OBVIOUS
<1>0. TypeOK /\ TakesForFirst /\ applies \in Seq(Request)
  BY DEF IInv, TypeOK, Request
<1>1. ASSUME NEW s \in Services, Change(s) \/ Ready(s) PROVE ChangesAreAsked'
  BY <1>1 DEF Change, Ready, ChangesAreAsked
<1>2. ASSUME NEW s \in Services, Up(s) PROVE ChangesAreAsked'
  <2>1. /\ applies' = Append(applies, Apply(s, "up"))
        /\ taking' = taking /\ Apply(s, "up") \in Request
    BY <1>2 DEF Up, Apply, Request, Waiter
  <2>2. applies' # <<>> /\ Len(applies') = Len(applies) + 1
    BY <1>0, <2>1, AppendShape
  <2>3. taking # Unknown => Len(applies') # 1
    BY <1>0, <2>2, EmptySeq DEF TakesForFirst
  <2>4. QED
    BY <2>1, <2>2, <2>3 DEF ChangesAreAsked
<1>3. ASSUME NEW s \in Services, Down(s), s \in running PROVE ChangesAreAsked'
  <2>1. /\ applies' = Append(Unheeded(s), Apply(s, "down"))
        /\ taking' = taking /\ Apply(s, "down") \in Request
    BY <1>3 DEF Down, Apply, Request, Waiter
  <2>2. Unheeded(s) \in Seq(Request) /\ Len(Unheeded(s)) = Len(applies)
    BY <1>0, UnheededShape
  <2>3. applies' # <<>> /\ Len(applies') = Len(applies) + 1
    BY <2>1, <2>2, AppendShape
  <2>4. taking # Unknown => Len(applies') # 1
    BY <1>0, <2>3, EmptySeq DEF TakesForFirst
  <2>5. QED
    BY <2>1, <2>3, <2>4 DEF ChangesAreAsked
<1>4. ASSUME NEW s \in Services, (Down(s) /\ s \notin running) \/ AbandonDown(s)
      PROVE  ChangesAreAsked'
  <2>1. /\ applies' = Unheeded(s)
        /\ UNCHANGED <<rendered, applied, taking>>
    BY <1>4 DEF Down, AbandonDown
  <2>2. Len(applies') = Len(applies) /\ (applies' = <<>> => applies = <<>>)
    BY <1>0, <2>1, UnheededShape, EmptySeq
  <2>3. QED
    BY <2>1, <2>2 DEF ChangesAreAsked
<1>5. CASE SkipApply
  BY <1>5 DEF SkipApply, IsApplied, ChangesAreAsked
<1>6. CASE BeginApply
  BY <1>6 DEF BeginApply, ChangesAreAsked
<1>7. CASE DockerTakes
  <2>1. /\ taking # Unknown /\ applies # <<>> /\ applies' = Tail(applies)
        /\ applied' = taking /\ taking' = Unknown /\ rendered' = rendered
    BY <1>0, <1>7 DEF DockerTakes, Return, TakesForFirst
  <2>2. Len(applies') = Len(applies) - 1 /\ Len(applies) \in Nat \ {0}
    BY <1>0, <2>1, TailShape
  <2>3. applies' = <<>> => Len(applies') = 0
    OBVIOUS
  <2>4. applies' = <<>> => Len(applies) = 1
    BY <2>2, <2>3
  <2>5. QED
    BY <2>1, <2>4 DEF ChangesAreAsked
<1>8. CASE DockerRefuses
  BY <1>0, <1>8 DEF DockerRefuses, TakesForFirst, ChangesAreAsked
<1>9. CASE Crash
  BY <1>9 DEF Crash, Fresh, ChangesAreAsked
<1>10. CASE UNCHANGED vars
  BY <1>10 DEF vars, ChangesAreAsked
<1>11. QED
  BY <1>1, <1>2, <1>3, <1>4, <1>5, <1>6, <1>7, <1>8, <1>9, <1>10 DEF Next

\* Once nobody waits and it is known what docker runs, that is what the services rendered
\* last: no apply that had something to change was skipped.
THEOREM LastAppliedStands == Spec => []LastIsApplied
<1>1. IInv /\ ChangesAreAsked => LastIsApplied
  BY DEF IInv, AppliedIsTrue, ChangesAreAsked, LastIsApplied, Idle
<1>2. QED
  BY InitIInv, NextIInv, InitAsked, NextAsked, <1>1, PTL DEF Spec
=============================================================================
