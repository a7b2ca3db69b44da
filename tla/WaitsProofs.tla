---------------------------- MODULE WaitsProofs ----------------------------
(***************************************************************************)
(* Theorems about what the runtime waits for.  RetryTimer, for any         *)
(* peripherals and delays: how often one is tried, when, and that a timer  *)
(* is set for the next retry.  Driving, for any tasks and calls: nobody    *)
(* waits for itself.                                                       *)
(***************************************************************************)
EXTENDS Waits, WellFoundedInduction, TLAPS

\* The types, but for the bound of `tries`, which Counts implies.
Typed ==
    /\ now \in 0..MaxTime
    /\ state \in [Peripherals -> {"waiting", "starting", "running", "failed"}]
    /\ attempts \in [Peripherals -> 0..Len(Delays)]
    /\ retryAt \in [Peripherals -> 0..(2 * MaxTime)]
    /\ since \in [Peripherals -> 0..Never]
    /\ timer \in 0..NoTimer
    /\ asked \in BOOLEAN /\ passed \in BOOLEAN
    /\ failures \in [Peripherals -> Seq(Nat)]
    /\ tries \in [Peripherals -> Nat]

\* `attempts` counts the failures until one is given up on, which one start more has caused.
Counts ==
    \A p \in Peripherals :
        /\ state[p] = "failed" => Len(failures[p]) = Len(Delays) + 1
        /\ state[p] # "failed" => Len(failures[p]) = attempts[p]
        /\ state[p] \in {"waiting", "failed"} => tries[p] = Len(failures[p])
        /\ state[p] \in {"starting", "running"} => tries[p] = Len(failures[p]) + 1

\* One that waits after a failure waits for the delay of that failure.
WaitsItsDelay ==
    \A p \in Peripherals : state[p] = "waiting" /\ failures[p] # <<>> =>
        retryAt[p] = failures[p][Len(failures[p])] + Delays[Len(failures[p])]

IInv == Typed /\ Counts /\ WaitsItsDelay /\ NextRetryIsTimed

-----------------------------------------------------------------------------

LEMMA Constants ==
    /\ MaxTime \in Nat /\ StableRun \in Nat /\ Len(Delays) \in Nat
    /\ \A n \in 1..Len(Delays) : Delays[n] \in 0..MaxTime
    /\ Never = MaxTime + 1 /\ NoTimer = 2 * MaxTime + 1
BY TimeAssumption DEF Never, NoTimer

\* A set of naturals that is not empty has a first one, and CHOOSE finds it.
LEMMA FirstIs ==
    ASSUME NEW S \in SUBSET Nat, S # {}
    PROVE  LET first == CHOOSE t \in S : \A u \in S : t <= u
           IN  first \in S /\ \A u \in S : first <= u
<1> DEFINE Less == {ss \in Nat \X Nat : ss[1] < ss[2]}
<1>1. IsWellFoundedOn(Less, Nat)
  BY NatLessThanWellFounded, Zenon DEF OpToRel
<1>2. PICK t \in S : \A u \in S : ~ (<<u, t>> \in Less)
  BY <1>1, WFMin
<1>3. \A u \in S : t <= u
  <2> SUFFICES ASSUME NEW u \in S PROVE ~ (u < t)
    OBVIOUS
  <2>1. u < t => <<u, t>> \in Less
    OBVIOUS
  <2>2. QED
    BY <1>2, <2>1
<1>4. QED
  BY <1>3

\* The timer is set for no later than any retry that waits.
LEMMA EarliestIs ==
    ASSUME Typed
    PROVE  Earliest \in 0..NoTimer /\ \A t \in Retries : Earliest <= t
<1>1. Retries \subseteq 0..(2 * MaxTime) /\ Retries \subseteq Nat
  BY Constants DEF Typed, Retries
<1>2. CASE Retries = {}
  BY <1>2, Constants DEF Earliest
<1>3. CASE Retries # {}
  <2>1. Earliest = CHOOSE t \in Retries : \A u \in Retries : t <= u
    BY <1>3 DEF Earliest
  <2>2. Earliest \in Retries /\ \A t \in Retries : Earliest <= t
    BY <1>1, <1>3, <2>1, FirstIs
  <2>3. QED
    BY <1>1, <2>2, Constants
<1>4. QED
  BY <1>2, <1>3

LEMMA InitIInv == Init => IInv
<1> SUFFICES ASSUME Init PROVE IInv
  OBVIOUS
<1>1. \A p \in Peripherals : /\ state[p] = "waiting" /\ attempts[p] = 0 /\ tries[p] = 0
                             /\ failures[p] = <<>> /\ retryAt[p] = 0
  BY DEF Init
<1>2. Typed
  <2>1. now \in 0..MaxTime /\ timer \in 0..NoTimer
    BY Constants DEF Init
  <2>2. asked \in BOOLEAN /\ passed \in BOOLEAN
    BY DEF Init
  <2>3. /\ state \in [Peripherals -> {"waiting", "starting", "running", "failed"}]
        /\ attempts \in [Peripherals -> 0..Len(Delays)]
        /\ retryAt \in [Peripherals -> 0..(2 * MaxTime)]
        /\ since \in [Peripherals -> 0..Never]
        /\ tries \in [Peripherals -> Nat]
    BY Constants DEF Init
  <2>4. failures \in [Peripherals -> Seq(Nat)]
    BY DEF Init
  <2>5. QED
    BY <2>1, <2>2, <2>3, <2>4 DEF Typed
<1>3. Counts /\ WaitsItsDelay
  BY <1>1 DEF Counts, WaitsItsDelay
<1>4. NextRetryIsTimed
  BY DEF Init, NextRetryIsTimed
<1>5. QED
  BY <1>2, <1>3, <1>4 DEF IInv

-----------------------------------------------------------------------------
(* What becomes of one peripheral. *)

LEMMA FailKeeps ==
    ASSUME IInv, NEW p \in Peripherals, Fail(p)
    PROVE  IInv'
<1> DEFINE n == FailuresInRow(p)
           failed == IF IsStable(p) THEN <<now>> ELSE Append(failures[p], now)
<1>1. /\ Typed /\ Counts /\ WaitsItsDelay
      /\ state[p] \in {"starting", "running"} /\ now \in Nat /\ attempts[p] \in Nat
      /\ failures[p] \in Seq(Nat) /\ Len(failures[p]) = attempts[p] /\ attempts[p] <= Len(Delays)
      /\ Len(failures[p]) \in Nat /\ tries[p] = Len(failures[p]) + 1
  BY Constants DEF IInv, Typed, Counts, Fail
<1>2. n \in Nat /\ n >= 1 /\ n <= Len(Delays) + 1
  BY <1>1, Constants DEF FailuresInRow
<1>3. failed \in Seq(Nat) /\ Len(failed) = n /\ failed[n] = now /\ failed # <<>>
  <2>1. CASE IsStable(p)
    <3>1. n = 1 /\ failed = <<now>>
      BY <2>1 DEF FailuresInRow
    <3> HIDE DEF n, failed
    <3>2. QED
      BY <1>1, <3>1
  <2>2. CASE ~ IsStable(p)
    <3>1. n = Len(failures[p]) + 1 /\ failed = Append(failures[p], now)
      BY <1>1, <2>2 DEF FailuresInRow
    <3> HIDE DEF n, failed
    <3>2. QED
      BY <1>1, <3>1
  <2>3. QED
    BY <2>1, <2>2
<1>4. (IF IsStable(p) THEN 1 ELSE tries[p]) = n
  BY <1>1 DEF FailuresInRow
<1>5. /\ failures' = [failures EXCEPT ![p] = failed]
      /\ tries' = [tries EXCEPT ![p] = n]
      /\ since' = [since EXCEPT ![p] = Never]
      /\ asked' = TRUE
      /\ UNCHANGED <<now, timer, passed>>
      /\ \/ /\ n = Len(Delays) + 1
            /\ state' = [state EXCEPT ![p] = "failed"]
            /\ attempts' = [attempts EXCEPT ![p] = 0]
            /\ retryAt' = retryAt
         \/ /\ n \in 1..Len(Delays)
            /\ state' = [state EXCEPT ![p] = "waiting"]
            /\ attempts' = [attempts EXCEPT ![p] = n]
            /\ retryAt' = [retryAt EXCEPT ![p] = now + Delays[n]]
  <2>1. /\ failures' = [failures EXCEPT ![p] = failed]
        /\ since' = [since EXCEPT ![p] = Never]
        /\ asked' = TRUE
        /\ UNCHANGED <<now, timer, passed>>
    BY DEF Fail
  <2>2. tries' = [tries EXCEPT ![p] = n]
    BY <1>4 DEF Fail
  <2>3. n > Len(Delays) => /\ state' = [state EXCEPT ![p] = "failed"]
                           /\ attempts' = [attempts EXCEPT ![p] = 0]
                           /\ retryAt' = retryAt
    BY DEF Fail
  <2>4. ~ (n > Len(Delays)) => /\ state' = [state EXCEPT ![p] = "waiting"]
                               /\ attempts' = [attempts EXCEPT ![p] = n]
                               /\ retryAt' = [retryAt EXCEPT ![p] = now + Delays[n]]
    BY DEF Fail
  <2> HIDE DEF n, failed
  <2>5. n = Len(Delays) + 1 \/ n \in 1..Len(Delays)
    BY <1>2, Constants
  <2>6. n > Len(Delays) <=> n = Len(Delays) + 1
    BY <1>2, Constants
  <2>7. QED
    BY <2>1, <2>2, <2>3, <2>4, <2>5, <2>6
<1> HIDE DEF n, failed
<1>6. Typed'
  <2>1. /\ failures' \in [Peripherals -> Seq(Nat)] /\ tries' \in [Peripherals -> Nat]
        /\ since' \in [Peripherals -> 0..Never]
    BY <1>1, <1>2, <1>3, <1>5, Constants DEF Typed
  <2>2. /\ state' \in [Peripherals -> {"waiting", "starting", "running", "failed"}]
        /\ attempts' \in [Peripherals -> 0..Len(Delays)]
        /\ retryAt' \in [Peripherals -> 0..(2 * MaxTime)]
    <3>1. CASE n = Len(Delays) + 1 /\ retryAt' = retryAt
      <4>1. /\ state' = [state EXCEPT ![p] = "failed"]
            /\ attempts' = [attempts EXCEPT ![p] = 0]
        BY <1>5, <3>1, Constants
      <4>2. 0 \in 0..Len(Delays)
        BY Constants
      <4>3. QED
        BY <1>1, <3>1, <4>1, <4>2 DEF Typed
    <3>2. CASE n \in 1..Len(Delays) /\ retryAt' = [retryAt EXCEPT ![p] = now + Delays[n]]
      <4>1. now + Delays[n] \in 0..(2 * MaxTime) /\ n \in 0..Len(Delays)
        BY <1>1, <3>2, Constants DEF Typed
      <4>2. QED
        <5>1. /\ state' = [state EXCEPT ![p] = "waiting"]
              /\ attempts' = [attempts EXCEPT ![p] = n]
          BY <1>5, <3>2, Constants
        <5>2. QED
          BY <1>1, <3>2, <4>1, <5>1 DEF Typed
    <3>3. QED
      BY <1>5, <3>1, <3>2
  <2>3. QED
    BY <1>1, <1>5, <2>1, <2>2 DEF Typed
<1>7. Counts'
  BY <1>1, <1>2, <1>3, <1>5, Constants DEF Typed, Counts
<1>8. WaitsItsDelay'
  BY <1>1, <1>3, <1>5, Constants DEF Typed, WaitsItsDelay
<1>9. QED
  BY <1>5, <1>6, <1>7, <1>8 DEF IInv, NextRetryIsTimed

LEMMA ReviveKeeps ==
    ASSUME IInv, NEW p \in Peripherals, Revive(p)
    PROVE  IInv'
<1>1. Typed'
  BY Constants DEF IInv, Typed, Revive
<1>2. Counts' /\ WaitsItsDelay'
  BY Constants DEF IInv, Typed, Counts, WaitsItsDelay, Revive
<1>3. QED
  BY <1>1, <1>2 DEF IInv, NextRetryIsTimed, Revive

LEMMA ServeKeeps ==
    ASSUME IInv, NEW p \in Peripherals, Serve(p)
    PROVE  IInv'
<1>1. Typed'
  BY Constants DEF IInv, Typed, Serve
<1>2. Counts' /\ WaitsItsDelay'
  BY DEF IInv, Typed, Counts, WaitsItsDelay, Serve
<1>3. QED
  BY <1>1, <1>2 DEF IInv, NextRetryIsTimed, Serve

LEMMA PassKeeps ==
    ASSUME IInv, Pass
    PROVE  IInv'
<1>1. \A p \in Peripherals : /\ state'[p] = IF IsDue(p) THEN "starting" ELSE state[p]
                             /\ tries'[p] = IF IsDue(p) THEN tries[p] + 1 ELSE tries[p]
                             /\ IsDue(p) => state[p] = "waiting"
  BY DEF Pass, IsDue
<1>2. Typed'
  <2>1. /\ state' \in [Peripherals -> {"waiting", "starting", "running", "failed"}]
        /\ tries' \in [Peripherals -> Nat]
    BY DEF IInv, Typed, Pass
  <2>2. asked' \in BOOLEAN /\ passed' \in BOOLEAN
    BY DEF Pass
  <2>3. QED
    BY <2>1, <2>2 DEF IInv, Typed, Pass
<1>3. Counts' /\ WaitsItsDelay'
  BY <1>1 DEF IInv, Typed, Counts, WaitsItsDelay, Pass
<1>4. QED
  BY <1>2, <1>3 DEF IInv, NextRetryIsTimed, Pass

-----------------------------------------------------------------------------

LEMMA NextIInv ==
    ASSUME IInv, [Next]_vars
    PROVE  IInv'
<1>1. CASE Tick
  <2>1. Typed' /\ Counts' /\ WaitsItsDelay'
    BY <1>1, Constants DEF Tick, IInv, Typed, Counts, WaitsItsDelay
  <2>2. \A p \in Peripherals : retryAt[p] > now' => retryAt[p] > now
    BY <1>1, Constants DEF Tick, IInv, Typed
  <2>3. NextRetryIsTimed'
    BY <1>1, <2>2 DEF Tick, IInv, NextRetryIsTimed
  <2>4. QED
    BY <2>1, <2>3 DEF IInv
<1>2. CASE ScheduleRetry
  <2>1. Earliest \in 0..NoTimer /\ \A t \in Retries : Earliest <= t
    BY EarliestIs DEF IInv
  <2>2. Typed' /\ Counts' /\ WaitsItsDelay'
    BY <1>2, <2>1 DEF ScheduleRetry, IInv, Typed, Counts, WaitsItsDelay
  <2>3. \A p \in Peripherals : state[p] = "waiting" /\ retryAt[p] > now => Earliest <= retryAt[p]
    BY <2>1 DEF Retries
  <2>4. NextRetryIsTimed'
    BY <1>2, <2>3 DEF ScheduleRetry, NextRetryIsTimed
  <2>5. QED
    BY <2>2, <2>4 DEF IInv
<1>3. CASE TimerFires
  <2>1. Typed' /\ Counts' /\ WaitsItsDelay'
    BY <1>3, Constants DEF TimerFires, IInv, Typed, Counts, WaitsItsDelay
  <2>2. QED
    BY <1>3, <2>1 DEF TimerFires, IInv, NextRetryIsTimed
<1>4. CASE UNCHANGED vars
  BY <1>4 DEF vars, IInv, Typed, Counts, WaitsItsDelay, NextRetryIsTimed
<1>5. QED
  BY <1>1, <1>2, <1>3, <1>4, PassKeeps, ServeKeeps, FailKeeps, ReviveKeeps DEF Next

LEMMA Implied == IInv => TypeOK /\ GivenUpAfterAll
<1> SUFFICES ASSUME IInv PROVE TypeOK /\ GivenUpAfterAll
  OBVIOUS
<1>1. ASSUME NEW p \in Peripherals
      PROVE  /\ tries[p] \in 0..(Len(Delays) + 1)
             /\ state[p] = "failed" <=>
                    Len(failures[p]) = Len(Delays) + 1 /\ tries[p] = Len(failures[p])
  <2>1. /\ state[p] \in {"waiting", "starting", "running", "failed"}
        /\ attempts[p] \in 0..Len(Delays) /\ Len(failures[p]) \in Nat /\ tries[p] \in Nat
    BY DEF IInv, Typed
  <2>2. QED
    BY <2>1, Constants DEF IInv, Counts
<1>2. QED
  BY <1>1 DEF IInv, Typed, TypeOK, GivenUpAfterAll

\* Every variable keeps its type, for any peripherals and delays.
THEOREM TypeCorrect == Spec => []TypeOK
<1>1. IInv /\ [Next]_vars => IInv'
  BY NextIInv
<1>2. QED
  BY InitIInv, Implied, <1>1, PTL DEF Spec

\* One is given up on after exactly one start more than there are delays, for any delays.
THEOREM GivenUpRight == Spec => []GivenUpAfterAll
<1>1. IInv /\ [Next]_vars => IInv'
  BY NextIInv
<1>2. QED
  BY InitIInv, Implied, <1>1, PTL DEF Spec

\* Whenever nothing is left to do, a timer is set for the next retry still to come.
THEOREM RetryAlwaysTimed == Spec => []NextRetryIsTimed
<1>1. IInv /\ [Next]_vars => IInv'
  BY NextIInv
<1>2. IInv => NextRetryIsTimed
  BY DEF IInv
<1>3. QED
  BY InitIInv, <1>1, <1>2, PTL DEF Spec

\* After the n-th failure in a row one starts again no earlier than the n-th delay.
THEOREM NeverTooEarly == Spec => NoneTooEarly
<1> DEFINE Late == \A p \in Peripherals :
                state[p] = "waiting" /\ state'[p] = "starting" /\ failures[p] # <<>> =>
                    now >= failures[p][Len(failures[p])] + Delays[Len(failures[p])]
<1>1. IInv /\ [Next]_vars => IInv'
  BY NextIInv
<1>2. IInv /\ [Next]_vars => [Late]_vars
  <2> SUFFICES ASSUME IInv, Next, NEW p \in Peripherals,
                      state[p] = "waiting", state'[p] = "starting", failures[p] # <<>>
               PROVE  now >= failures[p][Len(failures[p])] + Delays[Len(failures[p])]
    OBVIOUS
  <2>1. ASSUME NEW q \in Peripherals, Serve(q) \/ Fail(q) \/ Revive(q) PROVE state'[p] # "starting"
    BY <2>1 DEF Serve, Fail, Revive, IInv, Typed
  <2>2. Pass
    BY <2>1 DEF Next, Tick, ScheduleRetry, TimerFires
  <2>3. retryAt[p] <= now
    BY <2>2 DEF Pass, IsDue
  <2>4. QED
    BY <2>3 DEF IInv, WaitsItsDelay
<1>3. QED
  BY InitIInv, <1>1, <1>2, PTL DEF Spec, NoneTooEarly

-----------------------------------------------------------------------------
(* Driving: nobody waits for itself. *)

\* The types, said of each task and each call.
TasksRight ==
    /\ kind \in [Tasks -> {"none", "theirs", "change", "refresh", "start"}]
    /\ mark \in [Tasks -> Marks \cup {D!NoCall}]
    /\ maker \in [Tasks -> Tasks \cup {NoOne}]
    /\ awaits \in [Tasks -> Tasks \cup {NoOne}]
    /\ cancelled \subseteq Tasks
    /\ \A t \in cancelled : kind[t] \in {"theirs", "start"}
    /\ holder \in Tasks \cup {NoOne}
    /\ holder # NoOne => D!IsOurs(holder) /\ holder \notin cancelled
    /\ calls \subseteq Marks
    /\ \A t \in Tasks : D!IsOurs(t) /\ mark[t] # D!NoCall => mark[t] \in calls
    /\ \A m \in calls : \E t \in Tasks : D!IsOurs(t) /\ mark[t] = m

\* The queue for the lock: each waits in it once, for the lock alone, and in no call.
QueueInOrder ==
    /\ queue \in Seq(Tasks)
    /\ \A i, j \in 1..Len(queue) : queue[i] = queue[j] => i = j
    /\ \A i \in 1..Len(queue) :
          /\ D!IsOurs(queue[i]) /\ queue[i] # holder /\ queue[i] \notin cancelled
          /\ awaits[queue[i]] = NoOne /\ mark[queue[i]] = D!NoCall

\* Who is free has nothing to do with anybody.
FreeIsApart ==
    \A t \in Tasks : kind[t] = "none" =>
        /\ awaits[t] = NoOne /\ mark[t] = D!NoCall /\ maker[t] = NoOne
        /\ \A u \in Tasks : awaits[u] # t /\ maker[u] # t

\* A call is one task's of the runtime: the holder's, or a start's.
OneInCall ==
    /\ \A t, u \in Tasks : D!IsOurs(t) /\ D!IsOurs(u) /\ mark[t] = mark[u] /\ mark[t] # D!NoCall => t = u
    /\ \A t \in Tasks : D!IsOurs(t) /\ mark[t] # D!NoCall /\ t # holder => kind[t] = "start"

\* Who is awaited: one that was cancelled, one made in the same call, or a change or a
\* refresh by one in nobody's call.
AwaitedRight ==
    \A t \in Tasks : awaits[t] # NoOne =>
        LET c == awaits[t]
        IN  /\ t \in cancelled => c \in cancelled
            /\ \/ c \in cancelled
               \/ kind[c] = "theirs" /\ mark[c] = mark[t] /\ (D!IsOurs(t) => mark[t] # D!NoCall)
               \/ kind[c] \in {"change", "refresh"} /\ kind[t] = "theirs" /\ mark[t] \notin calls

InOrder == TasksRight /\ QueueInOrder /\ FreeIsApart /\ OneInCall /\ AwaitedRight

\* t may come to await c, which was made in the call it is in; neither was cancelled.
MayAwait(t, c) ==
    /\ maker[c] = t /\ kind[c] = "theirs" /\ mark[c] = mark[t]
    /\ c \notin cancelled /\ t \notin cancelled
    /\ D!IsOurs(t) => mark[t] # D!NoCall

IsQueued(t) == \E i \in 1..Len(queue) : queue[i] = t

\* Whom each waits for, or may come to wait for.
Edge(t, c) == c = awaits[t] \/ (c = holder /\ IsQueued(t)) \/ MayAwait(t, c)
Edges == [t \in Tasks |-> {c \in Tasks : Edge(t, c)}]

\* No set of tasks in which each waits for another one of the set.
IsAcyclic(E) == \A S \in SUBSET Tasks : S # {} => \E t \in S : E[t] \cap S = {}

WInv == InOrder /\ IsAcyclic(Edges)

\* What keeps a relation without circles: those of R get no edge they had not, and stay among
\* themselves; all others may get edges into R.
LEMMA StaysAcyclic ==
    ASSUME NEW E, NEW F, IsAcyclic(E), NEW R \in SUBSET Tasks,
           \A t \in R : F[t] \subseteq E[t] /\ F[t] \subseteq R,
           \A t \in Tasks \ R : F[t] \subseteq E[t] \cup R
    PROVE  IsAcyclic(F)
<1> SUFFICES ASSUME NEW S \in SUBSET Tasks, S # {}
             PROVE  \E t \in S : F[t] \cap S = {}
  BY DEF IsAcyclic
<1>1. CASE S \cap R # {}
  <2>1. PICK t \in S \cap R : E[t] \cap (S \cap R) = {}
    BY <1>1 DEF IsAcyclic
  <2> QED
    BY <2>1
<1>2. CASE S \cap R = {}
  <2>1. PICK t \in S : E[t] \cap S = {}
    BY DEF IsAcyclic
  <2> QED
    BY <1>2, <2>1
<1> QED
  BY <1>1, <1>2

\* Fewer edges close no circle.
LEMMA FewerIsAcyclic ==
    ASSUME NEW E, NEW F, IsAcyclic(E), \A t \in Tasks : F[t] \subseteq E[t]
    PROVE  IsAcyclic(F)
<1> SUFFICES ASSUME NEW S \in SUBSET Tasks, S # {}
             PROVE  \E t \in S : F[t] \cap S = {}
  BY DEF IsAcyclic
<1>1. PICK t \in S : E[t] \cap S = {}
  BY DEF IsAcyclic
<1> QED
  BY <1>1

\* One nobody waits for may wait for anybody else.
LEMMA SourceIsAcyclic ==
    ASSUME NEW E, NEW F, IsAcyclic(E), NEW x \in Tasks,
           \A t \in Tasks : x \notin F[t],
           \A t \in Tasks \ {x} : F[t] \subseteq E[t]
    PROVE  IsAcyclic(F)
<1> SUFFICES ASSUME NEW S \in SUBSET Tasks, S # {}
             PROVE  \E t \in S : F[t] \cap S = {}
  BY DEF IsAcyclic
<1>1. CASE S = {x}
  BY <1>1
<1>2. CASE S # {x}
  <2>1. S \ {x} \in SUBSET Tasks /\ S \ {x} # {}
    BY <1>2
  <2>2. PICK t \in S \ {x} : E[t] \cap (S \ {x}) = {}
    BY <2>1 DEF IsAcyclic
  <2> QED
    BY <2>2
<1> QED
  BY <1>1, <1>2

\* A task and those theirs that it reaches are what a cancellation reaches.
LEMMA ReachedIs ==
    ASSUME NEW t \in Tasks
    PROVE  /\ t \in D!Reached(t) /\ D!Reached(t) \subseteq Tasks
           /\ \A c \in D!Reached(t) : c = t \/ kind[c] = "theirs"
<1> DEFINE on == {c \in Tasks : kind[c] = "theirs"}
           R == {t} \cup on
<1>1. R \in SUBSET Tasks /\ t \in R /\ {awaits[c] : c \in R} \cap on \subseteq R
  OBVIOUS
<1>2. \A c \in D!Reached(t) : c \in R
  BY <1>1 DEF D!Reached
<1> QED
  BY <1>2 DEF D!Reached

\* A queue without one of its tasks.
LEMMA LeftQueue ==
    ASSUME NEW q \in Seq(Tasks), \A i, j \in 1..Len(q) : q[i] = q[j] => i = j, NEW c
    PROVE  LET r == D!RemoveFirst(q, c)
           IN  /\ r \in Seq(Tasks)
               /\ \A i, j \in 1..Len(r) : r[i] = r[j] => i = j
               /\ \A t : (\E i \in 1..Len(r) : r[i] = t) <=> t # c /\ \E i \in 1..Len(q) : q[i] = t
<1>1. CASE \E i \in 1..Len(q) : q[i] = c
  <2>1. PICK k \in 1..Len(q) : q[k] = c
    BY <1>1
  <2> DEFINE I == {i \in 1..Len(q) : q[i] = c}
             a == SubSeq(q, 1, k - 1)
             b == SubSeq(q, k + 1, Len(q))
             r == a \o b
  <2>2. I = {k}
    BY <2>1
  <2>3. D!Min(I) = k
    BY <2>2 DEF D!Min
  <2>4. D!RemoveFirst(q, c) = r
    BY <2>1, <2>2, <2>3 DEF D!RemoveFirst, D!RemoveAt, D!SelectInSeq
  <2>5. a \in Seq(Tasks) /\ Len(a) = k - 1 /\ \A i \in 1..(k - 1) : a[i] = q[i]
    OBVIOUS
  <2>6. b \in Seq(Tasks) /\ Len(b) = Len(q) - k /\ \A i \in 1..(Len(q) - k) : b[i] = q[i + k]
    OBVIOUS
  <2> HIDE DEF a, b
  <2>7. /\ r \in Seq(Tasks) /\ Len(r) = Len(q) - 1
        /\ \A i \in 1..Len(r) : r[i] = IF i < k THEN q[i] ELSE q[i + 1]
    <3>4. a \in Seq(Tasks) /\ b \in Seq(Tasks)
      BY <2>5, <2>6
    <3>1. r \in Seq(Tasks) /\ Len(r) = Len(a) + Len(b)
      BY ONLY <3>4
    <3>2. Len(r) = Len(q) - 1
      BY <3>1, <2>5, <2>6
    <3>3. ASSUME NEW i \in 1..Len(r) PROVE r[i] = IF i < k THEN q[i] ELSE q[i + 1]
      <4>1. CASE i < k
        BY <4>1, <2>5, <2>6
      <4>2. CASE i >= k
        <5>1. r[i] = b[i - (k - 1)] /\ i - (k - 1) \in 1..(Len(q) - k)
          BY <4>2, <3>2, <2>5, <2>6
        <5> QED
          BY <5>1, <4>2, <2>6
      <4> QED
        BY <4>1, <4>2
    <3> QED
      BY <3>1, <3>2, <3>3
  <2> HIDE DEF r
  <2>8. \A i, j \in 1..Len(r) : r[i] = r[j] => i = j
    BY <2>7
  <2>9. ASSUME NEW i \in 1..Len(r) PROVE r[i] # c /\ \E j \in 1..Len(q) : q[j] = r[i]
    BY <2>1, <2>7
  <2>10. ASSUME NEW j \in 1..Len(q), q[j] # c PROVE \E i \in 1..Len(r) : r[i] = q[j]
    <3>1. CASE j < k
      BY <2>7, <3>1
    <3>2. CASE j > k
      <4>1. j - 1 \in 1..Len(r) /\ r[j - 1] = q[j]
        BY <2>7, <3>2
      <4> QED
        BY <4>1
    <3> QED
      BY <3>1, <3>2, <2>1, <2>10
  <2>11. \A t : (\E i \in 1..Len(r) : r[i] = t) <=> t # c /\ \E i \in 1..Len(q) : q[i] = t
    BY <2>9, <2>10
  <2> QED
    BY <2>4, <2>7, <2>8, <2>11
<1>2. CASE ~ \E i \in 1..Len(q) : q[i] = c
  BY <1>2 DEF D!RemoveFirst
<1> QED
  BY <1>1, <1>2

\* In order as it begins, with no edges.
LEMMA WaitsStart == D!Init => WInv
<1> SUFFICES ASSUME D!Init PROVE WInv
  OBVIOUS
<1>1. InOrder
  BY TasksAssumption DEF D!Init, InOrder, TasksRight, QueueInOrder, FreeIsApart, OneInCall, AwaitedRight,
     D!IsOurs, D!NoCall
<1>2. \A t, c \in Tasks : ~ Edge(t, c)
  BY TasksAssumption DEF D!Init, Edge, IsQueued, MayAwait
<1>3. IsAcyclic(Edges)
  BY <1>2 DEF Edges, IsAcyclic
<1> QED
  BY <1>1, <1>3 DEF WInv

\* Edges that are no more than before.
LEMMA FewerEdges ==
    ASSUME IsAcyclic(Edges), \A t, c \in Tasks : Edge(t, c)' => Edge(t, c)
    PROVE  IsAcyclic(Edges)'
<1> DEFINE E == Edges
           F == Edges'
<1>1. IsAcyclic(E) /\ \A t \in Tasks : F[t] \subseteq E[t]
  BY DEF Edges
<1> HIDE DEF E, F
<1>2. IsAcyclic(F)
  BY <1>1, FewerIsAcyclic
<1> QED
  BY <1>2 DEF F, IsAcyclic

\* New edges into R alone, which has none out of it.
LEMMA EdgesInto ==
    ASSUME IsAcyclic(Edges), NEW R \in SUBSET Tasks,
           \A t \in R : \A c \in Tasks : Edge(t, c)' => Edge(t, c) /\ c \in R,
           \A t \in Tasks \ R : \A c \in Tasks : Edge(t, c)' => Edge(t, c) \/ c \in R
    PROVE  IsAcyclic(Edges)'
<1>1. /\ \A t \in R : Edges'[t] \subseteq Edges[t] /\ Edges'[t] \subseteq R
      /\ \A t \in Tasks \ R : Edges'[t] \subseteq Edges[t] \cup R
  BY DEF Edges
<1>2. IsAcyclic(Edges')
  <2> DEFINE E == Edges
             F == Edges'
  <2>1. /\ IsAcyclic(E)
        /\ \A t \in R : F[t] \subseteq E[t] /\ F[t] \subseteq R
        /\ \A t \in Tasks \ R : F[t] \subseteq E[t] \cup R
    BY <1>1
  <2> HIDE DEF E, F
  <2>2. IsAcyclic(F)
    BY <2>1, StaysAcyclic
  <2> QED
    BY <2>2 DEF F
<1> QED
  BY <1>2 DEF IsAcyclic

\* New edges of one nobody waits for.
LEMMA EdgesOf ==
    ASSUME IsAcyclic(Edges), NEW x \in Tasks,
           \A t, c \in Tasks : Edge(t, c)' => c # x /\ (t = x \/ Edge(t, c))
    PROVE  IsAcyclic(Edges)'
<1>1. /\ \A t \in Tasks : x \notin Edges'[t]
      /\ \A t \in Tasks \ {x} : Edges'[t] \subseteq Edges[t]
  BY DEF Edges
<1>2. IsAcyclic(Edges')
  <2> DEFINE E == Edges
             F == Edges'
  <2>1. /\ IsAcyclic(E) /\ \A t \in Tasks : x \notin F[t]
        /\ \A t \in Tasks \ {x} : F[t] \subseteq E[t]
    BY <1>1
  <2> HIDE DEF E, F
  <2>2. IsAcyclic(F)
    BY <2>1, SourceIsAcyclic
  <2> QED
    BY <2>2 DEF F
<1> QED
  BY <1>2 DEF IsAcyclic

\* Somebody comes, who has nothing to do with anybody yet.
LEMMA ComeStep == ASSUME WInv, NEW t \in Tasks, D!Come(t) PROVE WInv'
<1> USE TasksAssumption DEF WInv, InOrder
<1>1. TasksRight'
  BY DEF D!Come, D!IsFree, TasksRight, FreeIsApart, D!IsOurs, D!NoCall
<1>2. QueueInOrder'
  BY DEF D!Come, D!IsFree, TasksRight, QueueInOrder, D!IsOurs, D!NoCall
<1>3. FreeIsApart' /\ OneInCall'
  BY DEF D!Come, D!IsFree, TasksRight, FreeIsApart, OneInCall, D!IsOurs, D!NoCall
<1>4. AwaitedRight'
  BY DEF D!Come, D!IsFree, TasksRight, FreeIsApart, AwaitedRight, D!IsOurs, D!NoCall
<1>5. \A u, c \in Tasks : Edge(u, c)' => Edge(u, c)
  BY DEF D!Come, D!IsFree, TasksRight, FreeIsApart, Edge, IsQueued, MayAwait, D!IsOurs, D!NoCall
<1>6. IsAcyclic(Edges)'
  BY <1>5, FewerEdges
<1> QED
  BY <1>1, <1>2, <1>3, <1>4, <1>6

\* Somebody is made in a call, or outside of any.
LEMMA MakeStep == ASSUME WInv, NEW t \in Tasks, NEW new \in Tasks, D!Make(t, new) PROVE WInv'
<1> USE TasksAssumption DEF WInv, InOrder
<1>1. TasksRight'
  BY DEF D!Make, D!IsActing, D!IsFree, TasksRight, FreeIsApart, D!IsOurs, D!NoCall
<1>2. QueueInOrder'
  BY DEF D!Make, D!IsActing, D!IsFree, TasksRight, QueueInOrder, D!IsOurs, D!NoCall
<1>3. FreeIsApart' /\ OneInCall'
  BY DEF D!Make, D!IsActing, D!IsFree, TasksRight, FreeIsApart, OneInCall, D!IsOurs, D!NoCall
<1>4. AwaitedRight'
  BY DEF D!Make, D!IsActing, D!IsFree, TasksRight, FreeIsApart, AwaitedRight, D!IsOurs, D!NoCall
<1>5. /\ \A c \in Tasks : ~ Edge(new, c)'
      /\ \A u, c \in Tasks : Edge(u, c)' => Edge(u, c) \/ c = new
  <2>1. /\ kind[new] = "none" /\ awaits[t] = NoOne /\ t \notin cancelled
        /\ kind[t] = "theirs" \/ (D!IsOurs(t) /\ mark[t] # D!NoCall)
        /\ kind' = [kind EXCEPT ![new] = "theirs"] /\ mark' = [mark EXCEPT ![new] = mark[t]]
        /\ maker' = [maker EXCEPT ![new] = t] /\ awaits' = awaits /\ cancelled' = cancelled
        /\ queue' = queue /\ holder' = holder
    BY DEF D!Make, D!IsActing, D!IsFree
  <2>2. /\ new # t /\ new \notin cancelled /\ holder # new
        /\ awaits[new] = NoOne /\ \A u \in Tasks : awaits[u] # new /\ maker[u] # new
    BY <2>1 DEF TasksRight, FreeIsApart, D!IsOurs
  <2>3. ~ IsQueued(new) /\ \A u \in Tasks : IsQueued(u)' <=> IsQueued(u)
    BY <2>1 DEF QueueInOrder, IsQueued, D!IsOurs
  <2>4. /\ \A c \in Tasks : ~ MayAwait(new, c)'
        /\ \A u, c \in Tasks : MayAwait(u, c)' => MayAwait(u, c) \/ c = new
    BY <2>1, <2>2 DEF TasksRight, MayAwait, D!IsOurs
  <2> QED
    BY <2>1, <2>2, <2>3, <2>4 DEF Edge
<1>6. IsAcyclic(Edges)'
  <2>1. /\ {new} \in SUBSET Tasks
        /\ \A u \in {new} : \A c \in Tasks : Edge(u, c)' => Edge(u, c) /\ c \in {new}
        /\ \A u \in Tasks \ {new} : \A c \in Tasks : Edge(u, c)' => Edge(u, c) \/ c \in {new}
    BY <1>5
  <2> QED
    BY <2>1, EdgesInto
<1> QED
  BY <1>1, <1>2, <1>3, <1>4, <1>6

\* Who was cancelled waits for nobody but such as were.
LEMMA CancelledApart ==
    ASSUME WInv, NEW t \in cancelled, NEW c \in Tasks, Edge(t, c) PROVE c \in cancelled
  BY TasksAssumption DEF WInv, InOrder, TasksRight, QueueInOrder, AwaitedRight, Edge, IsQueued, MayAwait

\* It awaits one it might await, or one that was cancelled.
LEMMA AwaitStep == ASSUME WInv, NEW t \in Tasks, NEW c \in Tasks, D!Await(t, c) PROVE WInv'
<1> USE TasksAssumption DEF WInv, InOrder
<1>1. TasksRight'
  BY DEF D!Await, TasksRight, D!IsOurs, D!NoCall
<1>2. QueueInOrder'
  <2>1. /\ kind[t] = "theirs" \/ (D!IsOurs(t) /\ mark[t] # D!NoCall)
        /\ awaits' = [awaits EXCEPT ![t] = c]
        /\ UNCHANGED <<kind, mark, calls, maker, cancelled, queue, holder>>
    BY DEF D!Await, D!IsActing
  <2>2. \A i \in 1..Len(queue) : queue[i] # t
    BY <2>1 DEF QueueInOrder, D!IsOurs
  <2> QED
    BY <2>1, <2>2 DEF TasksRight, QueueInOrder, D!IsOurs
<1>3. FreeIsApart' /\ OneInCall'
  BY DEF D!Await, D!IsActing, TasksRight, FreeIsApart, OneInCall, D!IsOurs, D!NoCall
<1>4. AwaitedRight'
  BY DEF D!Await, D!IsActing, TasksRight, AwaitedRight, D!IsOurs, D!NoCall
<1>5. \A u, v \in Tasks : Edge(u, v)' => Edge(u, v) \/ (u = t /\ v \in cancelled)
  <2>1. /\ kind[t] = "theirs" \/ (D!IsOurs(t) /\ mark[t] # D!NoCall)
        /\ t \notin cancelled /\ kind[c] = "theirs" /\ maker[c] = t /\ mark[c] = mark[t]
        /\ awaits' = [awaits EXCEPT ![t] = c]
        /\ UNCHANGED <<kind, mark, calls, maker, cancelled, queue, holder>>
    BY DEF D!Await, D!IsActing
  <2>2. \A u, v \in Tasks : Edge(u, v)' => Edge(u, v) \/ (u = t /\ v = c)
    BY <2>1 DEF TasksRight, Edge, IsQueued, MayAwait, D!IsOurs
  <2>3. MayAwait(t, c) \/ c \in cancelled
    BY <2>1 DEF TasksRight, MayAwait, D!IsOurs
  <2> QED
    BY <2>2, <2>3 DEF Edge
<1>6. IsAcyclic(Edges)'
  <2>1. cancelled \in SUBSET Tasks /\ t \notin cancelled
    BY DEF D!Await, D!IsActing, TasksRight
  <2>2. \A u \in cancelled : \A v \in Tasks : Edge(u, v)' => Edge(u, v) /\ v \in cancelled
    BY <1>5, <2>1, CancelledApart
  <2>3. \A u \in Tasks \ cancelled : \A v \in Tasks : Edge(u, v)' => Edge(u, v) \/ v \in cancelled
    BY <1>5
  <2> QED
    BY <2>1, <2>2, <2>3, EdgesInto
<1> QED
  BY <1>1, <1>2, <1>3, <1>4, <1>6

\* A cancellation: what it reaches waits for nobody but such as it reaches, and t for the
\* one it cancelled.
LEMMA CancelsStep ==
    ASSUME WInv, NEW t \in Tasks, NEW c \in Tasks, D!Cancels(t, c),
           t \notin D!Reached(c), t \notin cancelled, awaits[t] = NoOne, ~ IsQueued(t),
           kind[t] # "none", kind[c] \in {"theirs", "start"}, c # holder
    PROVE  WInv'
<1> USE TasksAssumption DEF WInv, InOrder
<1> DEFINE R == D!Reached(c)
<1>1. /\ c \in R /\ R \subseteq Tasks /\ \A u \in R : u = c \/ kind[u] = "theirs"
      /\ t \notin R
  BY ReachedIs
<1>2. /\ cancelled' = cancelled \cup R
      /\ awaits' = [u \in Tasks |-> IF u = t THEN c
                                    ELSE IF u \in R /\ awaits[u] \notin R THEN NoOne ELSE awaits[u]]
      /\ queue' = D!RemoveFirst(queue, c)
      /\ kind' = kind /\ mark' = mark /\ calls' = calls /\ maker' = maker /\ holder' = holder
  BY DEF D!Cancels
<1>3. /\ queue' \in Seq(Tasks)
      /\ \A i, j \in 1..Len(queue') : queue'[i] = queue'[j] => i = j
      /\ \A u : IsQueued(u)' <=> u # c /\ IsQueued(u)
  <2>1. queue \in Seq(Tasks) /\ \A i, j \in 1..Len(queue) : queue[i] = queue[j] => i = j
    BY DEF QueueInOrder
  <2> DEFINE r == D!RemoveFirst(queue, c)
  <2>2. /\ r \in Seq(Tasks)
        /\ \A i, j \in 1..Len(r) : r[i] = r[j] => i = j
        /\ \A u : (\E i \in 1..Len(r) : r[i] = u) <=> u # c /\ \E i \in 1..Len(queue) : queue[i] = u
    BY <2>1, LeftQueue
  <2>3. queue' = r
    BY <1>2
  <2> HIDE DEF r
  <2> QED
    BY <2>2, <2>3 DEF IsQueued
<1> HIDE DEF R
<1>4. TasksRight'
  BY <1>1, <1>2 DEF TasksRight, D!IsOurs, D!NoCall
<1>5. QueueInOrder'
  <2>1. ASSUME NEW i \in 1..Len(queue')
        PROVE  queue'[i] # c /\ queue'[i] # t /\ \E j \in 1..Len(queue) : queue[j] = queue'[i]
    BY <1>3 DEF IsQueued
  <2>2. ASSUME NEW i \in 1..Len(queue')
        PROVE  (/\ D!IsOurs(queue[i]) /\ queue[i] # holder /\ queue[i] \notin cancelled
                /\ awaits[queue[i]] = NoOne /\ mark[queue[i]] = D!NoCall)'
    BY <1>1, <1>2, <1>3, <2>1 DEF QueueInOrder, TasksRight, D!IsOurs, D!NoCall
  <2> QED
    BY <1>3, <2>2 DEF QueueInOrder
<1>6. FreeIsApart' /\ OneInCall'
  <2>1. ASSUME NEW u \in Tasks, kind[u] = "none"
        PROVE  awaits'[u] = NoOne /\ \A v \in Tasks : awaits'[v] # u
    BY <1>1, <1>2, <2>1 DEF TasksRight, FreeIsApart
  <2>2. FreeIsApart'
    BY <1>2, <2>1 DEF FreeIsApart, D!NoCall
  <2>3. OneInCall'
    BY <1>2 DEF OneInCall, D!IsOurs, D!NoCall
  <2> QED
    BY <2>2, <2>3
<1>7. AwaitedRight'
  <2> SUFFICES ASSUME NEW u \in Tasks, awaits'[u] # NoOne
               PROVE  LET v == awaits'[u]
                      IN /\ u \in cancelled' => v \in cancelled'
                         /\ \/ v \in cancelled'
                            \/ kind[v] = "theirs" /\ mark[v] = mark[u] /\ (D!IsOurs(u) => mark[u] # D!NoCall)
                            \/ kind[v] \in {"change", "refresh"} /\ kind[u] = "theirs" /\ mark[u] \notin calls
    BY <1>2 DEF AwaitedRight, D!IsOurs
  <2>1. CASE u = t
    BY <1>1, <1>2, <2>1
  <2>2. CASE u # t
    BY <1>1, <1>2, <2>2 DEF AwaitedRight, TasksRight
  <2> QED
    BY <2>1, <2>2
<1>8. IsAcyclic(Edges)'
  <2>1. R \in SUBSET Tasks
    BY <1>1
  <2>2. ASSUME NEW u \in R, NEW v \in Tasks, Edge(u, v)' PROVE Edge(u, v) /\ v \in R
    <3>1. ~ IsQueued(u)'
      <4>1. u = c \/ ~ D!IsOurs(u)
        BY <1>1 DEF D!IsOurs
      <4>2. u = c \/ ~ IsQueued(u)
        BY <4>1 DEF QueueInOrder, IsQueued
      <4> QED
        BY <1>3, <4>2
    <3>2. ~ MayAwait(u, v)'
      BY <1>2 DEF MayAwait
    <3>3. v = awaits'[u]
      BY <2>2, <3>1, <3>2 DEF Edge
    <3>4. v \in R /\ v = awaits[u]
      BY <1>1, <1>2, <3>3 DEF TasksRight
    <3> QED
      BY <3>4 DEF Edge
  <2>3. \A u \in Tasks \ R : \A v \in Tasks : Edge(u, v)' => Edge(u, v) \/ v \in R
    BY <1>1, <1>2, <1>3 DEF TasksRight, Edge, MayAwait, D!IsOurs
  <2> QED
    BY <2>1, <2>2, <2>3, EdgesInto
<1> QED
  BY <1>4, <1>5, <1>6, <1>7, <1>8

\* A peripheral's code cancels what does not wait for it.
LEMMA CancelAwaitStep == ASSUME WInv, NEW t \in Tasks, NEW c \in Tasks, D!CancelAwait(t, c) PROVE WInv'
<1>1. /\ t \notin cancelled /\ awaits[t] = NoOne /\ kind[t] # "none" /\ kind[c] \in {"theirs", "start"}
           /\ c # holder
      /\ ~ IsQueued(t) /\ t \notin D!Reached(c) /\ D!Cancels(t, c)
  BY TasksAssumption DEF D!CancelAwait, D!IsActing, WInv, InOrder, TasksRight, QueueInOrder, IsQueued,
      D!IsOurs
<1> QED
  BY <1>1, CancelsStep

\* The runtime cancels a start and waits for it.
LEMMA StopStartStep == ASSUME WInv, NEW t \in Tasks, NEW s \in Tasks, D!StopStart(t, s) PROVE WInv'
<1>1. t \notin D!Reached(s)
  BY TasksAssumption, ReachedIs DEF D!StopStart, D!IsActingLocked, WInv, InOrder, TasksRight, D!IsOurs
<1>2. /\ t \notin cancelled /\ awaits[t] = NoOne /\ kind[t] # "none" /\ kind[s] \in {"theirs", "start"}
           /\ s # holder
      /\ ~ IsQueued(t) /\ D!Cancels(t, s)
  BY TasksAssumption DEF D!StopStart, D!IsActingLocked, WInv, InOrder, TasksRight, QueueInOrder, IsQueued,
      D!IsOurs
<1> QED
  BY <1>1, <1>2, CancelsStep

\* Somebody ends that waits for nobody, and whom the lock is not waiting for.
LEMMA OverStep ==
    ASSUME WInv, NEW t \in Tasks, D!Over(t), awaits[t] = NoOne, ~ IsQueued(t), queue' = queue,
           holder' = IF holder = t THEN NoOne ELSE holder
    PROVE  WInv'
<1> USE TasksAssumption DEF WInv, InOrder
<1>1. TasksRight'
  <2>1. /\ kind' \in [Tasks -> {"none", "theirs", "change", "refresh", "start"}]
        /\ mark' \in [Tasks -> Marks \cup {D!NoCall}]
        /\ maker' \in [Tasks -> Tasks \cup {NoOne}]
        /\ awaits' \in [Tasks -> Tasks \cup {NoOne}]
        /\ cancelled' \subseteq Tasks
    BY DEF D!Over, TasksRight, D!NoCall
  <2>2. \A u \in cancelled' : kind'[u] \in {"theirs", "start"}
    BY DEF D!Over, TasksRight
  <2>3. /\ holder' \in Tasks \cup {NoOne}
        /\ holder' # NoOne => D!IsOurs(holder)' /\ holder' \notin cancelled'
    BY DEF D!Over, TasksRight, D!IsOurs
  <2>4. /\ calls' \subseteq Marks
        /\ \A u \in Tasks : D!IsOurs(u)' /\ mark'[u] # D!NoCall => mark'[u] \in calls'
    BY DEF D!Over, TasksRight, D!IsOurs, D!NoCall, OneInCall
  <2>5. \A m \in calls' : \E u \in Tasks : D!IsOurs(u)' /\ mark'[u] = m
    BY DEF D!Over, TasksRight, D!IsOurs, D!NoCall
  <2> QED
    BY <2>1, <2>2, <2>3, <2>4, <2>5 DEF TasksRight
<1>2. QueueInOrder'
  BY DEF D!Over, TasksRight, QueueInOrder, IsQueued, D!IsOurs, D!NoCall
<1>3. FreeIsApart'
  BY DEF D!Over, TasksRight, FreeIsApart, D!IsOurs, D!NoCall
<1>4. OneInCall'
  BY DEF D!Over, TasksRight, OneInCall, D!IsOurs, D!NoCall
<1>5. AwaitedRight'
  BY DEF D!Over, TasksRight, AwaitedRight, D!IsOurs, D!NoCall
<1>6. \A u, c \in Tasks : Edge(u, c)' => Edge(u, c)
  BY DEF D!Over, TasksRight, FreeIsApart, Edge, IsQueued, MayAwait, D!IsOurs, D!NoCall
<1>7. IsAcyclic(Edges)'
  BY <1>6, FewerEdges
<1> QED
  BY <1>1, <1>2, <1>3, <1>4, <1>5, <1>7

\* One of theirs ends, or a start that was cancelled.
LEMMA EndStep == ASSUME WInv, NEW t \in Tasks, D!End(t) PROVE WInv'
<1>1. ~ IsQueued(t) /\ holder # t
  BY TasksAssumption DEF D!End, WInv, InOrder, TasksRight, QueueInOrder, IsQueued, D!IsOurs
<1> QED
  BY <1>1, OverStep DEF D!End

\* The lock goes to the first in its queue, who waits for nobody.
LEMMA AcquireStep == ASSUME WInv, D!Acquire PROVE WInv'
<1> USE TasksAssumption DEF WInv, InOrder
<1>1. /\ queue \in Seq(Tasks) /\ 1 \in 1..Len(queue) /\ holder' = queue[1] /\ queue[1] \in Tasks
      /\ queue' \in Seq(Tasks) /\ Len(queue') = Len(queue) - 1
      /\ \A i \in 1..Len(queue') : queue'[i] = queue[i + 1] /\ i + 1 \in 1..Len(queue)
  BY DEF D!Acquire, QueueInOrder
<1>2. PICK h \in Tasks : h = queue[1]
  BY <1>1
<1>3. /\ D!IsOurs(h) /\ h \notin cancelled /\ awaits[h] = NoOne /\ mark[h] = D!NoCall
      /\ holder = NoOne /\ holder' = h
  BY <1>1, <1>2 DEF D!Acquire, QueueInOrder
<1>4. TasksRight'
  BY <1>3 DEF D!Acquire, TasksRight, D!IsOurs
<1>5. \A i \in 1..Len(queue') : queue'[i] # h
  BY <1>1, <1>2 DEF QueueInOrder
<1>6. QueueInOrder'
  BY <1>1, <1>3, <1>5 DEF D!Acquire, QueueInOrder, D!IsOurs
<1>7. FreeIsApart' /\ OneInCall' /\ AwaitedRight'
  BY <1>3 DEF D!Acquire, TasksRight, FreeIsApart, OneInCall, AwaitedRight, D!IsOurs
<1>8. /\ \A c \in Tasks : ~ Edge(h, c)'
      /\ \A u, c \in Tasks : Edge(u, c)' => Edge(u, c) \/ c = h
  BY <1>3, <1>5 DEF D!Acquire, Edge, IsQueued, MayAwait, D!IsOurs
<1>9. IsAcyclic(Edges)'
  <2>1. /\ {h} \in SUBSET Tasks
        /\ \A u \in {h} : \A c \in Tasks : Edge(u, c)' => Edge(u, c) /\ c \in {h}
        /\ \A u \in Tasks \ {h} : \A c \in Tasks : Edge(u, c)' => Edge(u, c) \/ c \in {h}
    BY <1>8
  <2> QED
    BY <2>1, EdgesInto
<1> QED
  BY <1>4, <1>6, <1>7, <1>9

\* A mark of a new call is nobody's yet.
LEMMA NewMarkIsNew ==
    ASSUME D!HasNewMark
    PROVE  /\ D!NewMark \in Marks /\ D!NewMark \notin calls /\ D!NewMark # D!NoCall
           /\ \A t \in Tasks : mark[t] # D!NewMark
  BY TasksAssumption DEF D!HasNewMark, D!NewMark

\* The holder of the lock begins a call, with a mark nobody has.
LEMMA BeginCallStep == ASSUME WInv, NEW t \in Tasks, D!BeginCall(t) PROVE WInv'
<1> USE TasksAssumption DEF WInv, InOrder
<1> DEFINE m == D!NewMark
<1>1. m \in Marks /\ m \notin calls /\ m # D!NoCall /\ \A u \in Tasks : mark[u] # m
  BY NewMarkIsNew DEF D!BeginCall
<1>2. /\ holder = t /\ mark[t] = D!NoCall /\ awaits[t] = NoOne /\ D!IsOurs(t) /\ ~ IsQueued(t)
      /\ mark' = [mark EXCEPT ![t] = m] /\ calls' = calls \cup {m}
      /\ kind' = kind /\ maker' = maker /\ awaits' = awaits /\ cancelled' = cancelled
      /\ queue' = queue /\ holder' = holder
  BY DEF D!BeginCall, D!IsActingLocked, TasksRight, QueueInOrder, IsQueued
<1> HIDE DEF m
<1>3. TasksRight'
  BY <1>1, <1>2 DEF TasksRight, D!IsOurs
<1>4. QueueInOrder'
  BY <1>1, <1>2 DEF TasksRight, QueueInOrder, D!IsOurs
<1>5. FreeIsApart' /\ OneInCall'
  BY <1>1, <1>2 DEF TasksRight, FreeIsApart, OneInCall, D!IsOurs
<1>6. AwaitedRight'
  BY <1>1, <1>2 DEF TasksRight, AwaitedRight, D!IsOurs
<1>7. \A u, c \in Tasks : Edge(u, c)' => Edge(u, c)
  BY <1>1, <1>2 DEF TasksRight, Edge, IsQueued, MayAwait, D!IsOurs
<1>8. IsAcyclic(Edges)'
  BY <1>7, FewerEdges
<1> QED
  BY <1>3, <1>4, <1>5, <1>6, <1>8

\* It starts one, in a call with a mark nobody has.
LEMMA StartStep == ASSUME WInv, NEW t \in Tasks, NEW new \in Tasks, D!Start(t, new) PROVE WInv'
<1> USE TasksAssumption DEF WInv, InOrder
<1> DEFINE m == D!NewMark
<1>1. m \in Marks /\ m \notin calls /\ m # D!NoCall /\ \A u \in Tasks : mark[u] # m
  BY NewMarkIsNew DEF D!Start
<1>2. /\ kind[new] = "none" /\ holder # new /\ ~ IsQueued(new)
      /\ kind' = [kind EXCEPT ![new] = "start"]
      /\ mark' = [mark EXCEPT ![new] = m] /\ calls' = calls \cup {m}
      /\ maker' = maker /\ awaits' = awaits /\ cancelled' = cancelled
      /\ queue' = queue /\ holder' = holder
  BY DEF D!Start, D!IsFree, TasksRight, QueueInOrder, IsQueued, D!IsOurs
<1> HIDE DEF m
<1>3. TasksRight'
  BY <1>1, <1>2 DEF TasksRight, D!IsOurs
<1>4. QueueInOrder'
  BY <1>1, <1>2 DEF TasksRight, QueueInOrder, IsQueued, D!IsOurs
<1>5. FreeIsApart' /\ OneInCall'
  BY <1>1, <1>2 DEF TasksRight, FreeIsApart, OneInCall, D!IsOurs
<1>6. AwaitedRight'
  BY <1>1, <1>2 DEF TasksRight, FreeIsApart, AwaitedRight, D!IsOurs
<1>7. \A u, c \in Tasks : Edge(u, c)' => Edge(u, c)
  BY <1>1, <1>2 DEF TasksRight, FreeIsApart, Edge, IsQueued, MayAwait, D!IsOurs
<1>8. IsAcyclic(Edges)'
  BY <1>7, FewerEdges
<1> QED
  BY <1>3, <1>4, <1>5, <1>6, <1>8

\* Who joins the queue last.
LEMMA JoinQueue ==
    ASSUME NEW q \in Seq(Tasks), NEW r, NEW t \in Tasks, r = Append(q, t)
    PROVE  /\ r \in Seq(Tasks) /\ Len(r) = Len(q) + 1 /\ r[Len(r)] = t
           /\ \A i \in 1..Len(q) : i \in 1..Len(r) /\ r[i] = q[i]
           /\ \A i \in 1..Len(r) : i = Len(r) \/ (i \in 1..Len(q) /\ r[i] = q[i])
           /\ \A u : (\E i \in 1..Len(r) : r[i] = u) <=> u = t \/ \E i \in 1..Len(q) : q[i] = u
<1>1. /\ r \in Seq(Tasks) /\ Len(r) = Len(q) + 1 /\ r[Len(r)] = t
      /\ \A i \in 1..Len(q) : i \in 1..Len(r) /\ r[i] = q[i]
      /\ \A i \in 1..Len(r) : i = Len(r) \/ (i \in 1..Len(q) /\ r[i] = q[i])
  OBVIOUS
<1>2. Len(r) \in 1..Len(r)
  BY <1>1
<1> QED
  BY <1>1, <1>2

\* A call of the runtime gets a task in the queue, awaited unless the lock waits on its caller.
LEMMA InOwnTaskStep ==
    ASSUME WInv, NEW t \in Tasks, NEW new \in Tasks, NEW what \in {"change", "refresh"},
        D!InOwnTask(t, new, what)
    PROVE  WInv'
<1> USE TasksAssumption DEF WInv, InOrder
<1>1. /\ kind[new] = "none" /\ holder # new /\ ~ IsQueued(new) /\ new # t
      /\ kind' = [kind EXCEPT ![new] = what] /\ queue' = Append(queue, new)
      /\ awaits' = IF D!IsDriving(t) THEN awaits ELSE [awaits EXCEPT ![t] = new]
      /\ mark' = mark /\ calls' = calls /\ maker' = maker /\ cancelled' = cancelled /\ holder' = holder
      /\ awaits[t] = NoOne /\ t \notin cancelled /\ ~ IsQueued(t)
      /\ kind[t] = "theirs" \/ (D!IsOurs(t) /\ mark[t] # D!NoCall)
      /\ new \notin cancelled /\ awaits[new] = NoOne /\ mark[new] = D!NoCall /\ maker[new] = NoOne
  <2>1. /\ kind[new] = "none" /\ D!IsActing(t)
        /\ kind' = [kind EXCEPT ![new] = what] /\ queue' = Append(queue, new)
        /\ awaits' = IF D!IsDriving(t) THEN awaits ELSE [awaits EXCEPT ![t] = new]
        /\ mark' = mark /\ calls' = calls /\ maker' = maker /\ cancelled' = cancelled /\ holder' = holder
    BY DEF D!InOwnTask, D!IsFree
  <2>2. /\ awaits[t] = NoOne /\ t \notin cancelled
        /\ kind[t] = "theirs" \/ (D!IsOurs(t) /\ mark[t] # D!NoCall)
    BY <2>1 DEF D!IsActing
  <2>3. new # t
    BY <2>1, <2>2 DEF D!IsOurs
  <2>4. /\ holder # new /\ new \notin cancelled
        /\ awaits[new] = NoOne /\ mark[new] = D!NoCall /\ maker[new] = NoOne
    BY <2>1 DEF TasksRight, FreeIsApart, D!IsOurs
  <2>5. ~ IsQueued(new) /\ ~ IsQueued(t)
    BY <2>1, <2>2 DEF QueueInOrder, IsQueued, D!IsOurs
  <2> QED
    BY <2>1, <2>2, <2>3, <2>4, <2>5
<1>2. /\ queue' \in Seq(Tasks) /\ Len(queue') = Len(queue) + 1 /\ queue'[Len(queue')] = new
      /\ \A i \in 1..Len(queue') : i = Len(queue') \/ (i \in 1..Len(queue) /\ queue'[i] = queue[i])
      /\ \A u : IsQueued(u)' <=> u = new \/ IsQueued(u)
  BY <1>1, JoinQueue DEF QueueInOrder, IsQueued
<1>3. TasksRight'
  BY <1>1 DEF TasksRight, D!IsOurs
<1>4. QueueInOrder'
  <2>1. \A i, j \in 1..Len(queue') : queue'[i] = queue'[j] => i = j
    BY <1>1, <1>2 DEF QueueInOrder, IsQueued
  <2>2. ASSUME NEW i \in 1..Len(queue')
        PROVE  (/\ D!IsOurs(queue[i]) /\ queue[i] # holder /\ queue[i] \notin cancelled
                /\ awaits[queue[i]] = NoOne /\ mark[queue[i]] = D!NoCall)'
    <3>1. CASE i = Len(queue')
      BY <1>1, <1>2, <3>1 DEF TasksRight, D!IsOurs
    <3>2. CASE i # Len(queue')
      BY <1>1, <1>2, <3>2 DEF TasksRight, QueueInOrder, IsQueued, D!IsOurs
    <3> QED
      BY <3>1, <3>2
  <2> QED
    BY <1>2, <2>1, <2>2 DEF QueueInOrder
<1>5. FreeIsApart' /\ OneInCall'
  BY <1>1 DEF TasksRight, FreeIsApart, OneInCall, D!IsOurs
<1>6. D!IsDriving(t) \/ (kind[t] = "theirs" /\ mark[t] \notin calls /\ holder # t)
  BY <1>1 DEF D!IsDriving, TasksRight
<1>7. AwaitedRight'
  BY <1>1, <1>6 DEF TasksRight, FreeIsApart, AwaitedRight, D!IsOurs
<1>8. IsAcyclic(Edges)'
  <2> DEFINE E == Edges
             G == [u \in Tasks |-> IF u = new THEN {holder} ELSE Edges[u]]
             F == Edges'
  <2>1. /\ \A u, c \in Tasks : Edge(u, c)' =>
                \/ Edge(u, c) /\ u # new /\ c # new
                \/ u = new /\ c = holder
                \/ u = t /\ c = new /\ ~ D!IsDriving(t)
        /\ \A u \in Tasks : ~ Edge(u, new)
    BY <1>1, <1>2 DEF TasksRight, FreeIsApart, Edge, IsQueued, MayAwait, D!IsOurs
  <2>2. /\ IsAcyclic(E) /\ \A u \in Tasks : new \notin G[u]
        /\ \A u \in Tasks \ {new} : G[u] \subseteq E[u]
    BY <1>1, <2>1 DEF Edges
  <2>3. IsAcyclic(G)
    <3> HIDE DEF E, G
    <3> QED
      BY <2>2, SourceIsAcyclic
  <2>4. CASE D!IsDriving(t)
    <3>1. \A u \in Tasks : F[u] \subseteq G[u]
      BY <2>1, <2>4 DEF Edges
    <3>2. IsAcyclic(F)
      <4> HIDE DEF E, F, G
      <4> QED
        BY <2>3, <3>1, FewerIsAcyclic
    <3> QED
      BY <3>2 DEF IsAcyclic
  <2>5. CASE ~ D!IsDriving(t)
    <3> DEFINE R == {u \in Tasks : u = holder \/ mark[u] \in calls \/ u \in cancelled} \cup {new}
    <3>1. t \notin R
      BY <1>1, <2>5 DEF D!IsDriving
    <3>2. ASSUME NEW u \in Tasks, u \in R, u # new, NEW c \in Tasks, Edge(u, c)
          PROVE  c \in R
      <4>1. CASE u \in cancelled
        BY <3>2, <4>1, CancelledApart
      <4>2. CASE u = holder /\ u \notin cancelled
        BY <3>2, <4>2 DEF TasksRight, QueueInOrder, AwaitedRight, Edge, IsQueued, MayAwait, D!IsOurs
      <4>3. CASE mark[u] \in calls /\ u # holder /\ u \notin cancelled
        BY <3>2, <4>3 DEF TasksRight, QueueInOrder, AwaitedRight, Edge, IsQueued, MayAwait, D!IsOurs
      <4> QED
        BY <3>2, <4>1, <4>2, <4>3
    <3>3. /\ R \in SUBSET Tasks
          /\ \A u \in R : F[u] \subseteq G[u] /\ F[u] \subseteq R
          /\ \A u \in Tasks \ R : F[u] \subseteq G[u] \cup R
      <4>1. R \in SUBSET Tasks
        BY <1>1
      <4>2. ASSUME NEW u \in R, NEW c \in Tasks, Edge(u, c)' PROVE c \in G[u] /\ c \in R
        <5>1. CASE u = new
          BY <2>1, <4>1, <4>2, <5>1, <3>1
        <5>2. CASE u # new
          <6>1. Edge(u, c)
            BY <2>1, <3>1, <4>1, <4>2, <5>2
          <6> QED
            BY <3>2, <4>1, <4>2, <5>2, <6>1 DEF Edges
        <5> QED
          BY <5>1, <5>2
      <4>3. ASSUME NEW u \in Tasks \ R, NEW c \in Tasks, Edge(u, c)' PROVE c \in G[u] \/ c \in R
        BY <2>1, <4>3 DEF Edges
      <4> QED
        BY <4>1, <4>2, <4>3 DEF Edges
    <3>4. IsAcyclic(F)
      <4> HIDE DEF E, F, G, R
      <4> QED
        BY <2>3, <3>3, StaysAcyclic
    <3> QED
      BY <3>4 DEF IsAcyclic
  <2> QED
    BY <2>4, <2>5
<1> QED
  BY <1>3, <1>4, <1>5, <1>7, <1>8

\* A call returns: the holder goes on, a start asks for the lock.
LEMMA EndCallStep == ASSUME WInv, NEW t \in Tasks, D!EndCall(t) PROVE WInv'
<1> USE TasksAssumption DEF WInv, InOrder
<1>1. /\ D!IsOurs(t) /\ mark[t] # D!NoCall /\ awaits[t] = NoOne /\ t \notin cancelled /\ ~ IsQueued(t)
      /\ calls' = calls \ {mark[t]} /\ mark' = [mark EXCEPT ![t] = D!NoCall]
      /\ queue' = IF holder = t THEN queue ELSE Append(queue, t)
      /\ kind' = kind /\ maker' = maker /\ awaits' = awaits /\ cancelled' = cancelled /\ holder' = holder
  BY DEF D!EndCall, D!IsActing, D!IsOurs, QueueInOrder, IsQueued
<1>2. /\ queue' \in Seq(Tasks)
      /\ \A i, j \in 1..Len(queue') : queue'[i] = queue'[j] => i = j
      /\ \A u : IsQueued(u)' <=> (u = t /\ holder # t) \/ IsQueued(u)
  <2>1. CASE holder = t
    BY <1>1, <2>1 DEF QueueInOrder, IsQueued
  <2>2. CASE holder # t
    <3>1. /\ queue' \in Seq(Tasks) /\ Len(queue') = Len(queue) + 1 /\ queue'[Len(queue')] = t
          /\ \A i \in 1..Len(queue') : i = Len(queue') \/ (i \in 1..Len(queue) /\ queue'[i] = queue[i])
          /\ \A u : IsQueued(u)' <=> u = t \/ IsQueued(u)
      BY <1>1, <2>2, JoinQueue DEF QueueInOrder, IsQueued
    <3> QED
      BY <1>1, <2>2, <3>1 DEF QueueInOrder, IsQueued
  <2> QED
    BY <2>1, <2>2
<1>3. TasksRight'
  <2>1. \A u \in Tasks : D!IsOurs(u) /\ mark'[u] # D!NoCall => mark'[u] \in calls'
    BY <1>1 DEF TasksRight, OneInCall
  <2>2. \A m \in calls' : \E u \in Tasks : D!IsOurs(u) /\ mark'[u] = m
    BY <1>1 DEF TasksRight
  <2> QED
    BY <1>1, <2>1, <2>2 DEF TasksRight, D!IsOurs, D!NoCall
<1>4. QueueInOrder'
  <2>1. ASSUME NEW i \in 1..Len(queue')
        PROVE  (/\ D!IsOurs(queue[i]) /\ queue[i] # holder /\ queue[i] \notin cancelled
                /\ awaits[queue[i]] = NoOne /\ mark[queue[i]] = D!NoCall)'
    <3>1. PICK u \in Tasks : u = queue'[i]
      BY <1>2
    <3>2. IsQueued(u)'
      BY <3>1 DEF IsQueued
    <3>3. (u = t /\ holder # t) \/ IsQueued(u)
      BY <1>2, <3>2
    <3> QED
      BY <1>1, <3>1, <3>3 DEF TasksRight, QueueInOrder, IsQueued, D!IsOurs, D!NoCall
  <2> QED
    BY <1>2, <2>1 DEF QueueInOrder
<1>5. FreeIsApart' /\ OneInCall'
  BY <1>1 DEF TasksRight, FreeIsApart, OneInCall, D!IsOurs, D!NoCall
<1>6. AwaitedRight'
  BY <1>1 DEF TasksRight, AwaitedRight, D!IsOurs, D!NoCall
<1>7. IsAcyclic(Edges)'
  <2>1. CASE holder = t
    <3>1. \A u, c \in Tasks : Edge(u, c)' => Edge(u, c)
      BY <1>1, <1>2, <2>1 DEF TasksRight, Edge, MayAwait, D!IsOurs
    <3> QED
      BY <3>1, FewerEdges
  <2>2. CASE holder # t
    <3>1. \A u \in Tasks : awaits[u] # t
      BY <1>1, <2>2 DEF TasksRight, OneInCall, AwaitedRight, D!IsOurs
    <3>2. \A u, c \in Tasks : Edge(u, c)' => c # t /\ (u = t \/ Edge(u, c))
      BY <1>1, <1>2, <2>2, <3>1 DEF TasksRight, Edge, MayAwait, D!IsOurs
    <3> QED
      BY <3>2, EdgesOf
  <2> QED
    BY <2>1, <2>2
<1> QED
  BY <1>3, <1>4, <1>5, <1>6, <1>7

\* The lock is let go of, and nobody waits for its holder any more.
LEMMA ReleaseStep == ASSUME WInv, NEW t \in Tasks, D!Release(t) PROVE WInv'
<1> USE TasksAssumption DEF WInv, InOrder
<1>1. /\ holder = t /\ mark[t] = D!NoCall /\ awaits[t] = NoOne /\ holder' = NoOne
      /\ D!IsOurs(t) /\ t \notin cancelled /\ ~ IsQueued(t)
  BY DEF D!Release, D!IsActingLocked, TasksRight, QueueInOrder, IsQueued
<1>2. CASE kind[t] = "refresh"
  BY <1>1, <1>2, OverStep DEF D!Release
<1>3. CASE kind[t] # "refresh"
  <2>1. /\ kind' = [kind EXCEPT ![t] = "refresh"] /\ queue' = Append(queue, t)
        /\ mark' = mark /\ calls' = calls /\ maker' = maker /\ awaits' = awaits /\ cancelled' = cancelled
    BY <1>3 DEF D!Release
  <2>2. /\ queue' \in Seq(Tasks) /\ Len(queue') = Len(queue) + 1 /\ queue'[Len(queue')] = t
        /\ \A i \in 1..Len(queue') : i = Len(queue') \/ (i \in 1..Len(queue) /\ queue'[i] = queue[i])
    BY <2>1, JoinQueue DEF QueueInOrder
  <2>3. TasksRight'
    BY <1>1, <2>1 DEF TasksRight, D!IsOurs
  <2>4. QueueInOrder'
    <3>1. \A i, j \in 1..Len(queue') : queue'[i] = queue'[j] => i = j
      BY <1>1, <2>2 DEF QueueInOrder, IsQueued
    <3>2. ASSUME NEW i \in 1..Len(queue')
          PROVE  (/\ D!IsOurs(queue[i]) /\ queue[i] # holder /\ queue[i] \notin cancelled
                  /\ awaits[queue[i]] = NoOne /\ mark[queue[i]] = D!NoCall)'
      <4>1. CASE i = Len(queue')
        BY <1>1, <2>1, <2>2, <4>1 DEF TasksRight, D!IsOurs
      <4>2. CASE i # Len(queue')
        BY <1>1, <2>1, <2>2, <4>2 DEF TasksRight, QueueInOrder, IsQueued, D!IsOurs
      <4> QED
        BY <4>1, <4>2
    <3> QED
      BY <2>2, <3>1, <3>2 DEF QueueInOrder
  <2>5. FreeIsApart' /\ OneInCall'
    BY <1>1, <2>1 DEF TasksRight, FreeIsApart, OneInCall, D!IsOurs
  <2>6. AwaitedRight'
    BY <1>1, <1>3, <2>1 DEF TasksRight, AwaitedRight, D!IsOurs
  <2>7. \A u, c \in Tasks : Edge(u, c)' => Edge(u, c)
    BY <1>1, <2>1 DEF TasksRight, Edge, MayAwait, D!IsOurs
  <2>8. IsAcyclic(Edges)'
    BY <2>7, FewerEdges
  <2> QED
    BY <2>3, <2>4, <2>5, <2>6, <2>8
<1> QED
  BY <1>2, <1>3

\* Each step of Driving, and each in which it rests, keeps things in order.
LEMMA TasksStep == WInv /\ [D!Next]_tasksVars => WInv'
<1> SUFFICES ASSUME WInv, [D!Next]_tasksVars PROVE WInv'
  OBVIOUS
<1>1. ASSUME NEW t \in Tasks, D!Come(t) \/ D!End(t) \/ D!BeginCall(t) \/ D!EndCall(t) \/ D!Release(t)
      PROVE  WInv'
  BY <1>1, ComeStep, EndStep, BeginCallStep, EndCallStep, ReleaseStep
<1>2. ASSUME NEW t \in Tasks, NEW u \in Tasks,
             \/ D!Make(t, u) \/ D!Await(t, u) \/ D!CancelAwait(t, u)
             \/ D!Start(t, u) \/ D!StopStart(t, u)
      PROVE  WInv'
  BY <1>2, MakeStep, AwaitStep, CancelAwaitStep, StartStep, StopStartStep
<1>3. ASSUME NEW t \in Tasks, NEW u \in Tasks, NEW what \in {"change", "refresh"}, D!InOwnTask(t, u, what)
      PROVE  WInv'
  BY <1>3, InOwnTaskStep
<1>4. CASE UNCHANGED tasksVars
  <2>1. InOrder'
    BY <1>4 DEF WInv, InOrder, TasksRight, QueueInOrder, FreeIsApart, OneInCall, AwaitedRight, tasksVars,
        D!IsOurs
  <2>2. \A u, c \in Tasks : Edge(u, c)' => Edge(u, c)
    BY <1>4 DEF Edge, IsQueued, MayAwait, tasksVars, D!IsOurs
  <2>3. IsAcyclic(Edges)'
    BY <2>2, FewerEdges DEF WInv
  <2> QED
    BY <2>1, <2>3 DEF WInv
<1> QED
  BY <1>1, <1>2, <1>3, <1>4, AcquireStep DEF D!Next

\* As long as things are in order all keep their types, and nobody waits for itself.
LEMMA OrderGives == WInv => D!TypeOK /\ NoneWaitsForItself
<1> SUFFICES ASSUME WInv PROVE D!TypeOK /\ NoneWaitsForItself
  OBVIOUS
<1> USE TasksAssumption DEF WInv, InOrder
<1>1. D!ToSet(queue) \subseteq {t \in Tasks : D!IsOurs(t)}
  BY DEF QueueInOrder, D!ToSet
<1>2. calls = {mark[t] : t \in {u \in Tasks : D!IsOurs(u)}} \ {D!NoCall}
  <2>1. ASSUME NEW m \in calls PROVE m # D!NoCall /\ \E t \in {u \in Tasks : D!IsOurs(u)} : m = mark[t]
    BY DEF TasksRight
  <2>2. ASSUME NEW t \in {u \in Tasks : D!IsOurs(u)}, mark[t] # D!NoCall PROVE mark[t] \in calls
    BY <2>2 DEF TasksRight
  <2> QED
    BY <2>1, <2>2
<1>3. D!TypeOK
  BY <1>1, <1>2 DEF TasksRight, D!TypeOK
<1>4. ASSUME NEW t \in Tasks PROVE D!WaitsFor(t) \subseteq Edges[t]
  <2>1. t \in D!ToSet(queue) => IsQueued(t)
    BY DEF QueueInOrder, D!ToSet, IsQueued
  <2> QED
    BY <2>1 DEF D!WaitsFor, Edges, Edge, TasksRight
<1>5. NoneWaitsForItself
  <2> SUFFICES ASSUME NEW S \in SUBSET Tasks, S # {} PROVE \E t \in S : D!WaitsFor(t) \cap S = {}
    BY DEF NoneWaitsForItself, D!NoneWaitsForItself
  <2>1. PICK t \in S : Edges[t] \cap S = {}
    BY DEF IsAcyclic
  <2> QED
    BY <2>1, <1>4
<1> QED
  BY <1>3, <1>5

\* No task that calls the runtime, no task it awaits, start or stop, and not the holder of
\* the lock ever waits for itself, however many wait for one another on the way, for any
\* number of tasks and calls: `_is_driving` lets every caller through that the lock waits on.
THEOREM NobodyWaitsForItself == WaitsSpec => []NoneWaitsForItself
<1>1. WaitsInit => WInv
  BY WaitsStart DEF WaitsInit
<1>2. WInv /\ [WaitsNext]_<<which, vars, tasksVars>> => WInv'
  <2> SUFFICES ASSUME WInv, [WaitsNext]_<<which, vars, tasksVars>> PROVE WInv'
    OBVIOUS
  <2>1. [D!Next]_tasksVars
    BY DEF WaitsNext
  <2> QED
    BY <2>1, TasksStep
<1> QED
  BY <1>1, <1>2, OrderGives, PTL DEF WaitsSpec

\* Every variable of both keeps its type, for any peripherals, delays, tasks and calls.
THEOREM EveryTypeCorrect == WaitsSpec => []WaitsTypeOK
<1>1. WaitsInit => IInv /\ WInv
  BY InitIInv, WaitsStart DEF WaitsInit
<1>2. IInv /\ WInv /\ [WaitsNext]_<<which, vars, tasksVars>> => IInv' /\ WInv'
  <2> SUFFICES ASSUME IInv, WInv, [WaitsNext]_<<which, vars, tasksVars>> PROVE IInv' /\ WInv'
    OBVIOUS
  <2>1. [D!Next]_tasksVars /\ [Next]_vars
    BY DEF WaitsNext
  <2> QED
    BY <2>1, TasksStep, NextIInv
<1>3. IInv /\ WInv => WaitsTypeOK
  BY Implied, OrderGives DEF WaitsTypeOK
<1> QED
  BY <1>1, <1>2, <1>3, PTL DEF WaitsSpec

\* A behaviour is one of RetryTimer: what is proved of Spec holds in it.
THEOREM RetriesAreAPart == WaitsSpec => Spec
<1>1. WaitsInit => Init
  BY DEF WaitsInit
<1>2. [WaitsNext]_<<which, vars, tasksVars>> => [Next]_vars
  BY DEF WaitsNext
<1> QED
  BY <1>1, <1>2, PTL DEF WaitsSpec, Spec
=============================================================================
