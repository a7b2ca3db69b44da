----------------------------- MODULE RetryTimer -----------------------------
(***************************************************************************)
(* When the runtime tries a failed peripheral again: `_fail`, the retries  *)
(* a pass leaves waiting, `_schedule_retry` and the timer it sets, and the *)
(* failures a stable run forgets (runtime/runtime.py), against a clock.    *)
(* What else a start waits for is module Lifecycle's; there a retry falls  *)
(* due at any moment.                                                      *)
(*                                                                         *)
(* A refresh reads the clock in its pass, for every one that waits, and    *)
(* again as it sets the timer.  Nothing of the loop runs in between, but   *)
(* time passes.                                                            *)
(***************************************************************************)
EXTENDS Naturals, Sequences

CONSTANTS
    Peripherals,
    Delays,         \* RETRY_DELAYS
    StableRun,      \* STABLE_RUN
    MaxTime         \* bound: the clock stops there

ASSUME TimeAssumption ==
    Delays \in Seq(0..MaxTime) /\ StableRun \in Nat /\ MaxTime \in Nat

Never   == MaxTime + 1
NoTimer == 2 * MaxTime + 1

VARIABLES
    now,            \* monotonic()
    state,
    attempts,       \* failures in a row
    retryAt,        \* a waiting one starts no earlier
    since,          \* running_since
    timer,          \* when `_timer` goes off
    asked,          \* whether a refresh waits for its turn
    passed,         \* whether one is between its pass and setting the timer
    failures,       \* ghost: when each failed since it was last stable, or revived
    tries           \* ghost: its starts since then

vars == <<now, state, attempts, retryAt, since, timer, asked, passed, failures, tries>>

Init ==
    /\ now = 0
    /\ state = [p \in Peripherals |-> "waiting"]
    /\ attempts = [p \in Peripherals |-> 0]
    /\ retryAt = [p \in Peripherals |-> 0]
    /\ since = [p \in Peripherals |-> Never]
    /\ timer = NoTimer
    /\ asked = TRUE
    /\ passed = FALSE
    /\ failures = [p \in Peripherals |-> <<>>]
    /\ tries = [p \in Peripherals |-> 0]

Tick ==
    /\ now < MaxTime
    /\ now' = now + 1
    /\ UNCHANGED <<state, attempts, retryAt, since, timer, asked, passed, failures, tries>>

\* A start returns, and its task refreshes.
Serve(p) ==
    /\ ~ passed
    /\ state[p] = "starting"
    /\ state' = [state EXCEPT ![p] = "running"]
    /\ since' = [since EXCEPT ![p] = now]
    /\ asked' = TRUE
    /\ UNCHANGED <<now, attempts, retryAt, timer, passed, failures, tries>>

\* A run long enough for the failures before it to be forgotten.
IsStable(p) == state[p] = "running" /\ now - since[p] >= StableRun

\* Slip: a run forgets the failures before it, however short it was.
FailuresInRowRun(p) == (IF state[p] = "running" THEN 0 ELSE attempts[p]) + 1

\* This failure of p and the ones before it: the stop that comes first forgets them.
FailuresInRow(p) == (IF IsStable(p) THEN 0 ELSE attempts[p]) + 1

\* A start fails, or one that runs: it is stopped, and tried again after a while, or not.
Fail(p) ==
    /\ ~ passed
    /\ state[p] \in {"starting", "running"}
    /\ LET n == FailuresInRow(p)
       IN  IF n > Len(Delays)
           THEN /\ state' = [state EXCEPT ![p] = "failed"]
                /\ attempts' = [attempts EXCEPT ![p] = 0]
                /\ UNCHANGED retryAt
           ELSE /\ state' = [state EXCEPT ![p] = "waiting"]
                /\ attempts' = [attempts EXCEPT ![p] = n]
                /\ retryAt' = [retryAt EXCEPT ![p] = now + Delays[n]]
    /\ since' = [since EXCEPT ![p] = Never]
    /\ asked' = TRUE
    /\ failures' = [failures EXCEPT ![p] =
                        IF IsStable(p) THEN <<now>> ELSE Append(@, now)]
    /\ tries' = [tries EXCEPT ![p] = IF IsStable(p) THEN 1 ELSE @]
    /\ UNCHANGED <<now, timer, passed>>

\* The user restarts one that does not run.
Revive(p) ==
    /\ ~ passed
    /\ state[p] = "failed" \/ (state[p] = "waiting" /\ retryAt[p] > now)
    /\ state' = [state EXCEPT ![p] = "waiting"]
    /\ attempts' = [attempts EXCEPT ![p] = 0]
    /\ retryAt' = [retryAt EXCEPT ![p] = 0]
    /\ asked' = TRUE
    /\ failures' = [failures EXCEPT ![p] = <<>>]
    /\ tries' = [tries EXCEPT ![p] = 0]
    /\ UNCHANGED <<now, since, timer, passed>>

\* Slip: any one that waits.
WaitsAtAll(p) == state[p] = "waiting"

\* It waits, and for no retry.
IsDue(p) == state[p] = "waiting" /\ retryAt[p] <= now

\* A refresh has its turn: what can start is started.
Pass ==
    /\ asked /\ ~ passed
    /\ asked' = FALSE
    /\ passed' = TRUE
    /\ state' = [p \in Peripherals |-> IF IsDue(p) THEN "starting" ELSE state[p]]
    /\ tries' = [p \in Peripherals |-> IF IsDue(p) THEN tries[p] + 1 ELSE tries[p]]
    /\ UNCHANGED <<now, attempts, retryAt, since, timer, failures>>

Retries == {retryAt[p] : p \in {q \in Peripherals : state[q] = "waiting" /\ retryAt[q] > now}}

\* Slip: the last retry to come.
Latest == IF Retries = {} THEN timer ELSE CHOOSE t \in Retries : \A u \in Retries : u <= t

\* The first retry to come; a timer already cancelled or gone off goes off no more.
Earliest == IF Retries = {} THEN NoTimer ELSE CHOOSE t \in Retries : \A u \in Retries : t <= u

\* It ends by setting the timer.
ScheduleRetry ==
    /\ passed
    /\ passed' = FALSE
    /\ timer' = Earliest
    /\ UNCHANGED <<now, state, attempts, retryAt, since, asked, failures, tries>>

\* The timer goes off, at its time or later, and asks for a refresh.
TimerFires ==
    /\ ~ passed
    /\ timer <= now
    /\ timer' = NoTimer
    /\ asked' = TRUE
    /\ UNCHANGED <<now, state, attempts, retryAt, since, passed, failures, tries>>

Next ==
    \/ Tick \/ Pass \/ ScheduleRetry \/ TimerFires
    \/ \E p \in Peripherals : Serve(p) \/ Fail(p) \/ Revive(p)

Spec == Init /\ [][Next]_vars

-----------------------------------------------------------------------------

TypeOK ==
    /\ now \in 0..MaxTime
    /\ state \in [Peripherals -> {"waiting", "starting", "running", "failed"}]
    /\ attempts \in [Peripherals -> 0..Len(Delays)]
    /\ retryAt \in [Peripherals -> 0..(2 * MaxTime)]
    /\ since \in [Peripherals -> 0..Never]
    /\ timer \in 0..NoTimer
    /\ asked \in BOOLEAN /\ passed \in BOOLEAN
    /\ failures \in [Peripherals -> Seq(Nat)]
    /\ tries \in [Peripherals -> 0..(Len(Delays) + 1)]

\* After the n-th failure in a row it starts again no earlier than the n-th delay, whatever
\* refreshes others cause meanwhile and however often the timer is set anew (RETRY_DELAYS:
\* "seconds before each new start").
NoneTooEarly ==
    [][\A p \in Peripherals :
        state[p] = "waiting" /\ state'[p] = "starting" /\ failures[p] # <<>> =>
            now >= failures[p][Len(failures[p])] + Delays[Len(failures[p])]]_vars

\* One is given up on after exactly one start more than there are delays, each of which
\* failed with no stable run in between, and it stays so until the user's say.
GivenUpAfterAll ==
    \A p \in Peripherals :
        state[p] = "failed" <=> Len(failures[p]) = Len(Delays) + 1 /\ tries[p] = Len(failures[p])

\* Whenever nothing is left to do, a timer is set that goes off no later than any retry
\* still to come, whatever else asked for a refresh meanwhile: no waiting one is forgotten
\* when the refresh of another one cancels the timer and sets it anew.
NextRetryIsTimed ==
    ~ asked /\ ~ passed =>
        \A p \in Peripherals : state[p] = "waiting" /\ retryAt[p] > now => timer <= retryAt[p]

\* No retry at all is forgotten, one that fell due meanwhile included ("it is stopped and
\* started again after each of the runtime's retry delays", PeripheralOutput).
NoRetryIsLost ==
    ~ asked /\ ~ passed => \A p \in Peripherals : state[p] = "waiting" => timer <= retryAt[p]
=============================================================================
