------------------------------ MODULE Driving ------------------------------
(***************************************************************************)
(* Who waits for whom: the tasks that call the runtime, the runtime's own  *)
(* tasks, its lock, and the calls to peripherals it waits on               *)
(* (`_in_own_task`, `_is_driving`, `_call`, `_locked`, `_spawn` of         *)
(* runtime/runtime.py).  What the runtime does once it has the lock is     *)
(* module Lifecycle's: here it calls peripherals, starts and stops some,   *)
(* or nothing.  A peripheral's call may make tasks, await them, cancel any *)
(* task but the runtime's, and call the runtime, all as it likes.          *)
(*                                                                         *)
(* Each call has a mark of its own (`_CALL`, a context variable), which    *)
(* the tasks made in it inherit and keep when the call is over.            *)
(***************************************************************************)
EXTENDS Naturals, SequencesExt

CONSTANTS
    Tasks,          \* bound: the tasks there are at once
    Marks,          \* bound: the calls some task was made in, at once; numbers
    NoOne           \* is no task

NoCall == 0

VARIABLES
    kind,           \* "change" (`_act_unlocked`), "refresh" or "start" is the runtime's; "theirs"
    mark,           \* what each reads in _CALL
    calls,          \* `_calls`
    maker,          \* who made each of theirs
    awaits,         \* the task each waits for
    cancelled,      \* theirs, and the starts, that were cancelled
    queue,          \* the tasks waiting for the lock
    holder          \* `_holder`

vars == <<kind, mark, calls, maker, awaits, cancelled, queue, holder>>

Init ==
    /\ kind = [t \in Tasks |-> "none"]
    /\ mark = [t \in Tasks |-> NoCall]
    /\ calls = {}
    /\ maker = [t \in Tasks |-> NoOne]
    /\ awaits = [t \in Tasks |-> NoOne]
    /\ cancelled = {}
    /\ queue = <<>>
    /\ holder = NoOne

IsFree(t)  == kind[t] = "none"
IsOurs(t)  == kind[t] \in {"change", "refresh", "start"}

\* Peripherals' code, or their owner's, runs in t and may go on.
IsActing(t) ==
    /\ kind[t] = "theirs" \/ (IsOurs(t) /\ mark[t] # NoCall)
    /\ awaits[t] = NoOne /\ t \notin cancelled

\* The runtime's own code runs in t, with the lock.
IsActingLocked(t) == holder = t /\ mark[t] = NoCall /\ awaits[t] = NoOne

NewMark == CHOOSE m \in Marks \ (calls \cup {mark[t] : t \in Tasks}) : TRUE
HasNewMark == ~ Marks \subseteq calls \cup {mark[t] : t \in Tasks}

\* t ends: who waits for it goes on, and t is there for another.
Over(t) ==
    /\ kind' = [kind EXCEPT ![t] = "none"]
    /\ mark' = [mark EXCEPT ![t] = NoCall]
    /\ calls' = IF IsOurs(t) THEN calls \ {mark[t]} ELSE calls
    /\ maker' = [u \in Tasks |-> IF u = t \/ maker[u] = t THEN NoOne ELSE maker[u]]
    /\ awaits' = [u \in Tasks |-> IF awaits[u] = t THEN NoOne ELSE awaits[u]]
    /\ cancelled' = cancelled \ {t}

-----------------------------------------------------------------------------
(* Tasks of others, and what a peripheral's call does. *)

\* The owner's, also made as it is told how the peripherals are, or a library's callback's.
Come(new) ==
    /\ IsFree(new)
    /\ kind' = [kind EXCEPT ![new] = "theirs"]
    /\ UNCHANGED <<mark, calls, maker, awaits, cancelled, queue, holder>>

Make(t, new) ==
    /\ IsActing(t) /\ IsFree(new)
    /\ kind' = [kind EXCEPT ![new] = "theirs"]
    /\ mark' = [mark EXCEPT ![new] = mark[t]]
    /\ maker' = [maker EXCEPT ![new] = t]
    /\ UNCHANGED <<calls, awaits, cancelled, queue, holder>>

\* It awaits a task it made in the same call, as a TaskGroup does.
Await(t, c) ==
    /\ IsActing(t)
    /\ kind[c] = "theirs" /\ maker[c] = t /\ mark[c] = mark[t]
    /\ awaits' = [awaits EXCEPT ![t] = c]
    /\ UNCHANGED <<kind, mark, calls, maker, cancelled, queue, holder>>

\* t and who t waits for, when that is theirs: a cancellation goes that far.  A call to the
\* runtime is shielded from it.
Reached(t) ==
    LET on == {c \in Tasks : kind[c] = "theirs"}
        closed == {R \in SUBSET Tasks : t \in R /\ {awaits[c] : c \in R} \cap on \subseteq R}
    IN  {c \in Tasks : \A R \in closed : c \in R}

\* t cancels c and waits until it ends.  A start that waits for the lock leaves the queue.
Cancels(t, c) ==
    LET reached == Reached(c)
    IN  /\ cancelled' = cancelled \cup reached
        /\ awaits' = [u \in Tasks |->
                        IF u = t THEN c
                        ELSE IF u \in reached /\ awaits[u] \notin reached THEN NoOne
                        ELSE awaits[u]]
        /\ queue' = RemoveFirst(queue, c)
        /\ UNCHANGED <<kind, mark, calls, maker, holder>>

\* As a stop does with the keeper its start left running: any of theirs that does not wait
\* for t itself.
CancelAwait(t, c) ==
    /\ IsActing(t) /\ kind[c] = "theirs" /\ t \notin Reached(c)
    /\ Cancels(t, c)

\* Slip: the tasks a call awaits are taken for anybody's.
IsHolding(t) == holder = t

\* `_is_driving`.
IsDriving(t) == holder = t \/ mark[t] \in calls

\* A call of the runtime, a change or a refresh, done in a task of the runtime's own, inside
\* nobody's call: t waits for it, shielded, unless the runtime waits on t.
InOwnTask(t, new, what) ==
    /\ IsActing(t) /\ IsFree(new)
    /\ kind' = [kind EXCEPT ![new] = what]
    /\ queue' = Append(queue, new)
    /\ awaits' = IF IsDriving(t) THEN awaits ELSE [awaits EXCEPT ![t] = new]
    /\ UNCHANGED <<mark, calls, maker, cancelled, holder>>

\* A cancelled one goes on no more than to its end; a start gives up its call with it.
End(t) ==
    /\ kind[t] = "theirs" \/ t \in cancelled
    /\ awaits[t] = NoOne
    /\ Over(t)
    /\ UNCHANGED <<queue, holder>>

-----------------------------------------------------------------------------
(* The runtime. *)

Acquire ==
    /\ holder = NoOne /\ queue # <<>>
    /\ holder' = Head(queue)
    /\ queue' = Tail(queue)
    /\ UNCHANGED <<kind, mark, calls, maker, awaits, cancelled>>

\* It calls a peripheral's stop or hook, the lock held.
BeginCall(t) ==
    /\ IsActingLocked(t) /\ HasNewMark
    /\ mark' = [mark EXCEPT ![t] = NewMark]
    /\ calls' = calls \cup {NewMark}
    /\ UNCHANGED <<kind, maker, awaits, cancelled, queue, holder>>

\* The call returns; a start then asks for the lock.
EndCall(t) ==
    /\ IsOurs(t) /\ IsActing(t)
    /\ calls' = calls \ {mark[t]}
    /\ mark' = [mark EXCEPT ![t] = NoCall]
    /\ queue' = IF holder = t THEN queue ELSE Append(queue, t)
    /\ UNCHANGED <<kind, maker, awaits, cancelled, holder>>

\* It starts one, in a task that calls `start` without the lock.
Start(t, new) ==
    /\ IsActingLocked(t) /\ IsFree(new) /\ HasNewMark
    /\ kind' = [kind EXCEPT ![new] = "start"]
    /\ mark' = [mark EXCEPT ![new] = NewMark]
    /\ calls' = calls \cup {NewMark}
    /\ UNCHANGED <<maker, awaits, cancelled, queue, holder>>

\* `_stop` of one that starts: its task is cancelled, and waited for.
StopStart(t, s) ==
    /\ IsActingLocked(t)
    /\ kind[s] = "start" /\ s # t /\ s \notin cancelled
    /\ Cancels(t, s)

\* It lets go of the lock; a refresh is over then, what else it did asks for one.
Release(t) ==
    /\ IsActingLocked(t)
    /\ holder' = NoOne
    /\ \/ /\ kind[t] = "refresh"
          /\ Over(t)
          /\ UNCHANGED queue
       \/ /\ kind[t] # "refresh"
          /\ kind' = [kind EXCEPT ![t] = "refresh"]
          /\ queue' = Append(queue, t)
          /\ UNCHANGED <<mark, calls, maker, awaits, cancelled>>

Next ==
    \/ Acquire
    \/ \E t \in Tasks : Come(t) \/ End(t) \/ BeginCall(t) \/ EndCall(t) \/ Release(t)
    \/ \E t, u \in Tasks :
        \/ Make(t, u) \/ Await(t, u) \/ CancelAwait(t, u)
        \/ Start(t, u) \/ StopStart(t, u)
        \/ \E what \in {"change", "refresh"} : InOwnTask(t, u, what)

Spec == Init /\ [][Next]_vars

-----------------------------------------------------------------------------

TypeOK ==
    /\ kind \in [Tasks -> {"none", "theirs", "change", "refresh", "start"}]
    /\ mark \in [Tasks -> Marks \cup {NoCall}]
    /\ calls = {mark[t] : t \in {u \in Tasks : IsOurs(u)}} \ {NoCall}
    /\ maker \in [Tasks -> Tasks \cup {NoOne}]
    /\ awaits \in [Tasks -> Tasks \cup {NoOne}]
    /\ cancelled \subseteq {t \in Tasks : kind[t] \in {"theirs", "start"}}
    /\ ToSet(queue) \subseteq {t \in Tasks : IsOurs(t)}
    /\ holder \in {t \in Tasks : IsOurs(t)} \cup {NoOne}

\* Whom t waits for: the task it awaits, and the holder of the lock.
WaitsFor(t) == ({awaits[t]} \cup (IF t \in ToSet(queue) THEN {holder} ELSE {})) \ {NoOne}

\* Nobody waits for itself, however many wait for one another on the way: "waiting in it for
\* the runtime to act would never end" (`_is_driving`), save by the timeout of the call.
NoneWaitsForItself ==
    \A S \in (SUBSET Tasks) \ {{}} : \E t \in S : WaitsFor(t) \cap S = {}
=============================================================================
