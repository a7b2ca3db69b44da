------------------------------- MODULE Waits -------------------------------
(***************************************************************************)
(* What the runtime waits for: a behaviour is one of RetryTimer, whose     *)
(* peripherals wait for a retry, or one of Driving, whose tasks wait for   *)
(* one another.  The two share no state.                                   *)
(***************************************************************************)
EXTENDS RetryTimer

CONSTANTS Tasks, Marks, NoOne

VARIABLES which, kind, mark, calls, maker, awaits, cancelled, queue, holder

tasksVars == <<kind, mark, calls, maker, awaits, cancelled, queue, holder>>

D == INSTANCE Driving

ASSUME TasksAssumption ==
    /\ NoOne \notin Tasks
    /\ Marks \subseteq Nat /\ D!NoCall \notin Marks

WaitsInit ==
    /\ which \in {"retries", "tasks"}
    /\ Init
    /\ D!Init

WaitsNext ==
    /\ \/ which = "retries" /\ (Next \/ (now = MaxTime /\ UNCHANGED vars)) /\ UNCHANGED tasksVars
       \/ which = "tasks" /\ D!Next /\ UNCHANGED vars
    /\ UNCHANGED which

WaitsSpec == WaitsInit /\ [][WaitsNext]_<<which, vars, tasksVars>>

\* The variables of both keep their types.
WaitsTypeOK == TypeOK /\ D!TypeOK

\* No task that calls the runtime, nor the runtime itself, waits for itself: Driving's.
NoneWaitsForItself == D!NoneWaitsForItself
=============================================================================
