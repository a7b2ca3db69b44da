--------------------------- MODULE LifecycleProofs ---------------------------
(***************************************************************************)
(* Theorems about Lifecycle, for any hubs, passes and lives: none runs on  *)
(* unseen, what is shown as running was started, every peripheral gets its *)
(* calls in turn, only the user revives one given up on, no word a         *)
(* peripheral tells is lost, what runs comes to know every change, what    *)
(* the user disabled is off, and who runs inside another runs only while   *)
(* that one does.                                                          *)
(*                                                                         *)
(* The inductive invariant has layers, each on top of Steady of            *)
(* LifecycleSteps. CallsApart ties the call each peripheral is in to the   *)
(* one entry of it that started, NoneForgotten says who will stop what     *)
(* started. Each needs the other: an entry is adopted only when nobody     *)
(* forgot the one before. Failing follows what was given up on through the *)
(* stops and restarts of its entries. AllNoted follows each word told, and *)
(* each change, until the entry it is for has heard of it. StoreHeard says *)
(* that the last of the enablings and disablings still to be made agrees   *)
(* with the store.  WithinUsers ties what runs inside another to what that *)
(* one is, and WithinPass follows what a pass binds until it is delivered. *)
(***************************************************************************)
EXTENDS LifecycleSteps

\* A runtime that is stopped collects what is there without the lock, and so may drop the
\* entry of one that runs: one removed, or brought along by one just stopped.  It does in
\* the hub of the run life_closed_radio.  Elsewhere, where it is stopped, it is given all
\* it runs and nothing is removed.
ClosesWhole ==
    \A h \in Hubs : "close" \in h.doings =>
        /\ \A p \in Peripherals : h.bringer[p] = Owner
        /\ "remove" \notin h.doings

CallOf(e) == object[e[1]].call

\* The call a peripheral is in is what the start task, the state and the step under way of
\* the one entry of it that started say.
CallsApart ==
    /\ \A s \in starts : /\ s.at = "spawned" => CallOf(s.e) = "off"
                         /\ s.at = "in" => CallOf(s.e) = "starting"
    /\ \A t \in Waiting : IsStartOf(t, t.e, entry[t.e].task) =>
            CallOf(t.e) = IF t.ok THEN "on" ELSE "starting"
    /\ \A e, f \in Entry : IsStarted(e) /\ IsStarted(f) /\ e[1] = f[1] => e = f
    /\ \A p \in Peripherals : object[p].call # "off" =>
            \E l \in Lives : IsStarted(<<p, l>>)
    /\ \A e \in Entry : entry[e].state = "running" => CallOf(e) \in {"on", "asked", "stopping"}
    /\ \A p \in Peripherals :
          /\ object[p].call = "asked" => \E x \in Todo : x.do = "hook" /\ x.e[1] = p
          /\ object[p].call = "stopping" => \E x \in Todo : x.do = "stopping" /\ x.e[1] = p
    /\ \A x \in Todo : /\ x.do = "hook" => CallOf(x.e) = "asked"
                       /\ x.do = "stopping" => CallOf(x.e) = "stopping"

CloseWaits == \E t \in Waiting : t.do = "close"
Closes     == \E x \in Todo : x.do = "closed"

\* What started is current, or about to be stopped.
StopsLater == \A e \in Entry : IsStarted(e) => IsCurrent(e) \/ ToStop(e)

\* A close in progress is about to stop all that started.
ClosesAll == Closes => \A e \in Entry : IsStarted(e) => ToStop(e)

\* While the runtime is stopped, what started is stopped by a close still to be made.
WillClose ==
    ~ running => \A e \in Entry : IsStarted(e) =>
        "close" \in hub.doings /\ (CloseWaits \/ Closes)

\* After each refresh still waiting then, there is a close.
ClosesLast ==
    ~ running => \A i \in DOMAIN queue : queue[i].do \in {"boot", "refresh"} =>
        \E j \in DOMAIN queue : i < j /\ queue[j].do = "close"

\* And after a pass still under way.
PassesFirst == ~ running /\ (\E x \in Todo : x.do \in Passes) => CloseWaits

NoneForgotten ==
    /\ StopsLater /\ ClosesAll /\ WillClose /\ ClosesLast /\ PassesFirst
    /\ CloseWaits => "close" \in hub.doings
    /\ "close" \in hub.doings => Known \subseteq given

-----------------------------------------------------------------------------
(* The calls of each peripheral. *)

\* A collection replaces no entry that started.
LEMMA CollectSpares ==
    ASSUME Steady, NoneForgotten, Collects
    PROVE  /\ \A e \in Entry : \/ entry'[e] = entry[e]
                               \/ /\ ~ IsStarted(e) /\ entry'[e].state \notin Started
                                  /\ entry[e].task = NoTask /\ entry'[e].task = NoTask
           /\ \A x \in Todo : entry'[x.e] = entry[x.e]
           /\ \A s \in starts : entry'[s.e] = entry[s.e]
           /\ \A t \in Waiting : entry'[t.e] = entry[t.e]
<1>1. ASSUME NEW e \in Entry, entry'[e] # entry[e]
      PROVE  /\ ~ IsStarted(e) /\ entry'[e].state \notin Started
             /\ entry[e].task = NoTask /\ entry'[e].task = NoTask
             /\ ~ IsReferred(e)
  <2>1. /\ entry'[e].state \in {"disabled", "failed", "waiting"} /\ entry'[e].task = NoTask
        /\ ~ IsReferred(e) /\ known[e[1]] = NoLife
    BY <1>1, CollectsDo DEF Steady
  <2>2. ~ IsCurrent(e)
    BY <2>1, EntryOf DEF Steady, IsCurrent, Lives, NoLife
  <2>3. ~ ToStop(e)
    BY <2>1, UnreferredStarts DEF Steady, ToStop
  <2>4. ~ IsStarted(e)
    BY <2>2, <2>3 DEF NoneForgotten, StopsLater
  <2>5. entry[e].task = NoTask
    BY <2>4 DEF Steady, StartsApart, IsStarted, Started
  <2> QED
    BY <2>1, <2>4, <2>5 DEF Started
<1>2. \A s \in starts : s.e \in Entry
  BY TypeIs DEF Steady, HeldTyped, StartType
<1>3. \A t \in Waiting : t.e \in Entry
  <2>1. queue \in Seq(TaskType)
    BY TypeIs DEF Steady
  <2>2. \A i \in DOMAIN queue : queue[i] \in TaskType
    BY <2>1
  <2> QED
    BY <2>2 DEF Waiting, ToSet, TaskType
<1>4. \A x \in Todo : x.e \in Entry
  BY TodoTyped DEF Steady
<1>5. \A e \in Entry : ~ IsReferred(e) => /\ \A s \in starts : s.e # e
                                          /\ \A t \in Waiting : t.e # e
                                          /\ \A x \in Todo : x.e # e
  BY UnreferredStarts DEF Steady
<1> QED
  BY <1>1, <1>2, <1>3, <1>4, <1>5

\* The tasks that wait and the starts are typed.
LEMMA WaitingTyped ==
    ASSUME TypeOK
    PROVE  /\ \A t \in Waiting : t \in TaskType /\ t.e \in Entry
           /\ \A s \in starts : s \in StartType /\ s.e \in Entry /\ s.n \in Tasks /\ s.n # NoTask
           /\ \A n \in Tasks : n # NoTask
<1>1. queue \in Seq(TaskType) /\ starts \subseteq StartType
  BY TypeIs DEF HeldTyped
<1>2. \A i \in DOMAIN queue : queue[i] \in TaskType
  BY <1>1
<1>3. \A n \in Tasks : n # NoTask
  BY DEF Tasks, NoTask
<1> QED
  BY <1>1, <1>2, <1>3 DEF Waiting, ToSet, TaskType, StartType

\* A step that calls no peripheral.
LEMMA CallsStayApart ==
    ASSUME Steady, CallsApart, hub' = hub,
           \A p \in Peripherals : object'[p].call = object[p].call,
           \A s \in starts' : s \in starts \/ s.at = "left",
           \A t \in Waiting' : t.do = "started" => t.n \in Tasks,
           \A t \in Waiting' : IsStartOf(t, t.e, entry'[t.e].task) =>
               t \in Waiting /\ entry'[t.e].task = entry[t.e].task,
           \A e \in Entry : /\ entry'[e].state \in Started <=> IsStarted(e)
                            /\ entry'[e].state = "running" =>
                                  entry[e].state = "running" \/ CallOf(e) = "on",
           \A x : x.do \in {"hook", "stopping"} => (x \in Todo' <=> x \in Todo)
    PROVE  CallsApart'
<1>1. \A s \in starts : s.e \in Entry
  BY WaitingTyped DEF Steady
<1>2. \A t \in Waiting : t.e \in Entry
  BY WaitingTyped DEF Steady
<1>3. \A e \in Entry : CallOf(e)' = CallOf(e) /\ e[1] \in Peripherals
  BY DEF CallOf, Entry
<1>4. \A x \in Todo : x.e \in Entry
  BY TodoTyped DEF Steady
<1>5. \A s \in starts' : /\ s.at = "spawned" => CallOf(s.e)' = "off"
                         /\ s.at = "in" => CallOf(s.e)' = "starting"
  BY <1>1, <1>3 DEF CallsApart
<1>6. \A t \in Waiting' : IsStartOf(t, t.e, entry'[t.e].task) =>
            CallOf(t.e)' = IF t.ok THEN "on" ELSE "starting"
  BY <1>2, <1>3 DEF CallsApart
<1>7. \A e, f \in Entry :
         entry'[e].state \in Started /\ entry'[f].state \in Started /\ e[1] = f[1] => e = f
  BY DEF CallsApart
<1>8. \A p \in Peripherals : object'[p].call # "off" =>
            \E l \in Lives : entry'[<<p, l>>].state \in Started
  BY DEF CallsApart, Entry
<1>9. \A e \in Entry : entry'[e].state = "running" => CallOf(e)' \in {"on", "asked", "stopping"}
  BY <1>3 DEF CallsApart
<1>10. \A p \in Peripherals :
          /\ object'[p].call = "asked" => \E x \in Todo' : x.do = "hook" /\ x.e[1] = p
          /\ object'[p].call = "stopping" => \E x \in Todo' : x.do = "stopping" /\ x.e[1] = p
  BY DEF CallsApart
<1>11. \A x \in Todo' : /\ x.do = "hook" => CallOf(x.e)' = "asked"
                        /\ x.do = "stopping" => CallOf(x.e)' = "stopping"
  BY <1>3, <1>4 DEF CallsApart
<1> QED
  BY <1>5, <1>6, <1>7, <1>8, <1>9, <1>10, <1>11 DEF CallsApart, IsStarted, Lives

\* A call to a peripheral that the holder awaits.
Calling(x) == x.do \in {"hook", "stopping"}

\* While the head waits for no stop and no hook, no step does.
LEMMA NoneCalling ==
    ASSUME TypeOK, WorkInOrder, work # <<>> => ~ Calling(Head(work))
    PROVE  (\A x \in Todo : ~ Calling(x)) /\ (work # <<>> => \A x \in Rest : ~ Calling(x))
<1>1. CASE work = <<>>
  BY <1>1 DEF Todo, ToSet
<1>2. CASE work # <<>>
  BY <1>2, HeadFits DEF Calling, Ongoing
<1> QED
  BY <1>1, <1>2

\* Which steps do not.
LEMMA NamesNotCalling ==
    \A e \in Entry : \A do \in DoNames \ {"hook", "stopping"} :
        ~ Calling(Step(do, e)) /\ ~ Calling(Stop(e)) /\ ~ Calling(StopTo(e, "disabled"))
BY StepTyped DEF Calling, DoNames

\* None that matches any state does.
LEMMA FreeNotCalling == \A x : Free(x) => ~ Calling(x)
BY DEF Free, Calling

\* The steps of the holder that end no call and begin none: those they leave do neither.
LEMMA QuietSteps ==
    ASSUME Steady,
           \/ Revive \/ LetStart \/ CountFailure \/ StopDisabled \/ NoChange \/ TellOrNote
           \/ TellMissed \/ TakeTold \/ StopUsers \/ CancelStart \/ Deliver
    PROVE  work # <<>> /\ \A x \in Todo \cup Todo' : ~ Calling(x)
<1>0. PICK e : e = Head(work).e
  OBVIOUS
<1>1. work # <<>> /\ ~ Calling(Head(work))
  BY DEF Revive, LetStart, CountFailure, StopDisabled, NoChange, TellOrNote, TellMissed, TakeTold,
         StopUsers, CancelStart, Deliver, HeadIs, StopsEntry, Calling
<1>2. e \in Entry /\ (\A x \in Todo : ~ Calling(x)) /\ \A x \in Rest : ~ Calling(x)
  BY <1>0, <1>1, HeadFits, NoneCalling DEF Steady
<1>3. /\ \A do \in Hooks \cup {"failed", "stop"} : ~ Calling(Step(do, e))
      /\ \A f \in Entry : ~ Calling(Stop(f))
  <2>1. Hooks \cup {"failed", "stop"} \subseteq DoNames \ {"hook", "stopping"}
    BY DEF DoNames, Hooks
  <2> QED
    BY <1>2, <2>1, NamesNotCalling
<1>4. CASE Revive \/ LetStart \/ CountFailure \/ StopDisabled \/ NoChange
  BY <1>1, <1>2, <1>4, DoneWork DEF Steady
<1>5. CASE TellOrNote
  <2>1. \A x \in Todo' : x \in Rest \/ \E do \in Hooks : x = Step(do, e)
    BY <1>0, <1>5, TellOrNoteWork DEF Hooks, Steady
  <2> QED
    BY <1>1, <1>2, <1>3, <2>1
<1>6. CASE TellMissed
  <2>1. \A x \in Todo' : x \in Rest \/ \E do \in Hooks : x = Step(do, e)
    BY <1>0, <1>6, TellMissedWork DEF Hooks, Steady
  <2> QED
    BY <1>1, <1>2, <1>3, <2>1
<1>7. CASE TakeTold
  <2>1. \A x \in Todo' : x \in Rest \/ x = Stop(e) \/ x = Step("failed", e)
    BY <1>0, <1>7, TakeToldWork DEF Steady
  <2> QED
    BY <1>1, <1>2, <1>3, <2>1
<1>8. CASE StopUsers
  <2>1. InsideUsers(e) \subseteq Entry /\ Todo' = {Stop(u) : u \in InsideUsers(e)} \cup Todo
    BY <1>0, <1>8, StopUsersWork DEF Steady
  <2> QED
    BY <1>1, <1>2, <1>3, <2>1
<1>9. CASE CancelStart
  <2>1. Todo' = {[Head(work) EXCEPT !.do = "cancelled"]} \cup Rest
    BY <1>9, CancelStartDoes DEF Steady
  <2>2. [Head(work) EXCEPT !.do = "cancelled"].do = "cancelled"
    BY <1>1, HeadFits DEF StepType, Steady
  <2> QED
    BY <1>1, <1>2, <2>1, <2>2 DEF Calling
<1>10. CASE Deliver
  <2>1. \A x \in Todo' : x \in Rest \/ x = Step("tell_need", e)
    BY <1>0, <1>10, DeliverWork DEF Steady
  <2> QED
    BY <1>1, <1>2, <1>3, <2>1 DEF Hooks
<1> QED
  BY <1>4, <1>5, <1>6, <1>7, <1>8, <1>9, <1>10

\* Nor do the steps of a pass.
LEMMA QuietPasses ==
    ASSUME Steady, BeginPass \/ DropUnwanted \/ BeginDeliver \/ EndPass \/ SettleChange \/ Closed
    PROVE  work # <<>> /\ Rest = {} /\ \A x \in Todo \cup Todo' : ~ Calling(x)
<1>1. work # <<>> /\ ~ Calling(Head(work)) /\ Head(work).do \in LastSteps
  BY DEF BeginPass, DropUnwanted, BeginDeliver, EndPass, SettleChange, Closed, HeadIs, Calling, LastSteps
<1>2. Rest = {} /\ \A x \in Todo : ~ Calling(x)
  BY <1>1, HeadFits, NoneCalling DEF Steady
<1>3. CASE BeginPass
  <2>1. Todo' = {Stop(e) : e \in Gone} \cup {Step("drop", NoEntry)} /\ Gone \subseteq Entry
    BY <1>3, BeginPassWork DEF Steady
  <2> QED
    BY <1>1, <1>2, <2>1, FreeNames, FreeNotCalling
<1>4. CASE DropUnwanted
  <2>1. \E S \in SUBSET Entry : Todo' = {Stop(e) : e \in S} \cup {Step("moves", NoEntry)}
    BY <1>4, DropUnwantedWork DEF Steady
  <2> QED
    BY <1>1, <1>2, <2>1, FreeNames, FreeNotCalling
<1>5. CASE BeginDeliver
  <2>1. /\ Todo' = {Step("deliver", e) : e \in CurrentEntries} \cup {Step("start", NoEntry)}
        /\ CurrentEntries \subseteq Entry
    BY <1>5, BeginDeliverWork DEF Steady
  <2> QED
    BY <1>1, <1>2, <2>1, FreeNames, FreeNotCalling
<1>6. CASE EndPass
  <2>1. Todo' \subseteq {Pass}
    BY <1>6, EndPassWork DEF Steady
  <2> QED
    BY <1>1, <1>2, <2>1, FreeNames, FreeNotCalling
<1>7. CASE SettleChange \/ Closed
  BY <1>1, <1>2, <1>7, FreeWork DEF Steady
<1> QED
  BY <1>3, <1>4, <1>5, <1>6, <1>7

\* Nor does a task that takes the lock.
LEMMA QuietAcquire ==
    ASSUME Steady, Acquire
    PROVE  Todo = {} /\ \A x \in Todo' : ~ Calling(x)
<1>0. PICK t : t = Head(queue)
  OBVIOUS
<1>1. /\ t \in TaskType /\ t.e \in Entry /\ Todo = {}
      /\ \/ Todo' = {}
         \/ \A x \in Todo' : x \in {Step("missed", t.e), Settle, Stop(t.e), Step("failed", t.e)}
         \/ t.do # "started" /\ Todo' = ToSet(StepsOf(t))
  BY <1>0, AcquireTakes DEF Steady
<1>2. CASE \A x \in Todo' : x \in {Step("missed", t.e), Settle, Stop(t.e), Step("failed", t.e)}
  BY <1>1, <1>2, NamesNotCalling, FreeNames, FreeNotCalling DEF DoNames
<1>3. CASE t.do # "started" /\ Todo' = ToSet(StepsOf(t))
  <2>1. \A y \in ToSet(StepsOf(t)) : Free(y)
    BY <1>1, <1>3, StepsOfFree DEF Steady
  <2> QED
    BY <1>1, <1>3, <2>1, FreeNotCalling
<1> QED
  BY <1>1, <1>2, <1>3

\* What calls no peripheral leaves their calls apart.
LEMMA CallsStillApart ==
    ASSUME Steady, CallsApart, hub' = hub,
           \A p \in Peripherals : object'[p].call = object[p].call,
           starts' \subseteq starts \/ \A s \in starts' : s \in starts \/ s.at = "left",
           \A t \in Waiting' : t \in Waiting \/ t.do # "started",
           \A e \in Entry : /\ entry'[e].state \in Started <=> IsStarted(e)
                            /\ entry'[e].state = "running" =>
                                  entry[e].state = "running" \/ CallOf(e) = "on"
                            /\ entry'[e].task = entry[e].task \/ entry'[e].task = NoTask,
           \/ \A x \in Todo \cup Todo' : ~ Calling(x)
           \/ work' = work
    PROVE  CallsApart'
<1>1. \A t \in Waiting : t.e \in Entry /\ (t.do = "started" => t.n \in Tasks /\ t.n # NoTask)
  BY WaitingTyped DEF Steady, StartsApart
<1>2. \A t \in Waiting' : t.do = "started" => t.n \in Tasks
  BY <1>1
<1>3. \A t \in Waiting' : IsStartOf(t, t.e, entry'[t.e].task) =>
               t \in Waiting /\ entry'[t.e].task = entry[t.e].task
  BY <1>1 DEF IsStartOf
<1>4. \A x : x.do \in {"hook", "stopping"} => (x \in Todo' <=> x \in Todo)
  <2>1. CASE \A x \in Todo \cup Todo' : ~ Calling(x)
    BY <2>1 DEF Calling
  <2>2. CASE work' = work
    BY <2>2 DEF Todo
  <2> QED
    BY <2>1, <2>2
<1>5. \A s \in starts' : s \in starts \/ s.at = "left"
  OBVIOUS
<1>6. \A e \in Entry : /\ entry'[e].state \in Started <=> IsStarted(e)
                       /\ entry'[e].state = "running" =>
                                  entry[e].state = "running" \/ CallOf(e) = "on"
  OBVIOUS
<1> QED
  BY <1>2, <1>3, <1>4, <1>5, <1>6, CallsStayApart

\* Asking for a task calls no peripheral.
LEMMA AskedCalls ==
    ASSUME Steady, CallsApart, NoneForgotten, hub' = hub, starts' = starts,
           \A p \in Peripherals : object'[p].call = object[p].call,
           (\E t : Asking(t)) \/ Noting,
           (\A x \in Todo \cup Todo' : ~ Calling(x)) \/ work' = work
    PROVE  CallsApart'
<1>1. \A e \in Entry : /\ entry'[e].state \in Started <=> IsStarted(e)
                       /\ entry'[e].state = "running" => entry[e].state = "running"
                       /\ entry'[e].task = entry[e].task \/ entry'[e].task = NoTask
  <2>1. CASE Noting
    BY <2>1 DEF Noting, IsStarted
  <2>2. CASE \E t : Asking(t)
    BY <2>2, CollectSpares DEF Asking, IsStarted, Started
  <2> QED
    BY <2>1, <2>2
<1>2. \A t \in Waiting' : t \in Waiting \/ t.do # "started"
  <2>1. CASE Noting
    BY <2>1 DEF Noting, Waiting
  <2>2. CASE \E t : Asking(t)
    <3>1. PICK t : Asking(t)
      BY <2>2
    <3>2. queue \in Seq(TaskType)
      BY TypeIs DEF Steady
    <3>3. CASE queue' = Append(queue, t)
      <4>1. Waiting' = Waiting \cup {t}
        BY <3>1, <3>2, <3>3, SetOfAppend DEF Waiting, Asking
      <4> QED
        BY <3>1, <4>1 DEF Asking
    <3>4. CASE queue' = queue
      BY <3>4 DEF Waiting
    <3> QED
      BY <3>1, <3>3, <3>4 DEF Asking
  <2> QED
    BY <2>1, <2>2
<1> QED
  BY <1>1, <1>2, CallsStillApart

\* The calls from outside call none.
LEMMA CalledCalls ==
    ASSUME Steady, CallsApart, NoneForgotten, Called \/ Boot \/ Retry
    PROVE  CallsApart'
BY CallsDo, AskedCalls DEF Steady

\* The steps that only mark call none.
LEMMA MarkedCalls ==
    ASSUME Steady, CallsApart,
           \/ Revive \/ TellOrNote \/ TellMissed \/ TakeTold \/ NoChange \/ StopDisabled
           \/ StopUsers \/ DropUnwanted \/ BeginDeliver \/ Deliver
    PROVE  CallsApart'
<1>1. Marking /\ UNCHANGED <<hub, object, starts, queue>>
  BY MarksDo DEF Steady
<1>2. \A x \in Todo \cup Todo' : ~ Calling(x)
  BY QuietSteps, QuietPasses
<1>3. Waiting' = Waiting
  BY <1>1 DEF Waiting
<1> QED
  BY <1>1, <1>2, <1>3, CallsStillApart DEF Marking, IsStarted

\* A state changed to one not started calls none.
LEMMA StateCalls ==
    ASSUME Steady, CallsApart, LetStart \/ CountFailure
    PROVE  CallsApart'
<1>0. PICK e : e = Head(work).e
  OBVIOUS
<1>1. PICK x : /\ Becomes(e, x) /\ x.task = entry[e].task
               /\ x.state \in {"waiting", "failed"}
               /\ entry[e].state \notin Started \/ Head(work).do = "failed"
  BY <1>0, LetStartDoes, CountFailureDoes DEF Steady
<1>2. work # <<>> /\ \A y \in Todo \cup Todo' : ~ Calling(y)
  BY QuietSteps
<1>3. ~ IsStarted(e) /\ x.state \notin Started /\ x.state # "running"
  BY <1>0, <1>1, <1>2, HeadMatches DEF Steady, IsStarted, Started
<1>4. UNCHANGED <<hub, object, starts, queue>>
  BY DEF LetStart, CountFailure
<1>5. Waiting' = Waiting
  BY <1>4 DEF Waiting
<1>6. \A f \in Entry : entry'[f] = IF f = e THEN x ELSE entry[f]
  BY <1>1 DEF Becomes
<1> QED
  BY <1>1, <1>2, <1>3, <1>4, <1>5, <1>6, CallsStillApart DEF IsStarted

\* A start cancelled, which its peripheral is not told, calls none.
LEMMA CancelStartCalls ==
    ASSUME Steady, CallsApart, CancelStart
    PROVE  CallsApart'
<1>0. PICK e : e = Head(work).e
  OBVIOUS
<1>1. PICK x : /\ Becomes(e, x) /\ x.task = NoTask /\ x.state = entry[e].state
  BY <1>0, CancelStartDoes DEF Steady
<1>2. \A y \in Todo \cup Todo' : ~ Calling(y)
  BY QuietSteps
<1>3. UNCHANGED <<hub, object>>
  BY DEF CancelStart
<1>4. /\ \A s \in starts' : s \in starts \/ s.at = "left"
      /\ (\E K : queue' = Kept(queue, K)) \/ queue' = queue
  <2>1. /\ \/ starts' = {s \in starts : ~ (s.e = e /\ s.n = entry[e].task)}
           \/ \E s \in starts : starts' = (starts \ {s}) \cup {[s EXCEPT !.at = "left"]}
        /\ (\E K : queue' = Kept(queue, K)) \/ queue' = queue
    BY <1>0 DEF CancelStart
  <2>2. \A s \in starts : [s EXCEPT !.at = "left"].at = "left"
    BY NewStartsTyped DEF Steady
  <2> QED
    BY <2>1, <2>2
<1>5. \A t \in Waiting' : t \in Waiting
  BY <1>4, KeptWaits DEF Steady, Waiting
<1>6. \A f \in Entry : entry'[f] = IF f = e THEN x ELSE entry[f]
  BY <1>1 DEF Becomes
<1> QED
  BY <1>1, <1>2, <1>3, <1>4, <1>5, <1>6, CallsStillApart DEF IsStarted

\* The lock freed, and the begin of a pass, call none.
LEMMA FreedCalls ==
    ASSUME Steady, CallsApart, NoneForgotten, SettleChange \/ Closed \/ BeginPass
    PROVE  CallsApart'
<1>1. \A x \in Todo \cup Todo' : ~ Calling(x)
  BY QuietPasses
<1>2. CASE SettleChange
  <2>1. UNCHANGED <<hub, object, starts>> /\ QueueRefresh(Present)
    BY <1>2 DEF SettleChange
  <2>2. Asking(Refresh)
    BY <2>1, ThereAre, RefreshAsks
  <2> QED
    BY <1>1, <2>1, <2>2, AskedCalls
<1>3. CASE Closed
  <2>1. UNCHANGED <<hub, object, entry>> /\ starts' \subseteq starts
        /\ queue' = Kept(queue, {t \in ToSet(queue) : t.do \in {"boot", "close"}})
    BY <1>3 DEF Closed
  <2>2. \A t \in Waiting' : t \in Waiting
    BY <2>1, KeptWaits DEF Steady
  <2> QED
    BY <1>1, <2>1, <2>2, CallsStillApart DEF IsStarted
<1>4. CASE BeginPass
  <2>1. hub' = hub /\ object' = object /\ starts' = starts /\ queue' = queue /\ Collects
    BY <1>4, PassCollects DEF BeginPass
  <2>2. \A e \in Entry : /\ entry'[e].state \in Started <=> IsStarted(e)
                         /\ entry'[e].state = "running" =>
                               entry[e].state = "running" \/ CallOf(e) = "on"
                         /\ entry'[e].task = entry[e].task \/ entry'[e].task = NoTask
    <3>1. \A e \in Entry : \/ entry'[e] = entry[e]
                           \/ /\ ~ IsStarted(e) /\ entry'[e].state \notin Started
                              /\ entry[e].task = NoTask /\ entry'[e].task = NoTask
      BY <2>1, CollectSpares
    <3> QED
      BY <3>1 DEF IsStarted, Started
  <2>3. Waiting' = Waiting
    BY <2>1 DEF Waiting
  <2>4. \A t \in Waiting' : t \in Waiting \/ t.do # "started"
    BY <2>3
  <2>5. \A p \in Peripherals : object'[p].call = object[p].call
    BY <2>1
  <2> QED
    BY <1>1, <2>1, <2>2, <2>4, <2>5, CallsStillApart
<1> QED
  BY <1>2, <1>3, <1>4

\* One entry of a peripheral started, so a start task not left behind is its.
LEMMA WhoseStart ==
    ASSUME Steady, CallsApart, NEW e \in Entry, IsStarted(e)
    PROVE  /\ \A s \in starts : s.e[1] = e[1] /\ s.at # "left" => s.e = e /\ entry[e].task = s.n
           /\ \A t \in Waiting : t.e[1] = e[1] /\ IsStartOf(t, t.e, entry[t.e].task) =>
                 t.e = e /\ entry[e].task # NoTask /\ t.n = entry[e].task
           /\ \A f \in Entry : IsStarted(f) /\ f[1] = e[1] => f = e
<1>1. \A f \in Entry : IsStarted(f) /\ f[1] = e[1] => f = e
  BY DEF CallsApart
<1>2. ASSUME NEW s \in starts, s.e[1] = e[1], s.at # "left"
      PROVE  s.e = e /\ entry[e].task = s.n
  <2>1. s.e \in Entry /\ s.n # NoTask /\ entry[s.e].task = s.n
    BY <1>2, WaitingTyped DEF Steady, StartsApart
  <2>2. IsStarted(s.e)
    BY <2>1 DEF Steady, StartsApart, IsStarted, Started
  <2> QED
    BY <1>1, <1>2, <2>1, <2>2
<1>3. ASSUME NEW t \in Waiting, t.e[1] = e[1], IsStartOf(t, t.e, entry[t.e].task)
      PROVE  t.e = e /\ entry[e].task # NoTask /\ t.n = entry[e].task
  <2>1. t.e \in Entry /\ t.n # NoTask /\ entry[t.e].task = t.n
    BY <1>3, WaitingTyped DEF Steady, StartsApart, IsStartOf
  <2>2. IsStarted(t.e)
    BY <2>1 DEF Steady, StartsApart, IsStarted, Started
  <2> QED
    BY <1>1, <1>3, <2>1, <2>2
<1> QED
  BY <1>1, <1>2, <1>3

\* A step that calls one peripheral, whose started entry is e, and whose start is over.
LEMMA OneCalled ==
    ASSUME Steady, CallsApart, hub' = hub, NEW e \in Entry, NEW c \in CallNames,
           entry[e].task = NoTask, IsStarted(e),
           \A p \in Peripherals : object'[p].call = IF p = e[1] THEN c ELSE object[p].call,
           starts' = starts, queue' = queue,
           \A f \in Entry : /\ entry'[f].task = entry[f].task
                            /\ f # e => entry'[f].state = entry[f].state,
           entry'[e].state \in Started <=> c # "off",
           entry'[e].state = "running" => c \in {"on", "asked", "stopping"},
           \A x \in Todo : Calling(x) => x.e = e,
           \A x \in Todo' : Calling(x) => /\ x.e = e
                                          /\ x.do = "hook" => c = "asked"
                                          /\ x.do = "stopping" => c = "stopping",
           c = "asked" => \E x \in Todo' : x.do = "hook" /\ x.e = e,
           c = "stopping" => \E x \in Todo' : x.do = "stopping" /\ x.e = e
    PROVE  CallsApart'
<1>1. Waiting' = Waiting
  BY DEF Waiting
<1>2. \A s \in starts : s.e \in Entry /\ (s.at # "left" => s.e[1] # e[1])
  <2>1. \A s \in starts : s.e \in Entry /\ s.n # NoTask
    BY WaitingTyped DEF Steady
  <2> QED
    BY <2>1, WhoseStart
<1>3. \A t \in Waiting : t.e \in Entry
                         /\ (IsStartOf(t, t.e, entry[t.e].task) => t.e[1] # e[1])
  <2>1. \A t \in Waiting : t.e \in Entry
    BY WaitingTyped DEF Steady
  <2> QED
    BY <2>1, WhoseStart
<1>4. \A f \in Entry : CallOf(f)' = IF f[1] = e[1] THEN c ELSE CallOf(f)
  BY DEF CallOf, Entry
<1>5. \A f \in Entry : IsStarted(f) /\ f[1] = e[1] => f = e
  BY WhoseStart
<1>6. \A f \in Entry : f # e => (entry'[f].state \in Started <=> IsStarted(f))
  BY DEF IsStarted
<1>7. \A s \in starts' : /\ s.at = "spawned" => CallOf(s.e)' = "off"
                         /\ s.at = "in" => CallOf(s.e)' = "starting"
  BY <1>2, <1>4 DEF CallsApart
<1>8. \A t \in Waiting' : IsStartOf(t, t.e, entry'[t.e].task) =>
            CallOf(t.e)' = IF t.ok THEN "on" ELSE "starting"
  BY <1>1, <1>3, <1>4 DEF CallsApart
<1>9. \A f, g \in Entry :
         entry'[f].state \in Started /\ entry'[g].state \in Started /\ f[1] = g[1] => f = g
  BY <1>6 DEF CallsApart
<1>10. \A p \in Peripherals : object'[p].call # "off" =>
            \E l \in Lives : entry'[<<p, l>>].state \in Started
  <2>1. ASSUME NEW p \in Peripherals, p # e[1], object'[p].call # "off"
        PROVE  \E l \in Lives : entry'[<<p, l>>].state \in Started
    <3>1. PICK l \in Lives : IsStarted(<<p, l>>)
      BY <2>1 DEF CallsApart
    <3>2. <<p, l>> \in Entry /\ <<p, l>> # e
      BY <2>1 DEF Entry
    <3> QED
      BY <1>6, <3>1, <3>2
  <2>2. c # "off" => entry'[<<e[1], e[2]>>].state \in Started /\ e[2] \in Lives
    BY EntryOf DEF Steady
  <2> QED
    BY <2>1, <2>2
<1>11. \A f \in Entry : entry'[f].state = "running" => CallOf(f)' \in {"on", "asked", "stopping"}
  <2>1. \A f \in Entry : f # e /\ entry[f].state = "running" => f[1] # e[1]
    BY <1>5 DEF IsStarted, Started
  <2> QED
    BY <1>4, <2>1 DEF CallsApart
<1>12. \A p \in Peripherals :
          /\ object'[p].call = "asked" => \E x \in Todo' : x.do = "hook" /\ x.e[1] = p
          /\ object'[p].call = "stopping" => \E x \in Todo' : x.do = "stopping" /\ x.e[1] = p
  BY DEF CallsApart, Calling
<1>13. \A x \in Todo' : /\ x.do = "hook" => CallOf(x.e)' = "asked"
                        /\ x.do = "stopping" => CallOf(x.e)' = "stopping"
  BY <1>4 DEF Calling
<1> QED
  BY <1>7, <1>8, <1>9, <1>10, <1>11, <1>12, <1>13 DEF CallsApart, IsStarted, Lives

\* stop is called on one that is on, starting or off, never during a hook.
LEMMA CallStopCalls ==
    ASSUME Steady, CallsApart, CallStop
    PROVE  CallsApart' /\ (CallOf(Head(work).e) \in {"off", "starting", "on"})
<1>0. PICK e : e = Head(work).e
  OBVIOUS
<1>1. /\ Marking /\ e \in Entry /\ work # <<>>
      /\ Head(work).do \in {"stop", "cancelled"}
      /\ Head(work).do = "stop" => IsStarted(e) /\ entry[e].task = NoTask
      /\ object' = [object EXCEPT ![e[1]].call = "stopping"]
      /\ Todo' = {[Head(work) EXCEPT !.do = "stopping"]} \cup Rest
  BY <1>0, CallStopDoes DEF Steady
<1>2. IsStarted(e) /\ entry[e].task = NoTask /\ Head(work) \in StepType
  BY <1>0, <1>1, HeadMatches, HeadFits DEF Steady
<1>3. ~ Calling(Head(work))
  BY <1>1 DEF Calling
<1>4. (\A x \in Todo : ~ Calling(x)) /\ \A x \in Rest : ~ Calling(x)
  BY <1>1, <1>3, NoneCalling DEF Steady
<1> DEFINE h == [Head(work) EXCEPT !.do = "stopping"]
<1>5. h.do = "stopping" /\ h.e = e /\ Todo' = {h} \cup Rest
  BY <1>0, <1>1, <1>2 DEF StepType
<1> HIDE DEF h
<1>6. /\ \A p \in Peripherals : object'[p].call = IF p = e[1] THEN "stopping" ELSE object[p].call
      /\ e[1] \in Peripherals
  <2>1. e[1] \in Peripherals /\ object \in [Peripherals -> ObjectType] /\ "stopping" \in CallNames
    BY <1>1, ObjectTyped, EntryOf DEF Steady, CallNames
  <2> QED
    BY <1>1, <2>1, CallBecomes
<1>7. UNCHANGED <<hub, starts, queue>>
  BY DEF CallStop
<1>8. \A x \in Todo' : Calling(x) => x.e = e /\ x.do = "stopping"
  BY <1>4, <1>5
<1>9. "stopping" \in CallNames /\ (entry'[e].state \in Started <=> "stopping" # "off")
  BY <1>1, <1>2 DEF CallNames, Marking, IsStarted
<1>10. CallsApart'
  <2>1. \A f \in Entry : /\ entry'[f].task = entry[f].task
                         /\ f # e => entry'[f].state = entry[f].state
    BY <1>1 DEF Marking
  <2>2. /\ \A x \in Todo : Calling(x) => x.e = e
        /\ \A x \in Todo' : Calling(x) => /\ x.e = e
                                          /\ x.do = "hook" => "stopping" = "asked"
                                          /\ x.do = "stopping" => "stopping" = "stopping"
        /\ \E x \in Todo' : x.do = "stopping" /\ x.e = e
    BY <1>4, <1>5, <1>8
  <2> QED
    BY <1>1, <1>2, <1>6, <1>7, <1>9, <2>1, <2>2, OneCalled
<1>11. CallOf(e) \in CallNames /\ CallOf(e) \notin {"asked", "stopping"}
  <2>1. object[e[1]].call \in CallNames
    BY <1>6, ObjectTyped DEF Steady, ObjectType, CallNames, Calls!Call
  <2> QED
    BY <1>4, <1>6, <2>1 DEF CallsApart, Calling, CallOf
<1> QED
  BY <1>0, <1>10, <1>11 DEF CallNames

\* When it ends, its peripheral is off, and its entry not started.
LEMMA EndStopCalls ==
    ASSUME Steady, CallsApart, EndStop
    PROVE  CallsApart'
<1>0. PICK e : e = Head(work).e
  OBVIOUS
<1>1. PICK x : /\ Becomes(e, x) /\ work # <<>>
               /\ x.state \in {"waiting", "disabled"} /\ x.task = entry[e].task
               /\ \/ /\ Head(work).do = "stopping"
                     /\ object' = [object EXCEPT ![e[1]].call = "off"]
                  \/ /\ Head(work).do = "stop" /\ ~ IsStarted(e)
                     /\ UNCHANGED object
  BY <1>0, EndStopDoes DEF Steady
<1>2. e \in Entry /\ (\A f \in Entry : entry'[f] = IF f = e THEN x ELSE entry[f]) /\ e[1] \in Peripherals
  BY <1>1 DEF Becomes, Entry
<1>3. UNCHANGED <<hub, starts, queue>> /\ Todo' = Rest
  BY DoneWork DEF EndStop, Steady
<1>4. \A y \in Rest : ~ Calling(y)
  BY <1>1, HeadFits DEF Steady, Calling, Ongoing
<1>5. CASE Head(work).do = "stop" /\ ~ IsStarted(e) /\ UNCHANGED object
  <2>1. ~ Calling(Head(work))
    BY <1>5 DEF Calling
  <2>2. \A y \in Todo \cup Todo' : ~ Calling(y)
    BY <1>1, <1>3, <1>4, <2>1, NoneCalling DEF Steady
  <2>3. Waiting' = Waiting
    BY <1>3 DEF Waiting
  <2>4. \A f \in Entry : /\ entry'[f].state \in Started <=> IsStarted(f)
                         /\ entry'[f].state = "running" => entry[f].state = "running"
                         /\ entry'[f].task = entry[f].task
    BY <1>1, <1>2, <1>5 DEF IsStarted, Started
  <2> QED
    BY <1>3, <1>5, <2>2, <2>3, <2>4, CallsStillApart
<1>6. CASE Head(work).do = "stopping" /\ object' = [object EXCEPT ![e[1]].call = "off"]
  <2>1. IsStarted(e) /\ entry[e].task = NoTask
    BY <1>0, <1>1, <1>6, HeadMatches DEF Steady
  <2>2. \A p \in Peripherals : object'[p].call = IF p = e[1] THEN "off" ELSE object[p].call
    <3>1. object \in [Peripherals -> ObjectType] /\ "off" \in CallNames
      BY ObjectTyped DEF Steady, CallNames
    <3> QED
      BY <1>2, <1>6, <3>1, CallBecomes
  <2>3. /\ \A y \in Todo : Calling(y) => y.e = e
        /\ \A y \in Todo' : ~ Calling(y)
    BY <1>0, <1>1, <1>3, <1>4, HeadFits DEF Steady
  <2>4. "off" \in CallNames /\ ~ (entry'[e].state \in Started) /\ entry'[e].state # "running"
    BY <1>1, <1>2 DEF CallNames, Started
  <2>5. \A f \in Entry : /\ entry'[f].task = entry[f].task
                         /\ f # e => entry'[f].state = entry[f].state
    BY <1>1, <1>2
  <2> QED
    BY <1>2, <1>3, <2>1, <2>2, <2>3, <2>4, <2>5, OneCalled
<1> QED
  BY <1>1, <1>5, <1>6

\* A hook is called on one that is on.
LEMMA BeginHookCalls ==
    ASSUME Steady, CallsApart, BeginHook
    PROVE  CallsApart' /\ CallOf(Head(work).e) = "on"
<1>0. PICK e : e = Head(work).e
  OBVIOUS
<1>1. /\ work # <<>> /\ Head(work).do \in Hooks /\ e \in Entry /\ e[1] \in Peripherals
      /\ Todo' = {Step("hook", e)} \cup Rest
      /\ UNCHANGED <<hub, starts, queue, entry>>
  BY <1>0, BeginHookWork DEF Steady, BeginHook, Entry
<1>2. IsStarted(e) /\ entry[e].task = NoTask /\ entry[e].state = "running"
  BY <1>0, <1>1, HeadMatches DEF Steady, IsStarted, Started
<1>3. ~ Calling(Head(work))
  BY <1>1 DEF Calling, Hooks
<1>4. (\A x \in Todo : ~ Calling(x)) /\ \A x \in Rest : ~ Calling(x)
  BY <1>1, <1>3, NoneCalling DEF Steady
<1>5. Step("hook", e).do = "hook" /\ Step("hook", e).e = e
  BY <1>1, StepTyped DEF DoNames
<1>6. \A p \in Peripherals : object'[p].call = IF p = e[1] THEN "asked" ELSE object[p].call
  BY <1>0, BeginHookDoes DEF Steady
<1>7. CallsApart'
  <2>1. "asked" \in CallNames /\ entry'[e].state \in Started /\ "asked" \in {"on", "asked", "stopping"}
    BY <1>1, <1>2 DEF CallNames, IsStarted
  <2>2. /\ \A x \in Todo' : Calling(x) => x.e = e /\ x.do = "hook"
        /\ \E x \in Todo' : x.do = "hook" /\ x.e = e
        /\ \A x \in Todo : Calling(x) => x.e = e
    BY <1>1, <1>4, <1>5
  <2> QED
    BY <1>1, <1>2, <1>6, <2>1, <2>2, OneCalled
<1> QED
  BY <1>0, <1>1, <1>2, <1>4, <1>7 DEF CallsApart, Calling, CallOf

\* When it ends, its peripheral is on again.
LEMMA EndHookCalls ==
    ASSUME Steady, CallsApart, EndHook
    PROVE  CallsApart' /\ CallOf(Head(work).e) = "asked"
<1>0. PICK e : e = Head(work).e
  OBVIOUS
<1>1. /\ work # <<>> /\ Head(work).do = "hook" /\ e \in Entry /\ e[1] \in Peripherals
      /\ \A x \in Todo' : x \in Rest \/ x = Stop(e) \/ x = Step("failed", e)
      /\ UNCHANGED <<hub, starts, queue, entry>>
      /\ object' = [object EXCEPT ![e[1]].call = "on"]
  BY <1>0, EndHookWork DEF Steady, EndHook, Entry
<1>2. IsStarted(e) /\ entry[e].task = NoTask /\ entry[e].state = "running"
  BY <1>0, <1>1, HeadMatches DEF Steady, IsStarted, Started
<1>3. \A x \in Rest : ~ Calling(x)
  BY <1>1, HeadFits DEF Steady, Calling, Ongoing
<1>4. ~ Calling(Stop(e)) /\ ~ Calling(Step("failed", e))
  <2>1. "failed" \in DoNames \ {"hook", "stopping"}
    BY DEF DoNames
  <2> QED
    BY <1>1, <2>1, NamesNotCalling
<1>5. \A p \in Peripherals : object'[p].call = IF p = e[1] THEN "on" ELSE object[p].call
  <2>1. object \in [Peripherals -> ObjectType] /\ "on" \in CallNames
    BY ObjectTyped DEF Steady, CallNames
  <2> QED
    BY <1>1, <2>1, CallBecomes
<1>6. Head(work) \in Todo /\ Todo = {Head(work)} \cup Rest
  BY <1>1, HeadFits DEF Steady
<1>7. CallsApart'
  <2>1. "on" \in CallNames /\ entry'[e].state \in Started /\ "on" \in {"on", "asked", "stopping"}
    BY <1>1, <1>2 DEF CallNames, IsStarted
  <2>2. /\ \A x \in Todo' : ~ Calling(x)
        /\ \A x \in Todo : Calling(x) => x.e = e
    BY <1>0, <1>1, <1>3, <1>4, <1>6
  <2> QED
    BY <1>1, <1>2, <1>5, <2>1, <2>2, OneCalled
<1> QED
  BY <1>0, <1>1, <1>6, <1>7 DEF CallsApart

\* Taking the lock: what runs from now is on.
LEMMA AcquireCalls ==
    ASSUME Steady, CallsApart, Acquire
    PROVE  CallsApart'
<1>0. PICK t : t = Head(queue)
  OBVIOUS
<1>1. /\ t \in TaskType /\ t.e \in Entry /\ t \in Waiting /\ \A u \in Waiting' : u \in Waiting
      /\ hub' = hub /\ object' = object /\ starts' = starts
      /\ \/ UNCHANGED entry
         \/ t.do = "started" /\ IsItsStart(t) /\ Becomes(t.e, Ended(entry[t.e], t.ok))
  BY <1>0, AcquireTakes DEF Steady
<1>2. \A x \in Todo \cup Todo' : ~ Calling(x)
  BY QuietAcquire
<1>3. CASE UNCHANGED entry
  BY <1>1, <1>2, <1>3, CallsStillApart DEF IsStarted
<1>4. CASE t.do = "started" /\ IsItsStart(t) /\ Becomes(t.e, Ended(entry[t.e], t.ok))
  <2> DEFINE x == Ended(entry[t.e], t.ok)
  <2>1. /\ x.task = NoTask
        /\ x.state = entry[t.e].state \/ (x.state = "running" /\ t.ok)
    BY <1>1, EndedTyped DEF Steady, TaskType
  <2>2. \A f \in Entry : entry'[f] = IF f = t.e THEN x ELSE entry[f]
    BY <1>4 DEF Becomes
  <2> HIDE DEF x
  <2>3. IsStartOf(t, t.e, entry[t.e].task) /\ IsStarted(t.e)
    <3>1. t.n \in Tasks /\ entry[t.e].task = t.n
      BY <1>1, <1>4 DEF Steady, StartsApart, IsItsStart
    <3>2. t.n # NoTask
      BY <3>1, WaitingTyped DEF Steady
    <3> QED
      BY <1>1, <1>4, <3>1, <3>2 DEF Steady, StartsApart, IsStarted, Started, IsStartOf
  <2>4. t.ok => CallOf(t.e) = "on"
    BY <1>1, <2>3 DEF CallsApart
  <2>5. \A f \in Entry : /\ entry'[f].state \in Started <=> IsStarted(f)
                         /\ entry'[f].state = "running" =>
                               entry[f].state = "running" \/ CallOf(f) = "on"
                         /\ entry'[f].task = entry[f].task \/ entry'[f].task = NoTask
    BY <2>1, <2>2, <2>3, <2>4 DEF IsStarted, Started
  <2> QED
    BY <1>1, <1>2, <2>5, CallsStillApart
<1> QED
  BY <1>1, <1>3, <1>4

\* The calls still match when only the starts, the tasks and the peripherals changed.
LEMMA CallsApartAgain ==
    ASSUME CallsApart, entry' = entry,
           \A q \in starts' : /\ q.at = "spawned" => CallOf(q.e)' = "off"
                              /\ q.at = "in" => CallOf(q.e)' = "starting",
           \A t \in Waiting' : IsStartOf(t, t.e, entry'[t.e].task) =>
               (t.ok /\ CallOf(t.e)' = "on") \/ (~ t.ok /\ CallOf(t.e)' = "starting"),
           \A p \in Peripherals : object'[p].call # "off" => \E l \in Lives : IsStarted(<<p, l>>),
           \A f \in Entry : entry[f].state = "running" => CallOf(f)' \in {"on", "asked", "stopping"},
           \A p \in Peripherals :
              /\ object'[p].call = "asked" => \E x \in Todo' : x.do = "hook" /\ x.e[1] = p
              /\ object'[p].call = "stopping" => \E x \in Todo' : x.do = "stopping" /\ x.e[1] = p,
           \A x \in Todo' : /\ x.do = "hook" => CallOf(x.e)' = "asked"
                            /\ x.do = "stopping" => CallOf(x.e)' = "stopping"
    PROVE  CallsApart'
<1>1. \A e, f \in Entry : IsStarted(e) /\ IsStarted(f) /\ e[1] = f[1] => e = f
  BY DEF CallsApart
<1>2. \A e : IsStarted(e)' <=> IsStarted(e)
  BY DEF IsStarted
<1> QED
  BY <1>1, <1>2 DEF CallsApart, Lives

\* start is called on one that is off.
LEMMA BeginStartCalls ==
    ASSUME Steady, CallsApart, NEW s \in starts, BeginStart(s)
    PROVE  CallsApart' /\ CallOf(s.e) = "off"
<1>1. /\ s.at = "spawned" /\ CallOf(s.e) = "off" /\ s.e \in Entry /\ s.n # NoTask
      /\ entry[s.e].task = s.n /\ entry[s.e].state = "starting"
  BY WaitingTyped DEF BeginStart, CallsApart, Steady, StartsApart
<1>2. IsStarted(s.e) /\ s.e[1] \in Peripherals
  BY <1>1 DEF IsStarted, Started, Entry
<1> DEFINE r == [s EXCEPT !.at = "in"]
<1>3. /\ starts' = (starts \ {s}) \cup {r} /\ r.e = s.e /\ r.n = s.n /\ r.at = "in"
      /\ UNCHANGED <<hub, entry, queue, work>>
  BY NewStartsTyped DEF BeginStart, Steady
<1> HIDE DEF r
<1>4. \A p \in Peripherals : object'[p].call = IF p = s.e[1] THEN "starting" ELSE object[p].call
  <2>1. object \in [Peripherals -> ObjectType]
    BY ObjectTyped DEF Steady
  <2> QED
    BY <1>2, <2>1 DEF BeginStart
<1>5. Waiting' = Waiting /\ Todo' = Todo
  BY <1>3 DEF Waiting, Todo
<1>6. \A f \in Entry : CallOf(f)' = IF f[1] = s.e[1] THEN "starting" ELSE CallOf(f)
  BY <1>4 DEF CallOf, Entry
<1>7. \A q \in starts : q.e \in Entry /\ (q # s /\ q.at # "left" => q.e[1] # s.e[1])
  <2>1. \A q \in starts : q.e \in Entry
    BY WaitingTyped DEF Steady
  <2>2. \A q \in starts : q.e[1] = s.e[1] /\ q.at # "left" => q.e = s.e /\ q.n = s.n
    BY <1>1, <1>2, WhoseStart
  <2> QED
    BY <2>1, <2>2 DEF Steady, StartsApart
<1>8. \A t \in Waiting : t.e \in Entry /\ (IsStartOf(t, t.e, entry[t.e].task) => t.e[1] # s.e[1])
  <2>1. \A t \in Waiting : t.e \in Entry /\ ~ IsStartOf(t, s.e, s.n)
    BY WaitingTyped DEF Steady, StartsApart
  <2>2. \A t \in Waiting : t.e[1] = s.e[1] /\ IsStartOf(t, t.e, entry[t.e].task) =>
            t.e = s.e /\ t.n = s.n
    BY <1>1, <1>2, WhoseStart
  <2> QED
    BY <1>1, <2>1, <2>2
<1>9. \A q \in starts' : /\ q.at = "spawned" => CallOf(q.e)' = "off"
                         /\ q.at = "in" => CallOf(q.e)' = "starting"
  BY <1>1, <1>3, <1>6, <1>7 DEF CallsApart
<1>10. \A t \in Waiting' : IsStartOf(t, t.e, entry'[t.e].task) =>
            (t.ok /\ CallOf(t.e)' = "on") \/ (~ t.ok /\ CallOf(t.e)' = "starting")
  BY <1>3, <1>5, <1>6, <1>8 DEF CallsApart
<1>11. \A p \in Peripherals : object'[p].call # "off" => \E l \in Lives : IsStarted(<<p, l>>)
  <2>1. s.e = <<s.e[1], s.e[2]>> /\ s.e[2] \in Lives
    BY <1>1, EntryOf DEF Steady
  <2> QED
    BY <1>2, <1>4, <2>1 DEF CallsApart
<1>12. \A f \in Entry : entry[f].state = "running" => CallOf(f)' \in {"on", "asked", "stopping"}
  <2>1. \A f \in Entry : entry[f].state = "running" => f[1] # s.e[1]
    BY <1>1, <1>2, WhoseStart DEF IsStarted, Started
  <2> QED
    BY <1>6, <2>1 DEF CallsApart
<1>13. \A p \in Peripherals :
          /\ object'[p].call = "asked" => \E x \in Todo' : x.do = "hook" /\ x.e[1] = p
          /\ object'[p].call = "stopping" => \E x \in Todo' : x.do = "stopping" /\ x.e[1] = p
  BY <1>4, <1>5 DEF CallsApart
<1>14. \A x \in Todo' : /\ x.do = "hook" => CallOf(x.e)' = "asked"
                        /\ x.do = "stopping" => CallOf(x.e)' = "stopping"
  <2>1. \A x \in Todo : x.e \in Entry
    BY TodoTyped DEF Steady
  <2> QED
    BY <1>1, <1>5, <1>6, <2>1 DEF CallsApart, CallOf
<1>15. CallsApart'
  BY <1>3, <1>9, <1>10, <1>11, <1>12, <1>13, <1>14, CallsApartAgain
<1> QED
  BY <1>1, <1>15

\* When it ends, its peripheral is on, unless it was left behind.
LEMMA EndStartCalls ==
    ASSUME Steady, CallsApart, NEW s \in starts, NEW ok \in BOOLEAN, EndStart(s, ok)
    PROVE  /\ CallsApart'
           /\ \/ object' = object
              \/ CallOf(s.e) = "starting" /\ object' = [object EXCEPT ![s.e[1]].call = "on"]
<1>1. PICK t \in TaskType : IsStartOf(t, s.e, s.n) /\ t.ok = ok /\ Waiting' = Waiting \cup {t}
  BY EndStartStarts DEF Steady
<1>2. /\ UNCHANGED <<hub, entry, work>> /\ starts' = starts \ {s} /\ s.at \in {"in", "left"}
      /\ s.e \in Entry /\ s.n # NoTask /\ t.e = s.e /\ t.n = s.n /\ t.do = "started"
      /\ s.e[1] \in Peripherals
  BY <1>1, WaitingTyped DEF EndStart, Steady, IsStartOf, Entry
<1>3. Todo' = Todo
  BY <1>2 DEF Todo
<1>4. CASE s.at = "left"
  <2>1. entry[s.e].task # s.n
    BY <1>4 DEF Steady, StartsApart
  <2>2. object' = object /\ \A q \in starts' : q \in starts \/ q.at = "left"
    BY <1>2, <1>4 DEF EndStart
  <2>3. \A u \in Waiting' : IsStartOf(u, u.e, entry'[u.e].task) =>
               u \in Waiting /\ entry'[u.e].task = entry[u.e].task
    BY <1>1, <1>2, <2>1 DEF IsStartOf
  <2>4. \A u \in Waiting' : u.do = "started" => u.n \in Tasks
    BY <1>1, <1>2, WaitingTyped DEF Steady, StartsApart
  <2> QED
    BY <1>2, <1>3, <2>2, <2>3, <2>4, CallsStayApart DEF IsStarted
<1>5. CASE s.at = "in"
  <2>1. /\ CallOf(s.e) = "starting" /\ entry[s.e].task = s.n /\ entry[s.e].state = "starting"
    BY <1>2, <1>5 DEF CallsApart, Steady, StartsApart
  <2>2. IsStarted(s.e)
    BY <2>1 DEF IsStarted, Started
  <2>3. object' = (IF ok THEN [object EXCEPT ![s.e[1]].call = "on"] ELSE object)
    BY <1>5 DEF EndStart
  <2> DEFINE c == IF ok THEN "on" ELSE "starting"
  <2>4. \A p \in Peripherals : object'[p].call = IF p = s.e[1] THEN c ELSE object[p].call
    <3>1. object \in [Peripherals -> ObjectType] /\ "on" \in CallNames
      BY ObjectTyped DEF Steady, CallNames
    <3> QED
      BY <1>2, <2>1, <2>3, <3>1, CallBecomes DEF CallOf
  <2>5. c \in {"on", "starting"} /\ c = IF ok THEN "on" ELSE "starting"
    OBVIOUS
  <2> HIDE DEF c
  <2>6. \A f \in Entry : CallOf(f)' = IF f[1] = s.e[1] THEN c ELSE CallOf(f)
    BY <2>4 DEF CallOf, Entry
  <2>7. \A q \in starts' : q.e \in Entry /\ q \in starts /\ (q.at # "left" => q.e[1] # s.e[1])
    <3>1. \A q \in starts' : q.e \in Entry /\ q \in starts /\ q # s
      BY <1>2, WaitingTyped DEF Steady
    <3>2. \A q \in starts : q.e[1] = s.e[1] /\ q.at # "left" => q.e = s.e /\ q.n = s.n
      BY <1>2, <2>1, <2>2, WhoseStart
    <3> QED
      BY <3>1, <3>2 DEF Steady, StartsApart
  <2>8. \A u \in Waiting : u.e \in Entry /\ (IsStartOf(u, u.e, entry[u.e].task) => u.e[1] # s.e[1])
    <3>1. \A u \in Waiting : u.e \in Entry /\ ~ IsStartOf(u, s.e, s.n)
      BY WaitingTyped DEF Steady, StartsApart
    <3>2. \A u \in Waiting : u.e[1] = s.e[1] /\ IsStartOf(u, u.e, entry[u.e].task) =>
            u.e = s.e /\ u.n = s.n
      BY <1>2, <2>1, <2>2, WhoseStart
    <3> QED
      BY <2>1, <3>1, <3>2
  <2>9. \A q \in starts' : /\ q.at = "spawned" => CallOf(q.e)' = "off"
                           /\ q.at = "in" => CallOf(q.e)' = "starting"
    BY <2>6, <2>7 DEF CallsApart
  <2>10. \A u \in Waiting' : IsStartOf(u, u.e, entry'[u.e].task) =>
            (u.ok /\ CallOf(u.e)' = "on") \/ (~ u.ok /\ CallOf(u.e)' = "starting")
    BY <1>1, <1>2, <2>5, <2>6, <2>8 DEF CallsApart
  <2>11. \A p \in Peripherals : object'[p].call # "off" => \E l \in Lives : IsStarted(<<p, l>>)
    <3>1. s.e = <<s.e[1], s.e[2]>> /\ s.e[2] \in Lives
      BY <1>2, EntryOf DEF Steady
    <3> QED
      BY <2>2, <2>4, <3>1 DEF CallsApart
  <2>12. \A f \in Entry : entry[f].state = "running" => CallOf(f)' \in {"on", "asked", "stopping"}
    <3>1. \A f \in Entry : entry[f].state = "running" => f[1] # s.e[1]
      BY <1>2, <2>1, <2>2, WhoseStart DEF IsStarted, Started
    <3> QED
      BY <2>6, <3>1 DEF CallsApart
  <2>13. \A p \in Peripherals :
          /\ object'[p].call = "asked" => \E x \in Todo' : x.do = "hook" /\ x.e[1] = p
          /\ object'[p].call = "stopping" => \E x \in Todo' : x.do = "stopping" /\ x.e[1] = p
    BY <1>3, <2>4, <2>5 DEF CallsApart
  <2>14. \A x \in Todo' : /\ x.do = "hook" => CallOf(x.e)' = "asked"
                          /\ x.do = "stopping" => CallOf(x.e)' = "stopping"
    <3>1. \A x \in Todo : x.e \in Entry
      BY TodoTyped DEF Steady
    <3> QED
      BY <1>3, <2>1, <2>6, <3>1 DEF CallsApart, CallOf
  <2>15. CallsApart'
    BY <1>2, <2>9, <2>10, <2>11, <2>12, <2>13, <2>14, CallsApartAgain
  <2> QED
    BY <2>1, <2>3, <2>15
<1> QED
  BY <1>2, <1>4, <1>5

\* A pass starts what nothing else of its peripheral runs beside.
LEMMA EndPassCalls ==
    ASSUME Steady, CallsApart, NoneForgotten, EndPass
    PROVE  CallsApart'
<1>1. \A e \in Entry : entry[e].task = NoTask => Tasks \ StartTasks(e) # {}
  BY DEF Steady, StartsApart
<1>2. PICK S \in SUBSET Entry :
              /\ \A e \in S : /\ e \in CurrentEntries /\ entry[e].state = "waiting"
                              /\ entry[e].task = NoTask =>
                                    NewTask(e) \in Tasks /\ NewTask(e) \notin StartTasks(e)
              /\ \A e \in Entry :
                    IF e \notin S THEN entry'[e] = entry[e]
                    ELSE entry'[e].state = "starting" /\ entry'[e].task = NewTask(e)
              /\ starts' = starts \cup {[e |-> e, n |-> NewTask(e), at |-> "spawned"] : e \in S}
  <2>1. TypeOK /\ WorkInOrder
    BY DEF Steady
  <2> QED
    BY <1>1, <2>1, EndPassDoes
<1>3. UNCHANGED <<hub, queue, object>>
  BY DEF EndPass
<1>4. Waiting' = Waiting /\ \A e : CallOf(e)' = CallOf(e)
  BY <1>3 DEF Waiting, CallOf
<1>5. /\ work # <<>> /\ Head(work).do = "start" /\ Rest = {}
      /\ \A x \in Todo' : ~ Calling(x)
      /\ \A x \in Todo : ~ Calling(x)
  BY EndPassWork, QuietPasses DEF Steady
<1>6. \A e \in Entry : ~ ToStop(e)
  <2>1. Todo = {Head(work)} /\ Head(work).do \notin Stops
    BY <1>5, HeadFits DEF Steady, Stops
  <2> QED
    BY <2>1 DEF ToStop
<1>7. \A e \in Entry : IsStarted(e) => IsCurrent(e)
  BY <1>6 DEF NoneForgotten, StopsLater
<1>8. \A e \in S : e \in Entry /\ IsCurrent(e) /\ ~ IsStarted(e) /\ entry[e].task = NoTask
  BY <1>2, CurrentTyped DEF Steady, StartsApart, IsStarted, Started
<1>9. \A e, f \in Entry : IsCurrent(e) /\ IsCurrent(f) /\ e[1] = f[1] => e = f
  BY EntryOf DEF IsCurrent, Steady
<1>10. \A e \in S : CallOf(e) = "off"
  <2>1. SUFFICES ASSUME NEW e \in S, CallOf(e) # "off" PROVE FALSE
    OBVIOUS
  <2>2. e[1] \in Peripherals
    BY <1>8 DEF Entry
  <2>3. PICK l \in Lives : IsStarted(<<e[1], l>>)
    BY <2>1, <2>2 DEF CallsApart, CallOf
  <2>4. <<e[1], l>> \in Entry
    BY <2>2 DEF Entry
  <2>5. <<e[1], l>> = e
    BY <1>7, <1>8, <1>9, <2>3, <2>4
  <2> QED
    BY <1>8, <2>3, <2>5
<1>11. \A q \in starts' : /\ q.at = "spawned" => CallOf(q.e)' = "off"
                          /\ q.at = "in" => CallOf(q.e)' = "starting"
  <2>1. \A q \in starts' : q \in starts \/ (q.e \in S /\ q.at = "spawned")
    BY <1>2
  <2> QED
    BY <1>4, <1>10, <2>1 DEF CallsApart
<1>12. \A t \in Waiting' : IsStartOf(t, t.e, entry'[t.e].task) =>
               CallOf(t.e)' = IF t.ok THEN "on" ELSE "starting"
  <2>1. \A t \in Waiting : t.e \in Entry /\ t.e \in S => ~ IsStartOf(t, t.e, entry'[t.e].task)
    <3>1. SUFFICES ASSUME NEW t \in Waiting, t.e \in S, IsStartOf(t, t.e, entry'[t.e].task)
                   PROVE  FALSE
      OBVIOUS
    <3>2. entry'[t.e].task = NewTask(t.e) /\ NewTask(t.e) \notin StartTasks(t.e)
      BY <1>2, <1>8, <3>1
    <3>3. t.n \in StartTasks(t.e)
      BY <3>1, StartTasksIs DEF IsStartOf
    <3> QED
      BY <3>1, <3>2, <3>3 DEF IsStartOf
  <2>2. \A t \in Waiting : t.e \in Entry
    BY WaitingTyped DEF Steady
  <2>3. \A t \in Waiting : t.e \notin S => entry'[t.e] = entry[t.e]
    BY <1>2, <2>2
  <2> QED
    BY <1>4, <2>1, <2>2, <2>3 DEF CallsApart
<1>13. \A e \in Entry : /\ e \notin S => entry'[e] = entry[e]
                        /\ e \in S => entry'[e].state = "starting"
  BY <1>2
<1>14. \A e, f \in Entry :
          entry'[e].state \in Started /\ entry'[f].state \in Started /\ e[1] = f[1] => e = f
  <2>1. \A e \in Entry : entry'[e].state \in Started => IsCurrent(e)
    BY <1>7, <1>8, <1>13 DEF IsStarted
  <2> QED
    BY <1>9, <2>1
<1>15. \A p \in Peripherals : object'[p].call # "off" =>
            \E l \in Lives : entry'[<<p, l>>].state \in Started
  <2>1. ASSUME NEW p \in Peripherals, object'[p].call # "off"
        PROVE  \E l \in Lives : entry'[<<p, l>>].state \in Started
    <3>1. PICK l \in Lives : IsStarted(<<p, l>>)
      BY <1>3, <2>1 DEF CallsApart
    <3>2. <<p, l>> \in Entry
      BY DEF Entry
    <3> QED
      BY <1>8, <1>13, <3>1, <3>2 DEF IsStarted
  <2> QED
    BY <2>1
<1>16. \A e \in Entry : entry'[e].state = "running" => CallOf(e)' \in {"on", "asked", "stopping"}
  <2>1. \A e \in Entry : entry'[e].state = "running" => entry[e].state = "running"
    BY <1>13
  <2> QED
    BY <1>4, <2>1 DEF CallsApart
<1>17. \A p \in Peripherals : object'[p].call \notin {"asked", "stopping"}
  BY <1>3, <1>5 DEF CallsApart, Calling
<1> QED
  BY <1>5, <1>11, <1>12, <1>14, <1>15, <1>16, <1>17 DEF CallsApart, IsStarted, Lives, Calling

\* Every step leaves the calls matched.
LEMMA CallsApartStays ==
    ASSUME Steady, CallsApart, NoneForgotten, Next
    PROVE  CallsApart'
BY AcquireCalls, FreedCalls, MarkedCalls, StateCalls, CancelStartCalls, CallStopCalls, EndStopCalls,
   BeginHookCalls, EndHookCalls, EndPassCalls, BeginStartCalls, EndStartCalls, CalledCalls
   DEF Next, Holder, Begins, Ends

\* Every step makes at most one call, and that in turn.
LEMMA CallsKeepTurn ==
    ASSUME Steady, CallsApart, NoneForgotten, Next
    PROVE  Calls!Next \/ \A p \in Peripherals : object'[p].call = object[p].call
<1> DEFINE call == [p \in Peripherals |-> object[p].call]
<1> DEFINE next == [p \in Peripherals |-> object'[p].call]
<1>1. ASSUME NEW p \in Peripherals, NEW from, NEW to,
             object[p].call \in from,
             \A q \in Peripherals : object'[q].call = IF q = p THEN to ELSE object[q].call
      PROVE  call[p] \in from /\ next = [call EXCEPT ![p] = to]
  BY <1>1
<1>2. object \in [Peripherals -> ObjectType] /\ {"off", "starting", "on", "asked", "stopping"} = CallNames
  BY ObjectTyped DEF Steady, CallNames
<1>3. CASE BeginHook
  <2>1. PICK p \in Peripherals : p = Head(work).e[1]
    BY <1>3, BeginHookWork DEF Steady, Entry
  <2>2. /\ object[p].call \in {"on"}
        /\ \A q \in Peripherals : object'[q].call = IF q = p THEN "asked" ELSE object[q].call
    BY <1>3, <2>1, BeginHookCalls, BeginHookDoes DEF Steady, CallOf
  <2>3. Calls!Ask(p)
    BY <1>1, <2>2 DEF Calls!Ask, Calls!Becomes
  <2> QED
    BY <2>3 DEF Calls!Next
<1>4. CASE EndHook
  <2>1. PICK p \in Peripherals : p = Head(work).e[1]
    BY <1>4, EndHookWork DEF Steady, Entry
  <2>2. object[p].call \in {"asked"} /\ object' = [object EXCEPT ![p].call = "on"]
    BY <1>4, <2>1, EndHookCalls DEF EndHook, CallOf
  <2>3. \A q \in Peripherals : object'[q].call = IF q = p THEN "on" ELSE object[q].call
    BY <1>2, <2>2, CallBecomes
  <2>4. Calls!Answer(p)
    <3>1. object[p].call \in {"asked"}
      BY <2>2
    <3> QED
      BY <1>1, <2>3, <3>1 DEF Calls!Answer, Calls!Becomes
  <2> QED
    BY <2>4 DEF Calls!Next
<1>5. CASE CallStop
  <2>1. PICK p \in Peripherals : p = Head(work).e[1]
    BY <1>5, CallStopDoes DEF Steady, Entry
  <2>2. object[p].call \in {"off", "starting", "on"} /\ object' = [object EXCEPT ![p].call = "stopping"]
    BY <1>5, <2>1, CallStopCalls, CallStopDoes DEF CallOf, Steady
  <2>3. \A q \in Peripherals : object'[q].call = IF q = p THEN "stopping" ELSE object[q].call
    BY <1>2, <2>2, CallBecomes
  <2>4. Calls!Stop(p)
    <3>1. object[p].call \in {"off", "starting", "on"}
      BY <2>2
    <3> QED
      BY <1>1, <2>3, <3>1 DEF Calls!Stop, Calls!Becomes
  <2> QED
    BY <2>4 DEF Calls!Next
<1>6. CASE EndStop
  <2>1. CASE UNCHANGED object
    BY <2>1
  <2>2. CASE Head(work).do = "stopping" /\ object' = [object EXCEPT ![Head(work).e[1]].call = "off"]
    <3>1. Head(work) \in Todo /\ Head(work).e \in Entry
      BY <1>6, EndStopDoes, HeadFits DEF Steady
    <3>2. PICK p \in Peripherals : p = Head(work).e[1]
      BY <3>1 DEF Entry
    <3>3. object[p].call \in {"stopping"}
      BY <2>2, <3>1, <3>2 DEF CallsApart, CallOf
    <3>4. \A q \in Peripherals : object'[q].call = IF q = p THEN "off" ELSE object[q].call
      <4>1. object' = [object EXCEPT ![p].call = "off"] /\ "off" \in CallNames
        BY <1>2, <2>2, <3>2
      <4> QED
        BY <1>2, <4>1, CallBecomes
    <3>5. Calls!Stopped(p)
      BY <1>1, <3>3, <3>4 DEF Calls!Stopped, Calls!Becomes
    <3> QED
      BY <3>5 DEF Calls!Next
  <2> QED
    BY <1>6, <2>1, <2>2, EndStopDoes DEF Steady
<1>7. CASE Begins
  <2>1. PICK s \in starts : BeginStart(s)
    BY <1>7 DEF Begins
  <2>2. PICK p \in Peripherals : p = s.e[1]
    BY WaitingTyped DEF Steady, Entry
  <2>3. /\ object[p].call \in {"off"}
        /\ \A q \in Peripherals : object'[q].call = IF q = p THEN "starting" ELSE object[q].call
    BY <1>2, <2>1, <2>2, BeginStartCalls DEF CallOf, BeginStart
  <2>4. Calls!Start(p)
    BY <1>1, <2>3 DEF Calls!Start, Calls!Becomes
  <2> QED
    BY <2>4 DEF Calls!Next
<1>8. CASE Ends
  <2>1. PICK s \in starts, ok \in BOOLEAN : EndStart(s, ok)
    BY <1>8 DEF Ends
  <2>2. PICK p \in Peripherals : p = s.e[1]
    BY WaitingTyped DEF Steady, Entry
  <2>3. CASE object[p].call \in {"starting"} /\ object' = [object EXCEPT ![p].call = "on"]
    <3>1. \A q \in Peripherals : object'[q].call = IF q = p THEN "on" ELSE object[q].call
      BY <1>2, <2>3, CallBecomes
    <3>2. Calls!Started(p)
      <4>1. object[p].call \in {"starting"}
        BY <2>3
      <4> QED
        BY <1>1, <3>1, <4>1 DEF Calls!Started, Calls!Becomes
    <3> QED
      BY <3>2 DEF Calls!Next
  <2> QED
    BY <2>1, <2>2, <2>3, EndStartCalls DEF CallOf
<1>9. CASE Called \/ Boot \/ Retry
  BY <1>9, CallsDo DEF Steady
<1>10. CASE Acquire \/ SettleChange \/ Closed \/ LetStart \/ CountFailure \/ CancelStart \/ BeginPass \/ EndPass
  BY <1>10 DEF Acquire, SettleChange, Closed, LetStart, CountFailure, CancelStart, BeginPass, EndPass
<1>11. CASE \/ Revive \/ TellOrNote \/ TellMissed \/ TakeTold \/ NoChange \/ StopDisabled
            \/ StopUsers \/ DropUnwanted \/ BeginDeliver \/ Deliver
  BY <1>11, MarksDo DEF Steady
<1> QED
  BY <1>3, <1>4, <1>5, <1>6, <1>7, <1>8, <1>9, <1>10, <1>11 DEF Next, Holder

-----------------------------------------------------------------------------
(* Nobody is forgotten. *)

\* Where the bringers are the owner, what is given is what is there.
LEMMA GivenAreThere ==
    ASSUME hub \in Hubs, ClosesWhole, "close" \in hub.doings,
           NEW owned \in SUBSET Peripherals, NEW listed
    PROVE  PresentOf(owned, listed) = owned /\ "remove" \notin hub.doings
<1> DEFINE F(g) == [p \in Peripherals |->
                       IF hub.bringer[p] = Owner THEN p \in owned
                       ELSE p \in listed /\ g[hub.bringer[p]] /\ IsServing(hub.bringer[p])]
           all == [p \in Peripherals |-> p \in owned]
           isThere == CHOOSE g : g = F(g)
<1>1. \A p \in Peripherals : hub.bringer[p] = Owner
  BY DEF ClosesWhole
<1>2. \A g : F(g) = all
  BY <1>1
<1>3. isThere = all
  <2>1. all = F(all)
    BY <1>2
  <2>2. isThere = F(isThere)
    BY <2>1
  <2> QED
    BY <1>2, <2>2
<1>4. PresentOf(owned, listed) = {p \in Peripherals : isThere[p]}
  BY DEF PresentOf
<1> HIDE DEF isThere
<1>5. PresentOf(owned, listed) = owned
  BY <1>3, <1>4
<1> QED
  BY <1>5 DEF ClosesWhole

\* The queue changes and still ends with the close.
LEMMA LastWhenKept ==
    ASSUME TypeOK, ClosesLast, running' = running, NEW K, queue' = Kept(queue, K),
           \A t \in Waiting : t.do = "close" => t \in K
    PROVE  ClosesLast' /\ (CloseWaits => CloseWaits') /\ (CloseWaits' => CloseWaits)
<1>1. queue \in Seq(TaskType)
  BY DEF TypeOK
<1>2. PICK g \in [DOMAIN queue' -> DOMAIN queue] :
         /\ \A i \in DOMAIN queue' : queue'[i] = queue[g[i]]
         /\ \A i, j \in DOMAIN queue' : i < j => g[i] < g[j]
         /\ \A k \in DOMAIN queue : queue[k] \in K => \E i \in DOMAIN queue' : g[i] = k
  BY <1>1, KeptIs
<1>3. queue' \in Seq(TaskType) /\ Waiting' = {t \in Waiting : t \in K}
  BY KeptWaits
<1>4. ASSUME ~ running, NEW i \in DOMAIN queue', queue'[i].do \in {"boot", "refresh"}
      PROVE  \E j \in DOMAIN queue' : i < j /\ queue'[j].do = "close"
  <2>1. g[i] \in DOMAIN queue /\ queue[g[i]].do \in {"boot", "refresh"}
    BY <1>2, <1>4
  <2>2. PICK k \in DOMAIN queue : g[i] < k /\ queue[k].do = "close"
    BY <1>4, <2>1 DEF ClosesLast
  <2>3. queue[k] \in Waiting
    BY <2>2 DEF Waiting, ToSet
  <2>4. PICK j \in DOMAIN queue' : g[j] = k
    BY <1>2, <2>2, <2>3
  <2>5. queue'[j].do = "close"
    BY <1>2, <2>2, <2>4
  <2>6. DOMAIN queue \subseteq Nat /\ DOMAIN queue' \subseteq Nat
    BY <1>1, <1>3
  <2>7. ~ (g[j] < g[i]) /\ i # j
    BY <2>1, <2>2, <2>4, <2>6
  <2>8. i < j
    BY <1>2, <2>6, <2>7
  <2> QED
    BY <2>5, <2>8
<1>5. ClosesLast'
  BY <1>4 DEF ClosesLast
<1> QED
  BY <1>3, <1>5 DEF CloseWaits

\* One more task waiting leaves a close last.
LEMMA LastWhenAppended ==
    ASSUME TypeOK, NEW t \in TaskType, queue' = Append(queue, t),
           \/ running'
           \/ t.do = "close"
           \/ ClosesLast /\ running' = running /\ t.do \notin {"boot", "refresh"}
    PROVE  ClosesLast' /\ Waiting' = Waiting \cup {t}
<1>1. queue \in Seq(TaskType)
  BY DEF TypeOK
<1>2. /\ Len(queue') = Len(queue) + 1 /\ Len(queue) \in Nat
      /\ DOMAIN queue' = 1..(Len(queue) + 1) /\ DOMAIN queue = 1..Len(queue)
      /\ \A i \in DOMAIN queue : queue'[i] = queue[i]
      /\ queue'[Len(queue) + 1] = t
  BY <1>1
<1>3. ClosesLast'
  <2>1. CASE t.do = "close"
    <3>1. \A i \in DOMAIN queue' : queue'[i].do \in {"boot", "refresh"} => i < Len(queue) + 1
      BY <1>2, <2>1
    <3> QED
      BY <1>2, <2>1, <3>1 DEF ClosesLast
  <2>2. CASE ClosesLast /\ running' = running /\ t.do \notin {"boot", "refresh"}
    <3>1. \A i \in DOMAIN queue' : queue'[i].do \in {"boot", "refresh"} => i \in DOMAIN queue
      BY <1>2, <2>2
    <3>2. DOMAIN queue \subseteq DOMAIN queue'
      BY <1>2
    <3> QED
      BY <1>2, <2>2, <3>1, <3>2 DEF ClosesLast
  <2> QED
    BY <2>1, <2>2 DEF ClosesLast
<1> QED
  BY <1>1, <1>3, SetOfAppend DEF Waiting

\* So does the first one gone.
LEMMA LastWhenTaken ==
    ASSUME TypeOK, ClosesLast, running' = running, queue # <<>>, queue' = Tail(queue)
    PROVE  /\ ClosesLast'
           /\ ~ running /\ Head(queue).do \in {"boot", "refresh"} => CloseWaits'
<1>1. queue \in Seq(TaskType) /\ Tail(queue) \in Seq(TaskType)
  BY DEF TypeOK
<1>2. /\ Len(queue') = Len(queue) - 1 /\ Len(queue) \in Nat \ {0}
      /\ DOMAIN queue' = 1..(Len(queue) - 1) /\ DOMAIN queue = 1..Len(queue)
      /\ \A i \in DOMAIN queue' : queue'[i] = queue[i + 1]
      /\ Head(queue) = queue[1]
  BY <1>1, SetOfTail
<1>3. ASSUME ~ running, NEW i \in DOMAIN queue, queue[i].do \in {"boot", "refresh"}
      PROVE  \E j \in DOMAIN queue' : i < j + 1 /\ queue'[j].do = "close"
  <2>1. PICK k \in DOMAIN queue : i < k /\ queue[k].do = "close"
    BY <1>3 DEF ClosesLast
  <2>2. k - 1 \in DOMAIN queue' /\ i < (k - 1) + 1 /\ (k - 1) + 1 = k
    BY <1>2, <2>1
  <2>3. queue'[k - 1].do = "close"
    BY <1>2, <2>1, <2>2
  <2> QED
    BY <2>2, <2>3
<1>4. ASSUME ~ running, NEW i \in DOMAIN queue', queue'[i].do \in {"boot", "refresh"}
      PROVE  \E j \in DOMAIN queue' : i < j /\ queue'[j].do = "close"
  <2>1. i + 1 \in DOMAIN queue /\ queue[i + 1].do \in {"boot", "refresh"}
    BY <1>2, <1>4
  <2>2. PICK j \in DOMAIN queue' : i + 1 < j + 1 /\ queue'[j].do = "close"
    BY <1>3, <1>4, <2>1
  <2>3. i < j
    BY <1>2, <2>2
  <2> QED
    BY <2>2, <2>3
<1>5. ~ running /\ Head(queue).do \in {"boot", "refresh"} => CloseWaits'
  <2>1. 1 \in DOMAIN queue
    BY <1>2
  <2> QED
    BY <1>2, <1>3, <2>1 DEF CloseWaits, Waiting, ToSet
<1> QED
  BY <1>4, <1>5 DEF ClosesLast

\* What forgets no entry: it starts none, keeps the stops of those that stay started, and
\* neither passes nor closes anew.
LEMMA NoneForgottenAgain ==
    ASSUME NoneForgotten, hub' = hub, running' = running,
           \A e \in Entry : entry'[e].state \in Started =>
               /\ IsStarted(e)
               /\ IsCurrent(e) => IsCurrent(e)' \/ ToStop(e)'
               /\ ToStop(e) => ToStop(e)',
           Closes' <=> Closes,
           (\E x \in Todo' : x.do \in Passes) => \E x \in Todo : x.do \in Passes,
           ClosesLast', CloseWaits' <=> CloseWaits,
           "close" \in hub.doings => Known' \subseteq given'
    PROVE  NoneForgotten'
<1>1. \A e \in Entry : IsStarted(e)' => IsStarted(e)
  BY DEF IsStarted
<1>2. StopsLater'
  BY <1>1 DEF NoneForgotten, StopsLater, IsStarted
<1>3. ClosesAll'
  BY <1>1 DEF NoneForgotten, ClosesAll, IsStarted
<1>4. WillClose'
  BY <1>1 DEF NoneForgotten, WillClose
<1>5. PassesFirst'
  BY DEF NoneForgotten, PassesFirst
<1> QED
  BY <1>2, <1>3, <1>4, <1>5 DEF NoneForgotten

\* A step of the holder's work that changes neither the queue nor what is known.
LEMMA WorkForgetsNone ==
    ASSUME Steady, NoneForgotten, work # <<>>,
           UNCHANGED <<hub, known, given, queue, running>>,
           \A e \in Entry : entry'[e].state \in Started =>
               /\ IsStarted(e)
               /\ Head(work).do \in Stops /\ Head(work).e = e => ToStop(e)',
           \A x \in Rest : x.do \in Stops \cup {"closed"} => x \in Todo',
           Head(work).do # "closed",
           \A x \in Todo' : x.do \in Passes \cup {"closed"} =>
               x \in Rest \/ (Head(work).do \in Passes /\ x.do # "closed")
    PROVE  NoneForgotten'
<1>1. Todo = {Head(work)} \cup Rest
  BY HeadFits DEF Steady
<1>2. \A e \in Entry : entry'[e].state \in Started =>
               /\ IsStarted(e)
               /\ IsCurrent(e) => IsCurrent(e)' \/ ToStop(e)'
               /\ ToStop(e) => ToStop(e)'
  BY <1>1 DEF ToStop, IsCurrent
<1>3. Closes' <=> Closes
  BY <1>1 DEF Closes
<1>4. (\E x \in Todo' : x.do \in Passes) => \E x \in Todo : x.do \in Passes
  BY <1>1
<1>5. ClosesLast' /\ (CloseWaits' <=> CloseWaits)
  BY DEF NoneForgotten, ClosesLast, CloseWaits, Waiting
<1>6. "close" \in hub.doings => Known' \subseteq given'
  BY DEF NoneForgotten, Known
<1> QED
  BY <1>2, <1>3, <1>4, <1>5, <1>6, NoneForgottenAgain

\* The steps that only mark forget none.
LEMMA MarkedForgetsNone ==
    ASSUME Steady, NoneForgotten,
           \/ Revive \/ TellOrNote \/ TellMissed \/ TakeTold \/ NoChange \/ StopDisabled
           \/ StopUsers \/ DropUnwanted \/ BeginDeliver \/ Deliver
    PROVE  NoneForgotten'
<1>1. /\ UNCHANGED <<hub, known, given, queue, running>>
      /\ \A e \in Entry : entry'[e].state = entry[e].state
  BY MarksDo DEF Steady, Marking
<1>2. \A e \in Entry : entry'[e].state \in Started => IsStarted(e)
  BY <1>1 DEF IsStarted
<1>3. work # <<>> => \A x \in Rest : x \in StepType
  BY HeadFits DEF Steady
<1>4. CASE Revive \/ NoChange
  <2>1. work # <<>> /\ Todo' = Rest
    BY <1>4, DoneWork DEF Steady
  <2>2. Head(work).do \in {"revive", "enable", "settings", "platform", "fail", "quit"}
    BY <1>4 DEF Revive, NoChange, HeadIs
  <2>3. Head(work).do \notin Stops /\ Head(work).do # "closed"
    BY <2>2 DEF Stops
  <2> QED
    BY <1>1, <1>2, <2>1, <2>3, WorkForgetsNone
<1>5. CASE StopDisabled
  <2>1. work # <<>> /\ Todo' = Rest
    BY <1>5, DoneWork DEF Steady
  <2>2. Head(work).do = "stop" /\ entry[Head(work).e].state = "disabled"
    BY <1>5 DEF StopDisabled, StopsEntry, HeadIs
  <2>3. ~ IsStarted(Head(work).e)
    BY <2>2 DEF IsStarted, Started
  <2> QED
    BY <1>1, <1>2, <2>1, <2>2, <2>3, WorkForgetsNone
<1>6. CASE TellOrNote
  <2>1. work # <<>> /\ Head(work).do \in {"settings", "platform"} /\ Head(work).e \in Entry
    BY <1>6, HeadFits DEF TellOrNote, HeadIs, Steady
  <2>2. /\ Rest \subseteq Todo'
        /\ \A x \in Todo' : x \in Rest \/ x.do \in {"tell_settings", "tell_platform"}
    BY <1>6, <2>1, TellOrNoteWork, HookNamed DEF Steady, Hooks
  <2>3. Head(work).do \notin Stops /\ Head(work).do # "closed"
    BY <2>1 DEF Stops
  <2>4. \A x \in Todo' : x.do \in Passes \cup {"closed"} => x \in Rest
    BY <2>2 DEF Passes
  <2>5. \A x \in Rest : x.do \in Stops \cup {"closed"} => x \in Todo'
    BY <2>2
  <2> QED
    BY <1>1, <1>2, <2>1, <2>3, <2>4, <2>5, WorkForgetsNone
<1>7. CASE TellMissed
  <2>1. work # <<>> /\ Head(work).do = "missed" /\ Head(work).e \in Entry
    BY <1>7, TellMissedWork DEF Steady
  <2>2. /\ Rest \subseteq Todo'
        /\ \A x \in Todo' : x \in Rest \/ x.do \in {"tell_settings", "tell_platform"}
    BY <1>7, <2>1, TellMissedWork, HookNamed DEF Steady, Hooks
  <2>3. Head(work).do \notin Stops /\ Head(work).do # "closed"
    BY <2>1 DEF Stops
  <2>4. \A x \in Todo' : x.do \in Passes \cup {"closed"} => x \in Rest
    BY <2>2 DEF Passes
  <2>5. \A x \in Rest : x.do \in Stops \cup {"closed"} => x \in Todo'
    BY <2>2
  <2> QED
    BY <1>1, <1>2, <2>1, <2>3, <2>4, <2>5, WorkForgetsNone
<1>8. CASE TakeTold
  <2>1. work # <<>> /\ Head(work).do \in {"fail", "quit"} /\ Head(work).e \in Entry
    BY <1>8, TakeToldWork DEF Steady
  <2>2. /\ Rest \subseteq Todo'
        /\ \A x \in Todo' : x \in Rest \/ x.do \in {"stop", "failed"}
    BY <1>8, <2>1, TakeToldWork, StepTyped DEF Steady, DoNames
  <2>3. Head(work).do \notin Stops /\ Head(work).do # "closed"
    BY <2>1 DEF Stops
  <2>4. \A x \in Todo' : x.do \in Passes \cup {"closed"} => x \in Rest
    BY <2>2 DEF Passes
  <2>5. \A x \in Rest : x.do \in Stops \cup {"closed"} => x \in Todo'
    BY <2>2
  <2> QED
    BY <1>1, <1>2, <2>1, <2>3, <2>4, <2>5, WorkForgetsNone
<1>9. CASE StopUsers
  <2>1. work # <<>> /\ Head(work).do = "stop" /\ InsideUsers(Head(work).e) \subseteq Entry
        /\ Todo' = {Stop(u) : u \in InsideUsers(Head(work).e)} \cup Todo
    BY <1>9, StopUsersWork DEF Steady
  <2>2. Todo = {Head(work)} \cup Rest
    BY <2>1, HeadFits DEF Steady
  <2>3. \A x \in Todo' : x \in Rest \/ x.do = "stop"
    BY <2>1, <2>2, StepTyped DEF DoNames
  <2>4. \A e : Head(work).e = e => ToStop(e)'
    BY <2>1, <2>2 DEF ToStop, Stops
  <2>5. \A x \in Todo' : x.do \in Passes \cup {"closed"} => x \in Rest
    BY <2>3 DEF Passes
  <2>6. \A x \in Rest : x \in Todo'
    BY <2>1, <2>2
  <2> QED
    BY <1>1, <1>2, <2>1, <2>4, <2>5, <2>6, WorkForgetsNone
<1>10. CASE DropUnwanted
  <2>1. work # <<>> /\ Head(work).do = "drop" /\ Rest = {}
    BY <1>10, DropUnwantedWork DEF Steady
  <2>2. \A x \in Todo' : x.do \in {"stop", "moves"}
    BY <1>10, DropUnwantedWork, StepTyped DEF Steady, DoNames, Step
  <2>3. Head(work).do \in Passes /\ Head(work).do \notin Stops /\ Head(work).do # "closed"
    BY <2>1 DEF Passes, Stops
  <2>4. \A x \in Todo' : x.do \in Passes \cup {"closed"} =>
           x \in Rest \/ (Head(work).do \in Passes /\ x.do # "closed")
    BY <2>2, <2>3
  <2> QED
    BY <1>1, <1>2, <2>1, <2>3, <2>4, WorkForgetsNone
<1>11. CASE BeginDeliver
  <2>1. work # <<>> /\ Head(work).do = "moves" /\ Rest = {}
    BY <1>11, BeginDeliverWork DEF Steady
  <2>2. \A x \in Todo' : x.do \in {"deliver", "start"}
    BY <1>11, BeginDeliverWork, StepTyped DEF Steady, DoNames, Step
  <2>3. Head(work).do \in Passes /\ Head(work).do \notin Stops /\ Head(work).do # "closed"
    BY <2>1 DEF Passes, Stops
  <2>4. \A x \in Todo' : x.do \in Passes \cup {"closed"} =>
           x \in Rest \/ (Head(work).do \in Passes /\ x.do # "closed")
    BY <2>2, <2>3
  <2> QED
    BY <1>1, <1>2, <2>1, <2>3, <2>4, WorkForgetsNone
<1>12. CASE Deliver
  <2>1. work # <<>> /\ Head(work).do = "deliver" /\ Head(work).e \in Entry /\ Rest \subseteq Todo'
    BY <1>12, DeliverWork DEF Steady
  <2>2. \A x \in Todo' : x \in Rest \/ x.do = "tell_need"
    BY <1>12, <2>1, DeliverWork, HookNamed DEF Steady, Hooks
  <2>3. Head(work).do \notin Stops /\ Head(work).do # "closed"
    BY <2>1 DEF Stops
  <2>4. \A x \in Todo' : x.do \in Passes \cup {"closed"} => x \in Rest
    BY <2>2 DEF Passes
  <2>5. \A x \in Rest : x.do \in Stops \cup {"closed"} => x \in Todo'
    BY <2>1
  <2> QED
    BY <1>1, <1>2, <2>1, <2>3, <2>4, <2>5, WorkForgetsNone
<1> QED
  BY <1>4, <1>5, <1>6, <1>7, <1>8, <1>9, <1>10, <1>11, <1>12

\* A state changed to one not started forgets none.
LEMMA StateForgetsNone ==
    ASSUME Steady, NoneForgotten, LetStart \/ CountFailure
    PROVE  NoneForgotten'
<1>1. work # <<>> /\ Todo' = Rest
  BY DoneWork DEF Steady
<1>2. Head(work).do \in {"enable", "settings", "failed"}
  BY DEF LetStart, CountFailure, HeadIs
<1>3. Head(work).do \notin Stops /\ Head(work).do # "closed"
  BY <1>2 DEF Stops
<1>4. UNCHANGED <<hub, known, given, queue, running>>
  BY DEF LetStart, CountFailure
<1>5. PICK x : Becomes(Head(work).e, x) /\ x.state \in {"waiting", "failed"}
  BY LetStartDoes, CountFailureDoes DEF Steady
<1>6. \A e \in Entry : entry'[e].state \in Started => IsStarted(e)
  BY <1>5 DEF Becomes, IsStarted, Started
<1> QED
  BY <1>1, <1>3, <1>4, <1>6, WorkForgetsNone

\* A stop called, and one that ended, forget none.
LEMMA StopForgetsNone ==
    ASSUME Steady, NoneForgotten, CallStop \/ EndStop
    PROVE  NoneForgotten'
<1>1. UNCHANGED <<hub, known, given, queue, running>>
  BY DEF CallStop, EndStop
<1>2. CASE CallStop
  <2>1. /\ Marking /\ work # <<>> /\ Head(work).do \in {"cancelled", "stop"}
        /\ Todo' = {[Head(work) EXCEPT !.do = "stopping"]} \cup Rest
    BY <1>2, CallStopDoes DEF Steady
  <2> DEFINE x == [Head(work) EXCEPT !.do = "stopping"]
  <2>2. x.do = "stopping" /\ x.e = Head(work).e
    BY <2>1, HeadFits DEF Steady, StepType
  <2> HIDE DEF x
  <2>3. Todo' = {x} \cup Rest
    BY <2>1 DEF x
  <2>4. \A e \in Entry : entry'[e].state \in Started => IsStarted(e)
    BY <2>1 DEF Marking, IsStarted
  <2>5. \A e : Head(work).e = e => ToStop(e)'
    BY <2>2, <2>3 DEF ToStop, Stops
  <2>6. \A y \in Todo' : y.do \in Passes \cup {"closed"} => y \in Rest
    BY <2>2, <2>3 DEF Passes
  <2>7. Head(work).do # "closed" /\ \A y \in Rest : y \in Todo'
    BY <2>1, <2>3
  <2> QED
    BY <1>1, <2>1, <2>4, <2>5, <2>6, <2>7, WorkForgetsNone
<1>3. CASE EndStop
  <2>1. work # <<>> /\ Todo' = Rest
    BY <1>3, DoneWork DEF Steady
  <2>2. PICK x : /\ Becomes(Head(work).e, x) /\ x.state \in {"waiting", "disabled"}
                 /\ Head(work).do \in {"stopping", "stop"}
    BY <1>3, EndStopDoes DEF Steady
  <2>3. \A e \in Entry : entry'[e].state \in Started => IsStarted(e) /\ Head(work).e # e
    BY <2>2 DEF Becomes, IsStarted, Started
  <2>4. Head(work).do # "closed"
    BY <2>2
  <2> QED
    BY <1>1, <2>1, <2>3, <2>4, WorkForgetsNone
<1> QED
  BY <1>2, <1>3

\* A start cancelled forgets none: its stop goes on.
LEMMA CancelForgetsNone ==
    ASSUME Steady, NoneForgotten, CancelStart
    PROVE  NoneForgotten'
<1>1. UNCHANGED <<hub, known, given, running>>
  BY DEF CancelStart
<1>2. PICK x : /\ Becomes(Head(work).e, x) /\ Head(work).do = "stop"
               /\ x.state = entry[Head(work).e].state
               /\ Todo' = {[Head(work) EXCEPT !.do = "cancelled"]} \cup Rest
  BY CancelStartDoes DEF Steady
<1>3. work # <<>> /\ Todo = {Head(work)} \cup Rest /\ Head(work) \in StepType
  BY HeadFits DEF Steady, CancelStart, StopsEntry, HeadIs
<1> DEFINE y == [Head(work) EXCEPT !.do = "cancelled"]
<1>4. y.do = "cancelled" /\ y.e = Head(work).e
  BY <1>3 DEF StepType
<1> HIDE DEF y
<1>5. Todo' = {y} \cup Rest
  BY <1>2 DEF y
<1>6. \A e \in Entry : entry'[e].state \in Started =>
               /\ IsStarted(e)
               /\ IsCurrent(e) => IsCurrent(e)' \/ ToStop(e)'
               /\ ToStop(e) => ToStop(e)'
  <2>1. \A e \in Entry : entry'[e].state \in Started => IsStarted(e)
    BY <1>2 DEF Becomes, IsStarted
  <2>2. \A e : ToStop(e) => ToStop(e)'
    BY <1>3, <1>4, <1>5 DEF ToStop, Stops
  <2> QED
    BY <1>1, <2>1, <2>2 DEF IsCurrent
<1>7. Closes' <=> Closes
  BY <1>2, <1>3, <1>4, <1>5 DEF Closes
<1>8. (\E z \in Todo' : z.do \in Passes) => \E z \in Todo : z.do \in Passes
  BY <1>3, <1>4, <1>5 DEF Passes
<1>9. ClosesLast' /\ (CloseWaits' <=> CloseWaits)
  <2>1. CASE queue' = queue
    BY <1>1, <2>1 DEF NoneForgotten, ClosesLast, CloseWaits, Waiting
  <2> DEFINE K == {t \in ToSet(queue) : ~ (/\ t.do = "started" /\ t.e = Head(work).e
                                            /\ t.n = entry[Head(work).e].task)}
  <2>2. queue' = queue \/ queue' = Kept(queue, K)
    BY DEF CancelStart
  <2>3. \A t \in Waiting : t.do = "close" => t \in K
    BY DEF Waiting
  <2> HIDE DEF K
  <2>4. CASE queue' = Kept(queue, K)
    BY <1>1, <2>3, <2>4, LastWhenKept DEF NoneForgotten, Steady
  <2> QED
    BY <2>1, <2>2, <2>4
<1>10. "close" \in hub.doings => Known' \subseteq given'
  BY <1>1 DEF NoneForgotten, Known
<1> QED
  BY <1>1, <1>6, <1>7, <1>8, <1>9, <1>10, NoneForgottenAgain

\* A hook forgets none.
LEMMA HookForgetsNone ==
    ASSUME Steady, NoneForgotten, BeginHook \/ EndHook
    PROVE  NoneForgotten'
<1>1. UNCHANGED <<hub, known, given, queue, running>>
  BY DEF BeginHook, EndHook
<1>2. \A e \in Entry : entry'[e].state \in Started => IsStarted(e)
  <2>1. entry' = entry
    BY DEF BeginHook, EndHook
  <2> QED
    BY <2>1 DEF IsStarted
<1>3. work # <<>> => \A x \in Rest : x \in StepType
  BY HeadFits DEF Steady
<1>4. CASE BeginHook
  <2>1. work # <<>> /\ Head(work).do \in Hooks /\ Todo' = {Step("hook", Head(work).e)} \cup Rest
    BY <1>4, BeginHookWork DEF Steady
  <2>2. Head(work).do \notin Stops /\ Head(work).do # "closed"
    BY <2>1 DEF Stops, Hooks
  <2>3. \A x \in Todo' : x.do \in Passes \cup {"closed"} => x \in Rest
    BY <2>1 DEF Step, Passes
  <2>4. \A x \in Rest : x \in Todo'
    BY <2>1
  <2> QED
    BY <1>1, <1>2, <2>1, <2>2, <2>3, <2>4, WorkForgetsNone
<1>5. CASE EndHook
  <2> DEFINE e == Head(work).e
             past == ToSet(PastHooks(e, Tail(work)))
  <2>1. /\ work # <<>> /\ Head(work).do = "hook" /\ past \subseteq Rest
        /\ \A x \in Rest \ past : x.do \in Hooks /\ x.e = e
        /\ \/ Todo' = Rest
           \/ Todo' = {Stop(e)} \cup past
           \/ Todo' = {Stop(e), Step("failed", e)} \cup past
    BY <1>5, EndHookWork DEF Steady
  <2> HIDE DEF past
  <2>2. Head(work).do \notin Stops /\ Head(work).do # "closed"
    BY <2>1 DEF Stops
  <2>3. Stop(e).do = "stop" /\ Step("failed", e).do = "failed"
    BY DEF Stop, StopTo, Step
  <2> HIDE DEF e
  <2>4. \A x \in Todo' : x.do \in Passes \cup {"closed"} => x \in Rest
    BY <2>1, <2>3 DEF Passes
  <2>5. \A x \in Rest : x.do \in Stops \cup {"closed"} => x \in Todo'
    <3>1. past \subseteq Todo' \/ Todo' = Rest
      BY <2>1
    <3> QED
      BY <2>1, <3>1 DEF Stops, Hooks
  <2> QED
    BY <1>1, <1>2, <2>1, <2>2, <2>4, <2>5, WorkForgetsNone
<1> QED
  BY <1>4, <1>5

\* The start tasks begin and end outside the lock, and are no close.
LEMMA StartForgetsNone ==
    ASSUME Steady, NoneForgotten, Begins \/ Ends
    PROVE  NoneForgotten'
<1>1. UNCHANGED <<hub, entry, known, given, running, work>>
  BY DEF Begins, Ends, BeginStart, EndStart
<1>2. queue' = queue \/ \E t \in TaskType : t.do = "started" /\ queue' = Append(queue, t)
  <2>1. CASE Begins
    BY <2>1 DEF Begins, BeginStart
  <2>2. ASSUME NEW s \in starts, NEW ok \in BOOLEAN, EndStart(s, ok)
        PROVE  \E t \in TaskType : t.do = "started" /\ queue' = Append(queue, t)
    <3> DEFINE t == [Task("started", s.e) EXCEPT !.n = s.n, !.ok = ok]
    <3>1. s.e \in Entry /\ s.n \in Tasks
      BY WaitingTyped DEF Steady
    <3>2. t \in TaskType /\ t.do = "started"
      BY <3>1, TaskTyped DEF Task, TaskType
    <3>3. queue' = Append(queue, t)
      BY <2>2 DEF EndStart
    <3> QED
      BY <3>2, <3>3
  <2> QED
    BY <2>1, <2>2 DEF Ends
<1>3. ClosesLast' /\ (CloseWaits' <=> CloseWaits)
  <2>1. CASE queue' = queue
    BY <1>1, <2>1 DEF NoneForgotten, ClosesLast, CloseWaits, Waiting
  <2>2. ASSUME NEW t \in TaskType, t.do = "started", queue' = Append(queue, t)
        PROVE  ClosesLast' /\ (CloseWaits' <=> CloseWaits)
    <3>1. ClosesLast' /\ Waiting' = Waiting \cup {t}
      BY <1>1, <2>2, LastWhenAppended DEF NoneForgotten, Steady
    <3> QED
      BY <2>2, <3>1 DEF CloseWaits
  <2> QED
    BY <1>2, <2>1, <2>2
<1>4. Todo' = Todo /\ (Closes' <=> Closes)
  BY <1>1 DEF Todo, Closes
<1>5. \A e \in Entry : entry'[e].state \in Started =>
               /\ IsStarted(e)
               /\ IsCurrent(e) => IsCurrent(e)' \/ ToStop(e)'
               /\ ToStop(e) => ToStop(e)'
  BY <1>1, <1>4 DEF IsStarted, IsCurrent, ToStop
<1>6. "close" \in hub.doings => Known' \subseteq given'
  BY <1>1 DEF NoneForgotten, Known
<1> QED
  BY <1>1, <1>3, <1>4, <1>5, <1>6, NoneForgottenAgain

\* A collection while the runtime is stopped drops none that is started.
LEMMA CollectForgetsNone ==
    ASSUME Steady, NoneForgotten, ClosesWhole, hub' = hub, ~ running,
           given' \subseteq Peripherals, given \subseteq given' \/ "remove" \in hub.doings,
           NEW listed, Collect(PresentOf(given', listed))
    PROVE  /\ \A e \in Entry : IsStarted(e) /\ IsCurrent(e) => IsCurrent(e)'
           /\ "close" \in hub.doings => Known' \subseteq given'
           /\ \A e \in Entry : entry'[e].state \in Started => IsStarted(e)
<1> DEFINE there == PresentOf(given', listed)
<1>1. there \subseteq Peripherals
  BY ThereAre
<1>2. Collects
  BY <1>1 DEF Collects
<1>3. \A e \in Entry : entry'[e].state \in Started => IsStarted(e)
  BY <1>2, CollectSpares DEF IsStarted
<1>4. \A p \in Peripherals :
                 \/ known'[p] = known[p] /\ (p \in there <=> known[p] # NoLife)
                 \/ p \notin there /\ known'[p] = NoLife
                 \/ p \in there /\ known[p] = NoLife /\ known'[p] \in Lives
  BY <1>1, CollectDoes DEF Steady
<1>5. "close" \in hub.doings => there = given' /\ given \subseteq given' /\ Known \subseteq there
  BY GivenAreThere DEF Steady, TypeOK, NoneForgotten
<1> HIDE DEF there
<1>6. "close" \in hub.doings => Known' \subseteq given'
  BY <1>4, <1>5 DEF Known
<1>7. ASSUME NEW e \in Entry, IsStarted(e), IsCurrent(e)
      PROVE  IsCurrent(e)'
  <2>1. "close" \in hub.doings
    BY <1>7 DEF NoneForgotten, WillClose
  <2>2. e[1] \in Known /\ e[1] \in Peripherals
    BY <1>7, CurrentTyped DEF Steady
  <2>3. e[1] \in there /\ known[e[1]] # NoLife
    BY <1>5, <2>1, <2>2 DEF Known
  <2>4. known'[e[1]] = known[e[1]]
    BY <1>4, <2>2, <2>3
  <2> QED
    BY <1>7, <2>4 DEF IsCurrent
<1> QED
  BY <1>3, <1>6, <1>7

\* What the calls from outside do that matters here.
LEMMA OthersAsk ==
    ASSUME TypeOK, Called \/ Retry, ~ Close
    PROVE  /\ running' = running /\ work' = work /\ hub' = hub /\ given' \subseteq Peripherals
           /\ given \subseteq given' \/ "remove" \in hub.doings
           /\ \/ Noting
              \/ \E t \in TaskType : /\ t.do \notin {"boot", "close"}
                                     /\ t.do = "refresh" => running
                                     /\ queue' = Append(queue, t) /\ UNCHANGED <<entry, known>>
              \/ ~ running /\ Collect(PresentOf(given', plugged')) /\ UNCHANGED queue
<1> USE DEF CanCall
<1>1. hub' = hub /\ work' = work /\ ((\E t : Asking(t)) \/ Noting)
  BY CallsDo
<1>2. given \subseteq Peripherals
  BY DEF TypeOK
<1> DEFINE Adds(t) == /\ t.do \notin {"boot", "close"} /\ (t.do = "refresh" => running)
                      /\ queue' = Append(queue, t) /\ UNCHANGED <<entry, known>>
<1>3. ASSUME QueueRefresh(PresentOf(given', plugged'))
      PROVE  \/ \E t \in TaskType : Adds(t)
             \/ ~ running /\ Collect(PresentOf(given', plugged')) /\ UNCHANGED queue
  <2>1. Refresh \in TaskType /\ Refresh.do = "refresh"
    BY TaskTyped
  <2>2. running /\ Queue(Refresh) => Adds(Refresh)
    BY <2>1 DEF Queue
  <2> QED
    BY <1>3, <2>1, <2>2 DEF QueueRefresh
<1>4. ASSUME NEW t \in TaskType, Queue(t), t.do \notin {"boot", "close", "refresh"}
      PROVE  \E u \in TaskType : Adds(u)
  BY <1>4 DEF Queue
<1> HIDE DEF Adds
<1>5. ASSUME \/ TimerFires
             \/ \E p \in Peripherals : Plug(p)
             \/ \E x \in Endpoints : Offer(x)
      PROVE  /\ running' = running /\ given' = given
             /\ QueueRefresh(PresentOf(given', plugged'))
  BY <1>5 DEF TimerFires, Plug, Offer, Present
<1>6. ASSUME NEW p \in Peripherals, RemoveGiven(p) \/ AddGiven(p)
      PROVE  /\ running' = running /\ given' \subseteq Peripherals
             /\ given \subseteq given' \/ "remove" \in hub.doings
             /\ QueueRefresh(PresentOf(given', plugged'))
  BY <1>2, <1>6 DEF RemoveGiven, AddGiven
<1>7. ASSUME NEW p \in Peripherals,
             Enable(p) \/ Disable(p) \/ Restart(p) \/ UpdateSettings(p)
      PROVE  running' = running /\ given' = given /\ \E t \in TaskType : Adds(t)
  <2>1. p \in Known
    BY <1>7 DEF Enable, Disable, Restart, UpdateSettings
  <2>2. \A do \in {"enable", "disable", "restart", "settings"} :
           Task(do, Current(p)) \in TaskType /\ Task(do, Current(p)).do = do
    BY <2>1, CurrentTyped, TaskTyped
  <2>3. \E do \in {"enable", "disable", "restart", "settings"} : Queue(Task(do, Current(p)))
    BY <1>7 DEF Enable, Disable, Restart, UpdateSettings
  <2>4. \E t \in TaskType : Adds(t)
    BY <2>2, <2>3, <1>4
  <2> QED
    BY <1>7, <2>4 DEF Enable, Disable, Restart, UpdateSettings
<1>8. ASSUME UpdatePlatform
      PROVE  running' = running /\ given' = given /\ \E t \in TaskType : Adds(t)
  <2> DEFINE t == [Task("platform", NoEntry) EXCEPT !.all = {e \in CurrentEntries : IsStarted(e)}]
  <2>1. t \in TaskType /\ t.do = "platform"
    BY CurrentTyped, Numbers DEF Task, TaskType
  <2>2. Queue(t)
    BY <1>8 DEF UpdatePlatform
  <2> HIDE DEF t
  <2>3. \E u \in TaskType : Adds(u)
    BY <2>1, <2>2, <1>4
  <2> QED
    BY <1>8, <2>3 DEF UpdatePlatform
<1>9. ASSUME NEW p \in Peripherals, TellFailure(p) \/ TellStop(p)
      PROVE  /\ running' = running /\ given' = given
             /\ (\E t \in TaskType : Adds(t)) \/ Noting
  <2>1. p \in Known /\ Current(p) \in Entry
    BY <1>9, CurrentTyped DEF TellFailure, TellStop
  <2>2. \A do \in {"fail", "quit"} :
           Task(do, Current(p)) \in TaskType /\ Task(do, Current(p)).do = do
    BY <2>1, TaskTyped
  <2>3. CASE StateOf(p) # "starting"
    <3>1. \E do \in {"fail", "quit"} : Queue(Task(do, Current(p)))
      BY <1>9, <2>3 DEF TellFailure, TellStop
    <3>2. \E t \in TaskType : Adds(t)
      BY <2>2, <3>1, <1>4
    <3> QED
      BY <1>9, <3>2 DEF TellFailure, TellStop
  <2>4. CASE StateOf(p) = "starting"
    <3>1. Noting
      BY <1>9, <2>4, TellingNotes
    <3> QED
      BY <1>9, <3>1 DEF TellFailure, TellStop
  <2> QED
    BY <2>3, <2>4
<1>10. ASSUME NEW e \in Entry, RetryDue(e)
       PROVE  running' = running /\ given' = given /\ Noting
  BY <1>10, DueNotes DEF RetryDue
<1> DEFINE Asks == /\ running' = running /\ given' \subseteq Peripherals
                   /\ given \subseteq given' \/ "remove" \in hub.doings
                   /\ \/ Noting \/ \E t \in TaskType : Adds(t)
                      \/ ~ running /\ Collect(PresentOf(given', plugged')) /\ UNCHANGED queue
<1>11. Asks
  <2>1. CASE Retry
    BY <1>2, <1>3, <1>5, <1>10, <2>1 DEF Retry
  <2>2. CASE UpdatePlatform
    BY <1>2, <1>8, <2>2
  <2>3. CASE \E x \in Endpoints : Offer(x)
    BY <1>2, <1>3, <1>5, <2>3
  <2>4. ASSUME NEW p \in Peripherals,
               \/ Enable(p) \/ Disable(p) \/ Restart(p) \/ UpdateSettings(p)
               \/ RemoveGiven(p) \/ AddGiven(p) \/ Plug(p) \/ TellFailure(p) \/ TellStop(p)
        PROVE  Asks
    BY <1>2, <1>3, <1>5, <1>6, <1>7, <1>9, <2>4
  <2> QED
    BY <2>1, <2>2, <2>3, <2>4 DEF Called
<1> QED
  BY <1>1, <1>11 DEF Adds

\* Runtime.start forgets none.
LEMMA BootForgetsNone ==
    ASSUME Steady, NoneForgotten, Boot
    PROVE  NoneForgotten'
<1>1. UNCHANGED <<hub, entry, known, given, work>> /\ running' = TRUE
  BY DEF Boot
<1>2. Task("boot", NoEntry) \in TaskType /\ Task("boot", NoEntry).do = "boot"
  BY TaskTyped, Numbers
<1>3. queue' = Append(queue, Task("boot", NoEntry))
  BY DEF Boot
<1>4. Waiting' = Waiting \cup {Task("boot", NoEntry)}
  BY <1>1, <1>2, <1>3, LastWhenAppended DEF Steady
<1>5. StopsLater' /\ ClosesAll'
  BY <1>1 DEF NoneForgotten, StopsLater, ClosesAll, Closes, Todo, ToStop, IsStarted, IsCurrent
<1>6. WillClose' /\ ClosesLast' /\ PassesFirst'
  BY <1>1 DEF WillClose, ClosesLast, PassesFirst
<1>7. (CloseWaits' => "close" \in hub'.doings) /\ ("close" \in hub'.doings => Known' \subseteq given')
  BY <1>1, <1>2, <1>4 DEF NoneForgotten, CloseWaits, Known
<1> QED
  BY <1>5, <1>6, <1>7 DEF NoneForgotten

\* Runtime.stop forgets none: its turn comes after what waits.
LEMMA CloseForgetsNone ==
    ASSUME Steady, NoneForgotten, Close
    PROVE  NoneForgotten'
<1>1. UNCHANGED <<hub, entry, known, given, work>> /\ "close" \in hub.doings
  BY DEF Close, CanCall
<1>2. Task("close", NoEntry) \in TaskType /\ Task("close", NoEntry).do = "close"
  BY TaskTyped, Numbers
<1>3. queue' = Append(queue, Task("close", NoEntry))
  BY DEF Close
<1>4. Waiting' = Waiting \cup {Task("close", NoEntry)} /\ ClosesLast'
  BY <1>1, <1>2, <1>3, LastWhenAppended DEF Steady
<1>5. CloseWaits'
  BY <1>2, <1>4 DEF CloseWaits
<1>6. StopsLater' /\ ClosesAll'
  BY <1>1 DEF NoneForgotten, StopsLater, ClosesAll, Closes, Todo, ToStop, IsStarted, IsCurrent
<1>7. WillClose' /\ PassesFirst'
  BY <1>1, <1>5 DEF WillClose, PassesFirst
<1>8. "close" \in hub'.doings => Known' \subseteq given'
  BY <1>1 DEF NoneForgotten, Known
<1> QED
  BY <1>1, <1>4, <1>6, <1>7, <1>8 DEF NoneForgotten

\* The other calls forget none.
LEMMA CalledForgetsNone ==
    ASSUME Steady, NoneForgotten, ClosesWhole, Called \/ Retry, ~ Close
    PROVE  NoneForgotten'
<1>1. /\ running' = running /\ work' = work /\ hub' = hub /\ given' \subseteq Peripherals
      /\ given \subseteq given' \/ "remove" \in hub.doings
      /\ \/ Noting
         \/ \E t \in TaskType : /\ t.do \notin {"boot", "close"}
                                /\ t.do = "refresh" => running
                                /\ queue' = Append(queue, t) /\ UNCHANGED <<entry, known>>
         \/ ~ running /\ Collect(PresentOf(given', plugged')) /\ UNCHANGED queue
  BY OthersAsk DEF Steady
<1>2. Todo' = Todo /\ (Closes' <=> Closes) /\ \A e : ToStop(e)' <=> ToStop(e)
  BY <1>1 DEF Todo, Closes, ToStop
<1>3. "close" \in hub.doings => given \subseteq given'
  BY <1>1 DEF ClosesWhole, Steady, TypeOK
<1>4. ASSUME UNCHANGED known
      PROVE  /\ "close" \in hub.doings => Known' \subseteq given'
             /\ \A e : IsCurrent(e)' <=> IsCurrent(e)
  BY <1>3, <1>4 DEF NoneForgotten, Known, IsCurrent
<1>5. ASSUME UNCHANGED queue
      PROVE  ClosesLast' /\ (CloseWaits' <=> CloseWaits)
  BY <1>1, <1>5 DEF NoneForgotten, ClosesLast, CloseWaits, Waiting
<1>6. CASE Noting
  <2>1. known' = known /\ queue' = queue /\ \A e \in Entry : entry'[e].state = entry[e].state
    BY <1>6 DEF Noting
  <2>2. \A e \in Entry : entry'[e].state \in Started =>
               /\ IsStarted(e)
               /\ IsCurrent(e) => IsCurrent(e)' \/ ToStop(e)'
               /\ ToStop(e) => ToStop(e)'
    BY <1>2, <1>4, <2>1 DEF IsStarted
  <2> QED
    BY <1>1, <1>2, <1>4, <1>5, <2>1, <2>2, NoneForgottenAgain
<1>7. ASSUME NEW t \in TaskType, t.do \notin {"boot", "close"}, t.do = "refresh" => running,
             queue' = Append(queue, t), UNCHANGED <<entry, known>>
      PROVE  NoneForgotten'
  <2>1. ClosesLast' /\ Waiting' = Waiting \cup {t}
    <3>1. (ClosesLast /\ running' = running /\ t.do \notin {"boot", "refresh"}) \/ running'
      BY <1>1, <1>7 DEF NoneForgotten
    <3> QED
      BY <1>7, <3>1, LastWhenAppended DEF Steady
  <2>2. CloseWaits' <=> CloseWaits
    BY <1>7, <2>1 DEF CloseWaits
  <2>3. \A e \in Entry : entry'[e].state \in Started =>
               /\ IsStarted(e)
               /\ IsCurrent(e) => IsCurrent(e)' \/ ToStop(e)'
               /\ ToStop(e) => ToStop(e)'
    BY <1>2, <1>4, <1>7 DEF IsStarted
  <2>4. "close" \in hub.doings => Known' \subseteq given'
    BY <1>4, <1>7
  <2> QED
    BY <1>1, <1>2, <2>1, <2>2, <2>3, <2>4, NoneForgottenAgain
<1>8. CASE ~ running /\ Collect(PresentOf(given', plugged')) /\ UNCHANGED queue
  <2>1. /\ \A e \in Entry : IsStarted(e) /\ IsCurrent(e) => IsCurrent(e)'
        /\ "close" \in hub.doings => Known' \subseteq given'
        /\ \A e \in Entry : entry'[e].state \in Started => IsStarted(e)
    BY <1>1, <1>8, CollectForgetsNone
  <2>2. \A e \in Entry : entry'[e].state \in Started =>
               /\ IsStarted(e)
               /\ IsCurrent(e) => IsCurrent(e)' \/ ToStop(e)'
               /\ ToStop(e) => ToStop(e)'
    BY <1>2, <2>1
  <2> QED
    BY <1>1, <1>2, <1>5, <1>8, <2>1, <2>2, NoneForgottenAgain
<1> QED
  BY <1>1, <1>6, <1>7, <1>8

\* The end of a change forgets none.
LEMMA SettleForgetsNone ==
    ASSUME Steady, NoneForgotten, ClosesWhole, SettleChange
    PROVE  NoneForgotten'
<1>1. /\ UNCHANGED <<hub, given, plugged, running>> /\ QueueRefresh(Present)
      /\ work # <<>> /\ Head(work).do = "settle"
  BY DEF SettleChange, HeadIs
<1>2. Todo = {Head(work)} /\ Todo' = {}
  BY FreeWork, HeadFits DEF Steady
<1>3. ~ Closes' /\ ~ Closes /\ \A e : ~ ToStop(e)
  BY <1>1, <1>2 DEF Closes, ToStop, Stops
<1>4. CASE running /\ Queue(Refresh)
  <2>1. Refresh \in TaskType /\ Refresh.do = "refresh"
    BY TaskTyped
  <2>2. queue' = Append(queue, Refresh) /\ UNCHANGED <<entry, known>>
    BY <1>4 DEF Queue
  <2>3. ClosesLast' /\ Waiting' = Waiting \cup {Refresh}
    BY <1>1, <1>4, <2>1, <2>2, LastWhenAppended DEF Steady
  <2>4. CloseWaits' <=> CloseWaits
    BY <2>1, <2>3 DEF CloseWaits
  <2>5. \A e \in Entry : entry'[e].state \in Started =>
               /\ IsStarted(e)
               /\ IsCurrent(e) => IsCurrent(e)' \/ ToStop(e)'
               /\ ToStop(e) => ToStop(e)'
    BY <1>3, <2>2 DEF IsStarted, IsCurrent
  <2>6. "close" \in hub.doings => Known' \subseteq given'
    BY <1>1, <2>2 DEF NoneForgotten, Known
  <2> QED
    BY <1>1, <1>2, <1>3, <2>3, <2>4, <2>5, <2>6, NoneForgottenAgain
<1>5. CASE ~ running /\ Collect(Present) /\ UNCHANGED queue
  <2>1. Collect(PresentOf(given', plugged))
    BY <1>1, <1>5 DEF Present
  <2>2. given' \subseteq Peripherals
    BY <1>1 DEF Steady, TypeOK
  <2>3. /\ \A e \in Entry : IsStarted(e) /\ IsCurrent(e) => IsCurrent(e)'
        /\ "close" \in hub.doings => Known' \subseteq given'
        /\ \A e \in Entry : entry'[e].state \in Started => IsStarted(e)
    BY <1>1, <1>5, <2>1, <2>2, CollectForgetsNone
  <2>4. ClosesLast' /\ (CloseWaits' <=> CloseWaits)
    BY <1>1, <1>5 DEF NoneForgotten, ClosesLast, CloseWaits, Waiting
  <2>5. \A e \in Entry : entry'[e].state \in Started =>
               /\ IsStarted(e)
               /\ IsCurrent(e) => IsCurrent(e)' \/ ToStop(e)'
               /\ ToStop(e) => ToStop(e)'
    BY <1>3, <2>3
  <2> QED
    BY <1>1, <1>2, <1>3, <2>3, <2>4, <2>5, NoneForgottenAgain
<1> QED
  BY <1>1, <1>4, <1>5 DEF QueueRefresh

\* The end of Runtime.stop forgets none: every one that started was stopped.
LEMMA ClosedForgetsNone ==
    ASSUME Steady, NoneForgotten, Closed
    PROVE  NoneForgotten'
<1>1. /\ UNCHANGED <<hub, entry, known, given, running>>
      /\ work # <<>> /\ Head(work).do = "closed"
      /\ queue' = Kept(queue, {t \in ToSet(queue) : t.do \in {"boot", "close"}})
  BY DEF Closed, HeadIs
<1>2. Todo = {Head(work)} /\ Todo' = {}
  BY FreeWork, HeadFits DEF Steady
<1>3. \A e \in Entry : ~ IsStarted(e)
  BY <1>1, <1>2 DEF NoneForgotten, ClosesAll, Closes, ToStop, Stops
<1>4. \A e \in Entry : ~ IsStarted(e)'
  BY <1>1, <1>3 DEF IsStarted
<1>5. ClosesLast' /\ (CloseWaits' <=> CloseWaits)
  BY <1>1, LastWhenKept DEF NoneForgotten, Steady, Waiting
<1>6. StopsLater' /\ ClosesAll' /\ WillClose' /\ PassesFirst'
  BY <1>2, <1>4 DEF StopsLater, ClosesAll, WillClose, PassesFirst
<1>7. Known' \subseteq given' \/ "close" \notin hub'.doings
  BY <1>1 DEF NoneForgotten, Known
<1> QED
  BY <1>1, <1>5, <1>6, <1>7 DEF NoneForgotten

\* The begin of a pass forgets none: what is gone is stopped.
LEMMA BeginPassForgetsNone ==
    ASSUME Steady, NoneForgotten, ClosesWhole, BeginPass
    PROVE  NoneForgotten'
<1>1. UNCHANGED <<hub, given, queue, running>> /\ Collect(Present)
  BY DEF BeginPass
<1>2. /\ Todo = {Head(work)} /\ Head(work).do = "pass"
      /\ Todo' = {Stop(e) : e \in Gone} \cup {Step("drop", NoEntry)}
  BY BeginPassWork, HeadFits DEF Steady
<1>3. ~ Closes' /\ ~ Closes /\ \A e : ~ ToStop(e)
  BY <1>2 DEF Closes, ToStop, Stops, Stop, StopTo, Step
<1>4. Collects /\ Present \subseteq Peripherals
  BY <1>1, PassCollects, ThereAre
<1>5. \A e \in Entry : entry'[e].state \in Started => IsStarted(e)
  BY <1>4, CollectSpares DEF IsStarted
<1>6. \A p \in Peripherals :
                 \/ known'[p] = known[p] /\ (p \in Present <=> known[p] # NoLife)
                 \/ p \notin Present /\ known'[p] = NoLife
                 \/ p \in Present /\ known[p] = NoLife /\ known'[p] \in Lives
  BY <1>1, <1>4, CollectDoes DEF Steady
<1>7. \A e \in Entry : IsStarted(e) => IsCurrent(e)
  BY <1>3 DEF NoneForgotten, StopsLater
<1>8. ASSUME NEW e \in Entry, IsCurrent(e)
      PROVE  IsCurrent(e)' \/ ToStop(e)'
  <2>1. e[1] \in Known /\ e[1] \in Peripherals /\ e \in CurrentEntries
    BY <1>8, CurrentTyped DEF Steady
  <2>2. CASE e[1] \in Present
    <3>1. known'[e[1]] = known[e[1]]
      BY <1>6, <2>1, <2>2 DEF Known
    <3> QED
      BY <1>8, <3>1 DEF IsCurrent
  <2>3. CASE e[1] \notin Present
    <3>1. e \in Gone
      BY <2>1, <2>3 DEF Gone
    <3>2. Stop(e) \in Todo'
      BY <1>2, <3>1
    <3>3. Stop(e).do = "stop" /\ Stop(e).e = e
      BY DEF Stop, StopTo
    <3> QED
      BY <3>2, <3>3 DEF ToStop, Stops
  <2> QED
    BY <2>2, <2>3
<1>9. \A e \in Entry : entry'[e].state \in Started =>
               /\ IsStarted(e)
               /\ IsCurrent(e) => IsCurrent(e)' \/ ToStop(e)'
               /\ ToStop(e) => ToStop(e)'
  BY <1>3, <1>5, <1>8
<1>10. \E x \in Todo : x.do \in Passes
  BY <1>2 DEF Passes
<1>11. ClosesLast' /\ (CloseWaits' <=> CloseWaits)
  BY <1>1 DEF NoneForgotten, ClosesLast, CloseWaits, Waiting
<1>12. "close" \in hub.doings => Known' \subseteq given'
  <2>1. "close" \in hub.doings => Present = given
    BY GivenAreThere DEF Steady, TypeOK, Present
  <2> QED
    BY <1>1, <1>6, <2>1 DEF Known
<1> QED
  BY <1>1, <1>3, <1>9, <1>10, <1>11, <1>12, NoneForgottenAgain

\* The end of a pass forgets none: what it starts is current.
LEMMA EndPassForgetsNone ==
    ASSUME Steady, NoneForgotten, EndPass
    PROVE  NoneForgotten'
<1>1. UNCHANGED <<hub, known, given, queue, running>>
  BY DEF EndPass
<1>2. Todo = {Head(work)} /\ Head(work).do = "start" /\ Todo' \subseteq {Pass} /\ Pass.do = "pass"
  BY EndPassWork, HeadFits, StepTyped DEF Steady
<1>3. ~ Closes' /\ ~ Closes /\ \A e : ~ ToStop(e)
  BY <1>2 DEF Closes, ToStop, Stops
<1>4. PICK S \in SUBSET Entry :
         /\ \A e \in S : e \in CurrentEntries
         /\ \A e \in Entry : e \notin S => entry'[e] = entry[e]
  <2>1. \A e \in Entry : entry[e].task = NoTask => Tasks \ StartTasks(e) # {}
    BY DEF Steady, StartsApart
  <2> QED
    BY <2>1, EndPassDoes DEF Steady
<1>5. \A e \in Entry : IsStarted(e)' => IsCurrent(e)'
  <2>1. \A e \in Entry : IsStarted(e) => IsCurrent(e)
    BY <1>3 DEF NoneForgotten, StopsLater
  <2>2. \A e \in S : IsCurrent(e)
    BY <1>4, CurrentTyped DEF Steady
  <2> QED
    BY <1>1, <1>4, <2>1, <2>2 DEF IsStarted, IsCurrent
<1>6. ~ running => CloseWaits /\ "close" \in hub.doings
  BY <1>2 DEF NoneForgotten, PassesFirst, Passes
<1>7. ClosesLast' /\ (CloseWaits' <=> CloseWaits)
  BY <1>1 DEF NoneForgotten, ClosesLast, CloseWaits, Waiting
<1>8. StopsLater' /\ ClosesAll' /\ WillClose' /\ PassesFirst'
  BY <1>1, <1>3, <1>5, <1>6, <1>7 DEF StopsLater, ClosesAll, WillClose, PassesFirst
<1>9. "close" \in hub'.doings => Known' \subseteq given'
  BY <1>1 DEF NoneForgotten, Known
<1> QED
  BY <1>1, <1>7, <1>8, <1>9 DEF NoneForgotten

\* Taking the lock forgets none: a close stops every one that started.
LEMMA AcquireForgetsNone ==
    ASSUME Steady, NoneForgotten, Acquire
    PROVE  NoneForgotten'
<1> DEFINE t == Head(queue)
           x == Ended(entry[t.e], t.ok)
<1>1. /\ work = <<>> /\ Todo = {} /\ t \in TaskType /\ t.e \in Entry
      /\ Waiting = {t} \cup Waiting' /\ queue # <<>> /\ queue' = Tail(queue)
      /\ UNCHANGED <<hub, known, given, running>>
  BY AcquireTakes DEF Steady
<1>2. \/ /\ t.do = "started" /\ ~ IsItsStart(t) /\ Todo' = {} /\ entry' = entry
      \/ /\ t.do = "started" /\ IsItsStart(t) /\ Becomes(t.e, x)
         /\ Todo' = IF x.state = "running" THEN {Step("missed", t.e), Settle}
                    ELSE IF x.stoppedWith.stopped THEN {Stop(t.e), Settle}
                    ELSE {Stop(t.e), Step("failed", t.e), Settle}
      \/ /\ t.do # "started" /\ entry' = entry /\ Todo' = ToSet(StepsOf(t))
  BY AcquireTakes DEF Steady
<1>3. ~ Closes /\ \A e : ~ ToStop(e)
  BY <1>1 DEF Closes, ToStop
<1>4. \A e \in Entry : IsStarted(e) => IsCurrent(e)
  BY <1>3 DEF NoneForgotten, StopsLater
<1>5. \A e \in Entry : IsStarted(e)' <=> IsStarted(e)
  <2>1. CASE entry' = entry
    BY <2>1 DEF IsStarted
  <2>2. CASE t.do = "started" /\ IsItsStart(t) /\ Becomes(t.e, x)
    <3>1. t.n \in Tasks /\ t.n # NoTask /\ t \in Waiting
      BY <1>1, <2>2, WaitingTyped DEF Steady, StartsApart
    <3>2. entry[t.e].state = "starting"
      BY <1>1, <2>2, <3>1 DEF IsItsStart, Steady, StartsApart
    <3>3. t.ok \in BOOLEAN
      BY <1>1 DEF TaskType
    <3>4. x.state \in {"starting", "running"}
      BY <1>1, <3>2, <3>3, EndedTyped DEF Steady
    <3> HIDE DEF x, t
    <3> QED
      BY <2>2, <3>2, <3>4 DEF Becomes, IsStarted, Started
  <2> QED
    BY <1>2, <2>1, <2>2
<1>6. StopsLater'
  BY <1>1, <1>4, <1>5 DEF StopsLater, IsCurrent
<1>7. /\ ClosesLast' /\ (CloseWaits' => CloseWaits)
      /\ ~ running /\ t.do \in {"boot", "refresh"} => CloseWaits'
      /\ t.do # "close" /\ CloseWaits => CloseWaits'
  <2>1. /\ ClosesLast'
        /\ ~ running /\ Head(queue).do \in {"boot", "refresh"} => CloseWaits'
    BY <1>1, LastWhenTaken DEF NoneForgotten, Steady
  <2> HIDE DEF t
  <2>2. (CloseWaits' => CloseWaits) /\ (t.do # "close" /\ CloseWaits => CloseWaits')
    BY <1>1 DEF CloseWaits
  <2> QED
    BY <2>1, <2>2 DEF t
<1>8. "close" \in hub'.doings => Known' \subseteq given'
  BY <1>1 DEF NoneForgotten, Known
<1>9. CASE t.do = "close"
  <2>1. Todo' = {Stop(e) : e \in {f \in CurrentEntries : IsStarted(f)}} \cup {Step("closed", NoEntry)}
    BY <1>1, <1>2, <1>9, StepsOfFit DEF Steady
  <2>2. \A e : Stop(e).do = "stop" /\ Stop(e).e = e
    BY DEF Stop, StopTo
  <2>3. Step("closed", NoEntry).do = "closed"
    BY DEF Step
  <2> HIDE DEF t, x
  <2>4. Closes' /\ \A y \in Todo' : y.do \notin Passes
    BY <2>1, <2>2, <2>3 DEF Closes, Passes
  <2>5. ASSUME NEW e \in Entry, IsStarted(e)' PROVE ToStop(e)'
    <3>1. IsStarted(e) /\ e \in CurrentEntries
      BY <1>4, <1>5, <2>5, CurrentTyped DEF Steady
    <3>2. Stop(e) \in Todo'
      BY <2>1, <3>1
    <3> QED
      BY <2>2, <3>2 DEF ToStop, Stops
  <2>6. \A e \in Entry : IsStarted(e)' => ToStop(e)'
    BY <2>5
  <2>7. "close" \in hub.doings
    BY <1>1, <1>9 DEF NoneForgotten, CloseWaits
  <2>8. ClosesAll' /\ WillClose' /\ PassesFirst'
    BY <1>1, <2>4, <2>6, <2>7 DEF ClosesAll, WillClose, PassesFirst
  <2> QED
    BY <1>1, <1>6, <1>7, <1>8, <2>7, <2>8 DEF NoneForgotten
<1>10. CASE t.do # "close"
  <2>1. \A y \in Todo' : y.do # "closed" /\ (y.do \in Passes => t.do \in {"boot", "refresh"})
    <3>1. CASE t.do = "started"
      <4>1. Todo' \subseteq {Step("missed", t.e), Settle, Stop(t.e), Step("failed", t.e)}
        BY <1>2, <3>1
      <4>2. /\ Step("missed", t.e).do = "missed" /\ Step("failed", t.e).do = "failed"
            /\ Settle.do = "settle" /\ Stop(t.e).do = "stop"
        BY DEF Step, Settle, Stop, StopTo
      <4> QED
        BY <4>1, <4>2 DEF Passes
    <3>2. CASE t.do # "started"
      <4>1. Todo' = CASE t.do \in {"boot", "refresh"} -> {Pass}
                  [] t.do = "close" -> {Stop(e) : e \in {f \in CurrentEntries : IsStarted(f)}}
                                       \cup {Step("closed", NoEntry)}
                  [] t.do = "disable" -> {StopTo(t.e, "disabled"), Settle}
                  [] t.do = "restart" -> {Stop(t.e), Step("revive", t.e), Settle}
                  [] t.do = "platform" -> {Step("platform", e) : e \in t.all} \cup {Settle}
                  [] OTHER -> {Step(t.do, t.e), Settle}
        BY <1>1, <1>2, <3>2, StepsOfFit DEF Steady
      <4>2. t.do \in {"boot", "refresh", "close", "enable", "disable", "restart", "settings",
                      "platform", "fail", "quit", "started"}
        BY <1>1 DEF TaskType
      <4>3. /\ Settle.do = "settle" /\ Stop(t.e).do = "stop" /\ StopTo(t.e, "disabled").do = "stop"
            /\ \A do, e : Step(do, e).do = do
            /\ Pass.do = "pass"
        BY DEF Step, Settle, Stop, StopTo, Pass
      <4> HIDE DEF t, x
      <4>4. CASE t.do \in {"boot", "refresh"}
        BY <4>1, <4>3, <4>4
      <4>5. CASE t.do = "platform"
        <5>1. Todo' = {Step("platform", e) : e \in t.all} \cup {Settle}
          BY <4>1, <4>5
        <5> QED
          BY <4>3, <5>1 DEF Passes
      <4>6. CASE t.do \in {"enable", "disable", "restart", "settings", "fail", "quit"}
        <5>1. Todo' \subseteq {StopTo(t.e, "disabled"), Stop(t.e), Step("revive", t.e),
                               Step(t.do, t.e), Settle}
          BY <4>1, <4>6
        <5> QED
          BY <4>3, <4>6, <5>1 DEF Passes
      <4> QED
        BY <1>10, <3>2, <4>2, <4>4, <4>5, <4>6
    <3> QED
      BY <3>1, <3>2
  <2> HIDE DEF t, x
  <2>2. ~ Closes'
    BY <2>1 DEF Closes
  <2>3. ClosesAll'
    BY <2>2 DEF ClosesAll
  <2>4. WillClose'
    BY <1>1, <1>3, <1>5, <1>7, <1>10 DEF NoneForgotten, WillClose
  <2>5. PassesFirst'
    BY <1>1, <1>7, <2>1 DEF PassesFirst
  <2> QED
    BY <1>1, <1>6, <1>7, <1>8, <2>3, <2>4, <2>5 DEF NoneForgotten
<1> QED
  BY <1>9, <1>10

\* Every step forgets none.
LEMMA NoneForgottenStays ==
    ASSUME Steady, NoneForgotten, ClosesWhole, [Next]_vars
    PROVE  NoneForgotten'
<1>1. CASE UNCHANGED vars
  BY <1>1 DEF vars, NoneForgotten, StopsLater, ClosesAll, WillClose, ClosesLast, PassesFirst,
              CloseWaits, Closes, Todo, Waiting, ToStop, IsStarted, IsCurrent, Known
<1>2. CASE Holder
  BY <1>2, AcquireForgetsNone, SettleForgetsNone, ClosedForgetsNone, MarkedForgetsNone,
     StateForgetsNone, StopForgetsNone, CancelForgetsNone, HookForgetsNone,
     BeginPassForgetsNone, EndPassForgetsNone DEF Holder
<1>3. CASE Boot \/ Begins \/ Ends
  BY <1>3, BootForgetsNone, StartForgetsNone
<1>4. CASE Called \/ Retry
  BY <1>4, CloseForgetsNone, CalledForgetsNone
<1> QED
  BY <1>1, <1>2, <1>3, <1>4 DEF Next

-----------------------------------------------------------------------------
(* The second layer holds. *)

\* The two layers.
Orderliness == Steady /\ CallsApart /\ NoneForgotten

\* It holds at first.
LEMMA OrderlyAtFirst ==
    ASSUME Init
    PROVE  Orderliness
<1>1. Steady
  BY SteadyAtFirst
<1>2. /\ Todo = {} /\ Waiting = {} /\ starts = {}
      /\ \A p \in Peripherals : object[p].call = "off"
  BY DEF Init, Todo, Waiting, ToSet
<1>3. \A e \in Entry : entry[e].state = "waiting" /\ ~ IsStarted(e)
  <2>1. \A e \in Entry : entry[e].state = "waiting"
    BY DEF Init, NewEntry
  <2> QED
    BY <2>1 DEF IsStarted, Started
<1>4. CallsApart
  BY <1>2, <1>3 DEF CallsApart
<1>5. StopsLater /\ ClosesAll /\ WillClose /\ PassesFirst
  BY <1>2, <1>3 DEF StopsLater, ClosesAll, WillClose, PassesFirst
<1>6. ClosesLast /\ ~ CloseWaits
  BY <1>2 DEF ClosesLast, CloseWaits, Init
<1>7. Known \subseteq given
  BY DEF Known, Init
<1> QED
  BY <1>1, <1>4, <1>5, <1>6, <1>7 DEF Orderliness, NoneForgotten

\* Every step keeps it.
LEMMA OrderlyStays ==
    ASSUME ClosesWhole, Orderliness, [Next]_vars
    PROVE  Orderliness'
<1>1. Steady' /\ NoneForgotten'
  BY SteadyStays, NoneForgottenStays DEF Orderliness
<1>2. CallsApart'
  <2>1. CASE Next
    BY <2>1, CallsApartStays DEF Orderliness
  <2>2. CASE UNCHANGED vars
    BY <2>2 DEF Orderliness, vars, CallsApart, CallOf, IsStarted, IsStartOf, Waiting, Todo
  <2> QED
    BY <2>1, <2>2
<1> QED
  BY <1>1, <1>2 DEF Orderliness

\* So it always holds.
LEMMA AlwaysOrderly ==
    ASSUME ClosesWhole
    PROVE  Spec => []Orderliness
<1>1. Init => Orderliness
  BY OrderlyAtFirst
<1>2. Orderliness /\ [Next]_vars => Orderliness'
  BY OrderlyStays
<1> QED
  BY <1>1, <1>2, PTL DEF Spec

\* What is shown as running was started and not stopped since, whatever starts were left
\* behind by earlier stops and however late they return.
THEOREM RunsOnlyWhatWasStarted ==
    ASSUME ClosesWhole
    PROVE  Spec => []RunningWasStarted
<1>1. Orderliness => RunningWasStarted
  <2>1. ASSUME Orderliness, NEW p \in Known, StateOf(p) = "running"
        PROVE  object[p].call \in {"on", "asked", "stopping"}
    <3>1. Current(p) \in Entry /\ Current(p)[1] = p /\ entry[Current(p)].state = "running"
      BY <2>1, CurrentTyped DEF StateOf, Orderliness, Steady
    <3> QED
      BY <2>1, <3>1 DEF Orderliness, CallsApart, CallOf
  <2> QED
    BY <2>1 DEF RunningWasStarted
<1> QED
  BY <1>1, AlwaysOrderly, PTL

\* None runs on unseen: one that was started is known as started or about to be stopped,
\* and all are stopped once the runtime is.
THEOREM NoneIsForgotten ==
    ASSUME ClosesWhole
    PROVE  Spec => [](NoneRunsUnseen /\ StoppedMeansStopped)
<1>1. Orderliness => NoneRunsUnseen
  <2>1. ASSUME Orderliness, Calm, NEW p \in Peripherals, object[p].call # "off"
        PROVE  running /\ p \in Known /\ IsStarted(Current(p))
    <3>1. Todo = {} /\ Waiting = {}
      BY <2>1 DEF Calm, Todo, Waiting, ToSet
    <3>2. PICK l \in Lives : IsStarted(<<p, l>>)
      BY <2>1 DEF Orderliness, CallsApart
    <3>3. PICK e \in Entry : e = <<p, l>>
      BY DEF Entry
    <3>4. IsCurrent(e)
      BY <2>1, <3>1, <3>2, <3>3 DEF Orderliness, NoneForgotten, StopsLater, ToStop
    <3>5. p \in Known /\ e = Current(p)
      BY <2>1, <3>3, <3>4, CurrentTyped DEF Orderliness, Steady
    <3>6. running
      BY <2>1, <3>1, <3>2, <3>3 DEF Orderliness, NoneForgotten, WillClose, CloseWaits, Closes
    <3> QED
      BY <3>2, <3>3, <3>5, <3>6
  <2> QED
    BY <2>1 DEF NoneRunsUnseen
<1>2. NoneRunsUnseen => StoppedMeansStopped
  BY DEF NoneRunsUnseen, StoppedMeansStopped
<1> QED
  BY <1>1, <1>2, AlwaysOrderly, PTL

\* Every peripheral gets its calls in turn, as PeripheralCalls says: whatever is called from
\* outside, fails, takes too long or is retried, no two starts at once, no stop or hook during
\* a hook, no hook on one that does not run.
THEOREM EveryCallInOrder ==
    ASSUME ClosesWhole
    PROVE  Spec => CallsInOrder
<1>1. Init => Calls!Init
  BY DEF Init, Calls!Init
<1>2. Orderliness /\ [Next]_vars => [Calls!Next]_([p \in Peripherals |-> object[p].call])
  <2>1. ASSUME Orderliness, Next
        PROVE  Calls!Next \/ UNCHANGED [p \in Peripherals |-> object[p].call]
    BY <2>1, CallsKeepTurn DEF Orderliness
  <2>2. ASSUME UNCHANGED vars
        PROVE  UNCHANGED [p \in Peripherals |-> object[p].call]
    BY <2>2 DEF vars
  <2> QED
    BY <2>1, <2>2
<1> QED
  BY <1>1, <1>2, AlwaysOrderly, PTL DEF Spec, CallsInOrder, Calls!Spec

-----------------------------------------------------------------------------
(* One given up on stays so. *)

\* A failure is counted by one that is current, and not in a runtime never started.
FailsCurrent ==
    \A x \in Todo : x.do = "failed" => IsCurrent(x.e) /\ (running \/ "close" \in hub.doings)

\* A failure to be counted is of one that is current, and new ones are of one that started.
LEMMA NewFailures ==
    ASSUME Steady, NoneForgotten, Holder
    PROVE  \A x \in Todo' : x.do = "failed" =>
               x \in Todo \/ (x.e \in Entry /\ IsStarted(x.e) /\ IsCurrent(x.e))
<1> DEFINE Goal == \A x \in Todo' : x.do = "failed" =>
               x \in Todo \/ (x.e \in Entry /\ IsStarted(x.e) /\ IsCurrent(x.e))
<1>1. work # <<>> => Rest \subseteq Todo /\ Head(work).e \in Entry
  BY HeadFits DEF Steady
<1>2. ASSUME work # <<>>, Head(work).do \notin Stops, NEW e \in Entry, IsStarted(e)
      PROVE  IsCurrent(e)
  <2>1. ~ ToStop(e)
    BY <1>2, HeadNotStopping DEF Steady, ToStop
  <2> QED
    BY <1>2, <2>1 DEF NoneForgotten, StopsLater
<1>3. ASSUME \A x \in Todo' : x \in Todo \/ x.do # "failed" PROVE Goal
  BY <1>3
<1>4. CASE Revive \/ LetStart \/ CountFailure \/ StopDisabled \/ EndStop \/ NoChange
  BY <1>1, <1>3, <1>4, DoneWork DEF Steady
<1>5. CASE SettleChange \/ Closed
  BY <1>3, <1>5, FreeWork DEF Steady
<1>6. CASE TellOrNote
  BY <1>1, <1>3, <1>6, TellOrNoteWork, HookNamed DEF Steady, Hooks
<1>7. CASE TellMissed
  <2>1. \A x \in Todo' : x \in Rest \/ x.do \in Hooks
    BY <1>7, TellMissedWork, HookNamed DEF Steady, Hooks
  <2> QED
    BY <1>1, <1>3, <1>7, <2>1, TellMissedWork DEF Steady, Hooks
<1>8. CASE TakeTold
  <2> DEFINE e == Head(work).e
  <2>1. /\ work # <<>> /\ e \in Entry /\ entry[e].state = "running"
        /\ \A x \in Todo' : x \in Rest \/ x \in {Stop(e), Step("failed", e)}
        /\ Head(work).do \in {"fail", "quit"}
    BY <1>8, TakeToldWork DEF Steady
  <2>2. IsStarted(e) /\ Head(work).do \notin Stops
    BY <2>1 DEF IsStarted, Started, Stops
  <2>3. IsCurrent(e)
    BY <1>2, <2>1, <2>2
  <2>4. Stop(e).do = "stop" /\ Step("failed", e).e = e
    BY DEF Stop, StopTo, Step
  <2> HIDE DEF e
  <2> QED
    BY <1>1, <2>1, <2>2, <2>3, <2>4
<1>9. CASE EndHook
  <2> DEFINE e == Head(work).e
             past == ToSet(PastHooks(e, Tail(work)))
  <2>1. /\ work # <<>> /\ e \in Entry /\ Head(work).do = "hook" /\ past \subseteq Rest
        /\ \A x \in Todo' : x \in Rest \/ x \in {Stop(e), Step("failed", e)} \cup past
    BY <1>9, EndHookWork DEF Steady
  <2> HIDE DEF past
  <2>2. entry[e].state = "running" /\ Head(work).do \notin Stops
    BY <2>1, HeadMatches DEF Steady, Stops
  <2>3. IsStarted(e)
    BY <2>2 DEF IsStarted, Started
  <2>4. IsCurrent(e)
    BY <1>2, <2>1, <2>2, <2>3
  <2>5. Stop(e).do = "stop" /\ Step("failed", e).e = e
    BY DEF Stop, StopTo, Step
  <2> HIDE DEF e
  <2> QED
    BY <1>1, <2>1, <2>3, <2>4, <2>5
<1>10. CASE StopUsers
  <2>1. \A e : Stop(e).do = "stop"
    BY DEF Stop, StopTo
  <2> QED
    BY <1>3, <1>10, <2>1, StopUsersWork DEF Steady
<1>11. CASE CancelStart \/ CallStop
  <2>1. work # <<>> /\ Head(work) \in StepType
    BY <1>11, HeadFits DEF CancelStart, CallStop, StopsEntry, HeadIs, Steady
  <2>2. \E do \in {"cancelled", "stopping"} : Todo' = {[Head(work) EXCEPT !.do = do]} \cup Rest
    BY <1>11, CancelStartDoes, CallStopDoes DEF Steady
  <2>3. \A do \in {"cancelled", "stopping"} : [Head(work) EXCEPT !.do = do].do = do
    BY <2>1 DEF StepType
  <2> QED
    BY <1>1, <1>3, <2>1, <2>2, <2>3
<1>12. CASE BeginHook
  BY <1>1, <1>3, <1>12, BeginHookWork DEF Steady, Step
<1>13. CASE BeginPass
  <2>1. Todo' = {Stop(e) : e \in Gone} \cup {Step("drop", NoEntry)}
    BY <1>13, BeginPassWork DEF Steady
  <2> QED
    BY <1>3, <2>1 DEF Stop, StopTo, Step
<1>14. CASE DropUnwanted
  <2>1. \A x \in Todo' : x.do \in {"stop", "moves"}
    BY <1>14, DropUnwantedWork DEF Steady, Stop, StopTo, Step
  <2> QED
    BY <1>3, <2>1
<1>15. CASE BeginDeliver
  <2>1. \A x \in Todo' : x.do \in {"deliver", "start"}
    BY <1>15, BeginDeliverWork DEF Steady, Step
  <2> QED
    BY <1>3, <2>1
<1>16. CASE Deliver
  <2>1. \A x \in Todo' : x \in Rest \/ x.do = "tell_need"
    BY <1>16, DeliverWork DEF Steady, Step
  <2> QED
    BY <1>1, <1>3, <1>16, <2>1, DeliverWork DEF Steady
<1>17. CASE EndPass
  BY <1>3, <1>17, EndPassWork DEF Steady, Pass, Step
<1>18. CASE Acquire
  <2> DEFINE t == Head(queue)
             x == Ended(entry[t.e], t.ok)
  <2>1. /\ work = <<>> /\ Todo = {} /\ t \in TaskType /\ t.e \in Entry /\ t \in Waiting
        /\ \/ Todo' = {}
           \/ /\ t.do = "started" /\ IsItsStart(t)
              /\ Todo' \subseteq {Step("missed", t.e), Settle, Stop(t.e), Step("failed", t.e)}
           \/ t.do # "started" /\ Todo' = ToSet(StepsOf(t))
    BY <1>18, AcquireTakes DEF Steady
  <2> HIDE DEF t
  <2>2. CASE t.do = "started" /\ IsItsStart(t)
               /\ Todo' \subseteq {Step("missed", t.e), Settle, Stop(t.e), Step("failed", t.e)}
    <3>1. t.n \in Tasks /\ t.n # NoTask
      BY <2>1, <2>2, WaitingTyped DEF Steady, StartsApart
    <3>2. entry[t.e].state = "starting"
      BY <2>1, <2>2, <3>1 DEF IsItsStart, Steady, StartsApart
    <3>3. IsStarted(t.e) /\ ~ ToStop(t.e)
      BY <2>1, <3>2 DEF IsStarted, Started, ToStop
    <3>4. IsCurrent(t.e)
      BY <2>1, <3>3 DEF NoneForgotten, StopsLater
    <3>5. \A y \in Todo' : y.do = "failed" => y.e = t.e
      BY <2>2 DEF Step, Settle, Stop, StopTo
    <3> QED
      BY <2>1, <3>3, <3>4, <3>5
  <2>3. CASE t.do # "started" /\ Todo' = ToSet(StepsOf(t))
    <3>1. \A y \in Todo' : Free(y)
      BY <2>1, <2>3, StepsOfFree DEF Steady
    <3> QED
      BY <1>3, <3>1 DEF Free
  <2> QED
    BY <2>1, <2>2, <2>3
<1> QED
  BY <1>4, <1>5, <1>6, <1>7, <1>8, <1>9, <1>10, <1>11, <1>12, <1>13, <1>14, <1>15, <1>16, <1>17,
     <1>18 DEF Holder

\* The entries known stay known when a runtime that is stopped collects.
LEMMA CollectKeepsKnown ==
    ASSUME Steady, NoneForgotten, ClosesWhole, "close" \in hub.doings,
           given' \subseteq Peripherals, given \subseteq given',
           NEW listed, Collect(PresentOf(given', listed))
    PROVE  \A e \in Entry : IsCurrent(e) => IsCurrent(e)'
<1> DEFINE there == PresentOf(given', listed)
<1>1. there \subseteq Peripherals
  BY ThereAre
<1>2. \A p \in Peripherals :
                 \/ known'[p] = known[p] /\ (p \in there <=> known[p] # NoLife)
                 \/ p \notin there /\ known'[p] = NoLife
                 \/ p \in there /\ known[p] = NoLife /\ known'[p] \in Lives
  BY <1>1, CollectDoes DEF Steady
<1>3. Known \subseteq there
  BY GivenAreThere DEF Steady, TypeOK, NoneForgotten
<1> HIDE DEF there
<1>4. ASSUME NEW e \in Entry, IsCurrent(e) PROVE IsCurrent(e)'
  <2>1. e[1] \in Known /\ e[1] \in Peripherals
    BY <1>4, CurrentTyped DEF Steady
  <2>2. known'[e[1]] = known[e[1]]
    BY <1>2, <1>3, <2>1 DEF Known
  <2> QED
    BY <1>4, <2>2 DEF IsCurrent
<1> QED
  BY <1>4

\* So does every step: only a current entry is left with a failure to count.
LEMMA FailsCurrentStays ==
    ASSUME Steady, NoneForgotten, FailsCurrent, ClosesWhole, [Next]_vars
    PROVE  FailsCurrent'
<1>1. CASE UNCHANGED vars
  BY <1>1 DEF vars, FailsCurrent, Todo, IsCurrent
<1>2. CASE SettleChange \/ BeginPass
  <2>1. \A x \in Todo' : x.do # "failed"
    <3>1. CASE SettleChange
      BY <3>1, FreeWork DEF Steady
    <3>2. CASE BeginPass
      <4>1. Todo' = {Stop(e) : e \in Gone} \cup {Step("drop", NoEntry)}
        BY <3>2, BeginPassWork DEF Steady
      <4> QED
        BY <4>1 DEF Stop, StopTo, Step
    <3> QED
      BY <1>2, <3>1, <3>2
  <2> QED
    BY <2>1 DEF FailsCurrent
<1>3. CASE Holder /\ ~ SettleChange /\ ~ BeginPass
  <2>1. UNCHANGED <<hub, known, running>>
    BY <1>3 DEF Holder, Acquire, Closed, Revive, LetStart, TellOrNote, TellMissed, TakeTold,
         NoChange, CountFailure, StopDisabled, StopUsers, CancelStart, CallStop, EndStop, BeginHook,
         EndHook, DropUnwanted, BeginDeliver, Deliver, EndPass
  <2>2. \A x \in Todo' : x.do = "failed" =>
               x \in Todo \/ (x.e \in Entry /\ IsStarted(x.e) /\ IsCurrent(x.e))
    BY <1>3, NewFailures
  <2>3. \A e \in Entry : IsStarted(e) => running \/ "close" \in hub.doings
    BY DEF NoneForgotten, WillClose
  <2>4. \A x \in Todo' : x.do = "failed" => IsCurrent(x.e) /\ (running \/ "close" \in hub.doings)
    BY <2>2, <2>3 DEF FailsCurrent
  <2> QED
    BY <2>1, <2>4 DEF FailsCurrent, IsCurrent
<1>4. CASE Boot \/ Begins \/ Ends \/ Close
  <2>1. /\ UNCHANGED <<hub, known, work>>
        /\ running' = running \/ running' = TRUE \/ "close" \in hub.doings
    BY <1>4 DEF Boot, Begins, Ends, BeginStart, EndStart, Close, CanCall
  <2> QED
    BY <2>1 DEF FailsCurrent, Todo, IsCurrent
<1>5. CASE (Called \/ Retry) /\ ~ Close
  <2>1. /\ running' = running /\ work' = work /\ hub' = hub /\ given' \subseteq Peripherals
        /\ given \subseteq given' \/ "remove" \in hub.doings
        /\ \/ known' = known
           \/ ~ running /\ Collect(PresentOf(given', plugged'))
    BY <1>5, OthersAsk DEF Steady, Noting
  <2>2. CASE known' = known
    BY <2>1, <2>2 DEF FailsCurrent, Todo, IsCurrent
  <2>3. CASE ~ running /\ Collect(PresentOf(given', plugged'))
    <3>1. "close" \in hub.doings => given \subseteq given'
      BY <2>1 DEF ClosesWhole, Steady, TypeOK
    <3>2. "close" \in hub.doings => \A e \in Entry : IsCurrent(e) => IsCurrent(e)'
      BY <2>1, <2>3, <3>1, CollectKeepsKnown
    <3>3. Todo' = Todo /\ \A x \in Todo : x.e \in Entry
      BY <2>1, TodoTyped DEF Todo, Steady
    <3>4. ASSUME NEW x \in Todo, x.do = "failed"
          PROVE  IsCurrent(x.e)' /\ (running' \/ "close" \in hub'.doings)
      <4>1. IsCurrent(x.e) /\ "close" \in hub.doings
        BY <2>3, <3>4 DEF FailsCurrent
      <4> QED
        BY <2>1, <3>2, <3>3, <4>1
    <3> QED
      BY <3>3, <3>4 DEF FailsCurrent
  <2> QED
    BY <2>1, <2>2, <2>3
<1> QED
  BY <1>1, <1>2, <1>3, <1>4, <1>5 DEF Next, Holder

\* A stop that leaves waiting a current entry that failed.
Awakes(x) ==
    /\ x.do \in Stops /\ x.to = "waiting"
    /\ IsCurrent(x.e) /\ entry[x.e].state = "failed"

\* After each of them in the work comes the step that revives the entry.
Follows(w) ==
    \A i \in DOMAIN w : Awakes(w[i]) =>
        i < Len(w) /\ w[i + 1] = Step("revive", w[i].e)

\* A stop that leaves one that failed waiting has its revival right after it.
RevivedNext == Follows(work)

\* What is left of the work once its head is done; a stop that wakes at the head has its
\* revival next.
LEMMA FollowsTail ==
    ASSUME NEW w \in Seq(StepType), w # <<>>, Follows(w)
    PROVE  Follows(Tail(w)) /\ (Awakes(Head(w)) =>
               Tail(w) # <<>> /\ Head(Tail(w)) = Step("revive", Head(w).e))
<1>1. /\ Head(w) = w[1] /\ Tail(w) \in Seq(StepType)
      /\ Len(Tail(w)) = Len(w) - 1 /\ Len(w) \in Nat \ {0}
      /\ \A i \in 1..(Len(w) - 1) : Tail(w)[i] = w[i + 1]
  BY SetOfTail
<1> DEFINE v == Tail(w)
<1> HIDE DEF v
<1>2. DOMAIN v = 1..(Len(w) - 1) /\ DOMAIN w = 1..Len(w) /\ Len(v) = Len(w) - 1
  BY <1>1 DEF v
<1>3. ASSUME NEW i \in DOMAIN v, Awakes(v[i])
      PROVE  i < Len(v) /\ v[i + 1] = Step("revive", v[i].e)
  <2>1. v[i] = w[i + 1] /\ i + 1 \in DOMAIN w
    BY <1>1, <1>2 DEF v
  <2>2. i + 1 < Len(w) /\ w[i + 1 + 1] = Step("revive", w[i + 1].e)
    BY <1>3, <2>1 DEF Follows
  <2>3. i + 1 \in 1..(Len(w) - 1)
    BY <1>1, <1>2, <2>1, <2>2
  <2>4. v[i + 1] = w[i + 1 + 1]
    BY <1>1, <2>3 DEF v
  <2> QED
    BY <1>1, <1>2, <2>1, <2>2, <2>3, <2>4
<1>4. ASSUME Awakes(Head(w))
      PROVE  v # <<>> /\ Head(v) = Step("revive", Head(w).e)
  <2>1. 1 < Len(w) /\ w[2] = Step("revive", w[1].e)
    BY <1>1, <1>2, <1>4 DEF Follows
  <2>2. v[1] = w[2] /\ Len(v) # 0 /\ v \in Seq(StepType)
    BY <1>1, <1>2, <2>1 DEF v
  <2> QED
    BY <1>1, <2>1, <2>2
<1> QED
  BY <1>3, <1>4 DEF Follows, v

\* Steps put before the work that wake none change nothing.
LEMMA FollowsConcat ==
    ASSUME NEW u \in Seq(StepType), NEW w \in Seq(StepType), Follows(w),
           \A x \in ToSet(u) : ~ Awakes(x)
    PROVE  Follows(u \o w)
<1> DEFINE v == u \o w
<1>1. /\ v \in Seq(StepType) /\ Len(v) = Len(u) + Len(w) /\ Len(u) \in Nat /\ Len(w) \in Nat
      /\ \A i \in 1..(Len(u) + Len(w)) : v[i] = IF i <= Len(u) THEN u[i] ELSE w[i - Len(u)]
  OBVIOUS
<1>2. DOMAIN v = 1..(Len(u) + Len(w)) /\ DOMAIN u = 1..Len(u) /\ DOMAIN w = 1..Len(w)
  BY <1>1
<1> HIDE DEF v
<1>3. ASSUME NEW i \in DOMAIN v, Awakes(v[i])
      PROVE  i < Len(v) /\ v[i + 1] = Step("revive", v[i].e)
  <2>1. ~ (i <= Len(u))
    <3>1. i <= Len(u) => v[i] = u[i] /\ i \in DOMAIN u
      BY <1>1, <1>2
    <3>2. i <= Len(u) => v[i] \in ToSet(u)
      BY <3>1 DEF ToSet
    <3> QED
      BY <1>3, <3>2
  <2>2. v[i] = w[i - Len(u)] /\ i - Len(u) \in DOMAIN w
    BY <1>1, <1>2, <2>1
  <2>3. i - Len(u) < Len(w) /\ w[(i - Len(u)) + 1] = Step("revive", w[i - Len(u)].e)
    BY <1>3, <2>2 DEF Follows
  <2>4. i < Len(v) /\ v[i + 1] = w[(i - Len(u)) + 1]
    BY <1>1, <1>2, <2>1, <2>3
  <2> QED
    BY <2>2, <2>3, <2>4
<1> QED
  BY <1>3 DEF Follows, v

\* It stays so of the steps that leave waiting what they left before.
LEMMA StillFollows ==
    ASSUME NEW w \in Seq(StepType), Follows(w), work' = w,
           \A x \in ToSet(w) : Awakes(x)' => Awakes(x)
    PROVE  RevivedNext'
<1>1. \A i \in DOMAIN w : w[i] \in ToSet(w)
  BY DEF ToSet
<1>2. \A i \in DOMAIN w : Awakes(w[i])' => i < Len(w) /\ w[i + 1] = Step("revive", w[i].e)
  <2> TAKE i \in DOMAIN w
  <2>1. Awakes(w[i])' => Awakes(w[i])
    BY <1>1
  <2> QED
    BY <2>1 DEF Follows
<1> QED
  BY <1>2 DEF RevivedNext, Follows, Awakes, IsCurrent

\* So it does when nothing is left waiting that failed.
LEMMA NoneAwakes ==
    ASSUME \A x \in Todo' :
               x.do \in Stops => ~ (x.to = "waiting" /\ IsCurrent(x.e)' /\ entry'[x.e].state = "failed")
    PROVE  RevivedNext'
<1>1. \A i \in DOMAIN work' : work'[i] \in Todo'
  BY DEF Todo, ToSet
<1> QED
  BY <1>1 DEF RevivedNext, Follows, Awakes, IsCurrent

\* A change of one entry wakes none, and ends the work it was made for.
LEMMA ChangesFollow ==
    ASSUME Steady,
           \/ Revive \/ LetStart \/ CountFailure \/ NoChange \/ TellOrNote \/ TellMissed \/ TakeTold
           \/ Deliver \/ BeginHook \/ EndHook
    PROVE  RevivedNext'
<1>1. /\ work # <<>> /\ Head(work).e \in Entry
      /\ Head(work).do \in {"revive", "enable", "settings", "platform", "fail", "quit", "failed",
                            "missed", "deliver", "hook"} \cup Hooks
  <2>1. /\ work # <<>>
        /\ Head(work).do \in {"revive", "enable", "settings", "platform", "fail", "quit", "failed",
                              "missed", "deliver", "hook"} \cup Hooks
    BY DEF Revive, LetStart, CountFailure, NoChange, TellOrNote, TellMissed, TakeTold, Deliver,
           BeginHook, EndHook, HeadIs, Hooks
  <2> QED
    BY <2>1, HeadFits DEF Steady
<1> DEFINE e == Head(work).e
           past == ToSet(PastHooks(e, Tail(work)))
<1>2. \A x \in Rest : x.do \notin Stops
  <2>1. Head(work).do \notin Stops
    BY <1>1 DEF Stops, Hooks
  <2> QED
    BY <1>1, <2>1, HeadNotStopping, HeadFits DEF Steady
<1>3. /\ Stop(e).do = "stop" /\ Stop(e).e = e
      /\ \A do : Step(do, e).do = do
  BY DEF Stop, StopTo, Step
<1>4. CASE Revive \/ LetStart \/ CountFailure \/ NoChange
  <2>1. Todo' = Rest
    BY <1>4, DoneWork DEF Steady
  <2> QED
    BY <1>2, <2>1, NoneAwakes
<1>5. CASE TellOrNote \/ TellMissed \/ Deliver \/ BeginHook
  <2>1. \A x \in Todo' : x \in Rest \/ x.do \in Hooks \cup {"hook"}
    <3>1. CASE TellOrNote
      BY <1>3, <3>1, TellOrNoteWork DEF Steady, Hooks
    <3>2. CASE TellMissed
      BY <1>3, <3>2, TellMissedWork DEF Steady, Hooks
    <3>3. CASE Deliver
      BY <1>3, <3>3, DeliverWork DEF Steady, Hooks
    <3>4. CASE BeginHook
      BY <1>3, <3>4, BeginHookWork DEF Steady
    <3> QED
      BY <1>5, <3>1, <3>2, <3>3, <3>4
  <2>2. \A x \in Todo' : x.do \notin Stops
    BY <1>2, <2>1 DEF Stops, Hooks
  <2> QED
    BY <2>2, NoneAwakes
<1>6. CASE TakeTold \/ EndHook
  <2>1. /\ \A x \in Todo' : x \in Rest \/ x \in {Stop(e), Step("failed", e)}
        /\ entry[e].state = "running"
    <3>1. CASE TakeTold
      BY <3>1, TakeToldWork DEF Steady
    <3>2. CASE EndHook
      <4>1. /\ past \subseteq Rest /\ Head(work).do = "hook"
            /\ \A x \in Todo' : x \in Rest \/ x \in {Stop(e), Step("failed", e)} \cup past
        BY <3>2, EndHookWork DEF Steady
      <4> HIDE DEF past
      <4>2. entry[e].state = "running"
        BY <1>1, <4>1, HeadMatches DEF Steady
      <4> QED
        BY <4>1, <4>2
    <3> QED
      BY <1>6, <3>1, <3>2
  <2>2. entry'[e].state = entry[e].state
    <3>1. TakeTold => Marking
      BY MarksDo DEF Steady
    <3>2. EndHook => entry' = entry
      BY DEF EndHook
    <3> QED
      BY <1>1, <1>6, <3>1, <3>2 DEF Marking
  <2>3. "failed" \notin Stops
    BY DEF Stops
  <2> HIDE DEF e
  <2>4. \A x \in Todo' : x.do \in Stops => x.e = e
    BY <1>2, <1>3, <2>1, <2>3
  <2> QED
    BY <2>1, <2>2, <2>4, NoneAwakes
<1> QED
  BY <1>4, <1>5, <1>6

\* The stops a pass makes are of what started, or is gone.
LEMMA PassesFollow ==
    ASSUME Steady, BeginPass \/ DropUnwanted \/ BeginDeliver \/ EndPass \/ SettleChange \/ Closed
    PROVE  RevivedNext'
<1>1. /\ \A e : Stop(e).do = "stop" /\ Stop(e).e = e
      /\ \A do, e : Step(do, e).do = do
      /\ "drop" \notin Stops /\ "moves" \notin Stops /\ "deliver" \notin Stops
      /\ "start" \notin Stops /\ "pass" \notin Stops /\ Pass.do = "pass"
  BY DEF Stop, StopTo, Step, Stops, Pass
<1>2. CASE SettleChange \/ Closed
  BY <1>2, FreeWork, NoneAwakes DEF Steady
<1>3. CASE BeginDeliver \/ EndPass
  <2>1. \A x \in Todo' : x.do \in {"deliver", "start", "pass"}
    BY <1>1, <1>3, BeginDeliverWork, EndPassWork DEF Steady
  <2> QED
    BY <1>1, <2>1, NoneAwakes
<1>4. CASE DropUnwanted
  <2>1. \A x \in Todo' : x.do \in Stops => x.e \in Entry /\ IsStarted(x.e)
    BY <1>1, <1>4, DropUnwantedWork DEF Steady
  <2>2. \A e \in Entry : entry'[e].state = entry[e].state
    BY <1>4, MarksDo DEF Marking, Steady
  <2>3. \A x \in Todo' : x.do \in Stops => entry'[x.e].state # "failed"
    BY <2>1, <2>2 DEF IsStarted, Started
  <2> QED
    BY <2>3, NoneAwakes
<1>5. CASE BeginPass
  <2>1. Collect(Present) /\ Gone \subseteq Entry
        /\ Todo' = {Stop(e) : e \in Gone} \cup {Step("drop", NoEntry)}
    BY <1>5, BeginPassWork DEF Steady, BeginPass
  <2>2. \A p \in Peripherals :
                 \/ known'[p] = known[p] /\ (p \in Present <=> known[p] # NoLife)
                 \/ p \notin Present /\ known'[p] = NoLife
                 \/ p \in Present /\ known[p] = NoLife /\ known'[p] \in Lives
    BY <2>1, ThereAre, CollectDoes DEF Steady
  <2>3. ASSUME NEW e \in Gone PROVE ~ IsCurrent(e)'
    <3>1. e \in CurrentEntries /\ e[1] \notin Present /\ e \in Entry
      BY <2>1, <2>3 DEF Gone
    <3>2. e[1] \in Known /\ e[1] \in Peripherals /\ e[2] \in Lives
      BY <3>1, CurrentTyped, EntryOf DEF Steady
    <3>3. known'[e[1]] = NoLife
      BY <2>2, <3>1, <3>2 DEF Known
    <3> QED
      BY <3>2, <3>3, Numbers DEF IsCurrent
  <2>4. \A x \in Todo' : x.do \in Stops => x.e \in Gone
    BY <1>1, <2>1
  <2>5. \A x \in Todo' : x.do \in Stops => ~ IsCurrent(x.e)'
    BY <2>3, <2>4
  <2> QED
    BY <2>5, NoneAwakes
<1> QED
  BY <1>2, <1>3, <1>4, <1>5

\* A restart revives what it stopped; the other tasks stop what started.
LEMMA AcquireFollows ==
    ASSUME Steady, Acquire
    PROVE  RevivedNext'
<1> DEFINE t == Head(queue)
           x == Ended(entry[t.e], t.ok)
<1>1. /\ t \in TaskType /\ t.e \in Entry /\ t \in Waiting
      /\ \/ /\ t.do = "started" /\ ~ IsItsStart(t) /\ Todo' = {}
         \/ /\ t.do = "started" /\ IsItsStart(t) /\ Becomes(t.e, x)
            /\ Todo' = IF x.state = "running" THEN {Step("missed", t.e), Settle}
                       ELSE IF x.stoppedWith.stopped THEN {Stop(t.e), Settle}
                       ELSE {Stop(t.e), Step("failed", t.e), Settle}
         \/ t.do # "started" /\ entry' = entry /\ Todo' = ToSet(StepsOf(t))
  BY AcquireTakes DEF Steady
<1>2. t.do # "started" => work' = StepsOf(t) /\ known' = known
  BY DEF Acquire
<1>3. /\ \A e : Stop(e).do = "stop" /\ Stop(e).e = e
      /\ \A e : StopTo(e, "disabled").to = "disabled"
      /\ \A do, e : Step(do, e).do = do
      /\ Settle.do = "settle" /\ Pass.do = "pass"
  BY DEF Stop, StopTo, Step, Settle, Pass
<1>4. CASE Todo' = {}
  BY <1>4, NoneAwakes
<1>5. CASE /\ t.do = "started" /\ IsItsStart(t) /\ Becomes(t.e, x)
           /\ Todo' = IF x.state = "running" THEN {Step("missed", t.e), Settle}
                      ELSE IF x.stoppedWith.stopped THEN {Stop(t.e), Settle}
                      ELSE {Stop(t.e), Step("failed", t.e), Settle}
  <2>1. t.n \in Tasks /\ t.n # NoTask /\ t.ok \in BOOLEAN
    BY <1>1, <1>5, WaitingTyped DEF Steady, StartsApart, TaskType
  <2>2. entry[t.e].state = "starting"
    BY <1>1, <1>5, <2>1 DEF IsItsStart, Steady, StartsApart
  <2>3. x.state \in {"starting", "running"}
    BY <1>1, <2>1, <2>2, EndedTyped DEF Steady
  <2> HIDE DEF x, t
  <2>4. entry'[t.e].state # "failed"
    BY <1>5, <2>3 DEF Becomes
  <2>5. \A y \in Todo' : y.do \in Stops => y.e = t.e
    BY <1>3, <1>5 DEF Stops
  <2> QED
    BY <2>4, <2>5, NoneAwakes
<1>6. CASE t.do # "started" /\ entry' = entry /\ Todo' = ToSet(StepsOf(t))
  <2> HIDE DEF t
  <2>1. Todo' = CASE t.do \in {"boot", "refresh"} -> {Pass}
                  [] t.do = "close" -> {Stop(e) : e \in {f \in CurrentEntries : IsStarted(f)}}
                                       \cup {Step("closed", NoEntry)}
                  [] t.do = "disable" -> {StopTo(t.e, "disabled"), Settle}
                  [] t.do = "restart" -> {Stop(t.e), Step("revive", t.e), Settle}
                  [] t.do = "platform" -> {Step("platform", e) : e \in t.all} \cup {Settle}
                  [] OTHER -> {Step(t.do, t.e), Settle}
    BY <1>1, <1>6, StepsOfFit DEF Steady
  <2>2. t.do \in {"boot", "refresh", "close", "enable", "disable", "restart", "settings",
                  "platform", "fail", "quit"}
    BY <1>1, <1>6 DEF TaskType
  <2>3. CASE t.do = "restart"
    <3>1. work' = <<Stop(t.e), Step("revive", t.e), Settle>>
      BY <1>2, <2>3 DEF StepsOf
    <3>2. DOMAIN work' = 1..3 /\ Len(work') = 3
          /\ work'[1] = Stop(t.e) /\ work'[2] = Step("revive", t.e) /\ work'[3] = Settle
      BY <3>1
    <3>3. Step("revive", t.e).do \notin Stops /\ Settle.do \notin Stops
      BY <1>3 DEF Stops
    <3>4. ASSUME NEW i \in 1..3, work'[i].do \in Stops
          PROVE  i < 3 /\ work'[i + 1] = Step("revive", work'[i].e)
      <4>1. i = 1
        BY <3>2, <3>3, <3>4
      <4> QED
        BY <1>3, <3>2, <4>1
    <3> QED
      BY <3>2, <3>4 DEF RevivedNext, Follows, Awakes
  <2>4. CASE t.do = "close"
    <3>1. Todo' = {Stop(e) : e \in {f \in CurrentEntries : IsStarted(f)}} \cup {Step("closed", NoEntry)}
      BY <2>1, <2>4
    <3>2. \A y \in Todo' : y.do \in Stops => IsStarted(y.e)
      BY <1>3, <3>1 DEF Stops
    <3>3. \A y \in Todo' : y.do \in Stops => entry'[y.e].state # "failed"
      BY <1>6, <3>2 DEF IsStarted, Started
    <3> QED
      BY <3>3, NoneAwakes
  <2>5. CASE t.do = "disable"
    <3>1. Todo' = {StopTo(t.e, "disabled"), Settle}
      BY <2>1, <2>5
    <3>2. \A y \in Todo' : y.do \in Stops => y.to = "disabled"
      BY <1>3, <3>1 DEF Stops
    <3> QED
      BY <3>2, NoneAwakes
  <2>6. CASE t.do = "platform"
    <3>1. Todo' = {Step("platform", e) : e \in t.all} \cup {Settle}
      BY <2>1, <2>6
    <3>2. \A y \in Todo' : y.do \notin Stops
      BY <1>3, <3>1 DEF Stops
    <3> QED
      BY <3>2, NoneAwakes
  <2>7. CASE t.do \in {"boot", "refresh", "enable", "settings", "fail", "quit"}
    <3>1. Todo' \subseteq {Pass, Step(t.do, t.e), Settle}
      BY <2>1, <2>7
    <3>2. \A y \in Todo' : y.do \notin Stops
      BY <1>3, <2>7, <3>1 DEF Stops
    <3> QED
      BY <3>2, NoneAwakes
  <2> QED
    BY <2>2, <2>3, <2>4, <2>5, <2>6, <2>7
<1> QED
  BY <1>1, <1>4, <1>5, <1>6

\* A step of a stop fails nobody, and puts only stops of what started before the rest.
LEMMA StopsFollow ==
    ASSUME Steady, RevivedNext, StopDisabled \/ StopUsers \/ CancelStart \/ CallStop \/ EndStop
    PROVE  RevivedNext'
<1> DEFINE e == Head(work).e
<1>1. /\ work # <<>> /\ Head(work) \in StepType /\ e \in Entry /\ work \in Seq(StepType)
      /\ Tail(work) \in Seq(StepType) /\ Follows(Tail(work))
      /\ \A x \in Todo : x \in StepType /\ x.e \in Entry
      /\ Todo = {Head(work)} \cup Rest
  <2>1. work # <<>>
    BY DEF StopDisabled, StopUsers, CancelStart, CallStop, EndStop, StopsEntry, HeadIs
  <2> QED
    BY <2>1, HeadFits, HeadTyped, TodoTyped, FollowsTail DEF Steady, TypeOK, RevivedNext
<1>2. known' = known
  BY DEF StopDisabled, StopUsers, CancelStart, CallStop, EndStop
<1>3. \A f \in Entry : entry'[f].state = "failed" => entry[f].state = "failed"
  <2>1. CASE StopDisabled \/ StopUsers \/ CallStop
    BY <2>1, MarksDo, CallStopDoes DEF Steady, Marking
  <2>2. CASE CancelStart
    <3>1. PICK x : Becomes(e, x) /\ x.state = entry[e].state
      BY <2>2, CancelStartDoes DEF Steady
    <3> QED
      BY <3>1 DEF Becomes
  <2>3. CASE EndStop
    <3>1. PICK x : Becomes(e, x) /\ x.state \in {"waiting", "disabled"}
      BY <2>3, EndStopDoes DEF Steady
    <3> QED
      BY <3>1 DEF Becomes
  <2> QED
    BY <2>1, <2>2, <2>3
<1>4. \A x \in StepType : Awakes(x)' => Awakes(x)
  <2>1. \A x \in StepType : x.e \in Entry
    BY DEF StepType
  <2> QED
    BY <1>2, <1>3, <2>1 DEF Awakes, IsCurrent
<1>5. ASSUME NEW w \in Seq(StepType), Follows(w), work' = w PROVE RevivedNext'
  <2>1. \A x \in ToSet(w) : x \in StepType
    BY DEF ToSet
  <2> QED
    BY <1>4, <1>5, <2>1, StillFollows
<1>6. CASE StopDisabled \/ EndStop
  <2>1. work' = Tail(work)
    BY <1>1, <1>6 DEF StopDisabled, EndStop, GoOn
  <2> QED
    BY <1>1, <1>5, <2>1
<1>7. CASE StopUsers
  <2>1. /\ InsideUsers(e) \subseteq Entry
        /\ work' = Each(Stop, UsersFirst(InsideUsers(e))) \o work
    BY <1>7, StopUsersWork DEF StopUsers, Steady
  <2> DEFINE s == UsersFirst(InsideUsers(e))
             u == Each(Stop, s)
  <2>2. s \in Seq(Entry) /\ ToSet(s) = InsideUsers(e)
    BY <2>1, UsersFirstLists
  <2> HIDE DEF s
  <2>3. u \in Seq(StepType) /\ ToSet(u) = {Stop(f) : f \in InsideUsers(e)}
    BY <2>2, StopsOf
  <2>4. \A x \in ToSet(u) : ~ Awakes(x)
    <3>1. \A f \in InsideUsers(e) : IsStarted(f)
      BY DEF InsideUsers, RunsInside
    <3>2. \A f : Stop(f).e = f
      BY DEF Stop, StopTo
    <3>3. \A x \in ToSet(u) : IsStarted(x.e)
      BY <2>3, <3>1, <3>2
    <3> QED
      BY <3>3 DEF Awakes, IsStarted, Started
  <2> HIDE DEF u
  <2>5. Follows(u \o work)
    BY <1>1, <2>3, <2>4, FollowsConcat DEF RevivedNext
  <2>6. u \o work \in Seq(StepType)
    BY <1>1, <2>3
  <2> QED
    BY <1>5, <2>1, <2>5, <2>6 DEF u, s
<1>8. CASE CancelStart \/ CallStop
  <2>1. PICK do \in {"cancelled", "stopping"} : work' = <<[Head(work) EXCEPT !.do = do]>> \o Tail(work)
    BY <1>8 DEF CancelStart, CallStop, GoOn
  <2> DEFINE x == [Head(work) EXCEPT !.do = do]
  <2>2. x \in StepType /\ x.e = e
    BY <1>1 DEF StepType
  <2>3. entry[e].state # "failed"
    <3>1. CASE CancelStart
      BY <1>1, <3>1, HeadMatches DEF CancelStart, Steady
    <3>2. CASE CallStop
      <4>1. IsStarted(e)
        BY <1>1, <3>2, HeadMatches, CallStopDoes DEF Steady
      <4> QED
        BY <4>1 DEF IsStarted, Started
    <3> QED
      BY <1>8, <3>1, <3>2
  <2>4. ~ Awakes(x)
    BY <2>2, <2>3 DEF Awakes
  <2> HIDE DEF x
  <2>5. <<x>> \in Seq(StepType) /\ ToSet(<<x>>) = {x}
    BY <2>2, SetOfFew
  <2>6. Follows(<<x>> \o Tail(work))
    BY <1>1, <2>4, <2>5, FollowsConcat
  <2>7. <<x>> \o Tail(work) \in Seq(StepType)
    BY <1>1, <2>5
  <2> QED
    BY <1>5, <2>1, <2>6, <2>7 DEF x
<1> QED
  BY <1>6, <1>7, <1>8

\* What the holder does not do leaves its work, and what its stops are of.
LEMMA OthersFollow ==
    ASSUME Steady, RevivedNext, Boot \/ Begins \/ Ends \/ Called \/ Retry
    PROVE  RevivedNext'
<1>1. work' = work /\ work \in Seq(StepType) /\ \A x \in Todo : x \in StepType /\ x.e \in Entry
  <2>1. work' = work
    <3>1. CASE Begins \/ Ends
      BY <3>1 DEF Begins, Ends, BeginStart, EndStart
    <3>2. CASE Boot \/ Called \/ Retry
      BY <3>2, CallsDo DEF Steady
    <3> QED
      BY <3>1, <3>2
  <2> QED
    BY <2>1, TodoTyped DEF Steady, TypeOK
<1>2. \A x \in Todo : Awakes(x)' => Awakes(x)
  <2>1. CASE Begins \/ Ends
    <3>1. entry' = entry /\ known' = known
      BY <2>1 DEF Begins, Ends, BeginStart, EndStart
    <3> QED
      BY <3>1 DEF Awakes, IsCurrent
  <2>2. CASE Noting
    <3>1. known' = known /\ \A f \in Entry : entry'[f].state = entry[f].state
      BY <2>2 DEF Noting
    <3> QED
      BY <1>1, <3>1 DEF Awakes, IsCurrent
  <2>3. CASE entry' = entry /\ known' = known
    BY <2>3 DEF Awakes, IsCurrent
  <2>4. ASSUME NEW there \in SUBSET Peripherals, Collect(there), NEW x \in Todo
        PROVE  Awakes(x)' => Awakes(x)
    <3>1. IsReferred(x.e)
      BY <2>4 DEF IsReferred, Todo, ToSet
    <3>2. entry'[x.e] = entry[x.e]
      BY <1>1, <2>4, <3>1, CollectDoes DEF Steady
    <3>3. x.e[1] \in Peripherals /\ x.e[2] \in Lives /\ x.e \in Entry
      BY <1>1, <2>4, EntryOf DEF Steady
    <3>4. ~ (known[x.e[1]] = NoLife /\ known'[x.e[1]] = x.e[2])
      BY <2>4, <3>1, <3>3, CollectDoes DEF Steady
    <3>5. known'[x.e[1]] \in {known[x.e[1]], NoLife} \/ known[x.e[1]] = NoLife
      BY <2>4, <3>3, CollectDoes DEF Steady
    <3>6. known'[x.e[1]] = x.e[2] => known[x.e[1]] = x.e[2]
      BY <3>3, <3>4, <3>5, Numbers
    <3> QED
      BY <3>2, <3>6 DEF Awakes, IsCurrent
  <2>5. CASE Boot \/ Called \/ Retry
    <3>1. Noting \/ (entry' = entry /\ known' = known)
          \/ \E there \in SUBSET Peripherals : Collect(there)
      BY <2>5, CallsDo DEF Steady, Asking, Collects
    <3> QED
      BY <2>2, <2>3, <2>4, <3>1
  <2> QED
    BY <2>1, <2>5
<1> QED
  BY <1>1, <1>2, StillFollows DEF RevivedNext, Todo

\* Every step keeps the revival next to its stop.
LEMMA RevivedNextStays ==
    ASSUME Steady, RevivedNext, [Next]_vars
    PROVE  RevivedNext'
<1>1. CASE UNCHANGED vars
  BY <1>1 DEF vars, RevivedNext, Follows, Awakes, IsCurrent
<1>2. CASE Holder
  BY <1>2, AcquireFollows, PassesFollow, ChangesFollow, StopsFollow DEF Holder
<1>3. CASE ~ Holder /\ Next
  BY <1>3, OthersFollow DEF Next
<1> QED
  BY <1>1, <1>2, <1>3

\* A step collects, or leaves known who is.
LEMMA CollectsOrNot ==
    ASSUME Steady, Next
    PROVE  known' = known \/ \E there \in SUBSET Peripherals : Collect(there)
<1>1. Present \subseteq Peripherals
  BY ThereAre
<1>2. CASE SettleChange \/ BeginPass
  BY <1>1, <1>2 DEF SettleChange, BeginPass, QueueRefresh, Queue
<1>3. CASE Holder /\ ~ SettleChange /\ ~ BeginPass
  BY <1>3 DEF Holder, Acquire, Closed, Revive, LetStart, TellOrNote, TellMissed, TakeTold,
         NoChange, CountFailure, StopDisabled, StopUsers, CancelStart, CallStop, EndStop, BeginHook,
         EndHook, DropUnwanted, BeginDeliver, Deliver, EndPass
<1>4. CASE Begins \/ Ends
  BY <1>4 DEF Begins, Ends, BeginStart, EndStart
<1>5. CASE Boot \/ Called \/ Retry
  BY <1>5, CallsDo DEF Steady, Asking, Noting, Collects
<1> QED
  BY <1>2, <1>3, <1>4, <1>5 DEF Next, Holder

\* Who is known anew is adopted, given up when it was.
LEMMA KnownAnew ==
    ASSUME Steady, Next, NEW p \in Peripherals, known'[p] # NoLife, known'[p] # known[p]
    PROVE  p \in gaveUp => entry'[<<p, known'[p]>>].state \in GivenUp
<1>1. PICK there \in SUBSET Peripherals : Collect(there)
  BY CollectsOrNot
<1>2. known[p] = NoLife /\ known'[p] \in Lives
  BY <1>1, CollectDoes DEF Steady
<1>3. PICK e \in Entry : e = <<p, known'[p]>>
  BY <1>2 DEF Entry
<1>4. e[1] = p /\ e[2] = known'[p]
  BY <1>3
<1>5. entry'[e] = Adopted(p)
  <2>1. known[e[1]] = NoLife /\ known'[e[1]] = e[2]
    BY <1>2, <1>4
  <2> QED
    BY <1>1, <1>4, <2>1, CollectDoes DEF Steady
<1>6. p \in gaveUp => Adopted(p).state \in {"disabled", "failed"}
  BY DEF Adopted, NewEntry
<1> QED
  BY <1>3, <1>5, <1>6 DEF GivenUp

\* Only new settings, an enabling and the end of a stop change the state of one given up.
LEMMA GivenUpKept ==
    ASSUME Steady, Next, ~ LetStart, ~ EndStop, NEW e \in Entry, IsCurrent(e),
           entry[e].state \in GivenUp
    PROVE  entry'[e].state = entry[e].state
<1>1. entry[e].state \notin {"starting", "running", "waiting"}
  BY DEF GivenUp
<1>2. CASE \/ Revive \/ TellOrNote \/ TellMissed \/ TakeTold \/ NoChange \/ StopDisabled
           \/ StopUsers \/ DropUnwanted \/ BeginDeliver \/ Deliver \/ CallStop
  BY <1>2, MarksDo, CallStopDoes DEF Steady, Marking
<1>3. CASE CancelStart \/ CountFailure
  <2> DEFINE f == Head(work).e
  <2>1. PICK x : Becomes(f, x) /\ (CancelStart => x.state = entry[f].state)
    BY <1>3, CancelStartDoes, CountFailureDoes DEF Steady
  <2>2. CountFailure => entry[f].state = "waiting"
    BY HeadMatches DEF Steady, CountFailure, HeadIs
  <2> HIDE DEF f
  <2> QED
    BY <1>1, <1>3, <2>1, <2>2 DEF Becomes
<1>4. CASE BeginHook \/ EndHook \/ Closed
  BY <1>4 DEF BeginHook, EndHook, Closed
<1>5. CASE Acquire
  <2> DEFINE t == Head(queue)
             x == Ended(entry[t.e], t.ok)
  <2>1. /\ t \in TaskType /\ t \in Waiting
        /\ entry' = entry \/ (t.do = "started" /\ IsItsStart(t) /\ Becomes(t.e, x))
    BY <1>5, AcquireTakes DEF Steady
  <2> HIDE DEF x, t
  <2>2. ASSUME t.do = "started", IsItsStart(t), Becomes(t.e, x)
        PROVE  entry[t.e].state = "starting"
    <3>1. t.n \in Tasks /\ t.n # NoTask /\ t.e \in Entry
      BY <2>1, <2>2, WaitingTyped DEF Steady, StartsApart
    <3> QED
      BY <2>2, <3>1 DEF IsItsStart, Steady, StartsApart
  <2> QED
    BY <1>1, <2>1, <2>2 DEF Becomes
<1>6. CASE EndPass
  <2>1. \A f \in Entry : entry[f].task = NoTask => Tasks \ StartTasks(f) # {}
    BY DEF Steady, StartsApart
  <2>2. PICK S \in SUBSET Entry :
           /\ \A f \in S : entry[f].state = "waiting"
           /\ \A f \in Entry : f \notin S => entry'[f] = entry[f]
    BY <1>6, <2>1, EndPassDoes DEF Steady
  <2> QED
    BY <1>1, <2>2
<1>7. CASE Begins \/ Ends
  BY <1>7 DEF Begins, Ends, BeginStart, EndStart
<1>8. ASSUME NEW there \in SUBSET Peripherals, Collect(there)
      PROVE  entry'[e] = entry[e]
  <2>1. known[e[1]] # NoLife
    BY CurrentTyped DEF Steady, Known
  <2> QED
    BY <1>8, <2>1, CollectDoes DEF Steady
<1>9. CASE SettleChange \/ BeginPass
  <2>1. entry' = entry \/ \E there \in SUBSET Peripherals : Collect(there)
    BY <1>9, ThereAre DEF SettleChange, BeginPass, QueueRefresh, Queue
  <2> QED
    BY <1>8, <2>1
<1>10. CASE Boot \/ Called \/ Retry
  <2>1. Noting \/ entry' = entry \/ \E there \in SUBSET Peripherals : Collect(there)
    BY <1>10, CallsDo DEF Steady, Asking, Collects
  <2> QED
    BY <1>8, <2>1 DEF Noting
<1> QED
  BY <1>2, <1>3, <1>4, <1>5, <1>6, <1>7, <1>9, <1>10 DEF Next, Holder

\* The end of a stop leaves one given up as it is, or disables it, or is followed by its
\* revival.
LEMMA EndStopWakes ==
    ASSUME Steady, RevivedNext, EndStop, NEW f \in Entry, IsCurrent(f), entry[f].state \in GivenUp
    PROVE  \/ entry'[f].state = entry[f].state
           \/ entry'[f].state = "disabled"
           \/ /\ entry[f].state = "failed" /\ Step("revive", f) \in Rest
              /\ work' # <<>> /\ Head(work') = Step("revive", f)
<1> DEFINE e == Head(work).e
<1>1. PICK x : /\ Becomes(e, x) /\ work # <<>> /\ x.state = Head(work).to
               /\ x.state \in {"waiting", "disabled"}
               /\ \/ Head(work).do = "stopping"
                  \/ Head(work).do = "stop" /\ StopsEntry
  BY EndStopDoes DEF Steady
<1>2. work' = Tail(work) /\ work \in Seq(StepType)
  BY DEF EndStop, GoOn, Steady, TypeOK
<1>3. CASE f # e
  BY <1>1, <1>3 DEF Becomes
<1>4. CASE f = e /\ x.state = "disabled"
  BY <1>1, <1>4 DEF Becomes
<1>5. CASE f = e /\ x.state = "waiting"
  <2>1. Head(work).do = "stop" /\ StopsEntry
    <3>1. Head(work).do = "stopping" => IsStarted(e)
      BY <1>1, HeadMatches DEF Steady
    <3> QED
      BY <1>1, <1>5, <3>1 DEF IsStarted, Started, GivenUp
  <2>2. entry[f].state = "failed"
    BY <1>1, <1>5, <2>1 DEF StopsEntry, GivenUp
  <2>3. Awakes(Head(work))
    BY <1>1, <1>5, <2>1, <2>2 DEF Awakes, Stops
  <2>4. Tail(work) # <<>> /\ Head(Tail(work)) = Step("revive", f)
    BY <1>1, <1>2, <1>5, <2>3, FollowsTail DEF RevivedNext
  <2>5. Tail(work) \in Seq(StepType)
    BY <1>1, <1>2, SetOfTail
  <2>6. Head(Tail(work)) \in Rest
    BY <2>4, <2>5, SetOfTail DEF Rest
  <2> QED
    BY <1>2, <2>2, <2>4, <2>6
<1> QED
  BY <1>1, <1>3, <1>4, <1>5

\* Its stop is over and its revival under way.
Reviving(p) == HeadIs("revive") /\ Head(work).e = Current(p)

\* One given up on is so but for that moment.
GivenUpStay == \A p \in gaveUp \cap Known : StateOf(p) \in GivenUp \/ Reviving(p)

\* One given up on stays so in a step that revives none, fails none and ends no stop.
LEMMA GivenUpStillStay ==
    ASSUME Steady, Next, GivenUpStay, ~ LetStart, ~ EndStop, ~ HeadIs("revive"),
           gaveUp' \subseteq gaveUp
    PROVE  GivenUpStay'
<1>1. SUFFICES ASSUME NEW p \in gaveUp', p \in Peripherals, known'[p] # NoLife
               PROVE  entry'[<<p, known'[p]>>].state \in GivenUp
  BY DEF GivenUpStay, StateOf, Known, Current
<1>2. CASE known'[p] # known[p]
  BY <1>1, <1>2, KnownAnew
<1>3. CASE known'[p] = known[p]
  <2>1. p \in Known /\ p \in gaveUp
    BY <1>1, <1>3 DEF Known
  <2>2. Current(p) \in Entry /\ IsCurrent(Current(p)) /\ Current(p) = <<p, known'[p]>>
    BY <1>3, <2>1, CurrentTyped DEF Steady, Current
  <2>3. entry[Current(p)].state \in GivenUp
    BY <2>1 DEF GivenUpStay, Reviving, StateOf
  <2> QED
    BY <2>2, <2>3, GivenUpKept
<1> QED
  BY <1>2, <1>3

\* The user's say ends it, and what has its say is no longer given up on.
LEMMA ReviveGivesUpNone ==
    ASSUME Steady, GivenUpStay, Revive \/ LetStart
    PROVE  GivenUpStay'
<1> DEFINE e == Head(work).e
<1>1. /\ gaveUp' = gaveUp \ {e[1]} /\ known' = known
      /\ \A f \in Entry : f # e => entry'[f].state = entry[f].state
  <2>1. CASE Revive
    BY <2>1, MarksDo DEF Steady, Marking, Revive
  <2>2. CASE LetStart
    BY <2>2, LetStartDoes DEF Steady, Becomes, LetStart
  <2> QED
    BY <2>1, <2>2
<1> HIDE DEF e
<1>2. SUFFICES ASSUME NEW p \in gaveUp', p \in Known'
               PROVE  StateOf(p)' \in GivenUp
  BY DEF GivenUpStay
<1>3. p \in gaveUp /\ p # e[1] /\ p \in Known
  BY <1>1, <1>2 DEF Known
<1>4. Current(p) \in Entry /\ Current(p) # e /\ Current(p)' = Current(p)
  BY <1>1, <1>3, CurrentTyped DEF Steady, Current
<1>5. StateOf(p) \in GivenUp
  BY <1>3, <1>4 DEF GivenUpStay, Reviving, e
<1> QED
  BY <1>1, <1>2, <1>3, <1>4, <1>5 DEF StateOf

\* A failure gives up on its entry for good, or had not given up on it before.
LEMMA CountFailureGivesUp ==
    ASSUME Steady, FailsCurrent, GivenUpStay, CountFailure
    PROVE  GivenUpStay'
<1> DEFINE e == Head(work).e
<1>1. PICK x : /\ Becomes(e, x) /\ Head(work).do = "failed"
               /\ x.state \in {"waiting", "failed"}
               /\ x.state = "failed" => gaveUp' = gaveUp \cup {e[1]}
               /\ x.state = "waiting" => gaveUp' = gaveUp
  BY CountFailureDoes DEF Steady
<1>2. known' = known /\ work # <<>>
  BY DEF CountFailure, HeadIs
<1>3. IsCurrent(e) /\ entry[e].state = "waiting"
  <2>1. Head(work) \in Todo
    BY <1>2, HeadTyped DEF Steady
  <2> QED
    BY <1>1, <1>2, <2>1, HeadMatches DEF Steady, FailsCurrent
<1>4. e \in Entry /\ \A f \in Entry : entry'[f] = IF f = e THEN x ELSE entry[f]
  BY <1>1 DEF Becomes
<1> HIDE DEF e
<1>5. SUFFICES ASSUME NEW p \in gaveUp', p \in Known'
               PROVE  StateOf(p)' \in GivenUp
  BY DEF GivenUpStay
<1>6. p \in Known /\ Current(p) \in Entry /\ Current(p)[1] = p /\ Current(p)' = Current(p)
  BY <1>2, <1>5, CurrentTyped DEF Steady, Known, Current
<1>7. StateOf(p)' = entry'[Current(p)].state
  BY <1>5, <1>6 DEF StateOf
<1>8. ~ Reviving(p)
  BY <1>1 DEF Reviving, HeadIs
<1>9. p \in gaveUp => entry[Current(p)].state \in GivenUp
  BY <1>6, <1>8 DEF GivenUpStay, StateOf
<1>10. CASE p = e[1]
  <2>1. Current(p) = e
    BY <1>3, <1>4, <1>10, CurrentTyped DEF Steady
  <2>2. x.state = "failed"
    BY <1>1, <1>3, <1>5, <1>9, <2>1 DEF GivenUp
  <2> QED
    BY <1>4, <1>7, <2>1, <2>2 DEF GivenUp
<1>11. CASE p # e[1]
  BY <1>1, <1>4, <1>5, <1>6, <1>7, <1>9, <1>11
<1> QED
  BY <1>10, <1>11

\* The end of a stop leaves it given up on, or its revival is next.
LEMMA EndStopGivesUp ==
    ASSUME Steady, RevivedNext, GivenUpStay, EndStop
    PROVE  GivenUpStay'
<1>1. known' = known /\ gaveUp' = gaveUp /\ ~ HeadIs("revive")
  BY DEF EndStop, StopsEntry, HeadIs
<1>2. SUFFICES ASSUME NEW p \in gaveUp', p \in Known'
               PROVE  StateOf(p)' \in GivenUp \/ Reviving(p)'
  BY DEF GivenUpStay
<1>3. /\ p \in Known /\ Current(p) \in Entry /\ IsCurrent(Current(p))
      /\ Current(p)' = Current(p)
  BY <1>1, <1>2, CurrentTyped DEF Steady, Known, Current
<1>4. entry[Current(p)].state \in GivenUp
  BY <1>1, <1>2, <1>3 DEF GivenUpStay, StateOf, Reviving
<1>5. StateOf(p)' = entry'[Current(p)].state
  BY <1>2, <1>3 DEF StateOf
<1>6. CASE entry'[Current(p)].state = entry[Current(p)].state \/ entry'[Current(p)].state = "disabled"
  BY <1>4, <1>5, <1>6 DEF GivenUp
<1>7. CASE work' # <<>> /\ Head(work') = Step("revive", Current(p))
  BY <1>3, <1>7 DEF Reviving, HeadIs, Step
<1> QED
  BY <1>3, <1>4, <1>6, <1>7, EndStopWakes

\* No step takes one given up on back, but the user's say.
LEMMA GivenUpStays ==
    ASSUME Steady, FailsCurrent, RevivedNext, GivenUpStay, [Next]_vars
    PROVE  GivenUpStay'
<1>1. CASE UNCHANGED vars
  BY <1>1 DEF vars, GivenUpStay, StateOf, Reviving, Known, Current, HeadIs
<1>2. CASE Revive \/ LetStart
  BY <1>2, ReviveGivesUpNone
<1>3. CASE CountFailure
  BY <1>3, CountFailureGivesUp
<1>4. CASE EndStop
  BY <1>4, EndStopGivesUp
<1>5. CASE Holder /\ ~ (Revive \/ LetStart \/ CountFailure \/ EndStop)
  <2>1. gaveUp' = gaveUp /\ ~ HeadIs("revive")
    BY <1>5 DEF Holder, Acquire, SettleChange, Closed, TellOrNote, TellMissed, TakeTold, NoChange,
           StopDisabled, StopUsers, CancelStart, CallStop, StopsEntry, BeginHook, EndHook, BeginPass,
           DropUnwanted, BeginDeliver, Deliver, EndPass, HeadIs, Hooks
  <2> QED
    BY <1>5, <2>1, GivenUpStillStay DEF Next
<1>6. CASE Begins \/ Ends \/ Boot \/ Called \/ Retry
  <2>1. gaveUp' = gaveUp /\ IsYielding
    BY <1>6, CallsDo DEF Steady, Begins, Ends, BeginStart, EndStart
  <2>2. ~ HeadIs("revive")
    BY <2>1 DEF IsYielding, HeadIs
  <2>3. (~ LetStart /\ ~ EndStop) \/ GivenUpStay'
    BY ReviveGivesUpNone, EndStopGivesUp
  <2> QED
    BY <1>6, <2>1, <2>2, <2>3, GivenUpStillStay DEF Next
<1> QED
  BY <1>1, <1>2, <1>3, <1>4, <1>5, <1>6 DEF Next

\* The third layer.
Failing == FailsCurrent /\ RevivedNext /\ GivenUpStay

\* It holds at first.
LEMMA FailingAtFirst ==
    ASSUME Init
    PROVE  Failing
<1>1. Todo = {} /\ work = <<>> /\ gaveUp = {}
  BY DEF Init, Todo, ToSet
<1> QED
  BY <1>1 DEF Failing, FailsCurrent, RevivedNext, Follows, GivenUpStay

\* It always holds, on top of the two layers before.
LEMMA AlwaysFailing ==
    ASSUME ClosesWhole
    PROVE  Spec => [](Orderliness /\ Failing)
<1>1. Init => Orderliness /\ Failing
  BY OrderlyAtFirst, FailingAtFirst
<1>2. Orderliness /\ Failing /\ [Next]_vars => (Orderliness /\ Failing)'
  <2> SUFFICES ASSUME Orderliness, Failing, [Next]_vars
               PROVE  (Orderliness /\ Failing)'
    OBVIOUS
  <2>1. Orderliness'
    BY OrderlyStays
  <2>2. FailsCurrent'
    BY FailsCurrentStays DEF Orderliness, Failing
  <2>3. RevivedNext'
    BY RevivedNextStays DEF Orderliness, Failing
  <2>4. GivenUpStay'
    BY GivenUpStays DEF Orderliness, Failing
  <2> QED
    BY <2>1, <2>2, <2>3, <2>4 DEF Failing
<1> QED
  BY <1>1, <1>2, PTL DEF Spec

\* One given up on in this session stays so while it is known, whatever stops, starts,
\* disables or brings it along anew, until the user revives it (`_failed`, `_adopt`, `_fail`).
THEOREM GivenUpForGood ==
    ASSUME ClosesWhole
    PROVE  Spec => []GaveUpStays
<1>1. Failing => GaveUpStays
  BY DEF Failing, GivenUpStay, GaveUpStays, Reviving, HeadIs, IsYielding
<1> QED
  BY <1>1, AlwaysFailing, PTL

\* Whose step wakes one given up on.
LEMMA WakesByTheUser ==
    ASSUME Steady, RevivedNext, Next, NEW e \in Entry, IsCurrent(e)
    PROVE  /\ entry[e].state = "disabled" /\ entry'[e].state # "disabled" =>
                 HeadIs("enable") /\ Head(work).e = e
           /\ entry[e].state = "failed" /\ entry'[e].state \notin GivenUp =>
                 \/ HeadIs("settings") /\ Head(work).e = e
                 \/ \E i \in DOMAIN work : work[i] = Step("revive", e)
<1>1. SUFFICES ASSUME entry[e].state \in GivenUp, entry'[e].state # entry[e].state,
                      entry[e].state = "failed" => entry'[e].state # "disabled"
               PROVE  /\ entry[e].state = "disabled" => HeadIs("enable") /\ Head(work).e = e
                      /\ entry[e].state = "failed" =>
                            \/ HeadIs("settings") /\ Head(work).e = e
                            \/ \E i \in DOMAIN work : work[i] = Step("revive", e)
  BY DEF GivenUp
<1>2. LetStart \/ EndStop
  BY <1>1, GivenUpKept
<1>3. CASE LetStart
  <2>1. PICK x : Becomes(Head(work).e, x)
    BY <1>3, LetStartDoes DEF Steady
  <2>2. Head(work).e = e
    BY <1>1, <2>1 DEF Becomes
  <2> QED
    BY <1>1, <1>3, <2>2 DEF LetStart
<1>4. CASE EndStop
  <2>1. entry[e].state = "failed" /\ Step("revive", e) \in Rest
    BY <1>1, <1>4, EndStopWakes DEF GivenUp
  <2>2. Step("revive", e) \in Todo
    <3>1. work # <<>>
      BY <1>4 DEF EndStop, StopsEntry, HeadIs
    <3> QED
      BY <2>1, <3>1, HeadFits DEF Steady
  <2> QED
    BY <2>1, <2>2 DEF Todo, ToSet
<1> QED
  BY <1>2, <1>3, <1>4

\* Only the user revives: an entry leaves the disabled state by its enabling alone, and the
\* failed one by new settings or a restart, in every hub (`enable`, `restart`, `update_settings`,
\* and `_stop`, which leaves a failed entry waiting on the way of a restart only).
THEOREM RevivedByTheUser == Spec => OnlyTheUserRevives
<1> DEFINE Wakes ==
        \A e \in Entry :
            IsCurrent(e) =>
              /\ entry[e].state = "disabled" /\ entry'[e].state # "disabled" =>
                    HeadIs("enable") /\ Head(work).e = e
              /\ entry[e].state = "failed" /\ entry'[e].state \notin GivenUp =>
                    \/ HeadIs("settings") /\ Head(work).e = e
                    \/ \E i \in DOMAIN work : work[i] = Step("revive", e)
<1>1. Init => RevivedNext
  BY DEF Init, RevivedNext, Follows
<1>2. Steady /\ RevivedNext /\ [Next]_vars => RevivedNext'
  BY RevivedNextStays
<1>3. Steady /\ RevivedNext /\ [Next]_vars => [Wakes]_vars
  BY WakesByTheUser
<1>4. Spec => [][Wakes]_vars
  <2> HIDE DEF Wakes
  <2> QED
    BY <1>1, <1>2, <1>3, AlwaysSteady, PTL DEF Spec
<1> QED
  BY <1>4 DEF OnlyTheUserRevives

-----------------------------------------------------------------------------
(* What is told, and what should be known. *)

\* What a peripheral tells of itself.
Words   == {"fail", "quit"}
\* The tasks and steps that bring a change to an entry.
Changes == {"settings", "tell_settings", "platform", "tell_platform", "missed"}

\* A task for the entry: a platform change is for all it lists.
Concerns(t, e) == IF t.do = "platform" THEN e \in t.all ELSE t.e = e

\* That is done, or waits to be done, to the entry.
Comes(do, e) ==
    \/ \E x \in Todo : x.do = do /\ x.e = e
    \/ \E t \in Waiting : t.do = do /\ Concerns(t, e)

\* What a peripheral told is on its way: its entry is about to be stopped, or heard it while
\* it started, or a task or a step brings it while it runs.
FailureNoted(e) ==
    \/ ToStop(e)
    \/ entry[e].state = "starting" /\ entry[e].toldFailure
    \/ entry[e].state = "running" /\ Comes("fail", e)

\* That it quit is on its way too.
QuitNoted(e) ==
    \/ ToStop(e)
    \/ entry[e].state = "starting" /\ entry[e].stopping
    \/ entry[e].state = "running" /\ Comes("quit", e)

\* So is what changed that it did not read.
SettingsNoted(e) ==
    \/ ToStop(e)
    \/ Comes("settings", e) \/ Comes("tell_settings", e)
    \/ entry[e].missedSettings /\ (entry[e].state = "starting" \/ Comes("missed", e))

\* So are the platform settings.
PlatformNoted(e) ==
    \/ ToStop(e)
    \/ Comes("platform", e) \/ Comes("tell_platform", e)
    \/ entry[e].missedPlatform /\ (entry[e].state = "starting" \/ Comes("missed", e))

\* All it told, and all that changed since it read it, is on its way.
Noted(e) ==
    /\ object[e[1]].failed => FailureNoted(e)
    /\ object[e[1]].quit => QuitNoted(e)
    /\ object[e[1]].settings # settings[e[1]] => SettingsNoted(e)
    /\ object[e[1]].platform # platform => PlatformNoted(e)

\* The fourth layer: so for each that started and is not off.
AllNoted == \A e \in Entry : IsStarted(e) /\ CallOf(e) # "off" => Noted(e)

\* Two values of an entry that say the same of all this.
Alike(x, y) ==
    /\ x.state = y.state /\ x.toldFailure = y.toldFailure /\ x.stopping = y.stopping
    /\ x.missedSettings = y.missedSettings /\ x.missedPlatform = y.missedPlatform

\* It stays on its way when what brings it does.
LEMMA NotedStill ==
    ASSUME NEW e \in Entry, Noted(e), Alike(entry'[e], entry[e]),
           object'[e[1]].failed = object[e[1]].failed, object'[e[1]].quit = object[e[1]].quit,
           object'[e[1]].settings = object[e[1]].settings,
           object'[e[1]].platform = object[e[1]].platform,
           settings'[e[1]] = settings[e[1]], platform' = platform,
           ToStop(e) => ToStop(e)',
           \A do \in Words :
               entry[e].state = "running" /\ Comes(do, e) => Comes(do, e)' \/ ToStop(e)',
           \A do \in Changes : Comes(do, e) => Comes(do, e)' \/ ToStop(e)'
    PROVE  Noted(e)'
<1>1. CASE ToStop(e)'
  BY <1>1 DEF Noted, FailureNoted, QuitNoted, SettingsNoted, PlatformNoted
<1>2. CASE ~ ToStop(e)'
  <2>1. ~ ToStop(e)
    BY <1>2
  <2>2. FailureNoted(e) => FailureNoted(e)'
    BY <1>2, <2>1 DEF FailureNoted, Alike, Words
  <2>3. QuitNoted(e) => QuitNoted(e)'
    BY <1>2, <2>1 DEF QuitNoted, Alike, Words
  <2>4. SettingsNoted(e) => SettingsNoted(e)'
    BY <1>2, <2>1 DEF SettingsNoted, Alike, Changes
  <2>5. PlatformNoted(e) => PlatformNoted(e)'
    BY <1>2, <2>1 DEF PlatformNoted, Alike, Changes
  <2> QED
    BY <2>2, <2>3, <2>4, <2>5 DEF Noted
<1> QED
  BY <1>1, <1>2

\* One entry changed in what does not matter to it.
LEMMA OneAlike ==
    ASSUME TypeOK, NEW e \in Entry, NEW x, Alike(x, entry[e]), entry' = [entry EXCEPT ![e] = x]
    PROVE  \A f \in Entry : Alike(entry'[f], entry[f])
<1>1. \A f \in Entry : entry'[f] = IF f = e THEN x ELSE entry[f]
  BY DEF TypeOK
<1>2. \A f \in Entry : Alike(entry[f], entry[f])
  BY DEF Alike
<1> QED
  BY <1>1, <1>2

\* The steps that change nothing that matters to it.
LEMMA AlikeAfter ==
    ASSUME TypeOK, WorkInOrder,
           \/ Revive \/ TakeTold \/ Deliver \/ CallStop \/ CancelStart \/ UNCHANGED entry
    PROVE  \A f \in Entry : Alike(entry'[f], entry[f])
<1> DEFINE e == Head(work).e
<1>1. work # <<>> => e \in Entry /\ entry[e] \in EntryType(e[1])
  BY HeadTyped, EntryOf
<1>2. CASE UNCHANGED entry
  BY <1>2 DEF Alike
<1>3. CASE Revive
  <2>1. work # <<>> /\ entry' = [entry EXCEPT ![e] = Revived(entry[e])]
    BY <1>3 DEF Revive, HeadIs
  <2>2. Alike(Revived(entry[e]), entry[e])
    BY <1>1, <2>1 DEF Alike, Revived, EntryType
  <2> QED
    BY <1>1, <2>1, <2>2, OneAlike
<1>4. CASE TakeTold
  <2> DEFINE v == [stopped |-> TRUE, on |-> entry[e].bindings]
             x == [entry[e] EXCEPT !.stoppedWith = v]
  <2>1. work # <<>> /\ (UNCHANGED entry \/ entry' = [entry EXCEPT ![e].stoppedWith = v])
    BY <1>4 DEF TakeTold, HeadIs
  <2> HIDE DEF v
  <2>2. Alike(x, entry[e])
    BY <1>1, <2>1 DEF Alike, EntryType
  <2>3. UNCHANGED entry \/ entry' = [entry EXCEPT ![e] = x]
    BY <2>1
  <2> HIDE DEF x
  <2> QED
    BY <1>1, <1>2, <2>1, <2>2, <2>3, OneAlike
<1>5. CASE Deliver
  <2> DEFINE now == Handed(e)
             v == IF entry[e].state # "starting" /\ now # entry[e].stoppedWith.on
                  THEN NotStopped ELSE entry[e].stoppedWith
             x == [entry[e] EXCEPT !.bindings = now]
             y == [entry[e] EXCEPT !.stoppedWith = v]
  <2>1. /\ work # <<>>
        /\ \/ entry' = [entry EXCEPT ![e].bindings = now]
           \/ entry' = [entry EXCEPT ![e].stoppedWith =
                          IF entry[e].state # "starting" /\ now # @.on THEN NotStopped ELSE @]
    BY <1>5 DEF Deliver, HeadIs
  <2> HIDE DEF now
  <2>2. entry' = [entry EXCEPT ![e] = x] \/ entry' = [entry EXCEPT ![e] = y]
    BY <2>1
  <2> HIDE DEF v
  <2>3. Alike(x, entry[e]) /\ Alike(y, entry[e])
    BY <1>1, <2>1 DEF Alike, EntryType
  <2> HIDE DEF x, y
  <2> QED
    BY <1>1, <2>1, <2>2, <2>3, OneAlike
<1>6. CASE CallStop
  <2>1. PICK stable \in BOOLEAN :
          entry' = [entry EXCEPT ![e].attempts =
                            IF stable /\ entry[e].state = "running" THEN 0 ELSE @]
    BY <1>6 DEF CallStop
  <2> DEFINE n == IF stable /\ entry[e].state = "running" THEN 0 ELSE entry[e].attempts
             x == [entry[e] EXCEPT !.attempts = n]
  <2>2. work # <<>> /\ entry' = [entry EXCEPT ![e] = x]
    BY <1>6, <2>1 DEF CallStop
  <2> HIDE DEF n
  <2>3. Alike(x, entry[e])
    BY <1>1, <2>2 DEF Alike, EntryType
  <2> HIDE DEF x
  <2> QED
    BY <1>1, <2>2, <2>3, OneAlike
<1>7. CASE CancelStart
  <2> DEFINE x == [entry[e] EXCEPT !.task = NoTask]
  <2>1. work # <<>> /\ entry' = [entry EXCEPT ![e] = x]
    BY <1>7 DEF CancelStart, StopsEntry, HeadIs
  <2>2. Alike(x, entry[e])
    BY <1>1, <2>1 DEF Alike, EntryType
  <2> HIDE DEF x
  <2> QED
    BY <1>1, <2>1, <2>2, OneAlike
<1> QED
  BY <1>2, <1>3, <1>4, <1>5, <1>6, <1>7

\* What its peripheral told and read, and what it should have read, is as before.
SameFor(e) ==
    /\ object'[e[1]].failed = object[e[1]].failed /\ object'[e[1]].quit = object[e[1]].quit
    /\ object'[e[1]].settings = object[e[1]].settings
    /\ object'[e[1]].platform = object[e[1]].platform
    /\ settings'[e[1]] = settings[e[1]] /\ platform' = platform

\* What matters to those that started is on its way as before.
LEMMA AllNotedAgain ==
    ASSUME Steady, AllNoted,
           \A e \in Entry : entry'[e].state \in Started /\ CallOf(e)' # "off" =>
               \/ Noted(e)'
               \/ /\ SameFor(e) /\ Alike(entry'[e], entry[e]) /\ CallOf(e) # "off"
                  /\ ToStop(e) => ToStop(e)'
                  /\ \A do \in Words :
                        entry[e].state = "running" /\ Comes(do, e) => Comes(do, e)' \/ ToStop(e)'
                  /\ \A do \in Changes : Comes(do, e) => Comes(do, e)' \/ ToStop(e)'
    PROVE  AllNoted'
<1>1. SUFFICES ASSUME NEW e \in Entry, entry'[e].state \in Started, CallOf(e)' # "off"
               PROVE  Noted(e)'
  BY DEF AllNoted, IsStarted
<1>2. CASE Noted(e)'
  BY <1>2
<1>3. CASE ~ Noted(e)'
  <2>1. IsStarted(e) /\ CallOf(e) # "off"
    BY <1>1, <1>3 DEF IsStarted, Alike
  <2>2. Noted(e)
    BY <2>1 DEF AllNoted
  <2> QED
    BY <1>1, <1>3, <2>2, NotedStill DEF SameFor
<1> QED
  BY <1>2, <1>3

\* One about to be stopped needs nothing more.
LEMMA StopsNoting ==
    ASSUME NEW e
    PROVE  ToStop(e)' => Noted(e)'
BY DEF Noted, FailureNoted, QuitNoted, SettingsNoted, PlatformNoted

\* A step that does the head of the work loses nothing that is on its way.
LEMMA StepNoted ==
    ASSUME Steady, AllNoted, work # <<>>,
           \A e \in Entry : entry'[e].state \in Started /\ CallOf(e)' # "off" =>
               \/ Noted(e)'
               \/ /\ SameFor(e) /\ Alike(entry'[e], entry[e]) /\ CallOf(e) # "off"
                  /\ Head(work).e = e /\ Head(work).do \in Stops => ToStop(e)'
                  /\ Head(work).e = e /\ Head(work).do \in Words =>
                        ToStop(e)' \/ entry[e].state # "running"
                  /\ Head(work).e = e /\ Head(work).do \in Changes => ToStop(e)',
           \A t \in Waiting : t.do \in Words \cup Changes => t \in Waiting',
           \A x \in Rest : x.do \in Stops \cup Words \cup Changes => x \in Todo' \/ ToStop(x.e)'
    PROVE  AllNoted'
<1>1. Todo = {Head(work)} \cup Rest
  BY HeadFits DEF Steady
<1>2. ASSUME NEW e \in Entry, entry'[e].state \in Started, CallOf(e)' # "off", ~ Noted(e)', ToStop(e)
      PROVE  ToStop(e)'
  <2>1. PICK x \in Todo : x.do \in Stops /\ x.e = e
    BY <1>2 DEF ToStop
  <2>2. CASE x \in Rest
    BY <2>1, <2>2 DEF ToStop
  <2>3. CASE x = Head(work)
    BY <1>2, <2>1, <2>3
  <2> QED
    BY <1>1, <2>2, <2>3
<1>3. ASSUME NEW e \in Entry, entry'[e].state \in Started, CallOf(e)' # "off", ~ Noted(e)',
             NEW do \in Words \cup Changes, Comes(do, e), do \in Words => entry[e].state = "running"
      PROVE  Comes(do, e)' \/ ToStop(e)'
  <2>1. CASE \E t \in Waiting : t.do = do /\ Concerns(t, e)
    <3>1. PICK t \in Waiting : t.do = do /\ Concerns(t, e)
      BY <2>1
    <3>2. t \in Waiting'
      BY <3>1
    <3> QED
      BY <3>1, <3>2 DEF Comes, Concerns
  <2>2. CASE \E x \in Todo : x.do = do /\ x.e = e
    <3>1. PICK x \in Todo : x.do = do /\ x.e = e
      BY <2>2
    <3>2. CASE x \in Rest
      BY <3>1, <3>2 DEF Comes
    <3>3. CASE x = Head(work)
      BY <1>3, <3>1, <3>3
    <3> QED
      BY <1>1, <3>2, <3>3
  <2> QED
    BY <1>3, <2>1, <2>2 DEF Comes
<1>4. \A e \in Entry : entry'[e].state \in Started /\ CallOf(e)' # "off" =>
               \/ Noted(e)'
               \/ /\ SameFor(e) /\ Alike(entry'[e], entry[e]) /\ CallOf(e) # "off"
                  /\ ToStop(e) => ToStop(e)'
                  /\ \A do \in Words :
                        entry[e].state = "running" /\ Comes(do, e) => Comes(do, e)' \/ ToStop(e)'
                  /\ \A do \in Changes : Comes(do, e) => Comes(do, e)' \/ ToStop(e)'
  BY <1>2, <1>3 DEF Words, Changes
<1> QED
  BY <1>4, AllNotedAgain

\* It told nothing new, and read what it had read.
SameWords ==
    \A p \in Peripherals :
        /\ object'[p].failed = object[p].failed /\ object'[p].quit = object[p].quit
        /\ object'[p].settings = object[p].settings /\ object'[p].platform = object[p].platform

\* So does one that tells and changes nothing.
LEMMA WorkNoted ==
    ASSUME Steady, AllNoted, work # <<>>, UNCHANGED <<settings, platform>>, SameWords,
           \A e \in Entry : entry'[e].state \in Started /\ CallOf(e)' # "off" =>
               /\ Alike(entry'[e], entry[e])
               /\ CallOf(e) # "off" \/ ToStop(e)'
               /\ Head(work).e = e /\ Head(work).do \in Stops => ToStop(e)'
               /\ Head(work).e = e /\ Head(work).do \in Words =>
                     ToStop(e)' \/ entry[e].state # "running"
               /\ Head(work).e = e /\ Head(work).do \in Changes => ToStop(e)',
           \A t \in Waiting : t.do \in Words \cup Changes => t \in Waiting',
           \A x \in Rest : x.do \in Stops \cup Words \cup Changes => x \in Todo' \/ ToStop(x.e)'
    PROVE  AllNoted'
<1>1. \A e \in Entry : SameFor(e)
  <2>1. \A e \in Entry : e[1] \in Peripherals
    BY EntryOf DEF Steady
  <2> QED
    BY <2>1 DEF SameWords, SameFor
<1>2. \A e \in Entry : ToStop(e)' => Noted(e)'
  BY StopsNoting
<1>3. \A e \in Entry : entry'[e].state \in Started /\ CallOf(e)' # "off" =>
               \/ Noted(e)'
               \/ /\ SameFor(e) /\ Alike(entry'[e], entry[e]) /\ CallOf(e) # "off"
                  /\ Head(work).e = e /\ Head(work).do \in Stops => ToStop(e)'
                  /\ Head(work).e = e /\ Head(work).do \in Words =>
                        ToStop(e)' \/ entry[e].state # "running"
                  /\ Head(work).e = e /\ Head(work).do \in Changes => ToStop(e)'
  BY <1>1, <1>2
<1> QED
  BY <1>3, StepNoted

\* The steps that only mark lose nothing that is on its way.
LEMMA MarkedNoted ==
    ASSUME Steady, AllNoted,
           \/ Revive \/ TakeTold \/ NoChange \/ StopDisabled \/ StopUsers \/ DropUnwanted
           \/ BeginDeliver \/ Deliver
    PROVE  AllNoted'
<1>1. UNCHANGED <<settings, platform, queue, object>>
  BY MarksDo DEF Steady
<1>2. SameWords /\ Waiting' = Waiting /\ \A e : CallOf(e)' = CallOf(e)
  BY <1>1 DEF SameWords, Waiting, CallOf
<1>3. \A e \in Entry : Alike(entry'[e], entry[e])
  BY AlikeAfter DEF Steady, NoChange, StopDisabled, StopUsers, DropUnwanted, BeginDeliver
<1> DEFINE h == Head(work)
<1>4. /\ work # <<>> /\ h.e \in Entry
      /\ Rest \subseteq Todo' \/ Rest = {}
      /\ \/ h.do \notin Stops \cup Words \cup Changes
         \/ h \in Todo' /\ h.do = "stop"
         \/ Stop(h.e) \in Todo'
         \/ ~ IsStarted(h.e)
         \/ h.do \in Words /\ entry[h.e].state # "running"
  <2>1. CASE Revive
    BY <2>1, DoneWork, HeadFits DEF Steady, Revive, HeadIs, Stops, Words, Changes
  <2>2. CASE NoChange
    BY <2>2, DoneWork, HeadFits DEF Steady, NoChange, HeadIs, Stops, Words, Changes, IsStarted, Started
  <2>3. CASE StopDisabled
    BY <2>3, DoneWork, HeadFits DEF Steady, StopDisabled, StopsEntry, HeadIs, IsStarted, Started
  <2>4. CASE StopUsers
    BY <2>4, StopUsersWork, HeadFits DEF Steady
  <2>5. CASE TakeTold
    BY <2>5, TakeToldWork DEF Steady
  <2>6. CASE DropUnwanted
    BY <2>6, DropUnwantedWork, HeadFits DEF Steady, Stops, Words, Changes
  <2>7. CASE BeginDeliver
    BY <2>7, BeginDeliverWork, HeadFits DEF Steady, Stops, Words, Changes
  <2>8. CASE Deliver
    BY <2>8, DeliverWork DEF Steady, Stops, Words, Changes
  <2> QED
    BY <2>1, <2>2, <2>3, <2>4, <2>5, <2>6, <2>7, <2>8
<1>5. \A e : Stop(e).do \in Stops /\ Stop(e).e = e
  BY DEF Stop, StopTo, Stops
<1>6. ASSUME NEW e \in Entry, entry'[e].state \in Started, h.e = e
      PROVE  /\ h.do \in Stops => ToStop(e)'
             /\ h.do \in Words => ToStop(e)' \/ entry[e].state # "running"
             /\ h.do \in Changes => ToStop(e)'
  <2>1. IsStarted(e)
    BY <1>3, <1>6 DEF Alike, IsStarted
  <2>2. h \in Todo' /\ h.do = "stop" => ToStop(e)'
    BY <1>6 DEF ToStop, Stops
  <2>3. Stop(h.e) \in Todo' => ToStop(e)'
    BY <1>5, <1>6 DEF ToStop
  <2>4. h.do \in Words => h.do \notin Stops \cup Changes
    BY DEF Words, Stops, Changes
  <2> HIDE DEF h
  <2> QED
    BY <1>4, <1>6, <2>1, <2>2, <2>3, <2>4
<1> QED
  BY <1>1, <1>2, <1>3, <1>4, <1>6, WorkNoted

\* What leaves its entry not started has nothing more to tell it.
LEMMA StateNoted ==
    ASSUME Steady, AllNoted, LetStart \/ CountFailure \/ EndStop
    PROVE  AllNoted'
<1> DEFINE h == Head(work)
<1>1. PICK x : Becomes(h.e, x) /\ x.state \notin Started
  BY LetStartDoes, CountFailureDoes, EndStopDoes DEF Steady, Started
<1>2. work # <<>> /\ Todo' = Rest
  BY DoneWork DEF Steady
<1>3. UNCHANGED <<settings, platform, queue>> /\ Waiting' = Waiting
  BY DEF LetStart, CountFailure, EndStop, Waiting
<1>4. object' = object \/ object' = [object EXCEPT ![h.e[1]].call = "off"]
  BY DEF LetStart, CountFailure, EndStop
<1>5. SameWords /\ \A e \in Entry : CallOf(e)' = "off" \/ CallOf(e)' = CallOf(e)
  <2>1. object \in [Peripherals -> ObjectType] /\ h.e[1] \in Peripherals
    BY <1>2, ObjectTyped, HeadTyped DEF Steady
  <2>2. \A e \in Entry : e[1] \in Peripherals
    BY EntryOf DEF Steady
  <2> HIDE DEF h
  <2>3. CASE object' = object
    BY <2>3 DEF SameWords, CallOf
  <2>4. CASE object' = [object EXCEPT ![h.e[1]].call = "off"]
    <3>1. "off" \in CallNames
      BY DEF CallNames
    <3>2. \A q \in Peripherals :
              /\ object'[q].call = IF q = h.e[1] THEN "off" ELSE object[q].call
              /\ object'[q].settings = object[q].settings
              /\ object'[q].platform = object[q].platform
              /\ object'[q].failed = object[q].failed /\ object'[q].quit = object[q].quit
      BY <2>1, <2>4, <3>1, CallBecomes
    <3>3. SameWords
      BY <3>2 DEF SameWords
    <3>4. \A e \in Entry : CallOf(e)' = "off" \/ CallOf(e)' = CallOf(e)
      BY <2>2, <3>2 DEF CallOf
    <3> QED
      BY <3>3, <3>4
  <2> QED
    BY <1>4, <2>3, <2>4
<1>6. \A e \in Entry : entry'[e].state \in Started => h.e # e /\ Alike(entry'[e], entry[e])
  BY <1>1 DEF Becomes, Alike
<1> QED
  BY <1>2, <1>3, <1>5, <1>6, WorkNoted

\* The steps of a stop lose nothing: it hears nothing more before it is over.
LEMMA StopsNoted ==
    ASSUME Steady, CallsApart, AllNoted, CancelStart \/ CallStop
    PROVE  AllNoted'
<1> DEFINE h == Head(work)
<1>1. work # <<>> /\ h \in StepType /\ h.e \in Entry
  BY HeadFits DEF Steady, CancelStart, CallStop, StopsEntry, HeadIs
<1>2. PICK do \in {"cancelled", "stopping"} : Todo' = {[h EXCEPT !.do = do]} \cup Rest
  BY CancelStartDoes, CallStopDoes DEF Steady
<1> DEFINE x == [h EXCEPT !.do = do]
<1>3. x.do \in Stops /\ x.e = h.e
  BY <1>1, <1>2 DEF StepType, Stops
<1>4. h.do \in {"stop", "cancelled"}
  BY CancelStartDoes, CallStopDoes DEF Steady
<1> HIDE DEF x
<1>5. \A e \in Entry : h.e = e => ToStop(e)'
  BY <1>2, <1>3 DEF ToStop, x
<1>6. \A e \in Entry : Alike(entry'[e], entry[e])
  BY AlikeAfter DEF Steady
<1>7. UNCHANGED <<settings, platform>>
  BY DEF CancelStart, CallStop
<1>8. \A t \in Waiting : t.do \in Words \cup Changes => t \in Waiting'
  <2>1. CASE queue' = queue
    BY <2>1 DEF Waiting
  <2> DEFINE K == {t \in ToSet(queue) : ~ (/\ t.do = "started" /\ t.e = Head(work).e
                                            /\ t.n = entry[Head(work).e].task)}
  <2>2. queue' = queue \/ queue' = Kept(queue, K)
    BY DEF CancelStart, CallStop
  <2>3. \A t \in Waiting : t.do \in Words \cup Changes => t \in K
    BY DEF Waiting, Words, Changes
  <2> HIDE DEF K
  <2>4. CASE queue' = Kept(queue, K)
    BY <2>3, <2>4, KeptWaits DEF Steady
  <2> QED
    BY <2>1, <2>2, <2>4
<1>9. SameWords /\ \A e \in Entry : CallOf(e) = "off" /\ CallOf(e)' # "off" /\ IsStarted(e) => h.e = e
  <2>1. CASE CancelStart
    BY <2>1 DEF CancelStart, SameWords, CallOf
  <2>2. CASE CallStop
    <3>1. object' = [object EXCEPT ![h.e[1]].call = "stopping"] /\ IsStarted(h.e)
      <4>1. h.do = "cancelled" => IsStarted(h.e)
        BY <1>1, HeadMatches DEF Steady
      <4> QED
        BY <2>2, <4>1, CallStopDoes DEF Steady
    <3>2. object \in [Peripherals -> ObjectType] /\ \A e \in Entry : e[1] \in Peripherals
      BY ObjectTyped, EntryOf DEF Steady
    <3> HIDE DEF h
    <3>3. SameWords /\ \A e \in Entry : CallOf(e)' # CallOf(e) => e[1] = h.e[1]
      BY <1>1, <3>1, <3>2, CallBecomes DEF CallNames, SameWords, CallOf
    <3> QED
      BY <1>1, <3>1, <3>3 DEF CallsApart
  <2> QED
    BY <2>1, <2>2
<1>10. \A e \in Entry : entry'[e].state \in Started => IsStarted(e)
  BY <1>6 DEF Alike, IsStarted
<1>11. \A y \in Rest : y \in Todo'
  BY <1>2
<1>12. h.do \notin Words \cup Changes
  BY <1>4 DEF Words, Changes
<1> QED
  BY <1>1, <1>5, <1>6, <1>7, <1>8, <1>9, <1>10, <1>11, <1>12, WorkNoted

\* A hook that ends loses nothing: what it skips is one about to be stopped.
LEMMA EndHookNoted ==
    ASSUME Steady, CallsApart, AllNoted, EndHook
    PROVE  AllNoted'
<1> DEFINE e == Head(work).e
           past == ToSet(PastHooks(e, Tail(work)))
<1>1. /\ work # <<>> /\ Head(work).do = "hook" /\ past \subseteq Rest /\ e \in Entry
      /\ \A x \in Rest \ past : x.do \in Hooks /\ x.e = e
      /\ \/ Todo' = Rest
         \/ Todo' = {Stop(e)} \cup past
         \/ Todo' = {Stop(e), Step("failed", e)} \cup past
  BY EndHookWork DEF Steady
<1>2. UNCHANGED <<settings, platform, queue, entry>> /\ Waiting' = Waiting
  BY DEF EndHook, Waiting
<1>3. object' = [object EXCEPT ![e[1]].call = "on"] /\ object[e[1]].call = "asked"
  BY EndHookCalls DEF EndHook, CallOf
<1> HIDE DEF past, e
<1>4. SameWords /\ \A f \in Entry : CallOf(f)' # "off" => CallOf(f) # "off"
  <2>1. object \in [Peripherals -> ObjectType] /\ \A f \in Entry : f[1] \in Peripherals
    BY ObjectTyped, EntryOf DEF Steady
  <2> QED
    BY <1>1, <1>3, <2>1, CallBecomes DEF CallNames, SameWords, CallOf
<1>5. Stop(e).do \in Stops /\ Stop(e).e = e
  BY DEF Stop, StopTo, Stops
<1>6. \A x \in Rest : x \in Todo' \/ ToStop(x.e)'
  <2>1. CASE Todo' = Rest
    BY <2>1
  <2>2. CASE Stop(e) \in Todo' /\ past \subseteq Todo'
    <3>1. \A f : e = f => ToStop(f)'
      BY <1>5, <2>2 DEF ToStop
    <3> QED
      BY <1>1, <2>2, <3>1
  <2> QED
    BY <1>1, <2>1, <2>2
<1>7. Head(work).do \notin Stops \cup Words \cup Changes
  BY <1>1 DEF Stops, Words, Changes
<1>8. \A f \in Entry : Alike(entry'[f], entry[f])
  BY <1>2 DEF Alike
<1> QED
  BY <1>1, <1>2, <1>4, <1>6, <1>7, <1>8, WorkNoted

\* What is collected is not started.
LEMMA CollectAlike ==
    ASSUME TypeOK, Collects, NEW e \in Entry, entry'[e].state \in Started
    PROVE  Alike(entry'[e], entry[e])
<1>1. entry'[e] = entry[e]
  BY CollectsDo DEF Started
<1> QED
  BY <1>1 DEF Alike

\* Between two changes, and between two passes, all that matters waits for the lock.
LEMMA FreedNoted ==
    ASSUME Steady, NoneForgotten, AllNoted, SettleChange \/ Closed \/ BeginPass
    PROVE  AllNoted'
<1>1. work # <<>> /\ Rest = {} /\ Head(work).do \in {"settle", "closed", "pass"}
  <2>1. CASE SettleChange \/ Closed
    BY <2>1, FreeWork DEF Steady, SettleChange, Closed, HeadIs
  <2>2. CASE BeginPass
    BY <2>2, BeginPassWork DEF Steady
  <2> QED
    BY <2>1, <2>2
<1>2. Head(work).do \notin Stops \cup Words \cup Changes
  BY <1>1 DEF Stops, Words, Changes
<1>3. UNCHANGED <<settings, platform, object, hub>> /\ SameWords /\ \A e : CallOf(e)' = CallOf(e)
  <2>1. UNCHANGED <<settings, platform, object, hub>>
    BY DEF SettleChange, Closed, BeginPass
  <2> QED
    BY <2>1 DEF SameWords, CallOf
<1>4. CASE Closed
  <2>1. Todo = {Head(work)} /\ Head(work).do = "closed"
    BY <1>1, <1>4, HeadFits DEF Steady, Closed, HeadIs
  <2>2. \A e \in Entry : ~ IsStarted(e)
    BY <2>1 DEF NoneForgotten, ClosesAll, Closes, ToStop, Stops
  <2>3. entry' = entry
    BY <1>4 DEF Closed
  <2> QED
    BY <2>2, <2>3 DEF AllNoted, IsStarted
<1>5. CASE SettleChange
  <2>1. PICK t : Asking(t)
    BY <1>5, ThereAre, RefreshAsks DEF SettleChange
  <2>2. \A u \in Waiting : u \in Waiting'
    <3>1. queue \in Seq(TaskType)
      BY DEF Steady, TypeOK
    <3>2. CASE t \in TaskType /\ queue' = Append(queue, t)
      <4>1. ToSet(queue') = ToSet(queue) \cup {t}
        BY <3>1, <3>2, SetOfAppend
      <4> QED
        BY <4>1 DEF Waiting
    <3>3. CASE queue' = queue
      BY <3>3 DEF Waiting
    <3> QED
      BY <2>1, <3>2, <3>3 DEF Asking
  <2>3. \A e \in Entry : entry'[e].state \in Started => Alike(entry'[e], entry[e])
    BY <2>1, CollectAlike, AlikeAfter DEF Asking, Steady
  <2> QED
    BY <1>1, <1>2, <1>3, <2>2, <2>3, WorkNoted
<1>6. CASE BeginPass
  <2>1. Waiting' = Waiting
    BY <1>6 DEF BeginPass, Waiting
  <2>2. \A e \in Entry : entry'[e].state \in Started => Alike(entry'[e], entry[e])
    BY <1>6, CollectAlike, PassCollects DEF BeginPass, Steady
  <2> QED
    BY <1>1, <1>2, <1>3, <2>1, <2>2, WorkNoted
<1> QED
  BY <1>4, <1>5, <1>6

\* One just started was not called yet.
LEMMA EndPassNoted ==
    ASSUME Steady, CallsApart, NoneForgotten, AllNoted, EndPass
    PROVE  AllNoted'
<1>1. work # <<>> /\ Rest = {} /\ Head(work).do = "start"
  BY EndPassWork DEF Steady
<1>2. Head(work).do \notin Stops \cup Words \cup Changes
  BY <1>1 DEF Stops, Words, Changes
<1>3. /\ UNCHANGED <<settings, platform>> /\ SameWords /\ Waiting' = Waiting
      /\ \A e : CallOf(e)' = CallOf(e)
  BY DEF EndPass, SameWords, Waiting, CallOf
<1>4. CallsApart'
  BY EndPassCalls
<1>5. \A e \in Entry : entry[e].task = NoTask => Tasks \ StartTasks(e) # {}
  BY DEF Steady, StartsApart
<1>6. PICK S \in SUBSET Entry :
         /\ \A e \in S : entry[e].state = "waiting"
         /\ \A e \in Entry : e \notin S => entry'[e] = entry[e]
         /\ \A e \in S : entry'[e].state = "starting"
  BY <1>5, EndPassDoes DEF Steady
<1>7. \A e \in S : CallOf(e)' = "off"
  <2>1. SUFFICES ASSUME NEW e \in S, CallOf(e) # "off"
                 PROVE  FALSE
    BY <1>3
  <2>2. e[1] \in Peripherals
    BY EntryOf DEF Steady
  <2>3. PICK l \in Lives : IsStarted(<<e[1], l>>)
    BY <2>1, <2>2 DEF CallsApart, CallOf
  <2>4. PICK f \in Entry : f = <<e[1], l>>
    BY <2>2 DEF Entry
  <2>5. IsStarted(f) /\ f[1] = e[1] /\ f \notin S
    BY <1>6, <2>3, <2>4 DEF IsStarted, Started
  <2>6. entry'[f].state \in Started /\ entry'[e].state \in Started
    BY <1>6, <2>5 DEF IsStarted, Started
  <2>7. f = e
    BY <1>4, <2>5, <2>6 DEF CallsApart, IsStarted
  <2> QED
    BY <2>5, <2>7
<1>8. \A e \in Entry : e \notin S => Alike(entry'[e], entry[e])
  BY <1>6 DEF Alike
<1> QED
  BY <1>1, <1>2, <1>3, <1>7, <1>8, WorkNoted

\* What comes after the head, and what waits, stays.
LEMMA RestComes ==
    ASSUME Steady, work # <<>>, Rest \subseteq Todo', Waiting' = Waiting, NEW e
    PROVE  /\ Head(work).do \notin Stops /\ ToStop(e) => ToStop(e)'
           /\ \A do : do # Head(work).do /\ Comes(do, e) => Comes(do, e)'
<1>1. Todo = {Head(work)} \cup Rest
  BY HeadFits DEF Steady
<1>2. Head(work).do \notin Stops /\ ToStop(e) => ToStop(e)'
  BY <1>1 DEF ToStop
<1>3. ASSUME NEW do, do # Head(work).do, Comes(do, e)
      PROVE  Comes(do, e)'
  BY <1>1, <1>3 DEF Comes, Concerns
<1> QED
  BY <1>2, <1>3

\* A change is told to one that runs, and noted for one that starts.
LEMMA TellOrNoteNoted ==
    ASSUME Steady, AllNoted, TellOrNote
    PROVE  AllNoted'
<1> DEFINE hook == IF HeadIs("settings") THEN "tell_settings" ELSE "tell_platform"
           step == Step(hook, Head(work).e)
<1>1. /\ work # <<>> /\ Head(work).do \in {"settings", "platform"}
      /\ Head(work).do = "settings" <=> HeadIs("settings")
      /\ UNCHANGED <<settings, platform, queue, object>> /\ Waiting' = Waiting
      /\ \A f : CallOf(f)' = CallOf(f)
  BY DEF TellOrNote, HeadIs, Waiting, CallOf
<1>2. PICK e \in Entry : e = Head(work).e
  BY <1>1, HeadTyped DEF Steady
<1>3. /\ Rest \subseteq Todo'
      /\ (entry[e].state = "running" /\ step \in Todo') \/ entry[e].state = "starting"
  BY <1>2, TellOrNoteWork DEF Steady
<1>4. entry[e] \in EntryType(e[1]) /\ DOMAIN entry = Entry
  BY EntryOf DEF Steady
<1>5. /\ \A f \in Entry : f # e => entry'[f] = entry[f]
      /\ entry'[e].state = entry[e].state /\ entry'[e].toldFailure = entry[e].toldFailure
      /\ entry'[e].stopping = entry[e].stopping
      /\ \/ entry[e].state = "running"
         \/ HeadIs("settings") /\ entry'[e].missedSettings
         \/ ~ HeadIs("settings") /\ entry'[e].missedPlatform
      /\ entry'[e].missedSettings = entry[e].missedSettings \/ HeadIs("settings")
      /\ entry'[e].missedPlatform = entry[e].missedPlatform \/ ~ HeadIs("settings")
  <2>1. CASE UNCHANGED entry /\ entry[e].state = "running"
    BY <2>1
  <2>2. CASE entry' = IF HeadIs("settings") THEN [entry EXCEPT ![e].missedSettings = TRUE]
                      ELSE [entry EXCEPT ![e].missedPlatform = TRUE]
    BY <1>4, <2>2 DEF EntryType
  <2> QED
    BY <1>2, <2>1, <2>2 DEF TellOrNote
<1>6. step.do = hook /\ step.e = e
  BY <1>2 DEF Step
<1> HIDE DEF step
<1>7. /\ entry[e].state # "starting" /\ HeadIs("settings") => Comes("tell_settings", e)'
      /\ entry[e].state # "starting" /\ ~ HeadIs("settings") => Comes("tell_platform", e)'
  BY <1>3, <1>6 DEF Comes
<1>8. /\ ToStop(e) => ToStop(e)'
      /\ \A do : do # Head(work).do /\ Comes(do, e) => Comes(do, e)'
  BY <1>1, <1>3, RestComes DEF Stops
<1>9. ASSUME IsStarted(e), CallOf(e) # "off"
      PROVE  Noted(e)'
  <2>1. Noted(e)
    BY <1>9 DEF AllNoted
  <2>2. (FailureNoted(e) => FailureNoted(e)') /\ (QuitNoted(e) => QuitNoted(e)')
    BY <1>1, <1>5, <1>8 DEF FailureNoted, QuitNoted
  <2>3. SettingsNoted(e) => SettingsNoted(e)'
    BY <1>1, <1>5, <1>7, <1>8, <1>9 DEF SettingsNoted, IsStarted, Started
  <2>4. PlatformNoted(e) => PlatformNoted(e)'
    BY <1>1, <1>5, <1>7, <1>8, <1>9 DEF PlatformNoted, IsStarted, Started
  <2> QED
    BY <1>1, <2>1, <2>2, <2>3, <2>4 DEF Noted
<1>10. \A f \in Entry : f # e => SameFor(f) /\ Alike(entry'[f], entry[f])
  BY <1>1, <1>5 DEF SameFor, Alike
<1>11. entry'[e].state \in Started /\ CallOf(e)' # "off" => IsStarted(e) /\ CallOf(e) # "off"
  BY <1>1, <1>5 DEF IsStarted
<1>12. \A f \in Entry : entry'[f].state \in Started /\ CallOf(f)' # "off" =>
               \/ Noted(f)'
               \/ /\ SameFor(f) /\ Alike(entry'[f], entry[f]) /\ CallOf(f) # "off"
                  /\ Head(work).e # f
  <2>1. ASSUME NEW f \in Entry, f = e, entry'[f].state \in Started, CallOf(f)' # "off"
        PROVE  Noted(f)'
    BY <1>9, <1>11, <2>1
  <2>2. ASSUME NEW f \in Entry, f # e, entry'[f].state \in Started, CallOf(f)' # "off"
        PROVE  /\ SameFor(f) /\ Alike(entry'[f], entry[f]) /\ CallOf(f) # "off"
               /\ Head(work).e # f
    BY <1>1, <1>2, <1>10, <2>2
  <2> QED
    BY <2>1, <2>2
<1> QED
  BY <1>1, <1>3, <1>12, StepNoted

\* What one missed while it started is told once it runs.
LEMMA TellMissedNoted ==
    ASSUME Steady, AllNoted, TellMissed
    PROVE  AllNoted'
<1>1. /\ work # <<>> /\ Head(work).do = "missed"
      /\ UNCHANGED <<settings, platform, queue, object>> /\ Waiting' = Waiting
      /\ \A f : CallOf(f)' = CallOf(f)
  BY DEF TellMissed, HeadIs, Waiting, CallOf
<1>2. PICK e \in Entry : e = Head(work).e
  BY <1>1, HeadTyped DEF Steady
<1>3. /\ Rest \subseteq Todo'
      /\ entry[e].missedPlatform => Step("tell_platform", e) \in Todo'
      /\ entry[e].missedSettings => Step("tell_settings", e) \in Todo'
  BY <1>2, TellMissedWork DEF Steady
<1>4. entry[e].state = "running"
  BY <1>1, <1>2, HeadMatches DEF Steady
<1>5. entry[e] \in EntryType(e[1]) /\ DOMAIN entry = Entry
  BY EntryOf DEF Steady
<1>6. entry' = [entry EXCEPT ![e].missedPlatform = FALSE, ![e].missedSettings = FALSE]
  BY <1>2 DEF TellMissed
<1>7. /\ \A f \in Entry : f # e => entry'[f] = entry[f]
      /\ entry'[e].state = entry[e].state /\ entry'[e].toldFailure = entry[e].toldFailure
      /\ entry'[e].stopping = entry[e].stopping
  BY <1>5, <1>6 DEF EntryType
<1>8. \A do : Step(do, e).do = do /\ Step(do, e).e = e
  BY DEF Step
<1>9. /\ entry[e].missedPlatform => Comes("tell_platform", e)'
      /\ entry[e].missedSettings => Comes("tell_settings", e)'
  BY <1>3, <1>8 DEF Comes
<1>10. /\ ToStop(e) => ToStop(e)'
       /\ \A do : do # Head(work).do /\ Comes(do, e) => Comes(do, e)'
  BY <1>1, <1>3, RestComes DEF Stops
<1>11. ASSUME CallOf(e) # "off"
       PROVE  Noted(e)'
  <2>1. Noted(e)
    BY <1>4, <1>11 DEF AllNoted, IsStarted, Started
  <2>2. (FailureNoted(e) => FailureNoted(e)') /\ (QuitNoted(e) => QuitNoted(e)')
    BY <1>1, <1>7, <1>10 DEF FailureNoted, QuitNoted
  <2>3. SettingsNoted(e) => SettingsNoted(e)'
    BY <1>1, <1>4, <1>9, <1>10 DEF SettingsNoted
  <2>4. PlatformNoted(e) => PlatformNoted(e)'
    BY <1>1, <1>4, <1>9, <1>10 DEF PlatformNoted
  <2> QED
    BY <1>1, <2>1, <2>2, <2>3, <2>4 DEF Noted
<1>12. \A f \in Entry : f # e => SameFor(f) /\ Alike(entry'[f], entry[f])
  BY <1>1, <1>7 DEF SameFor, Alike
<1>13. \A f \in Entry : entry'[f].state \in Started /\ CallOf(f)' # "off" =>
               \/ Noted(f)'
               \/ /\ SameFor(f) /\ Alike(entry'[f], entry[f]) /\ CallOf(f) # "off"
                  /\ Head(work).e # f
  <2>1. ASSUME NEW f \in Entry, f = e, CallOf(f)' # "off"
        PROVE  Noted(f)'
    BY <1>1, <1>11, <2>1
  <2>2. ASSUME NEW f \in Entry, f # e, entry'[f].state \in Started, CallOf(f)' # "off"
        PROVE  /\ SameFor(f) /\ Alike(entry'[f], entry[f]) /\ CallOf(f) # "off"
               /\ Head(work).e # f
    BY <1>1, <1>2, <1>12, <2>2
  <2> QED
    BY <2>1, <2>2
<1> QED
  BY <1>1, <1>3, <1>13, StepNoted

\* A hook called reads what it is told.
LEMMA BeginHookNoted ==
    ASSUME Steady, CallsApart, AllNoted, BeginHook
    PROVE  AllNoted'
<1>1. /\ work # <<>> /\ Head(work).do \in Hooks
      /\ UNCHANGED <<settings, platform, queue, entry>> /\ Waiting' = Waiting
  BY DEF BeginHook, Waiting
<1>2. PICK e \in Entry : e = Head(work).e
  BY <1>1, HeadTyped DEF Steady
<1>3. Rest \subseteq Todo'
  BY BeginHookWork DEF Steady
<1>4. entry[e].state = "running" /\ CallOf(e) = "on"
  BY <1>1, <1>2, HeadMatches, BeginHookCalls DEF Steady
<1>5. \A q \in Peripherals :
         /\ object'[q].call = IF q = e[1] THEN "asked" ELSE object[q].call
         /\ object'[q].settings = IF q = e[1] /\ Head(work).do = "tell_settings" THEN settings[q]
                                  ELSE object[q].settings
         /\ object'[q].platform = IF q = e[1] /\ Head(work).do = "tell_platform" THEN platform
                                  ELSE object[q].platform
         /\ object'[q].failed = object[q].failed /\ object'[q].quit = object[q].quit
  BY <1>2, BeginHookDoes DEF Steady
<1>6. \A f \in Entry : f[1] \in Peripherals
  BY EntryOf DEF Steady
<1>7. /\ ToStop(e) => ToStop(e)'
      /\ \A do : do # Head(work).do /\ Comes(do, e) => Comes(do, e)'
  BY <1>1, <1>3, RestComes DEF Stops, Hooks
<1>8. Noted(e)'
  <2>1. Noted(e)
    BY <1>4 DEF AllNoted, IsStarted, Started
  <2>2. (FailureNoted(e) => FailureNoted(e)') /\ (QuitNoted(e) => QuitNoted(e)')
    BY <1>1, <1>7 DEF FailureNoted, QuitNoted, Hooks
  <2>3. Head(work).do # "tell_settings" => (SettingsNoted(e) => SettingsNoted(e)')
    BY <1>1, <1>7 DEF SettingsNoted, Hooks
  <2>4. Head(work).do # "tell_platform" => (PlatformNoted(e) => PlatformNoted(e)')
    BY <1>1, <1>7 DEF PlatformNoted, Hooks
  <2> QED
    BY <1>1, <1>5, <1>6, <2>1, <2>2, <2>3, <2>4 DEF Noted
<1>9. ASSUME NEW f \in Entry, f # e, entry'[f].state \in Started, CallOf(f)' # "off"
      PROVE  /\ SameFor(f) /\ Alike(entry'[f], entry[f]) /\ CallOf(f) # "off"
             /\ Head(work).e # f
  <2>1. IsStarted(f) /\ IsStarted(e)
    BY <1>1, <1>4, <1>9 DEF IsStarted, Started
  <2>2. f[1] # e[1]
    BY <1>9, <2>1 DEF CallsApart
  <2>3. CallOf(f)' = CallOf(f) /\ SameFor(f)
    BY <1>1, <1>5, <1>6, <2>2 DEF CallOf, SameFor
  <2> QED
    BY <1>1, <1>2, <1>9, <2>3 DEF Alike
<1>10. \A f \in Entry : entry'[f].state \in Started /\ CallOf(f)' # "off" =>
               \/ Noted(f)'
               \/ /\ SameFor(f) /\ Alike(entry'[f], entry[f]) /\ CallOf(f) # "off"
                  /\ Head(work).e # f
  <2>1. \A f \in Entry : f = e => Noted(f)'
    BY <1>8
  <2> QED
    BY <1>9, <2>1
<1> QED
  BY <1>1, <1>3, <1>10, StepNoted

\* A task that takes the lock brings what it was to bring; a start that ended brings what
\* its entry heard meanwhile.
LEMMA AcquireNoted ==
    ASSUME Steady, AllNoted, Acquire
    PROVE  AllNoted'
<1> DEFINE t == Head(queue)
           x == Ended(entry[t.e], t.ok)
<1>1. /\ Todo = {} /\ t \in TaskType /\ t.e \in Entry /\ Waiting = {t} \cup Waiting'
      /\ UNCHANGED <<settings, platform, object>>
      /\ \/ /\ t.do = "started" /\ ~ IsItsStart(t)
            /\ Todo' = {} /\ UNCHANGED entry
         \/ /\ t.do = "started" /\ IsItsStart(t)
            /\ Becomes(t.e, x)
            /\ Todo' = IF x.state = "running" THEN {Step("missed", t.e), Settle}
                       ELSE IF x.stoppedWith.stopped THEN {Stop(t.e), Settle}
                       ELSE {Stop(t.e), Step("failed", t.e), Settle}
         \/ t.do # "started" /\ UNCHANGED entry /\ Todo' = ToSet(StepsOf(t))
  BY AcquireTakes DEF Steady
<1> HIDE DEF x, t
<1>2. \A e : ~ ToStop(e) /\ CallOf(e)' = CallOf(e)
  BY <1>1 DEF ToStop, CallOf
<1>3. \A e \in Entry : SameFor(e)
  BY <1>1 DEF SameFor
<1>4. ASSUME t.do = "started"
      PROVE  \A e : \A do \in Words \cup Changes : Comes(do, e) => Comes(do, e)'
  <2>1. t.do \notin Words \cup Changes
    BY <1>4 DEF Words, Changes
  <2> QED
    BY <1>1, <2>1 DEF Comes, Concerns
<1>5. ASSUME t.do # "started"
      PROVE  \A e : \A do \in Words \cup Changes : Comes(do, e) => Comes(do, e)'
  <2>1. SUFFICES ASSUME NEW e, NEW do \in Words \cup Changes, Comes(do, e)
                 PROVE  Comes(do, e)'
    OBVIOUS
  <2>2. PICK u \in Waiting : u.do = do /\ Concerns(u, e)
    BY <1>1, <2>1 DEF Comes
  <2>3. CASE u \in Waiting'
    BY <2>2, <2>3 DEF Comes, Concerns
  <2>4. CASE u = t
    <3>1. t.do \in {"fail", "quit", "settings", "platform"}
      BY <1>1, <2>1, <2>2, <2>4 DEF Words, Changes, TaskType
    <3>2. Step(do, e) \in ToSet(StepsOf(t))
      BY <1>1, <1>5, <2>2, <2>4, <3>1, StepsOfFit DEF Concerns, Steady
    <3>3. Step(do, e) \in Todo' /\ Step(do, e).do = do /\ Step(do, e).e = e
      BY <1>1, <1>5, <3>2 DEF Step
    <3> QED
      BY <3>3 DEF Comes
  <2> QED
    BY <1>1, <2>2, <2>3, <2>4
<1>6. \A e : \A do \in Words \cup Changes : Comes(do, e) => Comes(do, e)'
  BY <1>4, <1>5
<1>7. ASSUME t.do = "started", IsItsStart(t), Becomes(t.e, x), CallOf(t.e) # "off",
             Todo' = IF x.state = "running" THEN {Step("missed", t.e), Settle}
                     ELSE IF x.stoppedWith.stopped THEN {Stop(t.e), Settle}
                     ELSE {Stop(t.e), Step("failed", t.e), Settle}
      PROVE  \A e : t.e = e => Noted(e)'
  <2>1. PICK e \in Entry : e = t.e
    BY <1>1
  <2>2. entry'[e] = x /\ x = Ended(entry[e], t.ok) /\ t.ok \in BOOLEAN
    BY <1>1, <1>7, <2>1 DEF Becomes, x, TaskType
  <2>3. entry[e].state = "starting"
    <3>1. t \in Waiting /\ t.n \in Tasks /\ t.n # NoTask
      BY <1>1, <1>7, WaitingTyped DEF Steady, StartsApart
    <3> QED
      BY <1>7, <2>1, <3>1 DEF IsItsStart, Steady, StartsApart
  <2>4. Noted(e)
    BY <1>7, <2>1, <2>3 DEF AllNoted, IsStarted, Started
  <2>5. CASE x.state # "running"
    <3>1. Stop(e) \in Todo' /\ Stop(e).do \in Stops /\ Stop(e).e = e
      BY <1>7, <2>1, <2>5 DEF Stop, StopTo, Stops
    <3>2. ToStop(e)'
      BY <3>1 DEF ToStop
    <3> QED
      BY <2>1, <3>2, StopsNoting
  <2>6. CASE x.state = "running"
    <3>1. /\ ~ entry[e].toldFailure /\ ~ entry[e].stopping
          /\ x.missedSettings = entry[e].missedSettings
          /\ x.missedPlatform = entry[e].missedPlatform
      BY <2>2, <2>3, <2>6, EndedTyped DEF Steady
    <3>2. ~ FailureNoted(e) /\ ~ QuitNoted(e)
      BY <1>2, <2>3, <3>1 DEF FailureNoted, QuitNoted
    <3>3. Comes("missed", e)'
      <4>1. Step("missed", e) \in Todo' /\ Step("missed", e).do = "missed" /\ Step("missed", e).e = e
        BY <1>7, <2>1, <2>6 DEF Step
      <4> QED
        BY <4>1 DEF Comes
    <3>4. SettingsNoted(e) => SettingsNoted(e)'
      BY <1>2, <1>6, <2>2, <3>1, <3>3 DEF SettingsNoted, Changes
    <3>5. PlatformNoted(e) => PlatformNoted(e)'
      BY <1>2, <1>6, <2>2, <3>1, <3>3 DEF PlatformNoted, Changes
    <3>6. Noted(e)'
      BY <1>1, <2>4, <3>2, <3>4, <3>5 DEF Noted
    <3> QED
      BY <2>1, <3>6
  <2> QED
    BY <2>5, <2>6
<1>8. \A e \in Entry : entry'[e].state \in Started /\ CallOf(e)' # "off" =>
               \/ Noted(e)'
               \/ /\ SameFor(e) /\ Alike(entry'[e], entry[e]) /\ CallOf(e) # "off"
  <2>1. \A e \in Entry : entry'[e] = entry[e] => Alike(entry'[e], entry[e])
    BY DEF Alike
  <2>2. CASE UNCHANGED entry
    BY <1>2, <1>3, <2>1, <2>2
  <2>3. CASE /\ t.do = "started" /\ IsItsStart(t)
             /\ Becomes(t.e, x)
             /\ Todo' = IF x.state = "running" THEN {Step("missed", t.e), Settle}
                        ELSE IF x.stoppedWith.stopped THEN {Stop(t.e), Settle}
                        ELSE {Stop(t.e), Step("failed", t.e), Settle}
    <3>1. \A e \in Entry : e # t.e => entry'[e] = entry[e]
      BY <2>3 DEF Becomes
    <3>2. \A e \in Entry : e = t.e /\ CallOf(e)' # "off" => Noted(e)'
      BY <1>2, <1>7, <2>3
    <3> QED
      BY <1>2, <1>3, <2>1, <3>1, <3>2
  <2> QED
    BY <1>1, <2>2, <2>3
<1>9. \A e \in Entry : entry'[e].state \in Started /\ CallOf(e)' # "off" =>
               \/ Noted(e)'
               \/ /\ SameFor(e) /\ Alike(entry'[e], entry[e]) /\ CallOf(e) # "off"
                  /\ ToStop(e) => ToStop(e)'
                  /\ \A do \in Words :
                        entry[e].state = "running" /\ Comes(do, e) => Comes(do, e)' \/ ToStop(e)'
                  /\ \A do \in Changes : Comes(do, e) => Comes(do, e)' \/ ToStop(e)'
  BY <1>2, <1>6, <1>8
<1> QED
  BY <1>9, AllNotedAgain

\* Between two steps of the holder, what is on its way stays so.
LEMMA PartsStill ==
    ASSUME work' = work, Waiting \subseteq Waiting', NEW e
    PROVE  /\ ToStop(e) => ToStop(e)'
           /\ \A do : Comes(do, e) => Comes(do, e)'
           /\ Alike(entry'[e], entry[e]) =>
                 /\ FailureNoted(e) => FailureNoted(e)'
                 /\ QuitNoted(e) => QuitNoted(e)'
                 /\ SettingsNoted(e) => SettingsNoted(e)'
                 /\ PlatformNoted(e) => PlatformNoted(e)'
<1>1. Todo' = Todo
  BY DEF Todo
<1>2. ToStop(e) => ToStop(e)'
  BY <1>1 DEF ToStop
<1>3. \A do : Comes(do, e) => Comes(do, e)'
  BY <1>1 DEF Comes, Concerns
<1> QED
  BY <1>2, <1>3 DEF Alike, FailureNoted, QuitNoted, SettingsNoted, PlatformNoted

\* A call from outside leaves all on its way when each that started is as it was, or is noted anew.
LEMMA CalmNoted ==
    ASSUME Steady, AllNoted, work' = work, Waiting \subseteq Waiting',
           \A e \in Entry : entry'[e].state \in Started /\ CallOf(e)' # "off" =>
               \/ Noted(e)'
               \/ SameFor(e) /\ Alike(entry'[e], entry[e]) /\ CallOf(e) # "off"
    PROVE  AllNoted'
<1>1. \A e \in Entry : entry'[e].state \in Started /\ CallOf(e)' # "off" =>
               \/ Noted(e)'
               \/ /\ SameFor(e) /\ Alike(entry'[e], entry[e]) /\ CallOf(e) # "off"
                  /\ ToStop(e) => ToStop(e)'
                  /\ \A do \in Words :
                        entry[e].state = "running" /\ Comes(do, e) => Comes(do, e)' \/ ToStop(e)'
                  /\ \A do \in Changes : Comes(do, e) => Comes(do, e)' \/ ToStop(e)'
  BY PartsStill
<1> QED
  BY <1>1, AllNotedAgain

\* What asks for the lock keeps what waits, and changes none that started.
LEMMA AskingAlike ==
    ASSUME Steady, NEW t, Asking(t)
    PROVE  /\ Waiting \subseteq Waiting'
           /\ \A e \in Entry : entry'[e].state \in Started => Alike(entry'[e], entry[e])
<1>1. queue \in Seq(TaskType)
  BY DEF Steady, TypeOK
<1>2. CASE t \in TaskType /\ queue' = Append(queue, t) /\ entry' = entry
  <2>1. ToSet(queue') = ToSet(queue) \cup {t}
    BY <1>1, <1>2, SetOfAppend
  <2> QED
    BY <1>2, <2>1 DEF Waiting, Alike
<1>3. CASE queue' = queue /\ Collects
  BY <1>3, CollectAlike DEF Waiting, Steady
<1> QED
  BY <1>2, <1>3 DEF Asking

\* A task that goes to wait changes no entry.
LEMMA QueuedAlike ==
    ASSUME Steady, NEW t \in TaskType, Queue(t)
    PROVE  /\ t \in Waiting' /\ Waiting \subseteq Waiting'
           /\ \A e \in Entry : Alike(entry'[e], entry[e])
<1>1. queue \in Seq(TaskType)
  BY DEF Steady, TypeOK
<1>2. ToSet(queue') = ToSet(queue) \cup {t}
  BY <1>1, SetOfAppend DEF Queue
<1> QED
  BY <1>2 DEF Waiting, Alike, Queue

\* The calls that change nothing a peripheral reads.
LEMMA PlainNoted ==
    ASSUME Steady, AllNoted,
           \/ Boot \/ Close \/ Retry
           \/ \E p \in Peripherals : \/ Enable(p) \/ Disable(p) \/ Restart(p) \/ RemoveGiven(p)
                                     \/ AddGiven(p) \/ Plug(p)
           \/ \E x \in Endpoints : Offer(x)
    PROVE  AllNoted'
<1>1. UNCHANGED <<settings, platform, object, work>> /\ \A e : CallOf(e)' = CallOf(e)
  <2>1. UNCHANGED <<settings, platform, object, work>>
    BY DEF Boot, Close, Retry, TimerFires, RetryDue, Enable, Disable, Restart, RemoveGiven, AddGiven,
           Plug, Offer
  <2> QED
    BY <2>1 DEF CallOf
<1>2. \A e \in Entry : SameFor(e)
  BY <1>1 DEF SameFor
<1>3. /\ Waiting \subseteq Waiting'
      /\ \A e \in Entry : entry'[e].state \in Started => Alike(entry'[e], entry[e])
  <2>1. ASSUME NEW e \in Entry, RetryDue(e)
        PROVE  /\ Waiting \subseteq Waiting'
               /\ \A f \in Entry : Alike(entry'[f], entry[f])
    <3> DEFINE x == [entry[e] EXCEPT !.retry = FALSE]
    <3>1. entry' = [entry EXCEPT ![e] = x] /\ Waiting' = Waiting
      BY <2>1 DEF RetryDue, Waiting
    <3>2. Alike(x, entry[e])
      BY EntryOf DEF Steady, Alike, EntryType
    <3> HIDE DEF x
    <3> QED
      BY <3>1, <3>2, OneAlike DEF Steady
  <2>2. ASSUME ~ \E e \in Entry : RetryDue(e)
        PROVE  \E t : Asking(t)
    <3>1. CASE TimerFires
      BY <3>1, ThereAre, RefreshAsks DEF TimerFires
    <3>2. CASE Boot
      BY <3>2, Numbers, TaskTyped DEF Boot, Asking
    <3>3. CASE Close
      BY <3>3, Numbers, TaskTyped DEF Close, Asking
    <3>4. ASSUME NEW p \in Peripherals, Enable(p) \/ Disable(p) \/ Restart(p)
          PROVE  \E t : Asking(t)
      <4>1. Current(p) \in Entry
        BY <3>4, CurrentTyped DEF Steady, Enable, Disable, Restart
      <4>2. PICK do \in {"enable", "disable", "restart"} : Queue(Task(do, Current(p)))
        BY <3>4 DEF Enable, Disable, Restart
      <4>3. Task(do, Current(p)) \in TaskType /\ Task(do, Current(p)).do = do
        BY <4>1, TaskTyped
      <4> QED
        BY <4>2, <4>3, QueueAsks
    <3>5. ASSUME NEW p \in Peripherals, RemoveGiven(p) \/ AddGiven(p) \/ Plug(p)
          PROVE  \E t : Asking(t)
      <4>1. PICK owned, listed : QueueRefresh(PresentOf(owned, listed))
        BY <3>5 DEF RemoveGiven, AddGiven, Plug, Present
      <4> QED
        BY <4>1, ThereAre, RefreshAsks
    <3>6. ASSUME NEW x \in Endpoints, Offer(x)
          PROVE  \E t : Asking(t)
      BY <3>6, ThereAre, RefreshAsks DEF Offer
    <3> QED
      BY <2>2, <3>1, <3>2, <3>3, <3>4, <3>5, <3>6 DEF Retry
  <2> QED
    BY <2>1, <2>2, AskingAlike
<1> QED
  BY <1>1, <1>2, <1>3, CalmNoted

\* Of those that started, the current one hears of it, and the others are about to be stopped.
LEMMA StartedIs ==
    ASSUME Steady, NoneForgotten, NEW e \in Entry, IsStarted(e), ~ ToStop(e)
    PROVE  e[1] \in Known /\ e = Current(e[1])
BY CurrentTyped DEF Steady, NoneForgotten, StopsLater

\* New settings of a peripheral: a task brings them to its entry.
LEMMA SettingsUpdateNoted ==
    ASSUME Steady, NoneForgotten, AllNoted, NEW p \in Peripherals, UpdateSettings(p)
    PROVE  AllNoted'
<1> DEFINE t == Task("settings", Current(p))
<1>1. /\ UNCHANGED <<platform, object, work>> /\ p \in Known
      /\ settings' = [settings EXCEPT ![p] = 1 - @] /\ Queue(t)
  BY DEF UpdateSettings
<1>2. t \in TaskType /\ t.do = "settings" /\ t.e = Current(p)
  BY <1>1, CurrentTyped, TaskTyped DEF Steady
<1> HIDE DEF t
<1>3. /\ t \in Waiting' /\ Waiting \subseteq Waiting'
      /\ \A e \in Entry : Alike(entry'[e], entry[e])
  BY <1>1, <1>2, QueuedAlike
<1>4. Comes("settings", Current(p))'
  <2>1. \A e : t.e = e => Comes("settings", e)'
    BY <1>2, <1>3 DEF Comes, Concerns
  <2>2. Current(p)' = Current(p)
    BY <1>1 DEF Queue, Current
  <2> QED
    BY <1>2, <2>1, <2>2
<1>5. \A q \in Peripherals : q # p => settings'[q] = settings[q]
  BY <1>1 DEF Steady, TypeOK
<1>6. \A e \in Entry : e[1] \in Peripherals /\ (e[1] # p => SameFor(e))
  BY <1>1, <1>5, EntryOf DEF SameFor, Steady
<1>7. ASSUME NEW e \in Entry, entry'[e].state \in Started, CallOf(e)' # "off"
      PROVE  Noted(e)' \/ (SameFor(e) /\ Alike(entry'[e], entry[e]) /\ CallOf(e) # "off")
  <2>1. IsStarted(e) /\ CallOf(e) # "off" /\ Alike(entry'[e], entry[e])
    BY <1>1, <1>3, <1>7 DEF IsStarted, Alike, CallOf
  <2>2. CASE ToStop(e)
    BY <1>1, <1>3, <2>2, PartsStill, StopsNoting
  <2>3. CASE ~ ToStop(e) /\ e[1] = p
    <3>1. e = Current(p) /\ Current(p)' = Current(p)
      BY <1>1, <2>1, <2>3, StartedIs DEF Queue, Current
    <3>2. SettingsNoted(e)'
      BY <1>4, <3>1 DEF SettingsNoted
    <3>3. Noted(e)
      BY <2>1 DEF AllNoted
    <3> QED
      BY <1>1, <1>3, <2>1, <3>2, <3>3, PartsStill DEF Noted
  <2> QED
    BY <1>6, <2>1, <2>2, <2>3
<1> QED
  BY <1>1, <1>3, <1>7, CalmNoted

\* New platform settings: a task brings them to all that are current.
LEMMA PlatformUpdateNoted ==
    ASSUME Steady, NoneForgotten, AllNoted, UpdatePlatform
    PROVE  AllNoted'
<1> DEFINE S == {e \in CurrentEntries : IsStarted(e)}
           t == [Task("platform", NoEntry) EXCEPT !.all = S]
<1>1. UNCHANGED <<settings, object, work>> /\ Queue(t)
  BY DEF UpdatePlatform
<1>2. S \subseteq Entry
  BY CurrentTyped DEF Steady
<1> HIDE DEF S
<1>3. t \in TaskType /\ t.do = "platform" /\ t.all = S
  BY <1>2, Numbers, TaskTyped DEF Task, TaskType
<1> HIDE DEF t
<1>4. /\ t \in Waiting' /\ Waiting \subseteq Waiting'
      /\ \A e \in Entry : Alike(entry'[e], entry[e])
  BY <1>1, <1>3, QueuedAlike
<1>5. \A e \in t.all : Comes("platform", e)'
  BY <1>3, <1>4 DEF Comes, Concerns
<1>6. ASSUME NEW e \in Entry, entry'[e].state \in Started, CallOf(e)' # "off"
      PROVE  Noted(e)'
  <2>1. IsStarted(e) /\ CallOf(e) # "off" /\ Alike(entry'[e], entry[e])
    BY <1>1, <1>4, <1>6 DEF IsStarted, Alike, CallOf
  <2>2. CASE ToStop(e)
    BY <1>1, <1>4, <2>2, PartsStill, StopsNoting
  <2>3. CASE ~ ToStop(e)
    <3>1. e \in t.all
      BY <1>3, <2>1, <2>3, StartedIs DEF S, CurrentEntries
    <3>2. PlatformNoted(e)'
      BY <1>5, <3>1 DEF PlatformNoted
    <3>3. Noted(e)
      BY <2>1 DEF AllNoted
    <3> QED
      BY <1>1, <1>4, <2>1, <3>2, <3>3, PartsStill DEF Noted
  <2> QED
    BY <2>2, <2>3
<1> QED
  BY <1>1, <1>4, <1>6, CalmNoted

\* A word told is noted for one that starts, and waits for the lock for one that runs.
LEMMA ToldNoted ==
    ASSUME Steady, NoneForgotten, AllNoted, NEW p \in Peripherals, TellFailure(p) \/ TellStop(p)
    PROVE  AllNoted'
<1> DEFINE do == IF TellFailure(p) THEN "fail" ELSE "quit"
<1>1. /\ UNCHANGED <<settings, platform, work, known>> /\ p \in Known /\ object[p].call # "off"
  BY DEF TellFailure, TellStop, Queue
<1>2. PICK f \in Entry : f = Current(p) /\ f[1] = p /\ StateOf(p) = entry[f].state
  BY <1>1, CurrentTyped DEF Steady, StateOf
<1>3. entry[f] \in EntryType(p) /\ DOMAIN entry = Entry /\ \A e \in Entry : e[1] \in Peripherals
  BY <1>2, EntryOf DEF Steady
<1>4. /\ object' = [object EXCEPT ![p].failed = TRUE] \/ object' = [object EXCEPT ![p].quit = TRUE]
      /\ \A q \in Peripherals :
            /\ object'[q].call = object[q].call
            /\ object'[q].settings = object[q].settings
            /\ object'[q].platform = object[q].platform
            /\ q # p => object'[q] = object[q]
            /\ TellFailure(p) => object'[q].quit = object[q].quit
            /\ ~ TellFailure(p) => object'[q].failed = object[q].failed
  <2>1. object \in [Peripherals -> ObjectType]
    BY ObjectTyped DEF Steady
  <2>2. CASE TellFailure(p)
    BY <2>1, <2>2 DEF TellFailure, ObjectType
  <2>3. CASE ~ TellFailure(p)
    BY <2>1, <2>3 DEF TellStop, ObjectType
  <2> QED
    BY <2>2, <2>3
<1>5. \A e : e \in Entry => CallOf(e)' = CallOf(e) /\ (e[1] # p => SameFor(e))
  BY <1>1, <1>3, <1>4 DEF CallOf, SameFor
<1>6. CASE entry[f].state # "starting"
  <2> DEFINE t == Task(do, f)
  <2>1. t \in TaskType /\ t.do = do /\ t.e = f
    BY <1>2, TaskTyped
  <2>2. Queue(t)
    BY <1>2, <1>6 DEF TellFailure, TellStop
  <2> HIDE DEF t
  <2>3. /\ t \in Waiting' /\ Waiting \subseteq Waiting'
        /\ \A e \in Entry : Alike(entry'[e], entry[e])
    BY <2>1, <2>2, QueuedAlike
  <2>4. TellFailure(p) => Comes("fail", f)'
    BY <2>1, <2>3 DEF Comes, Concerns
  <2>5. ~ TellFailure(p) => Comes("quit", f)'
    BY <2>1, <2>3 DEF Comes, Concerns
  <2>6. ASSUME NEW e \in Entry, entry'[e].state \in Started, CallOf(e)' # "off"
        PROVE  Noted(e)' \/ (SameFor(e) /\ Alike(entry'[e], entry[e]) /\ CallOf(e) # "off")
    <3>1. IsStarted(e) /\ CallOf(e) # "off" /\ Alike(entry'[e], entry[e])
      BY <1>5, <2>3, <2>6 DEF IsStarted, Alike
    <3>2. CASE ToStop(e)
      BY <1>1, <2>3, <3>2, PartsStill, StopsNoting
    <3>3. CASE ~ ToStop(e) /\ e[1] = p
      <4>1. e = f /\ entry'[e].state = "running"
        BY <1>2, <1>6, <3>1, <3>3, StartedIs DEF IsStarted, Started, Alike
      <4>2. Noted(e)
        BY <3>1 DEF AllNoted
      <4>3. TellFailure(p) => FailureNoted(e)'
        BY <2>4, <4>1 DEF FailureNoted
      <4>4. ~ TellFailure(p) => QuitNoted(e)'
        BY <2>5, <4>1 DEF QuitNoted
      <4>5. /\ FailureNoted(e) => FailureNoted(e)'
            /\ QuitNoted(e) => QuitNoted(e)'
            /\ SettingsNoted(e) => SettingsNoted(e)'
            /\ PlatformNoted(e) => PlatformNoted(e)'
        BY <1>1, <2>3, <3>1, PartsStill
      <4> QED
        BY <1>1, <1>3, <1>4, <4>2, <4>3, <4>4, <4>5 DEF Noted
    <3> QED
      BY <1>5, <3>1, <3>2, <3>3
  <2> QED
    BY <1>1, <2>3, <2>6, CalmNoted
<1>7. CASE entry[f].state = "starting"
  <2>1. /\ queue' = queue
        /\ TellFailure(p) => entry' = [entry EXCEPT ![f].toldFailure = TRUE]
        /\ ~ TellFailure(p) => entry' = [entry EXCEPT ![f].stopping = TRUE]
    BY <1>2, <1>7 DEF TellFailure, TellStop
  <2>2. Waiting' = Waiting
    BY <2>1 DEF Waiting
  <2>3. /\ \A e \in Entry : e # f => entry'[e] = entry[e]
        /\ entry'[f].state = "starting"
        /\ entry'[f].missedSettings = entry[f].missedSettings
        /\ entry'[f].missedPlatform = entry[f].missedPlatform
        /\ TellFailure(p) => entry'[f].toldFailure /\ entry'[f].stopping = entry[f].stopping
        /\ ~ TellFailure(p) => entry'[f].stopping /\ entry'[f].toldFailure = entry[f].toldFailure
    BY <1>3, <1>7, <2>1 DEF EntryType
  <2>4. Noted(f)
    BY <1>1, <1>2, <1>7 DEF AllNoted, IsStarted, Started, CallOf
  <2>5. /\ ToStop(f) => ToStop(f)'
        /\ \A d : Comes(d, f) => Comes(d, f)'
    BY <1>1, <2>2, PartsStill
  <2>6. FailureNoted(f)' \/ (~ TellFailure(p) /\ (FailureNoted(f) => FailureNoted(f)'))
    BY <1>7, <2>3, <2>5 DEF FailureNoted
  <2>7. QuitNoted(f)' \/ (TellFailure(p) /\ (QuitNoted(f) => QuitNoted(f)'))
    BY <1>7, <2>3, <2>5 DEF QuitNoted
  <2>8. (SettingsNoted(f) => SettingsNoted(f)') /\ (PlatformNoted(f) => PlatformNoted(f)')
    BY <1>7, <2>3, <2>5 DEF SettingsNoted, PlatformNoted
  <2>9. Noted(f)'
    BY <1>1, <1>2, <1>3, <1>4, <2>4, <2>6, <2>7, <2>8 DEF Noted
  <2>10. ASSUME NEW e \in Entry, entry'[e].state \in Started, CallOf(e)' # "off"
         PROVE  Noted(e)' \/ (SameFor(e) /\ Alike(entry'[e], entry[e]) /\ CallOf(e) # "off")
    <3>1. CASE e = f
      BY <2>9, <3>1
    <3>2. CASE e # f
      <4>1. IsStarted(e) /\ Alike(entry'[e], entry[e])
        BY <2>3, <2>10, <3>2 DEF IsStarted, Alike
      <4>2. CASE ToStop(e)
        BY <1>1, <2>2, <4>2, PartsStill, StopsNoting
      <4>3. CASE ~ ToStop(e)
        BY <1>2, <1>5, <2>10, <3>2, <4>1, <4>3, StartedIs
      <4> QED
        BY <4>2, <4>3
    <3> QED
      BY <3>1, <3>2
  <2> QED
    BY <1>1, <2>2, <2>10, CalmNoted
<1> QED
  BY <1>6, <1>7

\* A start reads what there is, and nothing was told yet; one that ends had begun.
LEMMA StartsNoted ==
    ASSUME Steady, CallsApart, AllNoted, Begins \/ Ends
    PROVE  AllNoted'
<1>1. UNCHANGED <<settings, platform, entry, work>>
  BY DEF Begins, Ends, BeginStart, EndStart
<1>2. \A e \in Entry : e[1] \in Peripherals /\ Alike(entry'[e], entry[e])
  BY <1>1, EntryOf DEF Steady, Alike
<1>3. object \in [Peripherals -> ObjectType]
  BY ObjectTyped DEF Steady
<1>4. ASSUME NEW s \in starts, BeginStart(s)
      PROVE  AllNoted'
  <2>1. s.e \in Entry /\ Waiting' = Waiting
    BY <1>4, WaitingTyped DEF Steady, BeginStart, Waiting
  <2>2. object' = [object EXCEPT ![s.e[1]] =
                    [call |-> "starting", settings |-> settings[s.e[1]],
                     platform |-> platform, failed |-> FALSE, quit |-> FALSE]]
    BY <1>4 DEF BeginStart
  <2>3. /\ \A q \in Peripherals : q # s.e[1] => object'[q] = object[q]
        /\ ~ object'[s.e[1]].failed /\ ~ object'[s.e[1]].quit
        /\ object'[s.e[1]].settings = settings[s.e[1]]
        /\ object'[s.e[1]].platform = platform
    BY <1>2, <1>3, <2>1, <2>2
  <2>4. \A e \in Entry : e[1] = s.e[1] => Noted(e)'
    BY <1>1, <2>3 DEF Noted
  <2>5. \A e \in Entry : e[1] # s.e[1] => SameFor(e) /\ CallOf(e)' = CallOf(e)
    BY <1>1, <1>2, <2>3 DEF SameFor, CallOf
  <2> QED
    BY <1>1, <1>2, <2>1, <2>4, <2>5, CalmNoted
<1>5. ASSUME NEW s \in starts, NEW ok \in BOOLEAN, EndStart(s, ok)
      PROVE  AllNoted'
  <2>1. s.e \in Entry /\ s.e[1] \in Peripherals
    BY <1>2, WaitingTyped DEF Steady
  <2>2. Waiting \subseteq Waiting'
    BY <1>5, EndStartStarts DEF Steady
  <2>3. \/ object' = object
        \/ CallOf(s.e) = "starting" /\ object' = [object EXCEPT ![s.e[1]].call = "on"]
    BY <1>5, EndStartCalls
  <2>4. \A e \in Entry : SameFor(e) /\ (CallOf(e)' # "off" => CallOf(e) # "off")
    <3>1. CASE object' = object
      BY <1>1, <3>1 DEF SameFor, CallOf
    <3>2. CASE CallOf(s.e) = "starting" /\ object' = [object EXCEPT ![s.e[1]].call = "on"]
      BY <1>1, <1>2, <1>3, <2>1, <3>2, CallBecomes DEF SameFor, CallOf, CallNames
    <3> QED
      BY <2>3, <3>1, <3>2
  <2> QED
    BY <1>1, <1>2, <2>2, <2>4, CalmNoted
<1> QED
  BY <1>4, <1>5 DEF Begins, Ends

\* Every step keeps all on its way.
LEMMA AllNotedStays ==
    ASSUME Steady, CallsApart, NoneForgotten, AllNoted, [Next]_vars
    PROVE  AllNoted'
<1>1. CASE UNCHANGED vars
  <2>1. /\ UNCHANGED <<entry, object, settings, platform>>
        /\ Todo' = Todo /\ Waiting' = Waiting
    BY <1>1 DEF vars, Todo, Waiting
  <2> QED
    BY <2>1 DEF AllNoted, Noted, FailureNoted, QuitNoted, SettingsNoted, PlatformNoted, Comes,
           Concerns, ToStop, CallOf, IsStarted
<1>2. CASE Holder
  <2>1. CASE \/ Revive \/ TakeTold \/ NoChange \/ StopDisabled \/ StopUsers \/ DropUnwanted
             \/ BeginDeliver \/ Deliver
    BY <2>1, MarkedNoted
  <2>2. CASE LetStart \/ CountFailure \/ EndStop
    BY <2>2, StateNoted
  <2>3. CASE CancelStart \/ CallStop
    BY <2>3, StopsNoted
  <2>4. CASE BeginHook \/ EndHook
    BY <2>4, BeginHookNoted, EndHookNoted
  <2>5. CASE SettleChange \/ Closed \/ BeginPass
    BY <2>5, FreedNoted
  <2>6. CASE EndPass
    BY <2>6, EndPassNoted
  <2>7. CASE TellOrNote \/ TellMissed
    BY <2>7, TellOrNoteNoted, TellMissedNoted
  <2>8. CASE Acquire
    BY <2>8, AcquireNoted
  <2> QED
    BY <1>2, <2>1, <2>2, <2>3, <2>4, <2>5, <2>6, <2>7, <2>8 DEF Holder
<1>3. CASE Boot \/ Retry \/ Called
  BY <1>3, PlainNoted, SettingsUpdateNoted, PlatformUpdateNoted, ToldNoted DEF Called
<1>4. CASE Begins \/ Ends
  BY <1>4, StartsNoted
<1> QED
  BY <1>1, <1>2, <1>3, <1>4 DEF Next

\* It always holds, on top of the first two layers.
LEMMA AlwaysNoted ==
    ASSUME ClosesWhole
    PROVE  Spec => [](Orderliness /\ AllNoted)
<1>1. Init => AllNoted
  <2>1. Init => \A e \in Entry : entry[e].state = "waiting"
    BY DEF Init, NewEntry
  <2> QED
    BY <2>1 DEF AllNoted, IsStarted, Started
<1>2. Orderliness /\ AllNoted /\ [Next]_vars => AllNoted'
  BY AllNotedStays DEF Orderliness
<1> QED
  BY <1>1, <1>2, AlwaysOrderly, PTL DEF Spec

\* Nothing is on its way while nobody holds the lock or waits for it.
LEMMA CalmHasNone ==
    ASSUME Calm, NEW e
    PROVE  ~ ToStop(e) /\ \A do : ~ Comes(do, e)
<1>1. Todo = {} /\ Waiting = {}
  BY DEF Calm, Todo, Waiting, ToSet
<1> QED
  BY <1>1 DEF ToStop, Comes

\* One that runs was called, and all it told or should know came to it.
LEMMA CalmRuns ==
    ASSUME Orderliness, AllNoted, Calm, NEW p \in Known, StateOf(p) = "running"
    PROVE  /\ ~ object[p].failed /\ ~ object[p].quit
           /\ object[p].settings = settings[p] /\ object[p].platform = platform
<1>1. PICK e \in Entry : e = Current(p) /\ e[1] = p /\ entry[e].state = "running"
  BY CurrentTyped DEF StateOf, Orderliness, Steady
<1>2. IsStarted(e) /\ CallOf(e) # "off"
  BY <1>1 DEF IsStarted, Started, Orderliness, CallsApart
<1>3. Noted(e)
  BY <1>2 DEF AllNoted
<1>4. ~ FailureNoted(e) /\ ~ QuitNoted(e) /\ ~ SettingsNoted(e) /\ ~ PlatformNoted(e)
  BY <1>1, CalmHasNone DEF FailureNoted, QuitNoted, SettingsNoted, PlatformNoted
<1> QED
  BY <1>1, <1>3, <1>4 DEF Noted

\* No word is lost: whatever interleaves, once nothing is under way nobody runs who told that it
\* failed or quit (`_on_failure`, `_on_stop` of an entry that starts, runs, stops or is replaced).
THEOREM EveryWordIsTaken ==
    ASSUME ClosesWhole
    PROVE  Spec => []NoWordIsLost
<1>1. Orderliness /\ AllNoted => NoWordIsLost
  BY CalmRuns DEF NoWordIsLost
<1> QED
  BY <1>1, AlwaysNoted, PTL

\* A change of settings reaches every peripheral: once nothing is under way, what runs has been
\* given its settings and the platform's as they are, also when they changed while it started.
THEOREM EveryChangeIsKnown ==
    ASSUME ClosesWhole
    PROVE  Spec => []KnowsWhatChanged
<1>1. Orderliness /\ AllNoted => KnowsWhatChanged
  BY CalmRuns DEF KnowsWhatChanged
<1> QED
  BY <1>1, AlwaysNoted, PTL

-----------------------------------------------------------------------------
(* What the user disabled. *)

\* A task that says whether the entry is to be off.
Says(t, e) == t.do \in {"enable", "disable"} /\ t.e = e

\* A step that turns it off.
TurnsOff(x, e) == x.do \in Stops /\ x.to = "disabled" /\ x.e = e
\* A step that turns it on.
TurnsOn(x, e)  == x.do = "enable" /\ x.e = e

\* What the work under way leaves it: off or not.
Off(e) ==
    \/ \E x \in Todo : TurnsOff(x, e)
    \/ entry[e].state = "disabled" /\ ~ \E x \in Todo : TurnsOn(x, e)

\* The i-th task that waits is the last to say so.
IsLastSay(i, e) == Says(queue[i], e) /\ \A j \in DOMAIN queue : i < j => ~ Says(queue[j], e)

\* No task that waits says so.
Unsaid(e) == \A t \in Waiting : ~ Says(t, e)

\* The last task that says so says what is kept.
LastAgrees(e) ==
    \A i \in DOMAIN queue : IsLastSay(i, e) => (queue[i].do = "disable" <=> e[1] \in store)

\* When none says so, the work under way leaves it as it is kept.
SaidRight(e) == LastAgrees(e) /\ (Unsaid(e) => (Off(e) <=> e[1] \in store))

\* Only what is called comes.
OnlyCalled ==
    /\ CloseWaits \/ Closes => "close" \in hub.doings
    /\ store # {} \/ (\E t \in Waiting : t.do \in {"enable", "disable"}) => "disable" \in hub.doings

\* The fifth layer.
StoreHeard == OnlyCalled /\ \A e \in Entry : IsCurrent(e) => SaidRight(e)

\* A task that comes last.
LEMMA SaidWhenAppended ==
    ASSUME TypeOK, NEW e \in Entry, LastAgrees(e), NEW t \in TaskType, queue' = Append(queue, t),
           Says(t, e) => (t.do = "disable" <=> e[1] \in store'),
           ~ Says(t, e) => (e[1] \in store' <=> e[1] \in store)
    PROVE  LastAgrees(e)' /\ (Unsaid(e)' => Unsaid(e) /\ ~ Says(t, e))
<1>1. queue \in Seq(TaskType)
  BY DEF TypeOK
<1>2. /\ Len(queue) \in Nat
      /\ DOMAIN queue' = 1..(Len(queue) + 1) /\ DOMAIN queue = 1..Len(queue)
      /\ \A i \in DOMAIN queue : queue'[i] = queue[i]
      /\ queue'[Len(queue) + 1] = t
  BY <1>1
<1>3. Waiting' = Waiting \cup {t}
  <2>1. ToSet(queue') = ToSet(queue) \cup {t}
    BY <1>1, SetOfAppend
  <2> QED
    BY <2>1 DEF Waiting
<1>4. ASSUME NEW i \in DOMAIN queue', IsLastSay(i, e)'
      PROVE  queue'[i].do = "disable" <=> e[1] \in store'
  <2>1. Says(queue'[i], e) /\ \A j \in DOMAIN queue' : i < j => ~ Says(queue'[j], e)
    BY <1>4 DEF IsLastSay, Says
  <2>2. CASE Says(t, e)
    <3>1. ~ (i < Len(queue) + 1)
      BY <1>2, <2>1, <2>2
    <3>2. i = Len(queue) + 1
      BY <1>2, <3>1
    <3> QED
      BY <1>2, <2>2, <3>2
  <2>3. CASE ~ Says(t, e)
    <3>1. i \in DOMAIN queue
      BY <1>2, <2>1, <2>3
    <3>2. DOMAIN queue \subseteq DOMAIN queue'
      BY <1>2
    <3>3. IsLastSay(i, e)
      BY <1>2, <2>1, <3>1, <3>2 DEF IsLastSay
    <3> QED
      BY <1>2, <2>3, <3>1, <3>3 DEF LastAgrees
  <2> QED
    BY <2>2, <2>3
<1> QED
  BY <1>3, <1>4 DEF LastAgrees, Unsaid, Says

\* Tasks are dropped, none that says so.
LEMMA SaidWhenKept ==
    ASSUME TypeOK, NEW e \in Entry, LastAgrees(e), NEW K, queue' = Kept(queue, K),
           \A t \in Waiting : Says(t, e) => t \in K,
           e[1] \in store' <=> e[1] \in store
    PROVE  LastAgrees(e)' /\ (Unsaid(e)' => Unsaid(e))
<1>1. queue \in Seq(TaskType)
  BY DEF TypeOK
<1>2. PICK g \in [DOMAIN queue' -> DOMAIN queue] :
         /\ \A i \in DOMAIN queue' : queue'[i] = queue[g[i]]
         /\ \A i, j \in DOMAIN queue' : i < j => g[i] < g[j]
         /\ \A k \in DOMAIN queue : queue[k] \in K => \E i \in DOMAIN queue' : g[i] = k
  BY <1>1, KeptIs
<1>3. queue' \in Seq(TaskType) /\ Waiting' = {t \in Waiting : t \in K}
  BY KeptWaits
<1>4. ASSUME NEW i \in DOMAIN queue', IsLastSay(i, e)'
      PROVE  queue'[i].do = "disable" <=> e[1] \in store'
  <2>1. Says(queue'[i], e) /\ \A j \in DOMAIN queue' : i < j => ~ Says(queue'[j], e)
    BY <1>4 DEF IsLastSay, Says
  <2>2. g[i] \in DOMAIN queue /\ queue'[i] = queue[g[i]]
    BY <1>2
  <2>3. ASSUME NEW k \in DOMAIN queue, g[i] < k, Says(queue[k], e)
        PROVE  FALSE
    <3>1. queue[k] \in Waiting
      BY <2>3 DEF Waiting, ToSet
    <3>2. PICK j \in DOMAIN queue' : g[j] = k
      BY <1>2, <2>3, <3>1
    <3>3. DOMAIN queue \subseteq Nat /\ DOMAIN queue' \subseteq Nat
      BY <1>1, <1>3
    <3>4. ~ (g[j] < g[i]) /\ i # j
      BY <2>2, <2>3, <3>2, <3>3
    <3>5. i < j
      BY <1>2, <3>3, <3>4
    <3> QED
      BY <1>2, <2>1, <2>3, <3>2, <3>5
  <2>4. IsLastSay(g[i], e)
    BY <2>1, <2>2, <2>3 DEF IsLastSay
  <2> QED
    BY <2>2, <2>4 DEF LastAgrees
<1> QED
  BY <1>3, <1>4 DEF LastAgrees, Unsaid, Says

\* The first task is taken.
LEMMA SaidWhenTaken ==
    ASSUME TypeOK, NEW e \in Entry, LastAgrees(e), queue # <<>>, queue' = Tail(queue),
           e[1] \in store' <=> e[1] \in store
    PROVE  /\ LastAgrees(e)'
           /\ Unsaid(e)' => \/ Unsaid(e) /\ ~ Says(Head(queue), e)
                            \/ /\ Says(Head(queue), e)
                               /\ Head(queue).do = "disable" <=> e[1] \in store
<1>1. queue \in Seq(TaskType)
  BY DEF TypeOK
<1>2. /\ Head(queue) = queue[1] /\ Len(queue) \in Nat \ {0} /\ 1 \in DOMAIN queue
      /\ DOMAIN queue = 1..Len(queue) /\ DOMAIN queue' = 1..(Len(queue) - 1)
      /\ \A i \in DOMAIN queue' : queue'[i] = queue[i + 1]
      /\ Waiting = {Head(queue)} \cup Waiting'
  <2>1. queue' \in Seq(TaskType) /\ Len(queue') = Len(queue) - 1
    BY <1>1
  <2>2. ToSet(queue) = {Head(queue)} \cup ToSet(Tail(queue))
    BY <1>1, SetOfTail
  <2> QED
    BY <1>1, <2>1, <2>2, SetOfTail DEF Waiting
<1>3. ASSUME NEW i \in DOMAIN queue', IsLastSay(i, e)'
      PROVE  queue'[i].do = "disable" <=> e[1] \in store'
  <2>1. Says(queue'[i], e) /\ \A j \in DOMAIN queue' : i < j => ~ Says(queue'[j], e)
    BY <1>3 DEF IsLastSay, Says
  <2>2. i + 1 \in DOMAIN queue /\ queue'[i] = queue[i + 1]
    BY <1>2
  <2>3. ASSUME NEW k \in DOMAIN queue, i + 1 < k
        PROVE  ~ Says(queue[k], e)
    <3>1. k - 1 \in DOMAIN queue' /\ i < k - 1 /\ queue'[k - 1] = queue[k]
      BY <1>2, <2>3
    <3> QED
      BY <2>1, <3>1
  <2>4. IsLastSay(i + 1, e)
    BY <2>1, <2>2, <2>3 DEF IsLastSay
  <2> QED
    BY <2>2, <2>4 DEF LastAgrees
<1>4. ASSUME Unsaid(e)', Says(Head(queue), e)
      PROVE  Head(queue).do = "disable" <=> e[1] \in store
  <2>1. \A t \in Waiting' : ~ Says(t, e)
    BY <1>4 DEF Unsaid, Says
  <2>2. ASSUME NEW k \in DOMAIN queue, 1 < k
        PROVE  ~ Says(queue[k], e)
    <3>1. k - 1 \in DOMAIN queue' /\ queue'[k - 1] = queue[k]
      BY <1>2, <2>2
    <3>2. queue[k] \in Waiting'
      BY <3>1 DEF Waiting, ToSet
    <3> QED
      BY <2>1, <3>2
  <2>3. IsLastSay(1, e)
    BY <1>2, <1>4, <2>2 DEF IsLastSay
  <2> QED
    BY <1>2, <2>3 DEF LastAgrees
<1>5. Unsaid(e)' /\ ~ Says(Head(queue), e) => Unsaid(e)
  BY <1>2 DEF Unsaid, Says
<1> QED
  BY <1>3, <1>4, <1>5 DEF LastAgrees

\* A step that turns some entry off or on.
Turning(x) == x.do = "enable" \/ (x.do \in Stops /\ x.to = "disabled")

\* What leaves the state of the entry and the turning steps leaves it off or not.
LEMMA OffStays ==
    ASSUME NEW e, entry'[e].state = "disabled" <=> entry[e].state = "disabled",
           \A x : Turning(x) => (x \in Todo' <=> x \in Todo)
    PROVE  Off(e)' <=> Off(e)
BY DEF Off, TurnsOff, TurnsOn, Turning

\* Most steps turn nothing off or on.
LEMMA NamesTurnNothing ==
    /\ \A e \in Entry : \A do \in DoNames \ {"enable"} : ~ Turning(Step(do, e))
    /\ \A e : ~ Turning(Stop(e))
    /\ ~ Turning(Settle) /\ ~ Turning(Pass)
    /\ ~ Turning(Step("drop", NoEntry)) /\ ~ Turning(Step("moves", NoEntry))
    /\ ~ Turning(Step("start", NoEntry)) /\ ~ Turning(Step("closed", NoEntry))
BY StepTyped DEF Turning, Stop, StopTo, Settle, Pass, Step, DoNames

\* Work that leaves each entry off or not, and no task, is right as it was.
LEMMA WorkSaid ==
    ASSUME Steady, StoreHeard, UNCHANGED <<hub, known, queue, store>>,
           \A e \in Entry : Off(e)' <=> Off(e),
           Closes' => Closes
    PROVE  StoreHeard'
<1>1. hub' = hub /\ known' = known /\ queue' = queue /\ store' = store /\ Waiting' = Waiting
  BY DEF Waiting
<1>2. OnlyCalled'
  BY <1>1 DEF StoreHeard, OnlyCalled, CloseWaits
<1>3. ASSUME NEW e \in Entry, IsCurrent(e)'
      PROVE  SaidRight(e)'
  <2>1. SaidRight(e)
    BY <1>1, <1>3 DEF StoreHeard, IsCurrent
  <2>2. LastAgrees(e)'
    BY <1>1, <2>1 DEF SaidRight, LastAgrees, IsLastSay, Says
  <2>3. Unsaid(e)' => Unsaid(e)
    BY <1>1 DEF Unsaid, Says
  <2>4. Off(e)' <=> Off(e)
    OBVIOUS
  <2> QED
    BY <1>1, <2>1, <2>2, <2>3, <2>4 DEF SaidRight
<1> QED
  BY <1>2, <1>3 DEF StoreHeard

\* The same, told by what the steps are.
LEMMA StepSaid ==
    ASSUME Steady, StoreHeard, UNCHANGED <<hub, known, queue, store>>, work # <<>>,
           \A e \in Entry : entry'[e].state = "disabled" <=> entry[e].state = "disabled",
           \A x \in Rest : Turning(x) => x \in Todo',
           \A x \in Todo' : x \in Rest \/ (~ Turning(x) /\ x.do # "closed") \/ x = Head(work),
           Turning(Head(work)) => Head(work) \in Todo'
    PROVE  StoreHeard'
<1>1. Todo = {Head(work)} \cup Rest
  BY HeadFits DEF Steady
<1>2. \A x : Turning(x) => (x \in Todo' <=> x \in Todo)
  BY <1>1
<1>3. \A e \in Entry : Off(e)' <=> Off(e)
  BY <1>2, OffStays
<1>4. Closes' => Closes
  BY <1>1 DEF Closes
<1> QED
  BY <1>3, <1>4, WorkSaid

\* Enabling leaves its entry as it is kept: on.
LEMMA EnableSaid ==
    ASSUME Steady, StoreHeard, UNCHANGED <<hub, known, queue, store>>,
           HeadIs("enable"), Todo' = Rest,
           \A e \in Entry : e # Head(work).e =>
               (entry'[e].state = "disabled" <=> entry[e].state = "disabled"),
           entry'[Head(work).e].state # "disabled"
    PROVE  StoreHeard'
<1>1. Todo = {Head(work)} \cup Rest /\ work # <<>> /\ Head(work).do = "enable"
  BY HeadFits DEF Steady, HeadIs
<1>2. ASSUME NEW e \in Entry
      PROVE  Off(e)' <=> Off(e)
  <2>1. (\E x \in Todo' : TurnsOff(x, e)) <=> (\E x \in Todo : TurnsOff(x, e))
    BY <1>1 DEF TurnsOff, Stops
  <2>2. Off(e)' <=> \/ \E x \in Todo' : TurnsOff(x, e)
                    \/ entry'[e].state = "disabled" /\ ~ \E x \in Todo' : TurnsOn(x, e)
    BY DEF Off, TurnsOff, TurnsOn
  <2>3. CASE e = Head(work).e
    BY <1>1, <2>1, <2>2, <2>3 DEF Off, TurnsOn
  <2>4. CASE e # Head(work).e
    <3>1. (\E x \in Todo' : TurnsOn(x, e)) <=> (\E x \in Todo : TurnsOn(x, e))
      BY <1>1, <2>4 DEF TurnsOn
    <3> QED
      BY <2>1, <2>2, <2>4, <3>1 DEF Off
  <2> QED
    BY <2>3, <2>4
<1>3. Closes' => Closes
  BY <1>1 DEF Closes
<1> QED
  BY <1>2, <1>3, WorkSaid

\* A step that turns nothing off or on and is just done.
LEMMA DoneSaid ==
    ASSUME Steady, StoreHeard, UNCHANGED <<hub, known, queue, store>>, work # <<>>, Todo' = Rest,
           \A e \in Entry : entry'[e].state = "disabled" <=> entry[e].state = "disabled",
           ~ Turning(Head(work))
    PROVE  StoreHeard'
BY StepSaid

\* The steps that only mark turn nothing off or on.
LEMMA MarkedSaid ==
    ASSUME Steady, StoreHeard,
           \/ Revive \/ TellOrNote \/ TellMissed \/ TakeTold \/ NoChange \/ StopDisabled
           \/ StopUsers \/ DropUnwanted \/ BeginDeliver \/ Deliver
    PROVE  StoreHeard'
<1>1. UNCHANGED <<hub, known, queue, store>>
  BY MarksDo DEF Steady
<1>2. \A e \in Entry : entry'[e].state = entry[e].state
  BY MarksDo DEF Steady, Marking
<1>3. CASE Revive
  <2>1. work # <<>> /\ Todo' = Rest /\ ~ Turning(Head(work))
    BY <1>3, DoneWork DEF Steady, Revive, HeadIs, Turning, Stops
  <2> QED
    BY <1>1, <1>2, <2>1, DoneSaid
<1>4. CASE NoChange
  <2>1. work # <<>> /\ Todo' = Rest
    BY <1>4, DoneWork DEF Steady
  <2>2. CASE HeadIs("enable")
    <3>1. entry[Head(work).e].state # "disabled" /\ Head(work).e \in Entry
      BY <1>4, <2>1, <2>2, HeadFits DEF NoChange, HeadIs, Steady
    <3> QED
      BY <1>1, <1>2, <2>1, <2>2, <3>1, EnableSaid
  <2>3. CASE ~ HeadIs("enable")
    <3>1. ~ Turning(Head(work))
      BY <1>4, <2>1, <2>3 DEF NoChange, HeadIs, Turning, Stops
    <3> QED
      BY <1>1, <1>2, <2>1, <3>1, DoneSaid
  <2> QED
    BY <2>2, <2>3
<1>5. CASE StopDisabled
  <2>1. work # <<>> /\ Todo' = Rest
    BY <1>5, DoneWork DEF Steady
  <2>2. ~ Turning(Head(work))
    BY <1>5 DEF StopDisabled, StopsEntry, HeadIs, Turning
  <2> QED
    BY <1>1, <1>2, <2>1, <2>2, DoneSaid
<1>6. CASE TellOrNote
  <2>1. /\ work # <<>> /\ Head(work).e \in Entry /\ ~ Turning(Head(work))
        /\ \E do \in {"tell_settings", "tell_platform"} :
              Todo' = {Step(do, Head(work).e)} \cup Rest \/ Todo' = Rest
    BY <1>6, TellOrNoteWork, HeadFits DEF Steady, TellOrNote, HeadIs, Turning, Stops
  <2>2. \A do \in {"tell_settings", "tell_platform"} :
           ~ Turning(Step(do, Head(work).e)) /\ Step(do, Head(work).e).do # "closed"
    BY <2>1, NamesTurnNothing, StepTyped DEF DoNames, Hooks
  <2> QED
    BY <1>1, <1>2, <2>1, <2>2, StepSaid
<1>7. CASE TellMissed
  <2> DEFINE e == Head(work).e
  <2>1. /\ work # <<>> /\ e \in Entry /\ ~ Turning(Head(work))
        /\ Rest \subseteq Todo' /\ Todo' \subseteq Rest \cup {Step("tell_platform", e), Step("tell_settings", e)}
    BY <1>7, TellMissedWork DEF Steady, Turning, Stops
  <2>2. \A do \in {"tell_settings", "tell_platform"} :
           ~ Turning(Step(do, e)) /\ Step(do, e).do # "closed"
    BY <2>1, NamesTurnNothing, StepTyped DEF DoNames, Hooks
  <2> HIDE DEF e
  <2>3. \A x \in Todo' : x \in Rest \/ (~ Turning(x) /\ x.do # "closed")
    BY <2>1, <2>2
  <2> QED
    BY <1>1, <1>2, <2>1, <2>3, StepSaid
<1>8. CASE TakeTold
  <2> DEFINE e == Head(work).e
  <2>1. /\ work # <<>> /\ e \in Entry /\ ~ Turning(Head(work))
        /\ Rest \subseteq Todo' /\ Todo' \subseteq Rest \cup {Stop(e), Step("failed", e)}
    BY <1>8, TakeToldWork DEF Steady, Turning, Stops
  <2>2. /\ ~ Turning(Stop(e)) /\ Stop(e).do # "closed"
        /\ ~ Turning(Step("failed", e)) /\ Step("failed", e).do # "closed"
    BY <2>1, NamesTurnNothing, StepTyped DEF DoNames, Stop, StopTo
  <2> HIDE DEF e
  <2>3. \A x \in Todo' : x \in Rest \/ (~ Turning(x) /\ x.do # "closed")
    BY <2>1, <2>2
  <2> QED
    BY <1>1, <1>2, <2>1, <2>3, StepSaid
<1>9. CASE StopUsers
  <2>1. /\ work # <<>> /\ Todo = {Head(work)} \cup Rest
        /\ Todo' = {Stop(u) : u \in InsideUsers(Head(work).e)} \cup Todo
    BY <1>9, StopUsersWork, HeadFits DEF Steady
  <2>2. \A u : ~ Turning(Stop(u)) /\ Stop(u).do # "closed"
    BY NamesTurnNothing DEF Stop, StopTo
  <2>3. \A x \in Todo' : x \in Rest \/ (~ Turning(x) /\ x.do # "closed") \/ x = Head(work)
    BY <2>1, <2>2
  <2> QED
    BY <1>1, <1>2, <2>1, <2>3, StepSaid
<1>10. CASE DropUnwanted \/ BeginDeliver
  <2>1. /\ work # <<>> /\ Rest = {} /\ ~ Turning(Head(work))
        /\ \A x \in Todo' : \/ \E u \in Entry : x = Stop(u) \/ x = Step("deliver", u)
                            \/ x = Step("moves", NoEntry) \/ x = Step("start", NoEntry)
    <3>1. CASE DropUnwanted
      BY <3>1, DropUnwantedWork DEF Steady, Turning, Stops
    <3>2. CASE BeginDeliver
      BY <3>2, BeginDeliverWork DEF Steady, Turning, Stops
    <3> QED
      BY <1>10, <3>1, <3>2
  <2>2. /\ \A u \in Entry : /\ ~ Turning(Stop(u)) /\ Stop(u).do # "closed"
                            /\ ~ Turning(Step("deliver", u)) /\ Step("deliver", u).do # "closed"
        /\ Step("moves", NoEntry).do # "closed" /\ Step("start", NoEntry).do # "closed"
    BY NamesTurnNothing DEF Stop, StopTo, Step, DoNames
  <2>3. \A x \in Todo' : ~ Turning(x) /\ x.do # "closed"
    BY <2>1, <2>2, NamesTurnNothing
  <2> QED
    BY <1>1, <1>2, <2>1, <2>3, StepSaid
<1>11. CASE Deliver
  <2> DEFINE e == Head(work).e
  <2>1. /\ work # <<>> /\ e \in Entry /\ ~ Turning(Head(work))
        /\ Rest \subseteq Todo' /\ Todo' \subseteq Rest \cup {Step("tell_need", e)}
    BY <1>11, DeliverWork DEF Steady, Turning, Stops
  <2>2. ~ Turning(Step("tell_need", e)) /\ Step("tell_need", e).do # "closed"
    BY <2>1, NamesTurnNothing, StepTyped DEF DoNames, Hooks
  <2> HIDE DEF e
  <2>3. \A x \in Todo' : x \in Rest \/ (~ Turning(x) /\ x.do # "closed")
    BY <2>1, <2>2
  <2> QED
    BY <1>1, <1>2, <2>1, <2>3, StepSaid
<1> QED
  BY <1>3, <1>4, <1>5, <1>6, <1>7, <1>8, <1>9, <1>10, <1>11

\* A step whose stop goes on still turns its entry off, or not.
LEMMA StopGoesOnOff ==
    ASSUME Steady, work # <<>>, Head(work).do \in Stops,
           NEW y, y.do \in Stops, y.e = Head(work).e, y.to = Head(work).to, Todo' = {y} \cup Rest,
           \A e \in Entry : entry'[e].state = "disabled" <=> entry[e].state = "disabled"
    PROVE  (\A e \in Entry : Off(e)' <=> Off(e)) /\ (Closes' => Closes)
<1>1. Todo = {Head(work)} \cup Rest
  BY HeadFits DEF Steady
<1>2. ASSUME NEW e \in Entry
      PROVE  Off(e)' <=> Off(e)
  <2>1. (\E x \in Todo' : TurnsOff(x, e)) <=> (\E x \in Todo : TurnsOff(x, e))
    BY <1>1 DEF TurnsOff
  <2>2. (\E x \in Todo' : TurnsOn(x, e)) <=> (\E x \in Todo : TurnsOn(x, e))
    BY <1>1 DEF TurnsOn, Stops
  <2>3. Off(e)' <=> \/ \E x \in Todo' : TurnsOff(x, e)
                    \/ entry'[e].state = "disabled" /\ ~ \E x \in Todo' : TurnsOn(x, e)
    BY DEF Off, TurnsOff, TurnsOn
  <2> QED
    BY <2>1, <2>2, <2>3 DEF Off
<1> QED
  BY <1>1, <1>2 DEF Closes, Stops

\* Tasks that say nothing are dropped.
LEMMA KeptSaid ==
    ASSUME Steady, StoreHeard, UNCHANGED <<hub, known, store>>, NEW K, queue' = Kept(queue, K),
           \A t \in Waiting : t.do \in {"enable", "disable"} => t \in K,
           \A e \in Entry : Off(e)' <=> Off(e),
           Closes' => Closes
    PROVE  StoreHeard'
<1>1. Waiting' \subseteq Waiting
  BY KeptWaits DEF Steady
<1>2. hub' = hub /\ known' = known /\ store' = store
  OBVIOUS
<1>3. OnlyCalled'
  BY <1>1, <1>2 DEF StoreHeard, OnlyCalled, CloseWaits
<1>4. ASSUME NEW e \in Entry, IsCurrent(e)'
      PROVE  SaidRight(e)'
  <2>1. SaidRight(e)
    BY <1>2, <1>4 DEF StoreHeard, IsCurrent
  <2>2. TypeOK /\ LastAgrees(e) /\ \A t \in Waiting : Says(t, e) => t \in K
    BY <2>1 DEF Steady, SaidRight, Says
  <2>3. LastAgrees(e)' /\ (Unsaid(e)' => Unsaid(e))
    BY <1>2, <2>2, SaidWhenKept
  <2>4. Off(e)' <=> Off(e)
    OBVIOUS
  <2> QED
    BY <1>2, <2>1, <2>3, <2>4 DEF SaidRight
<1> QED
  BY <1>3, <1>4 DEF StoreHeard

\* A start cancelled leaves its stop to go on, and drops only that start from those that wait.
LEMMA CancelStartSaid ==
    ASSUME Steady, StoreHeard, CancelStart
    PROVE  StoreHeard'
<1> DEFINE h == Head(work)
           y == [Head(work) EXCEPT !.do = "cancelled"]
<1>1. UNCHANGED <<hub, known, store>>
  BY DEF CancelStart
<1>2. work # <<>> /\ h.do = "stop" /\ Todo' = {y} \cup Rest
  BY CancelStartDoes DEF Steady, CancelStart, StopsEntry, HeadIs
<1>3. h \in StepType
  BY <1>2, HeadFits DEF Steady
<1>4. y.do = "cancelled" /\ y.e = h.e /\ y.to = h.to
  BY <1>3 DEF StepType
<1>5. \A e \in Entry : entry'[e].state = "disabled" <=> entry[e].state = "disabled"
  <2>1. PICK x : Becomes(h.e, x) /\ x.state = entry[h.e].state
    BY CancelStartDoes DEF Steady
  <2> QED
    BY <2>1 DEF Becomes
<1>6. h.do \in Stops /\ y.do \in Stops
  BY <1>2, <1>4 DEF Stops
<1>7. (\A e \in Entry : Off(e)' <=> Off(e)) /\ (Closes' => Closes)
  <2> HIDE DEF y
  <2> QED
    BY <1>2, <1>4, <1>5, <1>6, StopGoesOnOff
<1>8. \/ queue' = queue
      \/ queue' = Kept(queue, {t \in ToSet(queue) :
                       ~ (t.do = "started" /\ t.e = h.e /\ t.n = entry[h.e].task)})
  BY DEF CancelStart
<1>9. CASE queue' = queue
  BY <1>1, <1>7, <1>9, WorkSaid
<1>10. CASE queue' # queue
  <2> DEFINE K == {t \in ToSet(queue) : ~ (t.do = "started" /\ t.e = h.e /\ t.n = entry[h.e].task)}
  <2>1. \A t \in Waiting : t.do \in {"enable", "disable"} => t \in K
    BY DEF Waiting
  <2>2. queue' = Kept(queue, K)
    BY <1>8, <1>10
  <2> HIDE DEF K
  <2> QED
    BY <1>1, <1>7, <2>1, <2>2, KeptSaid
<1> QED
  BY <1>9, <1>10

\* So does a stop that is called.
LEMMA CallStopSaid ==
    ASSUME Steady, StoreHeard, CallStop
    PROVE  StoreHeard'
<1> DEFINE h == Head(work)
           y == [Head(work) EXCEPT !.do = "stopping"]
<1>1. UNCHANGED <<hub, known, queue, store>>
  BY DEF CallStop
<1>2. work # <<>> /\ h.do \in {"cancelled", "stop"} /\ Todo' = {y} \cup Rest
  BY CallStopDoes DEF Steady
<1>3. h \in StepType
  BY <1>2, HeadFits DEF Steady
<1>4. y.do = "stopping" /\ y.e = h.e /\ y.to = h.to
  BY <1>3 DEF StepType
<1>5. \A e \in Entry : entry'[e].state = "disabled" <=> entry[e].state = "disabled"
  BY CallStopDoes DEF Steady, Marking
<1>6. h.do \in Stops /\ y.do \in Stops
  BY <1>2, <1>4 DEF Stops
<1>7. (\A e \in Entry : Off(e)' <=> Off(e)) /\ (Closes' => Closes)
  <2> HIDE DEF y
  <2> QED
    BY <1>2, <1>4, <1>5, <1>6, StopGoesOnOff
<1> QED
  BY <1>1, <1>7, WorkSaid

\* What is stopped is left off when that is wished, and was not off otherwise.
LEMMA EndStopSaid ==
    ASSUME Steady, StoreHeard, EndStop
    PROVE  StoreHeard'
<1> DEFINE h == Head(work)
<1>1. UNCHANGED <<hub, known, queue, store>>
  BY DEF EndStop
<1>2. work # <<>> /\ Todo' = Rest /\ Todo = {h} \cup Rest /\ h.e \in Entry /\ h.do \in Stops
  BY DoneWork, HeadFits DEF Steady, EndStop, StopsEntry, HeadIs, Stops
<1>3. PICK s : Becomes(h.e, s) /\ s.state = h.to
  BY EndStopDoes DEF Steady
<1>4. CASE h.to # "disabled"
  <2>1. entry[h.e].state # "disabled"
    <3>1. CASE HeadIs("stopping")
      BY <1>2, <3>1, HeadMatches DEF Steady, HeadIs, IsStarted, Started
    <3>2. CASE StopsEntry
      BY <1>4, <3>2 DEF StopsEntry
    <3> QED
      BY <3>1, <3>2 DEF EndStop
  <2>2. \A e \in Entry : entry'[e].state = "disabled" <=> entry[e].state = "disabled"
    BY <1>2, <1>3, <1>4, <2>1 DEF Becomes
  <2>3. ~ Turning(h)
    BY <1>2, <1>4 DEF Turning, Stops
  <2> QED
    BY <1>1, <1>2, <2>2, <2>3, DoneSaid
<1>5. CASE h.to = "disabled"
  <2>1. \A x \in Rest : x.do = "settle"
    BY <1>2, <1>5, HeadFits DEF Steady
  <2>2. ASSUME NEW e \in Entry
        PROVE  Off(e)' <=> Off(e)
    <3>1. \A x \in Rest : ~ TurnsOff(x, e) /\ ~ TurnsOn(x, e)
      BY <2>1 DEF TurnsOff, TurnsOn, Stops
    <3>2. ~ TurnsOn(h, e)
      BY <1>2 DEF TurnsOn, Stops
    <3>3. Off(e)' <=> \/ \E x \in Todo' : TurnsOff(x, e)
                      \/ entry'[e].state = "disabled" /\ ~ \E x \in Todo' : TurnsOn(x, e)
      BY DEF Off, TurnsOff, TurnsOn
    <3>4. Off(e)' <=> entry'[e].state = "disabled"
      BY <1>2, <3>1, <3>3
    <3>5. Off(e) <=> TurnsOff(h, e) \/ entry[e].state = "disabled"
      BY <1>2, <3>1, <3>2 DEF Off
    <3>6. TurnsOff(h, e) <=> e = h.e
      BY <1>2, <1>5 DEF TurnsOff
    <3> QED
      BY <1>3, <1>5, <3>4, <3>5, <3>6 DEF Becomes
  <2>3. Closes' => Closes
    BY <1>2 DEF Closes
  <2> QED
    BY <1>1, <2>2, <2>3, WorkSaid
<1> QED
  BY <1>4, <1>5

\* Enabling ends a disabling; new settings and a failure find none.
LEMMA StateSaid ==
    ASSUME Steady, StoreHeard, LetStart \/ CountFailure
    PROVE  StoreHeard'
<1> DEFINE h == Head(work)
<1>1. UNCHANGED <<hub, known, queue, store>>
  BY DEF LetStart, CountFailure
<1>2. work # <<>> /\ Todo' = Rest /\ h.e \in Entry
  BY DoneWork, HeadFits DEF Steady
<1>3. PICK s : Becomes(h.e, s) /\ s.state \in {"waiting", "failed"}
  BY LetStartDoes, CountFailureDoes DEF Steady
<1>4. \A e \in Entry : e # h.e => entry'[e].state = entry[e].state
  BY <1>3 DEF Becomes
<1>5. entry'[h.e].state # "disabled"
  BY <1>2, <1>3 DEF Becomes
<1>6. CASE HeadIs("enable")
  BY <1>1, <1>2, <1>4, <1>5, <1>6, EnableSaid
<1>7. CASE ~ HeadIs("enable")
  <2>1. h.do \in {"settings", "failed"} /\ entry[h.e].state # "disabled"
    <3>1. CASE LetStart
      BY <1>7, <3>1 DEF LetStart, HeadIs
    <3>2. CASE CountFailure
      BY <1>2, <3>2, HeadMatches DEF CountFailure, HeadIs, Steady
    <3> QED
      BY <3>1, <3>2
  <2>2. ~ Turning(h)
    BY <2>1 DEF Turning, Stops
  <2>3. \A e \in Entry : entry'[e].state = "disabled" <=> entry[e].state = "disabled"
    BY <1>4, <1>5, <2>1
  <2> QED
    BY <1>1, <1>2, <2>2, <2>3, DoneSaid
<1> QED
  BY <1>6, <1>7

\* Hooks, and what follows them, turn nothing off or on.
LEMMA HookSaid ==
    ASSUME Steady, StoreHeard, BeginHook \/ EndHook
    PROVE  StoreHeard'
<1> DEFINE h == Head(work)
<1>1. UNCHANGED <<hub, known, queue, store>> /\ UNCHANGED entry
  BY DEF BeginHook, EndHook
<1>2. \A e \in Entry : entry'[e].state = "disabled" <=> entry[e].state = "disabled"
  BY <1>1
<1>3. CASE BeginHook
  <2>1. work # <<>> /\ ~ Turning(h) /\ h.e \in Entry /\ Todo' = {Step("hook", h.e)} \cup Rest
    BY <1>3, BeginHookWork DEF Steady, Turning, Stops, Hooks
  <2>2. ~ Turning(Step("hook", h.e)) /\ Step("hook", h.e).do # "closed"
    BY <2>1, NamesTurnNothing, StepTyped DEF DoNames
  <2> QED
    BY <1>1, <1>2, <2>1, <2>2, StepSaid
<1>4. CASE EndHook
  <2> DEFINE past == ToSet(PastHooks(h.e, Tail(work)))
  <2>1. /\ work # <<>> /\ h.do = "hook" /\ h.e \in Entry
        /\ past \subseteq Rest
        /\ \A x \in Rest \ past : x.do \in Hooks
        /\ past \subseteq Todo'
        /\ Todo' \subseteq Rest \cup {Stop(h.e), Step("failed", h.e)}
    BY <1>4, EndHookWork DEF Steady
  <2>2. /\ ~ Turning(Stop(h.e)) /\ Stop(h.e).do # "closed"
        /\ ~ Turning(Step("failed", h.e)) /\ Step("failed", h.e).do # "closed"
        /\ ~ Turning(h)
    BY <2>1, NamesTurnNothing, StepTyped DEF DoNames, Stop, StopTo, Turning, Stops
  <2>3. \A x \in Rest : Turning(x) => x \in Todo'
    BY <2>1 DEF Turning, Stops, Hooks
  <2>4. \A x \in Todo' : x \in Rest \/ (~ Turning(x) /\ x.do # "closed")
    BY <2>1, <2>2
  <2> QED
    BY <1>1, <1>2, <2>1, <2>2, <2>3, <2>4, StepSaid
<1> QED
  BY <1>3, <1>4

\* What starts waited.
LEMMA EndPassSaid ==
    ASSUME Steady, StoreHeard, EndPass
    PROVE  StoreHeard'
<1>1. UNCHANGED <<hub, known, queue, store>>
  BY DEF EndPass
<1>2. work # <<>> /\ Rest = {} /\ Head(work).do = "start" /\ Todo' \subseteq {Pass}
  BY EndPassWork DEF Steady
<1>3. \A e \in Entry : entry'[e].state = "disabled" <=> entry[e].state = "disabled"
  <2>1. \A e \in Entry : entry[e].task = NoTask => Tasks \ StartTasks(e) # {}
    BY DEF Steady, StartsApart
  <2>2. PICK S \in SUBSET Entry :
           /\ \A e \in S : entry[e].state = "waiting"
           /\ \A e \in Entry : IF e \notin S THEN entry'[e] = entry[e]
                               ELSE entry'[e].state = "starting"
    BY <2>1, EndPassDoes DEF Steady
  <2> QED
    BY <2>2
<1>4. ~ Turning(Head(work)) /\ ~ Turning(Pass) /\ Pass.do # "closed"
  BY <1>2, NamesTurnNothing, StepTyped DEF Turning, Stops
<1> QED
  BY <1>1, <1>2, <1>3, <1>4, StepSaid

\* A task that says nothing comes last.
LEMMA AppendedSaid ==
    ASSUME Steady, StoreHeard, UNCHANGED <<hub, known, store>>,
           NEW t \in TaskType, queue' = Append(queue, t),
           t.do \notin {"enable", "disable"}, t.do = "close" => "close" \in hub.doings,
           \A e \in Entry : Off(e)' <=> Off(e),
           Closes' => Closes
    PROVE  StoreHeard'
<1>1. hub' = hub /\ known' = known /\ store' = store
  OBVIOUS
<1>2. Waiting' = Waiting \cup {t}
  <2>1. ToSet(queue') = ToSet(queue) \cup {t}
    BY SetOfAppend DEF Steady, TypeOK
  <2> QED
    BY <2>1 DEF Waiting
<1>3. OnlyCalled'
  BY <1>1, <1>2 DEF StoreHeard, OnlyCalled, CloseWaits
<1>4. ASSUME NEW e \in Entry, IsCurrent(e)'
      PROVE  SaidRight(e)'
  <2>1. SaidRight(e) /\ ~ Says(t, e)
    BY <1>1, <1>4 DEF StoreHeard, IsCurrent, Says
  <2>2. TypeOK /\ LastAgrees(e)
    BY <2>1 DEF Steady, SaidRight
  <2>3. LastAgrees(e)' /\ (Unsaid(e)' => Unsaid(e))
    BY <1>1, <2>1, <2>2, SaidWhenAppended
  <2>4. Off(e)' <=> Off(e)
    OBVIOUS
  <2> QED
    BY <1>1, <2>1, <2>3, <2>4 DEF SaidRight
<1> QED
  BY <1>3, <1>4 DEF StoreHeard

\* Start tasks say nothing of it.
LEMMA StartsSaid ==
    ASSUME Steady, StoreHeard, Begins \/ Ends
    PROVE  StoreHeard'
<1>1. UNCHANGED <<hub, known, store>> /\ entry' = entry /\ work' = work
  BY DEF Begins, Ends, BeginStart, EndStart
<1>2. (\A e \in Entry : Off(e)' <=> Off(e)) /\ (Closes' => Closes)
  BY <1>1, OffStays DEF Todo, Closes
<1>3. CASE Begins
  <2>1. queue' = queue
    BY <1>3 DEF Begins, BeginStart
  <2> QED
    BY <1>1, <1>2, <2>1, WorkSaid
<1>4. CASE Ends
  <2>1. PICK s \in starts, ok \in BOOLEAN : EndStart(s, ok)
    BY <1>4 DEF Ends
  <2> DEFINE t == [Task("started", s.e) EXCEPT !.n = s.n, !.ok = ok]
  <2>2. s.e \in Entry /\ s.n \in Tasks
    BY WaitingTyped DEF Steady
  <2>3. t \in TaskType /\ t.do = "started"
    BY <2>2 DEF Task, TaskType
  <2>4. queue' = Append(queue, t)
    BY <2>1 DEF EndStart
  <2> HIDE DEF t
  <2> QED
    BY <1>1, <1>2, <2>3, <2>4, AppendedSaid
<1> QED
  BY <1>3, <1>4

\* One that comes anew is off when that is kept, and nothing speaks of it yet.
LEMMA CollectSaid ==
    ASSUME Steady, StoreHeard, UNCHANGED <<hub, store, queue>>,
           NEW there \in SUBSET Peripherals, Collect(there),
           \A x : Turning(x) => (x \in Todo' <=> x \in Todo),
           Closes' => Closes
    PROVE  StoreHeard'
<1>1. hub' = hub /\ store' = store /\ queue' = queue /\ Waiting' = Waiting
  BY DEF Waiting
<1>2. OnlyCalled'
  BY <1>1 DEF StoreHeard, OnlyCalled, CloseWaits
<1>3. TypeOK
  BY DEF Steady
<1>4. ASSUME NEW e \in Entry, IsCurrent(e)'
      PROVE  SaidRight(e)'
  <2>1. known'[e[1]] = e[2] /\ e[1] \in Peripherals /\ e[2] \in Lives /\ e[2] # NoLife
    BY <1>3, <1>4, EntryOf, Numbers DEF IsCurrent
  <2>2. CASE IsCurrent(e)
    <3>1. known[e[1]] # NoLife
      BY <2>1, <2>2 DEF IsCurrent
    <3>2. entry'[e] = entry[e]
      BY <1>3, <3>1, CollectDoes
    <3>3. entry'[e].state = "disabled" <=> entry[e].state = "disabled"
      BY <3>2
    <3>4. Off(e)' <=> Off(e)
      BY <3>3, OffStays
    <3>5. SaidRight(e)
      BY <2>2 DEF StoreHeard
    <3>6. LastAgrees(e)' /\ (Unsaid(e)' => Unsaid(e))
      BY <1>1, <3>5 DEF SaidRight, LastAgrees, IsLastSay, Says, Unsaid
    <3> QED
      BY <1>1, <3>4, <3>5, <3>6 DEF SaidRight
  <2>3. CASE ~ IsCurrent(e)
    <3>1. known[e[1]] = NoLife
      <4>1. \/ known'[e[1]] = known[e[1]]
            \/ known'[e[1]] = NoLife
            \/ known[e[1]] = NoLife
        BY <1>3, <2>1, CollectDoes
      <4> QED
        BY <2>1, <2>3, <4>1 DEF IsCurrent
    <3>2. ~ IsReferred(e) /\ entry'[e] = Adopted(e[1])
      BY <1>3, <2>1, <3>1, CollectDoes
    <3>3. (\A t \in Waiting : t.e # e) /\ (\A x \in Todo : x.e # e)
      BY <1>3, <3>2, UnreferredStarts
    <3>4. entry'[e].state = "disabled" <=> e[1] \in store
      BY <3>2 DEF Adopted, NewEntry
    <3>5. \A i \in DOMAIN queue : queue[i] \in Waiting
      BY DEF Waiting, ToSet
    <3>6. LastAgrees(e)'
      BY <1>1, <3>3, <3>5 DEF LastAgrees, IsLastSay, Says
    <3>7. \A x \in Todo' : ~ TurnsOff(x, e) /\ ~ TurnsOn(x, e)
      BY <3>3 DEF TurnsOff, TurnsOn, Turning
    <3>8. Off(e)' <=> \/ \E x \in Todo' : TurnsOff(x, e)
                      \/ entry'[e].state = "disabled" /\ ~ \E x \in Todo' : TurnsOn(x, e)
      BY DEF Off, TurnsOff, TurnsOn
    <3>9. Off(e)' <=> e[1] \in store
      BY <3>4, <3>7, <3>8
    <3> QED
      BY <1>1, <3>6, <3>9 DEF SaidRight
  <2> QED
    BY <2>2, <2>3
<1> QED
  BY <1>2, <1>4 DEF StoreHeard

\* What is asked for but enabling, disabling and the end says nothing.
LEMMA AskingSaid ==
    ASSUME Steady, StoreHeard, UNCHANGED <<hub, store>>, NEW t, Asking(t),
           t.do \notin {"enable", "disable"}, t.do = "close" => "close" \in hub.doings,
           \A x : Turning(x) => (x \in Todo' <=> x \in Todo),
           Closes' => Closes
    PROVE  StoreHeard'
<1>1. CASE queue' = Append(queue, t) /\ UNCHANGED <<entry, known>>
  <2>1. UNCHANGED <<hub, known, store>> /\ t \in TaskType
    BY <1>1 DEF Asking
  <2>2. \A e \in Entry : Off(e)' <=> Off(e)
    BY <1>1, OffStays
  <2> QED
    BY <1>1, <2>1, <2>2, AppendedSaid
<1>2. CASE Collects /\ UNCHANGED queue
  <2>1. PICK there \in SUBSET Peripherals : Collect(there)
    BY <1>2 DEF Collects
  <2>2. UNCHANGED <<hub, store, queue>>
    BY <1>2
  <2> QED
    BY <2>1, <2>2, CollectSaid
<1> QED
  BY <1>1, <1>2 DEF Asking

\* The end of a change, which refreshes, turns nothing off or on.
LEMMA SettleSaid ==
    ASSUME Steady, StoreHeard, SettleChange
    PROVE  StoreHeard'
<1>1. UNCHANGED <<hub, store>> /\ Asking(Refresh) /\ Refresh.do = "refresh"
  BY ThereAre, RefreshAsks, TaskTyped DEF SettleChange
<1>2. work # <<>> /\ Todo' = {} /\ Rest = {} /\ Head(work).do = "settle"
  BY FreeWork DEF Steady, SettleChange, HeadIs
<1>3. Todo = {Head(work)}
  BY <1>2, HeadFits DEF Steady
<1>4. \A x : Turning(x) => (x \in Todo' <=> x \in Todo)
  BY <1>2, <1>3 DEF Turning, Stops
<1>5. Closes' => Closes
  BY <1>2 DEF Closes
<1> QED
  BY <1>1, <1>4, <1>5, AskingSaid

\* Neither does the begin of a pass.
LEMMA BeginPassSaid ==
    ASSUME Steady, StoreHeard, BeginPass
    PROVE  StoreHeard'
<1>1. UNCHANGED <<hub, store, queue>> /\ Collect(Present) /\ Present \in SUBSET Peripherals
  BY ThereAre DEF BeginPass, Collect
<1>2. /\ work # <<>> /\ Head(work).do = "pass" /\ Rest = {}
      /\ Todo' = {Stop(e) : e \in Gone} \cup {Step("drop", NoEntry)}
  BY BeginPassWork DEF Steady
<1>3. Todo = {Head(work)}
  BY <1>2, HeadFits DEF Steady
<1>4. \A x \in Todo' : ~ Turning(x) /\ x.do # "closed"
  <2>1. \A e : ~ Turning(Stop(e)) /\ Stop(e).do # "closed"
    BY NamesTurnNothing DEF Stop, StopTo
  <2>2. ~ Turning(Step("drop", NoEntry)) /\ Step("drop", NoEntry).do # "closed"
    BY NamesTurnNothing DEF Step
  <2> QED
    BY <1>2, <2>1, <2>2
<1>5. \A x : Turning(x) => (x \in Todo' <=> x \in Todo)
  BY <1>2, <1>3, <1>4 DEF Turning, Stops
<1>6. Closes' => Closes
  BY <1>4 DEF Closes
<1> QED
  BY <1>1, <1>5, <1>6, CollectSaid

\* Stopping the runtime drops an enabling or disabling that still waits for the lock, whose
\* entry then is not as it is kept: so in the hub of the run life_closed_disabled.
\* Elsewhere, where the runtime is stopped nothing is disabled.
NoneCutOff == \A h \in Hubs : ~ ({"close", "disable"} \subseteq h.doings)

\* The end drops what waits, none of it a disabling.
LEMMA ClosedSaid ==
    ASSUME NoneCutOff, Steady, StoreHeard, Closed
    PROVE  StoreHeard'
<1>1. UNCHANGED <<hub, known, store>> /\ UNCHANGED entry
  BY DEF Closed
<1>2. work # <<>> /\ Todo' = {} /\ Rest = {} /\ Head(work).do = "closed"
  BY FreeWork DEF Steady, Closed, HeadIs
<1>3. Todo = {Head(work)}
  BY <1>2, HeadFits DEF Steady
<1>4. "close" \in hub.doings
  BY <1>2, <1>3 DEF StoreHeard, OnlyCalled, Closes
<1>5. "disable" \notin hub.doings
  BY <1>4 DEF NoneCutOff, Steady, TypeOK
<1>6. \A t \in Waiting : t.do \notin {"enable", "disable"}
  BY <1>5 DEF StoreHeard, OnlyCalled
<1>7. \A e \in Entry : Off(e)' <=> Off(e)
  <2>1. \A x : Turning(x) => (x \in Todo' <=> x \in Todo)
    BY <1>2, <1>3 DEF Turning, Stops
  <2> QED
    BY <1>1, <2>1, OffStays
<1>8. Closes' => Closes
  BY <1>2 DEF Closes
<1> DEFINE K == {t \in ToSet(queue) : t.do \in {"boot", "close"}}
<1>9. queue' = Kept(queue, K)
  BY DEF Closed
<1> HIDE DEF K
<1> QED
  BY <1>1, <1>6, <1>7, <1>8, <1>9, KeptSaid

\* What the steps of a task turn off and on.
LEMMA StepsOfSay ==
    ASSUME TypeOK, NEW t \in TaskType, t.do # "started", NEW e
    PROVE  /\ (\E x \in ToSet(StepsOf(t)) : TurnsOff(x, e)) <=> t.do = "disable" /\ t.e = e
           /\ (\E x \in ToSet(StepsOf(t)) : TurnsOn(x, e)) <=> t.do = "enable" /\ t.e = e
           /\ (\E x \in ToSet(StepsOf(t)) : x.do = "closed") => t.do = "close"
<1> DEFINE S == ToSet(StepsOf(t))
<1>1. t.do \in {"boot", "refresh", "close", "enable", "disable", "restart", "settings",
                "platform", "fail", "quit"} /\ t.e \in Entry /\ t.all \subseteq Entry
  BY DEF TaskType
<1>2. S = CASE t.do \in {"boot", "refresh"} -> {Pass}
            [] t.do = "close" -> {Stop(f) : f \in {f \in CurrentEntries : IsStarted(f)}}
                                 \cup {Step("closed", NoEntry)}
            [] t.do = "disable" -> {StopTo(t.e, "disabled"), Settle}
            [] t.do = "restart" -> {Stop(t.e), Step("revive", t.e), Settle}
            [] t.do = "platform" -> {Step("platform", f) : f \in t.all} \cup {Settle}
            [] OTHER -> {Step(t.do, t.e), Settle}
  BY StepsOfFit
<1>3. \A x : TurnsOff(x, e) \/ TurnsOn(x, e) => Turning(x)
  BY DEF TurnsOff, TurnsOn, Turning
<1>4. \A x \in {Pass, Settle} : ~ Turning(x) /\ x.do # "closed"
  BY NamesTurnNothing DEF Pass, Settle, Step
<1>5. \A f : ~ Turning(Stop(f)) /\ Stop(f).do # "closed"
  BY NamesTurnNothing DEF Stop, StopTo
<1>6. \A f \in Entry : \A do \in {"revive", "platform", "settings", "fail", "quit"} :
         ~ Turning(Step(do, f)) /\ Step(do, f).do # "closed"
  BY NamesTurnNothing, StepTyped DEF DoNames
<1> HIDE DEF S
<1>7. CASE t.do \in {"boot", "refresh"}
  BY <1>2, <1>3, <1>4, <1>7 DEF S
<1>8. CASE t.do = "close"
  <2>1. \A x \in S : ~ Turning(x)
    BY <1>2, <1>5, <1>8, NamesTurnNothing
  <2> QED
    BY <1>3, <1>8, <2>1 DEF S
<1>9. CASE t.do = "disable"
  <2>1. S = {StopTo(t.e, "disabled"), Settle}
    BY <1>2, <1>9
  <2>2. /\ TurnsOff(StopTo(t.e, "disabled"), e) <=> t.e = e
        /\ ~ TurnsOn(StopTo(t.e, "disabled"), e) /\ StopTo(t.e, "disabled").do # "closed"
    BY DEF TurnsOff, TurnsOn, StopTo, Stops
  <2> QED
    BY <1>3, <1>4, <1>9, <2>1, <2>2 DEF S
<1>10. CASE t.do = "restart"
  BY <1>1, <1>2, <1>3, <1>4, <1>5, <1>6, <1>10 DEF S
<1>11. CASE t.do = "platform"
  <2>1. \A x \in S : ~ Turning(x) /\ x.do # "closed"
    BY <1>1, <1>2, <1>4, <1>6, <1>11
  <2> QED
    BY <1>3, <1>11, <2>1 DEF S
<1>12. CASE t.do = "enable"
  <2>1. S = {Step("enable", t.e), Settle}
    BY <1>2, <1>12
  <2>2. /\ TurnsOn(Step("enable", t.e), e) <=> t.e = e
        /\ ~ TurnsOff(Step("enable", t.e), e) /\ Step("enable", t.e).do # "closed"
    BY DEF TurnsOff, TurnsOn, Step, Stops
  <2> QED
    BY <1>3, <1>4, <1>12, <2>1, <2>2 DEF S
<1>13. CASE t.do \in {"settings", "fail", "quit"}
  <2>1. S = {Step(t.do, t.e), Settle}
    BY <1>2, <1>13
  <2> QED
    BY <1>1, <1>3, <1>4, <1>6, <1>13, <2>1 DEF S
<1> QED
  BY <1>1, <1>7, <1>8, <1>9, <1>10, <1>11, <1>12, <1>13

\* A start that ended turns nothing off or on.
LEMMA EndedSays ==
    ASSUME Steady, Acquire, Head(queue).do = "started"
    PROVE  /\ \A x \in Todo' : ~ Turning(x) /\ x.do # "closed"
           /\ \A e \in Entry : entry'[e].state = "disabled" <=> entry[e].state = "disabled"
<1> DEFINE t == Head(queue)
           s == Ended(entry[t.e], t.ok)
<1>1. TypeOK /\ WorkInOrder /\ StartsApart
  BY DEF Steady
<1>2. /\ t \in TaskType /\ t.e \in Entry /\ t \in Waiting
      /\ \/ Todo' = {} /\ UNCHANGED entry
         \/ /\ IsItsStart(t) /\ Becomes(t.e, s)
            /\ Todo' = IF s.state = "running" THEN {Step("missed", t.e), Settle}
                       ELSE IF s.stoppedWith.stopped THEN {Stop(t.e), Settle}
                       ELSE {Stop(t.e), Step("failed", t.e), Settle}
  BY <1>1, AcquireTakes
<1>3. \A x \in {Stop(t.e), Step("failed", t.e), Step("missed", t.e), Settle} :
         ~ Turning(x) /\ x.do # "closed"
  BY <1>2, NamesTurnNothing DEF Stop, StopTo, Step, Settle, DoNames
<1>4. ASSUME IsItsStart(t)
      PROVE  entry[t.e].state = "starting" /\ s.state \in {"starting", "running"}
  <2>1. entry[t.e].task = t.n /\ t.n \in Tasks /\ t.n # NoTask
    BY <1>1, <1>2, <1>4, WaitingTyped DEF IsItsStart, StartsApart
  <2>2. entry[t.e].state = "starting"
    BY <1>1, <1>2, <2>1 DEF StartsApart
  <2>3. t.ok \in BOOLEAN
    BY <1>2 DEF TaskType
  <2> QED
    BY <1>1, <1>2, <2>2, <2>3, EndedTyped
<1> HIDE DEF t, s
<1>5. \A e \in Entry : entry'[e].state = "disabled" <=> entry[e].state = "disabled"
  BY <1>2, <1>4 DEF Becomes
<1>6. \A x \in Todo' : x \in {Stop(t.e), Step("failed", t.e), Step("missed", t.e), Settle}
  BY <1>2
<1> QED
  BY <1>3, <1>5, <1>6

\* The task that gets the lock leaves its entry off or not, as it says.
LEMMA AcquireSaid ==
    ASSUME Steady, StoreHeard, Acquire
    PROVE  StoreHeard'
<1> DEFINE t == Head(queue)
<1>1. TypeOK /\ WorkInOrder
  BY DEF Steady
<1>2. /\ t \in TaskType /\ Todo = {} /\ queue # <<>> /\ queue' = Tail(queue)
      /\ Waiting = {t} \cup Waiting'
  BY <1>1, AcquireTakes
<1>3. hub' = hub /\ known' = known /\ store' = store
  BY DEF Acquire
<1>4. t.do # "started" => /\ Todo' = ToSet(StepsOf(t)) /\ entry' = entry
  BY <1>1, AcquireTakes
<1>5. OnlyCalled'
  <2>1. Closes' => t.do = "close"
    <3>1. CASE t.do = "started"
      BY <3>1, EndedSays DEF Closes
    <3>2. CASE t.do # "started"
      BY <1>1, <1>2, <1>4, <3>2, StepsOfSay DEF Closes
    <3> QED
      BY <3>1, <3>2
  <2> HIDE DEF t
  <2>2. CloseWaits' \/ Closes' => CloseWaits
    BY <1>2, <2>1 DEF CloseWaits
  <2>3. \A u \in Waiting' : u \in Waiting
    BY <1>2
  <2> QED
    BY <1>3, <2>2, <2>3 DEF StoreHeard, OnlyCalled
<1>6. ASSUME NEW e \in Entry, IsCurrent(e)'
      PROVE  SaidRight(e)'
  <2>1. SaidRight(e)
    BY <1>3, <1>6 DEF StoreHeard, IsCurrent
  <2>2. LastAgrees(e)
    BY <2>1 DEF SaidRight
  <2>3. /\ LastAgrees(e)'
        /\ Unsaid(e)' => \/ Unsaid(e) /\ ~ Says(t, e)
                         \/ Says(t, e) /\ (t.do = "disable" <=> e[1] \in store)
    BY <1>1, <1>2, <1>3, <2>2, SaidWhenTaken
  <2>4. Off(e) <=> entry[e].state = "disabled"
    BY <1>2 DEF Off
  <2>5. Off(e)' <=> \/ \E x \in Todo' : TurnsOff(x, e)
                    \/ entry'[e].state = "disabled" /\ ~ \E x \in Todo' : TurnsOn(x, e)
    BY DEF Off, TurnsOff, TurnsOn
  <2>6. IF Says(t, e) THEN Off(e)' <=> t.do = "disable" ELSE Off(e)' <=> Off(e)
    <3>1. CASE t.do = "started"
      <4>1. \A x \in Todo' : ~ TurnsOff(x, e) /\ ~ TurnsOn(x, e)
        BY <3>1, EndedSays DEF TurnsOff, TurnsOn, Turning
      <4>2. entry'[e].state = "disabled" <=> entry[e].state = "disabled"
        BY <3>1, EndedSays
      <4> QED
        BY <2>4, <2>5, <3>1, <4>1, <4>2 DEF Says
    <3>2. CASE t.do # "started"
      <4>1. /\ (\E x \in Todo' : TurnsOff(x, e)) <=> t.do = "disable" /\ t.e = e
            /\ (\E x \in Todo' : TurnsOn(x, e)) <=> t.do = "enable" /\ t.e = e
        BY <1>1, <1>2, <1>4, <3>2, StepsOfSay
      <4> HIDE DEF t
      <4> QED
        BY <1>4, <2>4, <2>5, <3>2, <4>1 DEF Says
    <3> QED
      BY <3>1, <3>2
  <2> HIDE DEF t
  <2> QED
    BY <1>3, <2>1, <2>3, <2>6 DEF SaidRight
<1> QED
  BY <1>5, <1>6 DEF StoreHeard

\* Enabling and disabling say at once what is kept.
LEMMA SwitchSaid ==
    ASSUME Steady, StoreHeard, NEW p \in Peripherals, Enable(p) \/ Disable(p)
    PROVE  StoreHeard'
<1>1. /\ hub' = hub /\ known' = known /\ entry' = entry /\ work' = work /\ p \in Known
      /\ Enable(p) => p \in store /\ store' = store \ {p}
      /\ Disable(p) => store' = store \cup {p} /\ "disable" \in hub.doings
  BY DEF Enable, Disable, Queue, CanCall
<1>2. TypeOK
  BY DEF Steady
<1>3. PICK do \in {"enable", "disable"} :
         /\ queue' = Append(queue, Task(do, Current(p)))
         /\ do = "disable" <=> p \in store'
         /\ \A q : q # p => (q \in store' <=> q \in store)
  BY <1>1 DEF Enable, Disable, Queue
<1>4. PICK c \in Entry : c = Current(p) /\ c[1] = p
  BY <1>1, <1>2, CurrentTyped
<1> DEFINE t == Task(do, c)
<1>5. t \in TaskType /\ t.do = do /\ t.e = c
  BY <1>4, TaskTyped
<1>6. queue' = Append(queue, t)
  BY <1>3, <1>4
<1> HIDE DEF t
<1>7. Waiting' = Waiting \cup {t}
  <2>1. ToSet(queue') = ToSet(queue) \cup {t}
    BY <1>2, <1>5, <1>6, SetOfAppend DEF TypeOK
  <2> QED
    BY <2>1 DEF Waiting
<1>8. Todo' = Todo
  BY <1>1 DEF Todo
<1>9. "disable" \in hub.doings
  BY <1>1 DEF StoreHeard, OnlyCalled
<1>10. OnlyCalled'
  BY <1>1, <1>5, <1>7, <1>8, <1>9 DEF StoreHeard, OnlyCalled, CloseWaits, Closes
<1>11. ASSUME NEW e \in Entry, IsCurrent(e)'
       PROVE  SaidRight(e)'
  <2>1. SaidRight(e) /\ IsCurrent(e)
    BY <1>1, <1>11 DEF StoreHeard, IsCurrent
  <2>2. e[1] = p <=> e = c
    BY <1>2, <1>4, <2>1, CurrentTyped
  <2>3. Says(t, e) <=> e = c
    BY <1>5 DEF Says
  <2>4. LastAgrees(e)
    BY <2>1 DEF SaidRight
  <2>5. Says(t, e) => (t.do = "disable" <=> e[1] \in store')
    BY <1>3, <1>5, <2>2, <2>3
  <2>6. ~ Says(t, e) => (e[1] \in store' <=> e[1] \in store)
    BY <1>3, <2>2, <2>3
  <2>7. LastAgrees(e)' /\ (Unsaid(e)' => Unsaid(e) /\ ~ Says(t, e))
    BY <1>2, <1>5, <1>6, <2>4, <2>5, <2>6, SaidWhenAppended
  <2>8. Off(e)' <=> Off(e)
    BY <1>1, <1>8, OffStays
  <2> QED
    BY <2>1, <2>6, <2>7, <2>8 DEF SaidRight
<1> QED
  BY <1>10, <1>11 DEF StoreHeard

\* The other calls say nothing.
LEMMA OthersSay ==
    ASSUME Steady, StoreHeard, Called \/ Boot \/ Retry,
           \A p \in Peripherals : ~ Enable(p) /\ ~ Disable(p)
    PROVE  StoreHeard'
<1>1. UNCHANGED <<hub, store, work>>
  BY DEF Called, Boot, Retry, TimerFires, RetryDue, Close, UpdatePlatform, Restart, UpdateSettings,
         RemoveGiven, AddGiven, Plug, TellFailure, TellStop, Offer
<1>2. /\ \A x : Turning(x) => (x \in Todo' <=> x \in Todo)
      /\ Closes' => Closes
  BY <1>1 DEF Todo, Closes
<1>3. TypeOK
  BY DEF Steady
<1>4. \/ Noting
      \/ \E t : /\ Asking(t) /\ t.do \notin {"enable", "disable"}
                /\ t.do = "close" => "close" \in hub.doings
  <2>1. ASSUME NEW p \in Peripherals, NEW do \in {"restart", "settings", "fail", "quit"},
               p \in Known, Queue(Task(do, Current(p)))
        PROVE  \E t : Asking(t) /\ t.do \notin {"enable", "disable", "close"}
    <3>1. Current(p) \in Entry
      BY <1>3, <2>1, CurrentTyped
    <3>2. Task(do, Current(p)) \in TaskType /\ Task(do, Current(p)).do = do
      BY <3>1, TaskTyped
    <3>3. Asking(Task(do, Current(p)))
      BY <2>1, <3>2, QueueAsks
    <3> QED
      BY <3>2, <3>3
  <2>2. ASSUME NEW owned, NEW listed, QueueRefresh(PresentOf(owned, listed))
        PROVE  Asking(Refresh) /\ Refresh.do = "refresh"
    BY <2>2, ThereAre, RefreshAsks, TaskTyped
  <2>3. CASE Boot \/ Close
    <3>1. Task("boot", NoEntry) \in TaskType /\ Task("boot", NoEntry).do = "boot"
      BY Numbers, TaskTyped
    <3>2. Task("close", NoEntry) \in TaskType /\ Task("close", NoEntry).do = "close"
      BY Numbers, TaskTyped
    <3>3. Boot => Asking(Task("boot", NoEntry))
      BY <3>1 DEF Boot, Asking
    <3>4. Close => Asking(Task("close", NoEntry)) /\ "close" \in hub.doings
      BY <3>2 DEF Close, Asking, CanCall
    <3> QED
      BY <2>3, <3>1, <3>2, <3>3, <3>4
  <2>4. CASE Retry
    BY <1>3, <2>2, <2>4, DueNotes DEF Retry, TimerFires, Present
  <2>5. CASE UpdatePlatform
    <3> DEFINE t == [Task("platform", NoEntry) EXCEPT !.all = {e \in CurrentEntries : IsStarted(e)}]
    <3>1. t \in TaskType /\ t.do = "platform"
      BY <1>3, Numbers, CurrentTyped DEF Task, TaskType
    <3>2. Queue(t)
      BY <2>5 DEF UpdatePlatform
    <3> HIDE DEF t
    <3>3. Asking(t)
      BY <3>1, <3>2, QueueAsks
    <3> QED
      BY <3>1, <3>3
  <2>6. ASSUME NEW p \in Peripherals, Restart(p) \/ UpdateSettings(p)
        PROVE  \E t : Asking(t) /\ t.do \notin {"enable", "disable", "close"}
    BY <2>1, <2>6 DEF Restart, UpdateSettings
  <2>7. ASSUME NEW p \in Peripherals, RemoveGiven(p) \/ AddGiven(p) \/ Plug(p)
        PROVE  Asking(Refresh) /\ Refresh.do = "refresh"
    BY <2>2, <2>7 DEF RemoveGiven, AddGiven, Plug
  <2>8. ASSUME NEW x \in Endpoints, Offer(x)
        PROVE  Asking(Refresh) /\ Refresh.do = "refresh"
    BY <2>2, <2>8 DEF Offer, Present
  <2>9. ASSUME NEW p \in Peripherals, TellFailure(p) \/ TellStop(p)
        PROVE  Noting \/ \E t : Asking(t) /\ t.do \notin {"enable", "disable", "close"}
    <3>1. CASE StateOf(p) = "starting"
      BY <1>3, <2>9, <3>1, TellingNotes
    <3>2. CASE StateOf(p) # "starting"
      BY <2>1, <2>9, <3>2 DEF TellFailure, TellStop
    <3> QED
      BY <3>1, <3>2
  <2>10. CASE Called
    BY <2>3, <2>5, <2>6, <2>7, <2>8, <2>9, <2>10 DEF Called
  <2> QED
    BY <2>3, <2>4, <2>10
<1>5. CASE Noting
  <2>1. \A e \in Entry : Off(e)' <=> Off(e)
    BY <1>2, <1>5, OffStays DEF Noting
  <2>2. UNCHANGED <<hub, known, queue, store>>
    BY <1>1, <1>5 DEF Noting
  <2> QED
    BY <1>2, <2>1, <2>2, WorkSaid
<1>6. CASE ~ Noting
  <2>1. PICK t : /\ Asking(t) /\ t.do \notin {"enable", "disable"}
                 /\ t.do = "close" => "close" \in hub.doings
    BY <1>4, <1>6
  <2>2. UNCHANGED <<hub, store>>
    BY <1>1
  <2> QED
    BY <1>2, <2>1, <2>2, AskingSaid
<1> QED
  BY <1>5, <1>6

\* Every step keeps what was said right.
LEMMA StoreHeardStays ==
    ASSUME NoneCutOff, Steady, StoreHeard, [Next]_vars
    PROVE  StoreHeard'
<1>1. CASE UNCHANGED vars
  <2>1. UNCHANGED <<hub, known, queue, store>> /\ entry' = entry /\ work' = work
    BY <1>1 DEF vars
  <2>2. (\A e \in Entry : Off(e)' <=> Off(e)) /\ (Closes' => Closes)
    BY <2>1, OffStays DEF Todo, Closes
  <2> QED
    BY <2>1, <2>2, WorkSaid
<1>2. CASE Holder
  BY <1>2, MarkedSaid, StateSaid, CancelStartSaid, CallStopSaid, EndStopSaid, HookSaid, EndPassSaid,
     SettleSaid, BeginPassSaid, ClosedSaid, AcquireSaid DEF Holder
<1>3. CASE Begins \/ Ends
  BY <1>3, StartsSaid
<1>4. CASE Called \/ Boot \/ Retry
  BY <1>4, SwitchSaid, OthersSay
<1> QED
  BY <1>1, <1>2, <1>3, <1>4 DEF Next

\* What the user disabled does not run, and nothing else is disabled, once nobody holds the
\* lock or waits for it: the store changes at once, the entry in its turn, whatever stops,
\* replaces, enables or disables it meanwhile (`enable`, `disable`, `_adopt`, `_stop`).
THEOREM DisabledIsKept ==
    ASSUME NoneCutOff
    PROVE  Spec => []StoreAgrees
<1>1. Init => StoreHeard
  <2> SUFFICES ASSUME Init
               PROVE  StoreHeard
    OBVIOUS
  <2>1. Todo = {} /\ Waiting = {} /\ store = {} /\ DOMAIN queue = {}
    BY DEF Init, Todo, Waiting, ToSet
  <2>2. \A e \in Entry : entry[e].state = "waiting"
    BY DEF Init, NewEntry
  <2> QED
    BY <2>1, <2>2 DEF StoreHeard, OnlyCalled, CloseWaits, Closes, SaidRight, LastAgrees, Unsaid, Off
<1>2. Steady /\ StoreHeard /\ [Next]_vars => StoreHeard'
  BY StoreHeardStays
<1>3. Steady /\ StoreHeard => StoreAgrees
  <2> SUFFICES ASSUME Steady, StoreHeard, Calm, NEW p \in Known
               PROVE  StateOf(p) = "disabled" <=> p \in store
    BY DEF StoreAgrees
  <2>1. Todo = {} /\ Waiting = {}
    BY DEF Calm, Todo, Waiting, ToSet
  <2>2. PICK e \in Entry : e = Current(p) /\ e[1] = p /\ IsCurrent(e) /\ StateOf(p) = entry[e].state
    BY CurrentTyped DEF Steady, StateOf
  <2>3. SaidRight(e) /\ Unsaid(e)
    BY <2>1, <2>2 DEF StoreHeard, Unsaid
  <2> QED
    BY <2>1, <2>2, <2>3 DEF SaidRight, Off
<1> QED
  BY <1>1, <1>2, <1>3, AlwaysSteady, PTL DEF Spec

\* What `disable` promises ("until enabled again; kept across restarts"): once nothing is
\* under way, nothing the user disabled has started.
THEOREM DisabledNeverRuns ==
    ASSUME NoneCutOff
    PROVE  Spec => []DisabledStaysOff
<1>1. StoreAgrees => DisabledStaysOff
  BY DEF StoreAgrees, DisabledStaysOff, StateOf, IsStarted, Started
<1> QED
  BY <1>1, DisabledIsKept, PTL

-----------------------------------------------------------------------------
(* What serves others in process runs as long as they do.                  *)
(*                                                                         *)
(* A running user is bound, in each required need, to what that need       *)
(* accepts (StartedAreMet), which a pass hands out (WantedAreMet); one     *)
(* peripheral provides all of what a need takes in process (InsideByOne),  *)
(* so that a pass which keeps the user keeps that provider, and keeps the  *)
(* entry of it that runs (LinksAreCurrent).  Whatever stops a provider     *)
(* stops its users first (UsersStopFirst).                                 *)

\* What a required need accepts is used in process only when one peripheral provides it all.
InsideByOne ==
    \A h \in Hubs : \A p \in Peripherals : \A i \in DOMAIN h.home.needs[p] :
        LET need == h.home.needs[p][i]
        IN  need.required /\ need.accepts \cap h.inside # {} =>
              /\ need.accepts \subseteq h.inside
              /\ \A x, y \in need.accepts : h.home.provider[x] = h.home.provider[y]

\* Need i of p is bound, to what it accepts.
IsMet(p, i, links) ==
    links # {} /\ \A l \in links : l[1] \in hub.home.needs[p][i].accepts

\* What started has its required needs.
StartedAreMet ==
    \A e \in Entry : IsStarted(e) =>
        \A i \in Required(e[1]) : IsMet(e[1], i, entry[e].bindings[i])

\* So would those that should run.
WantedAreMet ==
    \A p \in bound.wanted : \A i \in Required(p) : IsMet(p, i, bound.links[p][i])

\* The stop in progress has no user left inside its entry.
UsersStopFirst ==
    \A x \in Todo : x.do \in {"cancelled", "stopping"} => InsideUsers(x.e) = {}

Resolves  == \E x \in Todo : x.do \in {"drop", "moves", "deliver", "start"}
Delivers  == \E x \in Todo : x.do \in {"moves", "deliver", "start"}

\* While a pass goes on, what it bound is provided by the entry of now, if any runs.
LinksAreCurrent ==
    Resolves =>
        \A p \in bound.wanted : \A i \in Required(p) : \A l \in bound.links[p][i] :
            \A f \in Entry : /\ IsCurrent(f) /\ entry[f].state = "running"
                             /\ f[1] = Provider(l)[1]
                             => f = Provider(l)

\* Once it stopped what should not run, only that runs which should.
StartedAreWanted ==
    Delivers => \A e \in Entry : IsStarted(e) => e[1] \in bound.wanted \/ ToStop(e)

WithinUsers == InsideRunsWithin /\ StartedAreMet /\ UsersStopFirst
WithinPass  == WantedAreMet /\ LinksAreCurrent /\ StartedAreWanted

\* Nobody starts, is bound anew or becomes current while started.
NoneBegins ==
    \A e \in Entry : entry'[e].state \in Started =>
        /\ IsStarted(e)
        /\ entry'[e].bindings = entry[e].bindings
        /\ IsCurrent(e)' => IsCurrent(e)

\* What is bound is of an entry there is.
LEMMA LinkTyped ==
    ASSUME TypeOK, NEW e \in Entry, NEW i \in Required(e[1])
    PROVE  /\ \A l \in entry[e].bindings[i] : Provider(l) \in Entry
           /\ \A l \in bound.links[e[1]][i] : Provider(l) \in Entry
<1>1. i \in DOMAIN hub.home.needs[e[1]] /\ e[1] \in Peripherals
  BY EntryOf DEF Required
<1>2. entry[e].bindings \in LinksOf(e[1]) /\ bound.links[e[1]] \in LinksOf(e[1])
  BY <1>1, EntryOf DEF EntryType, TypeOK
<1>3. entry[e].bindings[i] \subseteq Link /\ bound.links[e[1]][i] \subseteq Link
  BY <1>1, <1>2 DEF LinksOf
<1>4. hub.home.provider \in [Endpoints -> Peripherals]
  BY HubIs DEF TypeOK
<1>5. \A l \in Link : Provider(l) \in Entry
  BY <1>4 DEF Link, Provider, Entry
<1> QED
  BY <1>3, <1>5

\* The current entries after a step are entries.
LEMMA CurrentNext ==
    ASSUME TypeOK', hub' = hub
    PROVE  \A e \in CurrentEntries' : e \in Entry /\ IsCurrent(e)'
<1>1. known' \in [Peripherals -> Lives \cup {NoLife}]
  BY DEF TypeOK, Lives
<1>2. \A p \in Known' : p \in Peripherals /\ known'[p] \in Lives
  BY <1>1 DEF Known
<1> QED
  BY <1>2 DEF CurrentEntries, Current, Entry, IsCurrent

\* While nobody begins, nobody comes to be inside another.
LEMMA NoneEnters ==
    ASSUME Steady, TypeOK', hub' = hub, NoneBegins, NEW f
    PROVE  InsideUsers(f)' \subseteq InsideUsers(f)
<1> SUFFICES ASSUME NEW u \in InsideUsers(f)'
             PROVE  u \in InsideUsers(f)
  OBVIOUS
<1>1. u \in CurrentEntries' /\ RunsInside(u, f)'
  BY DEF InsideUsers
<1>2. u \in Entry /\ IsCurrent(u)'
  BY <1>1, CurrentNext
<1>3. entry'[u].state \in Started
  BY <1>1 DEF RunsInside, IsStarted
<1>4. IsStarted(u) /\ entry'[u].bindings = entry[u].bindings /\ IsCurrent(u)
  BY <1>2, <1>3 DEF NoneBegins
<1>5. u \in CurrentEntries
  BY <1>2, <1>4, CurrentTyped DEF Steady
<1>6. RunsInside(u, f)
  BY <1>1, <1>4 DEF RunsInside, Required, Provider
<1> QED
  BY <1>5, <1>6 DEF InsideUsers

\* Then what is inside another one stays so, and is stopped before it, when none is stopped
\* that has users inside.
LEMMA WithinUsersStays ==
    ASSUME Steady, TypeOK', WithinUsers, hub' = hub, NoneBegins,
           \A f \in Entry : entry[f].state = "running" =>
               entry'[f].state = "running" \/ InsideUsers(f) = {},
           \A x \in Todo' : x.do \in {"cancelled", "stopping"} => InsideUsers(x.e) = {}
    PROVE  WithinUsers'
<1>1. InsideRunsWithin'
  <2> SUFFICES ASSUME NEW u \in CurrentEntries', entry'[u].state \in Started,
                      NEW i \in Required(u[1])', NEW l \in entry'[u].bindings[i], l[1] \in hub.inside
               PROVE  entry'[Provider(l)].state = "running"
    BY DEF InsideRunsWithin, IsStarted, Provider
  <2>1. u \in Entry /\ IsCurrent(u)'
    BY CurrentNext
  <2>2. IsStarted(u) /\ entry'[u].bindings = entry[u].bindings /\ IsCurrent(u)
    BY <2>1 DEF NoneBegins
  <2>3. u \in CurrentEntries /\ i \in Required(u[1]) /\ l \in entry[u].bindings[i]
    BY <2>1, <2>2, CurrentTyped DEF Steady, Required
  <2>4. entry[Provider(l)].state = "running" /\ Provider(l) \in Entry
    BY <2>1, <2>2, <2>3, LinkTyped DEF WithinUsers, InsideRunsWithin, Steady
  <2>5. u \in InsideUsers(Provider(l))
    BY <2>2, <2>3 DEF InsideUsers, RunsInside
  <2> QED
    BY <2>4, <2>5
<1>2. StartedAreMet'
  BY DEF WithinUsers, StartedAreMet, NoneBegins, IsStarted, IsMet, Required, Entry, Lives
<1>3. UsersStopFirst'
  BY NoneEnters DEF UsersStopFirst
<1> QED
  BY <1>1, <1>2, <1>3 DEF WithinUsers

\* And what a pass bound stays so while it goes on, and no stop is left out.
LEMMA WithinPassStays ==
    ASSUME Steady, WithinPass, hub' = hub, bound' = bound, NoneBegins,
           Resolves' => Resolves, Delivers' => Delivers,
           Resolves' => \A f \in Entry : entry'[f].state = "running" => entry[f].state = "running",
           \A e \in Entry : entry'[e].state \in Started /\ ToStop(e) => ToStop(e)'
    PROVE  WithinPass'
<1>1. WantedAreMet'
  BY DEF WithinPass, WantedAreMet, IsMet, Required
<1>2. LinksAreCurrent'
  <2> SUFFICES ASSUME Resolves', NEW p \in bound.wanted, NEW i \in Required(p),
                      NEW l \in bound.links[p][i], NEW f \in Entry, IsCurrent(f)',
                      entry'[f].state = "running", f[1] = Provider(l)[1]
               PROVE  f = Provider(l)
    BY DEF LinksAreCurrent, Required, Provider, Entry, Lives
  <2>1. entry[f].state = "running" /\ IsCurrent(f)
    BY DEF NoneBegins, Started
  <2> QED
    BY <2>1 DEF WithinPass, LinksAreCurrent
<1>3. StartedAreWanted'
  <2> SUFFICES ASSUME Delivers', NEW e \in Entry, entry'[e].state \in Started
               PROVE  e[1] \in bound.wanted \/ ToStop(e)'
    BY DEF StartedAreWanted, IsStarted, Entry, Lives
  <2>1. IsStarted(e)
    BY DEF NoneBegins
  <2> QED
    BY <2>1 DEF WithinPass, StartedAreWanted
<1> QED
  BY <1>1, <1>2, <1>3 DEF WithinPass

\* One entry changed in something else than its bindings.
LEMMA OneKeeps ==
    ASSUME TypeOK, NEW e \in Entry, NEW x, x.bindings = entry[e].bindings,
           entry' = [entry EXCEPT ![e] = x]
    PROVE  \A f \in Entry : entry'[f].bindings = entry[f].bindings
<1>1. \A f \in Entry : entry'[f] = IF f = e THEN x ELSE entry[f]
  BY DEF TypeOK
<1> QED
  BY <1>1

\* The steps that bind nothing.
LEMMA BindingsStay ==
    ASSUME TypeOK, WorkInOrder,
           \/ Revive \/ TakeTold \/ TellOrNote \/ TellMissed \/ CallStop \/ CancelStart
           \/ UNCHANGED entry
    PROVE  \A f \in Entry : entry'[f].bindings = entry[f].bindings
<1> DEFINE e == Head(work).e
<1>1. work # <<>> => e \in Entry /\ entry[e] \in EntryType(e[1])
  BY HeadTyped, EntryOf
<1>2. CASE UNCHANGED entry
  BY <1>2
<1>3. CASE Revive
  <2>1. work # <<>> /\ entry' = [entry EXCEPT ![e] = Revived(entry[e])]
    BY <1>3 DEF Revive, HeadIs
  <2>2. Revived(entry[e]).bindings = entry[e].bindings
    BY <1>1, <2>1 DEF Revived, EntryType
  <2> QED
    BY <1>1, <2>1, <2>2, OneKeeps
<1>4. CASE TakeTold
  <2> DEFINE v == [stopped |-> TRUE, on |-> entry[e].bindings]
             x == [entry[e] EXCEPT !.stoppedWith = v]
  <2>1. work # <<>> /\ (UNCHANGED entry \/ entry' = [entry EXCEPT ![e].stoppedWith = v])
    BY <1>4 DEF TakeTold, HeadIs
  <2> HIDE DEF v
  <2>2. x.bindings = entry[e].bindings
    BY <1>1, <2>1 DEF EntryType
  <2>3. UNCHANGED entry \/ entry' = [entry EXCEPT ![e] = x]
    BY <2>1
  <2> HIDE DEF x
  <2> QED
    BY <1>1, <1>2, <2>1, <2>2, <2>3, OneKeeps
<1>5. CASE TellOrNote
  <2> DEFINE x == [entry[e] EXCEPT !.missedSettings = TRUE]
             y == [entry[e] EXCEPT !.missedPlatform = TRUE]
  <2>1. /\ work # <<>>
        /\ \/ UNCHANGED entry
           \/ entry' = [entry EXCEPT ![e].missedSettings = TRUE]
           \/ entry' = [entry EXCEPT ![e].missedPlatform = TRUE]
    BY <1>5 DEF TellOrNote, HeadIs
  <2>2. UNCHANGED entry \/ entry' = [entry EXCEPT ![e] = x] \/ entry' = [entry EXCEPT ![e] = y]
    BY <2>1
  <2>3. x.bindings = entry[e].bindings /\ y.bindings = entry[e].bindings
    BY <1>1, <2>1 DEF EntryType
  <2> HIDE DEF x, y
  <2> QED
    BY <1>1, <1>2, <2>1, <2>2, <2>3, OneKeeps
<1>6. CASE TellMissed
  <2> DEFINE x == [entry[e] EXCEPT !.missedPlatform = FALSE, !.missedSettings = FALSE]
  <2>1. work # <<>> /\ entry' = [entry EXCEPT ![e].missedPlatform = FALSE, ![e].missedSettings = FALSE]
    BY <1>6 DEF TellMissed, HeadIs
  <2>2. entry' = [entry EXCEPT ![e] = x]
    BY <1>1, <2>1, EntryOf DEF EntryType
  <2>3. x.bindings = entry[e].bindings
    BY <1>1, <2>1 DEF EntryType
  <2> HIDE DEF x
  <2> QED
    BY <1>1, <2>1, <2>2, <2>3, OneKeeps
<1>7. CASE CallStop
  <2>1. PICK stable \in BOOLEAN :
          entry' = [entry EXCEPT ![e].attempts =
                            IF stable /\ entry[e].state = "running" THEN 0 ELSE @]
    BY <1>7 DEF CallStop
  <2> DEFINE n == IF stable /\ entry[e].state = "running" THEN 0 ELSE entry[e].attempts
             x == [entry[e] EXCEPT !.attempts = n]
  <2>2. work # <<>> /\ entry' = [entry EXCEPT ![e] = x]
    BY <1>7, <2>1 DEF CallStop
  <2> HIDE DEF n
  <2>3. x.bindings = entry[e].bindings
    BY <1>1, <2>2 DEF EntryType
  <2> HIDE DEF x
  <2> QED
    BY <1>1, <2>2, <2>3, OneKeeps
<1>8. CASE CancelStart
  <2> DEFINE x == [entry[e] EXCEPT !.task = NoTask]
  <2>1. work # <<>> /\ entry' = [entry EXCEPT ![e] = x]
    BY <1>8 DEF CancelStart, StopsEntry, HeadIs
  <2>2. x.bindings = entry[e].bindings
    BY <1>1, <2>1 DEF EntryType
  <2> HIDE DEF x
  <2> QED
    BY <1>1, <2>1, <2>2, OneKeeps
<1> QED
  BY <1>2, <1>3, <1>4, <1>5, <1>6, <1>7, <1>8

\* A step of the holder that starts nobody and begins no pass.
LEMMA WorkWithin ==
    ASSUME Steady, TypeOK', WithinUsers, WithinPass, work # <<>>,
           UNCHANGED <<hub, known, bound>>,
           \A e \in Entry : entry'[e].state \in Started =>
               /\ entry'[e].state = entry[e].state /\ entry'[e].bindings = entry[e].bindings
               /\ Head(work).do \in Stops /\ Head(work).e = e => ToStop(e)',
           \A e \in Entry : entry[e].state = "running" =>
               entry'[e].state = "running" \/ InsideUsers(e) = {},
           \A x \in Rest : x.do \in Stops => x \in Todo',
           \A x \in Todo' : x.do \in {"cancelled", "stopping"} => InsideUsers(x.e) = {},
           \A x \in Todo' : x.do \in Passes => x \in Rest
    PROVE  WithinUsers' /\ WithinPass'
<1>1. Todo = {Head(work)} \cup Rest
  BY HeadFits DEF Steady
<1>2. NoneBegins
  BY DEF NoneBegins, IsStarted, IsCurrent
<1>3. (Resolves' => Resolves) /\ (Delivers' => Delivers)
  BY <1>1 DEF Resolves, Delivers, Passes
<1>4. \A e \in Entry : entry'[e].state \in Started /\ ToStop(e) => ToStop(e)'
  BY <1>1 DEF ToStop
<1>5. \A f \in Entry : entry'[f].state = "running" => entry[f].state = "running"
  BY DEF Started
<1>6. WithinUsers'
  BY <1>2, WithinUsersStays
<1>7. WithinPass'
  BY <1>2, <1>3, <1>4, <1>5, WithinPassStays
<1> QED
  BY <1>6, <1>7

\* The steps that only mark, but those of a pass.
LEMMA MarkedWithin ==
    ASSUME Steady, TypeOK', WithinUsers, WithinPass,
           Revive \/ TellOrNote \/ TellMissed \/ TakeTold \/ NoChange \/ StopDisabled \/ StopUsers
    PROVE  WithinUsers' /\ WithinPass'
<1>1. UNCHANGED <<hub, known, bound>> /\ \A e \in Entry : entry'[e].state = entry[e].state
  BY MarksDo DEF Steady, Marking
<1>2. \A e \in Entry : entry'[e].bindings = entry[e].bindings
  BY BindingsStay DEF Steady, NoChange, StopDisabled, StopUsers
<1>3. work # <<>>
  BY DEF Revive, TellOrNote, TellMissed, TakeTold, NoChange, StopDisabled, StopUsers, HeadIs,
         StopsEntry
<1>4. \A x \in Rest : x.do \notin {"cancelled", "stopping"}
  BY <1>3, HeadFits DEF Steady, Ongoing
<1>5. /\ \A x \in Rest : x \in Todo'
      /\ \A x \in Todo' : x \in Rest \/ x.do \in {"stop", "failed"} \cup Hooks
      /\ \/ Head(work).do \notin Stops
         \/ ~ IsStarted(Head(work).e)
         \/ \A e : Head(work).e = e => ToStop(e)'
  <2>1. CASE Revive \/ NoChange
    <3>1. Todo' = Rest
      BY <2>1, DoneWork DEF Steady
    <3>2. Head(work).do \notin Stops
      BY <2>1 DEF Revive, NoChange, HeadIs, Stops
    <3> QED
      BY <3>1, <3>2
  <2>2. CASE StopDisabled
    <3>1. Todo' = Rest
      BY <2>2, DoneWork DEF Steady
    <3>2. ~ IsStarted(Head(work).e)
      BY <2>2 DEF StopDisabled, StopsEntry, HeadIs, IsStarted, Started
    <3> QED
      BY <3>1, <3>2
  <2>3. CASE TellOrNote
    <3>1. Head(work).do \in {"settings", "platform"} /\ Head(work).e \in Entry
      BY <1>3, <2>3, HeadFits DEF TellOrNote, HeadIs, Steady
    <3>2. \A x \in Todo' : x \in Rest \/ x.do \in {"tell_settings", "tell_platform"}
      BY <2>3, <3>1, TellOrNoteWork, HookNamed DEF Steady, Hooks
    <3>3. \A x \in Rest : x \in Todo'
      BY <2>3, TellOrNoteWork DEF Steady
    <3>4. Head(work).do \notin Stops
      BY <3>1 DEF Stops
    <3> QED
      BY <3>2, <3>3, <3>4 DEF Hooks
  <2>4. CASE TellMissed
    <3>1. Head(work).do = "missed" /\ Head(work).e \in Entry
      BY <2>4, TellMissedWork DEF Steady
    <3>2. \A x \in Todo' : x \in Rest \/ x.do \in {"tell_settings", "tell_platform"}
      BY <2>4, <3>1, TellMissedWork, HookNamed DEF Steady, Hooks
    <3>3. \A x \in Rest : x \in Todo'
      BY <2>4, TellMissedWork DEF Steady
    <3>4. Head(work).do \notin Stops
      BY <3>1 DEF Stops
    <3> QED
      BY <3>2, <3>3, <3>4 DEF Hooks
  <2>5. CASE TakeTold
    <3>1. Head(work).do \in {"fail", "quit"} /\ Head(work).e \in Entry
      BY <2>5, TakeToldWork DEF Steady
    <3>2. \A x \in Todo' : x \in Rest \/ x.do \in {"stop", "failed"}
      BY <2>5, <3>1, TakeToldWork, StepTyped DEF Steady, DoNames
    <3>3. \A x \in Rest : x \in Todo'
      BY <2>5, TakeToldWork DEF Steady
    <3>4. Head(work).do \notin Stops
      BY <3>1 DEF Stops
    <3> QED
      BY <3>2, <3>3, <3>4
  <2>6. CASE StopUsers
    <3>1. /\ Head(work).do = "stop" /\ InsideUsers(Head(work).e) \subseteq Entry
          /\ Todo' = {Stop(u) : u \in InsideUsers(Head(work).e)} \cup Todo
      BY <2>6, StopUsersWork DEF Steady
    <3>2. Todo = {Head(work)} \cup Rest
      BY <1>3, HeadFits DEF Steady
    <3>3. \A x \in Todo' : x \in Rest \/ x.do = "stop"
      BY <3>1, <3>2, StepTyped DEF DoNames
    <3>4. \A e : Head(work).e = e => ToStop(e)'
      BY <3>1, <3>2 DEF ToStop, Stops
    <3> QED
      BY <3>1, <3>2, <3>3, <3>4
  <2> QED
    BY <2>1, <2>2, <2>3, <2>4, <2>5, <2>6
<1>6. \A e \in Entry : entry'[e].state \in Started =>
               /\ entry'[e].state = entry[e].state /\ entry'[e].bindings = entry[e].bindings
               /\ Head(work).do \in Stops /\ Head(work).e = e => ToStop(e)'
  BY <1>1, <1>2, <1>5 DEF IsStarted
<1>7. \A x \in Todo' : x.do \in {"cancelled", "stopping"} => InsideUsers(x.e) = {}
  BY <1>4, <1>5 DEF Hooks
<1>8. \A x \in Todo' : x.do \in Passes => x \in Rest
  BY <1>5 DEF Hooks, Passes
<1> QED
  BY <1>1, <1>3, <1>5, <1>6, <1>7, <1>8, WorkWithin

\* What leaves its entry not started: a stop that ends left none inside it.
LEMMA StateWithin ==
    ASSUME Steady, TypeOK', WithinUsers, WithinPass, LetStart \/ CountFailure \/ EndStop
    PROVE  WithinUsers' /\ WithinPass'
<1> DEFINE h == Head(work)
<1>1. PICK x : Becomes(h.e, x) /\ x.state \notin Started
  BY LetStartDoes, CountFailureDoes, EndStopDoes DEF Steady, Started
<1>2. work # <<>> /\ Todo' = Rest /\ h \in Todo
  BY DoneWork, HeadFits DEF Steady
<1>3. UNCHANGED <<hub, known, bound>>
  BY DEF LetStart, CountFailure, EndStop
<1>4. entry[h.e].state = "running" => InsideUsers(h.e) = {}
  <2>1. CASE LetStart
    BY <2>1, LetStartDoes DEF Steady, Started
  <2>2. CASE CountFailure
    BY <1>2, <2>2, HeadMatches DEF Steady, CountFailure, HeadIs
  <2>3. CASE EndStop /\ h.do = "stopping"
    BY <1>2, <2>3 DEF WithinUsers, UsersStopFirst
  <2>4. CASE EndStop /\ h.do # "stopping"
    BY <2>4 DEF EndStop, HeadIs, IsStarted, Started
  <2> QED
    BY <2>1, <2>2, <2>3, <2>4
<1>5. \A y \in Rest : y.do \notin {"cancelled", "stopping"}
  BY <1>2, HeadFits DEF Steady, Ongoing
<1> HIDE DEF h
<1>6. \A e \in Entry : entry'[e].state \in Started =>
               /\ entry'[e].state = entry[e].state /\ entry'[e].bindings = entry[e].bindings
               /\ h.e # e
  BY <1>1 DEF Becomes
<1>7. \A e \in Entry : entry[e].state = "running" =>
               entry'[e].state = "running" \/ InsideUsers(e) = {}
  BY <1>1, <1>4 DEF Becomes
<1> QED
  BY <1>2, <1>3, <1>5, <1>6, <1>7, WorkWithin DEF h

\* A start cancelled and a stop called are of what has none left inside.
LEMMA StopsWithin ==
    ASSUME Steady, TypeOK', WithinUsers, WithinPass, CancelStart \/ CallStop
    PROVE  WithinUsers' /\ WithinPass'
<1> DEFINE h == Head(work)
<1>1. work # <<>> /\ h \in StepType /\ h.e \in Entry /\ h \in Todo
  BY HeadFits DEF Steady, CancelStart, CallStop, StopsEntry, HeadIs
<1>2. PICK do \in {"cancelled", "stopping"} : Todo' = {[h EXCEPT !.do = do]} \cup Rest
  BY CancelStartDoes, CallStopDoes DEF Steady
<1> DEFINE x == [h EXCEPT !.do = do]
<1>3. x.do \in {"cancelled", "stopping"} /\ x.e = h.e
  BY <1>1, <1>2 DEF StepType
<1>4. InsideUsers(h.e) = {}
  <2>1. CASE CancelStart
    <3>1. entry[h.e].task # NoTask /\ ~ (IsStarted(h.e) /\ InsideUsers(h.e) # {})
      BY <2>1 DEF CancelStart
    <3>2. IsStarted(h.e)
      BY <1>1, <3>1, HeadMatches DEF Steady
    <3> QED
      BY <3>1, <3>2
  <2>2. CASE CallStop /\ h.do = "cancelled"
    BY <1>1, <2>2 DEF WithinUsers, UsersStopFirst
  <2>3. CASE CallStop /\ h.do # "cancelled"
    BY <2>3 DEF CallStop, HeadIs
  <2> QED
    BY <2>1, <2>2, <2>3
<1>5. UNCHANGED <<hub, known, bound>>
  BY DEF CancelStart, CallStop
<1>6. \A e \in Entry : entry'[e].bindings = entry[e].bindings
  BY BindingsStay DEF Steady
<1>7. \A e \in Entry : entry'[e].state = entry[e].state
  BY CancelStartDoes, CallStopDoes DEF Steady, Becomes, Marking
<1>8. \A y \in Rest : y.do \notin {"cancelled", "stopping"}
  BY <1>1, HeadFits DEF Steady, Ongoing
<1> HIDE DEF x
<1>9. Todo' = {x} \cup Rest
  BY <1>2 DEF x
<1> HIDE DEF h
<1>10. \A e \in Entry : h.e = e => ToStop(e)'
  BY <1>3, <1>9 DEF ToStop, Stops
<1>11. \A y \in Todo' : y.do \in {"cancelled", "stopping"} => InsideUsers(y.e) = {}
  BY <1>3, <1>4, <1>8, <1>9
<1>12. \A y \in Todo' : y.do \in Passes => y \in Rest
  BY <1>3, <1>9 DEF Passes
<1>13. \A y \in Rest : y \in Todo'
  BY <1>9
<1> QED
  BY <1>1, <1>5, <1>6, <1>7, <1>10, <1>11, <1>12, <1>13, WorkWithin DEF h

\* A hook, and the end of a close, stop nobody.
LEMMA HookWithin ==
    ASSUME Steady, TypeOK', WithinUsers, WithinPass, BeginHook \/ EndHook \/ Closed
    PROVE  WithinUsers' /\ WithinPass'
<1>1. UNCHANGED <<hub, known, bound, entry>>
  BY DEF BeginHook, EndHook, Closed
<1>2. /\ work # <<>> /\ Head(work).do \notin Stops
      /\ \A x \in Rest : x.do \in Stops => x \in Todo'
      /\ \A x \in Todo' : x \in Rest \/ x.do \in {"hook", "stop", "failed"}
  <2>1. CASE BeginHook
    <3>1. work # <<>> /\ Head(work).do \in Hooks /\ Todo' = {Step("hook", Head(work).e)} \cup Rest
      BY <2>1, BeginHookWork DEF Steady
    <3> QED
      BY <3>1 DEF Stops, Hooks, Step
  <2>2. CASE EndHook
    <3> DEFINE e == Head(work).e
               past == ToSet(PastHooks(e, Tail(work)))
    <3>1. /\ work # <<>> /\ Head(work).do = "hook" /\ past \subseteq Rest
          /\ \A x \in Rest \ past : x.do \in Hooks /\ x.e = e
          /\ \/ Todo' = Rest
             \/ Todo' = {Stop(e)} \cup past
             \/ Todo' = {Stop(e), Step("failed", e)} \cup past
      BY <2>2, EndHookWork DEF Steady
    <3>2. Stop(e).do = "stop" /\ Step("failed", e).do = "failed"
      BY DEF Stop, StopTo, Step
    <3> HIDE DEF past, e
    <3>3. past \subseteq Todo' \/ Todo' = Rest
      BY <3>1
    <3>4. \A x \in Rest : x.do \in Stops => x \in Todo'
      BY <3>1, <3>3 DEF Stops, Hooks
    <3>5. \A x \in Todo' : x \in Rest \/ x.do \in {"hook", "stop", "failed"}
      BY <3>1, <3>2
    <3> QED
      BY <3>1, <3>4, <3>5 DEF Stops
  <2>3. CASE Closed
    <3>1. work # <<>> /\ Todo' = {} /\ Rest = {}
      BY <2>3, FreeWork DEF Steady
    <3>2. Head(work).do \notin Stops
      BY <2>3 DEF Closed, HeadIs, Stops
    <3> QED
      BY <3>1, <3>2
  <2> QED
    BY <2>1, <2>2, <2>3
<1>3. \A x \in Rest : x.do \notin {"cancelled", "stopping"}
  BY <1>2, HeadFits DEF Steady, Ongoing
<1>4. \A x \in Todo' : x.do \in {"cancelled", "stopping"} => InsideUsers(x.e) = {}
  BY <1>2, <1>3
<1>5. \A x \in Todo' : x.do \in Passes => x \in Rest
  BY <1>2 DEF Passes
<1> QED
  BY <1>1, <1>2, <1>4, <1>5, WorkWithin

\* A collection begins and stops nobody.
LEMMA CollectWithin ==
    ASSUME Steady, NoneForgotten, Collects
    PROVE  NoneBegins /\ \A f \in Entry : entry[f].state = "running" => entry'[f].state = "running"
<1>1. PICK there \in SUBSET Peripherals : Collect(there)
  BY DEF Collects
<1>2. ASSUME NEW e \in Entry, entry'[e].state \in Started
      PROVE  IsStarted(e) /\ entry'[e].bindings = entry[e].bindings /\ (IsCurrent(e)' => IsCurrent(e))
  <2>1. entry'[e] = entry[e]
    BY <1>2, CollectsDo DEF Steady, Started
  <2>2. IsStarted(e)
    BY <1>2, <2>1 DEF IsStarted
  <2>3. CASE IsCurrent(e)' /\ ~ IsCurrent(e)
    <3>1. e[1] \in Peripherals /\ e[2] \in Lives /\ e[2] # NoLife
      BY EntryOf DEF Steady, Lives, NoLife
    <3>2. known'[e[1]] = e[2] /\ known[e[1]] # e[2]
      BY <2>3 DEF IsCurrent
    <3>3. known[e[1]] = NoLife
      <4>1. \A p \in Peripherals :
                 \/ known'[p] = known[p] /\ (p \in there <=> known[p] # NoLife)
                 \/ p \notin there /\ known'[p] = NoLife
                 \/ p \in there /\ known[p] = NoLife /\ known'[p] \in Lives
        BY <1>1, CollectDoes DEF Steady
      <4> QED
        BY <3>1, <3>2, <4>1
    <3>4. entry'[e] = Adopted(e[1])
      <4>1. \A f \in Entry : known[f[1]] = NoLife /\ known'[f[1]] = f[2] =>
                 ~ IsReferred(f) /\ entry'[f] = Adopted(f[1])
        BY <1>1, CollectDoes DEF Steady
      <4> QED
        BY <3>2, <3>3, <4>1
    <3>5. Adopted(e[1]).state \in {"disabled", "failed", "waiting"}
      BY DEF Adopted, NewEntry
    <3> QED
      BY <1>2, <3>4, <3>5 DEF Started
  <2> QED
    BY <2>1, <2>2, <2>3
<1>3. \A f \in Entry : entry[f].state = "running" => entry'[f].state = "running"
  <2>1. \A f \in Entry : IsStarted(f) => entry'[f] = entry[f]
    BY CollectSpares
  <2> QED
    BY <2>1 DEF IsStarted, Started
<1> QED
  BY <1>2, <1>3 DEF NoneBegins

\* A task that goes to wait for the lock, and one that collects without it, begin nobody.
LEMMA AskingWithin ==
    ASSUME Steady, NoneForgotten, NEW t, Asking(t)
    PROVE  NoneBegins /\ \A f \in Entry : entry[f].state = "running" => entry'[f].state = "running"
<1>1. CASE UNCHANGED <<entry, known>>
  BY <1>1 DEF NoneBegins, IsStarted, IsCurrent
<1>2. CASE Collects
  BY <1>2, CollectWithin
<1> QED
  BY <1>1, <1>2 DEF Asking

\* What happens between two steps of the holder.
LEMMA OthersWithin ==
    ASSUME Steady, NoneForgotten, TypeOK', WithinUsers, WithinPass,
           Called \/ Boot \/ Retry \/ Begins \/ Ends
    PROVE  WithinUsers' /\ WithinPass'
<1>1. UNCHANGED <<hub, bound, work>> /\ Todo' = Todo
  <2>1. UNCHANGED <<hub, bound, work>>
    BY CallsDo DEF Steady, Begins, Ends, BeginStart, EndStart
  <2> QED
    BY <2>1 DEF Todo
<1>2. /\ NoneBegins
      /\ \A f \in Entry : /\ entry[f].state = "running" => entry'[f].state = "running"
  <2>1. CASE Begins \/ Ends
    <3>1. UNCHANGED <<entry, known>>
      BY <2>1 DEF Begins, Ends, BeginStart, EndStart
    <3> QED
      BY <3>1 DEF NoneBegins, IsStarted, IsCurrent
  <2>2. CASE Noting
    BY <2>2 DEF Noting, NoneBegins, IsStarted, IsCurrent
  <2>3. CASE \E t : Asking(t)
    BY <2>3, AskingWithin
  <2> QED
    BY <2>1, <2>2, <2>3, CallsDo DEF Steady
<1>3. \A f \in Entry : entry'[f].state = "running" => entry[f].state = "running"
  <2>1. CASE Begins \/ Ends
    BY <2>1 DEF Begins, Ends, BeginStart, EndStart
  <2>2. CASE Noting
    BY <2>2 DEF Noting
  <2>3. CASE \E t : Asking(t)
    <3>1. UNCHANGED entry \/ Collects
      BY <2>3 DEF Asking
    <3>2. CASE Collects
      <4>1. \A e \in Entry : entry'[e] = entry[e] \/ entry'[e].state \notin Started
        BY <3>2, CollectSpares
      <4> QED
        BY <4>1 DEF Started
    <3> QED
      BY <3>1, <3>2
  <2> QED
    BY <2>1, <2>2, <2>3, CallsDo DEF Steady
<1>4. \A x \in Todo' : x.do \in {"cancelled", "stopping"} => InsideUsers(x.e) = {}
  BY <1>1 DEF WithinUsers, UsersStopFirst
<1>5. WithinUsers'
  BY <1>1, <1>2, <1>4, WithinUsersStays
<1>6. (Resolves' => Resolves) /\ (Delivers' => Delivers) /\ \A e \in Entry : ToStop(e) => ToStop(e)'
  BY <1>1 DEF Resolves, Delivers, ToStop
<1>7. WithinPass'
  BY <1>1, <1>2, <1>3, <1>6, WithinPassStays
<1> QED
  BY <1>5, <1>7

\* What holds between two steps of the holder when it has nothing more to do.
LEMMA FreedWithin ==
    ASSUME Steady, NoneForgotten, TypeOK', WithinUsers, WithinPass, SettleChange
    PROVE  WithinUsers' /\ WithinPass'
<1>1. UNCHANGED <<hub, bound>> /\ Todo' = {} /\ Head(work).do = "settle" /\ work # <<>>
  BY FreeWork DEF Steady, SettleChange, HeadIs
<1>2. PICK t : Asking(t)
  BY ThereAre, RefreshAsks DEF SettleChange
<1>3. NoneBegins /\ \A f \in Entry : entry[f].state = "running" => entry'[f].state = "running"
  BY <1>2, AskingWithin
<1>4. WithinUsers'
  BY <1>1, <1>3, WithinUsersStays
<1>5. ~ Resolves' /\ ~ Delivers'
  BY <1>1 DEF Resolves, Delivers
<1>6. \A e \in Entry : ~ ToStop(e)
  BY <1>1, HeadNotStopping DEF Steady, ToStop, Stops
<1>7. WithinPass'
  BY <1>1, <1>3, <1>5, <1>6, WithinPassStays
<1> QED
  BY <1>4, <1>7

\* A start that ended runs, with what it was bound to.
LEMMA AcquireWithin ==
    ASSUME Steady, TypeOK', WithinUsers, WithinPass, Acquire
    PROVE  WithinUsers' /\ WithinPass'
<1> DEFINE t == Head(queue)
           x == Ended(entry[t.e], t.ok)
<1>1. /\ UNCHANGED <<hub, bound, known>> /\ Todo = {} /\ t \in TaskType /\ t.e \in Entry
      /\ UNCHANGED entry \/ (t.do = "started" /\ IsItsStart(t) /\ Becomes(t.e, x))
  BY AcquireTakes DEF Steady
<1>2. \A y \in Todo' : Free(y) \/ y.do \in {"missed", "failed"}
  <2>1. \/ Todo' = {}
        \/ \A y \in Todo' : y \in {Step("missed", t.e), Settle, Stop(t.e), Step("failed", t.e)}
        \/ t.do # "started" /\ Todo' = ToSet(StepsOf(t))
    BY AcquireTakes DEF Steady
  <2>2. t.do # "started" => \A y \in ToSet(StepsOf(t)) : Free(y)
    BY <1>1, StepsOfFree DEF Steady
  <2>3. /\ Step("missed", t.e).do = "missed" /\ Step("failed", t.e).do = "failed"
        /\ Free(Stop(t.e)) /\ Free(Settle)
    BY <1>1, FreeNames DEF Step
  <2> HIDE DEF t
  <2> QED
    BY <2>1, <2>2, <2>3
<1>3. ~ Resolves' /\ ~ Delivers'
  <2>1. \A y \in Todo' : y.do \notin {"drop", "moves", "deliver", "start"}
    <3>1. CASE t.do # "started"
      <4>1. Todo' = ToSet(StepsOf(t))
        BY <3>1, AcquireTakes DEF Steady
      <4>2. ToSet(StepsOf(t)) =
                CASE t.do \in {"boot", "refresh"} -> {Pass}
                  [] t.do = "close" -> {Stop(e) : e \in {f \in CurrentEntries : IsStarted(f)}}
                                       \cup {Step("closed", NoEntry)}
                  [] t.do = "disable" -> {StopTo(t.e, "disabled"), Settle}
                  [] t.do = "restart" -> {Stop(t.e), Step("revive", t.e), Settle}
                  [] t.do = "platform" -> {Step("platform", e) : e \in t.all} \cup {Settle}
                  [] OTHER -> {Step(t.do, t.e), Settle}
        BY <1>1, <3>1, StepsOfFit DEF Steady
      <4>3. t.do \in {"boot", "refresh", "close", "enable", "disable", "restart", "settings",
                      "platform", "fail", "quit", "started"}
        BY <1>1 DEF TaskType
      <4>4. /\ Pass.do = "pass" /\ Settle.do = "settle" /\ Step("closed", NoEntry).do = "closed"
            /\ \A e : Stop(e).do = "stop" /\ StopTo(e, "disabled").do = "stop"
            /\ \A e : Step("revive", e).do = "revive" /\ Step("platform", e).do = "platform"
            /\ Step(t.do, t.e).do = t.do
        BY DEF Pass, Settle, Step, Stop, StopTo
      <4> HIDE DEF t
      <4> QED
        BY <4>1, <4>2, <4>3, <4>4
    <3>2. CASE t.do = "started"
      <4>1. \A y \in Todo' : y \in {Step("missed", t.e), Settle, Stop(t.e), Step("failed", t.e)}
        BY <3>2, AcquireTakes DEF Steady
      <4> QED
        BY <4>1 DEF Step, Settle, Stop, StopTo
    <3> QED
      BY <3>1, <3>2
  <2> QED
    BY <2>1 DEF Resolves, Delivers
<1>4. \A y \in Todo' : y.do \in {"cancelled", "stopping"} => InsideUsers(y.e) = {}
  BY <1>2 DEF Free
<1>5. Becomes(t.e, x) /\ t.do = "started" /\ IsItsStart(t) =>
         /\ entry[t.e].state = "starting" /\ x.state \in Started
         /\ x.bindings = entry[t.e].bindings
  <2> SUFFICES ASSUME Becomes(t.e, x), t.do = "started", IsItsStart(t)
               PROVE  /\ entry[t.e].state = "starting" /\ x.state \in Started
                      /\ x.bindings = entry[t.e].bindings
    OBVIOUS
  <2>1. t \in Waiting
    BY AcquireTakes DEF Steady
  <2>2. t.n \in Tasks /\ t.n # NoTask
    BY <2>1 DEF Steady, StartsApart, Tasks, NoTask
  <2>3. entry[t.e].state = "starting"
    BY <1>1, <2>2 DEF Steady, StartsApart, IsItsStart
  <2>4. x.state \in Started
    <3>1. t.ok \in BOOLEAN
      BY <1>1 DEF TaskType
    <3> QED
      BY <1>1, <2>3, <3>1, EndedTyped DEF Started, Steady
  <2>5. x.bindings = entry[t.e].bindings
    <3>1. entry[t.e] \in EntryType(t.e[1])
      BY <1>1, EntryOf DEF Steady
    <3> HIDE DEF t
    <3> QED
      BY <3>1 DEF Ended, EntryType
  <2> QED
    BY <2>3, <2>4, <2>5
<1> HIDE DEF x, t
<1>6. /\ NoneBegins
      /\ \A f \in Entry : entry[f].state = "running" => entry'[f].state = "running"
  <2>1. CASE UNCHANGED entry
    BY <1>1, <2>1 DEF NoneBegins, IsStarted, IsCurrent
  <2>2. CASE ~ UNCHANGED entry
    <3>1. /\ entry[t.e].state = "starting" /\ x.state \in Started
          /\ x.bindings = entry[t.e].bindings
          /\ \A f \in Entry : entry'[f] = IF f = t.e THEN x ELSE entry[f]
      BY <1>1, <1>5, <2>2 DEF Becomes
    <3> QED
      BY <1>1, <3>1 DEF NoneBegins, IsStarted, IsCurrent, Started
  <2> QED
    BY <2>1, <2>2
<1>7. WithinUsers'
  BY <1>1, <1>4, <1>6, WithinUsersStays
<1>8. \A e \in Entry : ~ ToStop(e)
  BY <1>1 DEF ToStop
<1>9. WithinPass'
  BY <1>1, <1>3, <1>6, <1>8, WithinPassStays
<1> QED
  BY <1>7, <1>9

\* The rounds of the needs (BindingProofs) say what a resolution grants.
Rounds == INSTANCE BindingProofs WITH
    Worlds <- World, world <- hub.home, alive <- Known, leftOut <- {}, wanted <- {}, owner <- 1,
    need <- 1, bound <- {}, holds <- <<>>, taken <- <<>>, done <- FALSE

\* They are of the same resolution: the same bindings,
LEMMA SameBind ==
    ASSUME NEW w
    PROVE  /\ \A wide, S : Rounds!Bind(w, wide, S) = Bind(w, wide, S)
           /\ \A b : Rounds!Used(w, b) = Used(w, b)
<1>1. ASSUME NEW wide, NEW S
      PROVE  Rounds!Bind(w, wide, S) = Bind(w, wide, S)
  BY Zenon DEF Rounds!Bind, Bind, Rounds!AddOwner, AddOwner, Rounds!Added, Added, Rounds!BindOwner,
     BindOwner, Rounds!BindNext, BindNext, Rounds!BindTo, BindTo, Rounds!Unbound, Unbound,
     Rounds!GiveBack, GiveBack, Rounds!Take, Take, Rounds!Chosen, Chosen, Rounds!Candidates,
     Candidates, Rounds!NoTakers, NoTakers, Rounds!Nobody, Nobody, Rounds!Peripherals, Peripherals,
     Rounds!Endpoints, Endpoints
<1>2. ASSUME NEW b
      PROVE  Rounds!Used(w, b) = Used(w, b)
  BY Zenon DEF Rounds!Used, Used, Rounds!HeldBy, HeldBy
<1> QED
  BY <1>1, <1>2

\* the same widening,
LEMMA SameWiden ==
    ASSUME NEW w, NEW S
    PROVE  Rounds!Widen(w, S) = Widen(w, S)
<1> DEFINE One(from, wide) ==
               LET b == Rounds!Bind(w, wide, S)
               IN  IF Rounds!Used(w, b) \subseteq wide THEN [wanted |-> wide, bind |-> b]
                   ELSE from[wide \cup Rounds!Used(w, b)]
           Other(from, wide) ==
               LET b == Bind(w, wide, S)
               IN  IF Used(w, b) \subseteq wide THEN [wanted |-> wide, bind |-> b]
                   ELSE from[wide \cup Used(w, b)]
           F == CHOOSE f : f = [wide \in SUBSET Peripherals |-> One(f, wide)]
           G == CHOOSE f : f = [wide \in SUBSET Peripherals |-> Other(f, wide)]
<1>1. \A from, wide : One(from, wide) = Other(from, wide)
  <2>1. ASSUME NEW from, NEW wide
        PROVE  One(from, wide) = Other(from, wide)
    <3>1. Rounds!Bind(w, wide, S) = Bind(w, wide, S)
      BY SameBind
    <3> DEFINE b == Bind(w, wide, S)
    <3>2. Rounds!Used(w, b) = Used(w, b)
      BY SameBind
    <3> QED
      BY <3>1, <3>2, Zenon
  <2> QED
    BY <2>1
<1>2. Rounds!Widen(w, S) = F[S \ w.onDemand] /\ Widen(w, S) = G[S \ w.onDemand]
  BY Zenon DEF Rounds!Widen, Widen, Rounds!Peripherals, Peripherals
<1>3. F = G
  <2> HIDE DEF One, Other
  <2>1. \A f : [wide \in SUBSET Peripherals |-> One(f, wide)]
             = [wide \in SUBSET Peripherals |-> Other(f, wide)]
    BY <1>1, Zenon
  <2> QED
    BY <2>1, Zenon
<1> QED
  BY <1>2, <1>3

\* and the same leaving out.
LEMMA SameResolve ==
    ASSUME NEW w, NEW A
    PROVE  Rounds!Resolve(w, A) = Resolve(w, A)
<1> DEFINE One(without, out) ==
               LET r == Rounds!Widen(w, A \ out)
                   unbound == r.wanted \ r.bind.bound
               IN  IF unbound = {}
                   THEN [wanted |-> r.wanted, holds |-> r.bind.holds, taken |-> r.bind.taken]
                   ELSE without[out \cup unbound]
           Other(without, out) ==
               LET r == Widen(w, A \ out)
                   unbound == r.wanted \ r.bind.bound
               IN  IF unbound = {}
                   THEN [wanted |-> r.wanted, holds |-> r.bind.holds, taken |-> r.bind.taken]
                   ELSE without[out \cup unbound]
           F == CHOOSE f : f = [out \in SUBSET Peripherals |-> One(f, out)]
           G == CHOOSE f : f = [out \in SUBSET Peripherals |-> Other(f, out)]
<1>1. \A without, out : One(without, out) = Other(without, out)
  <2>1. ASSUME NEW without, NEW out
        PROVE  One(without, out) = Other(without, out)
    <3>1. Rounds!Widen(w, A \ out) = Widen(w, A \ out)
      BY SameWiden
    <3> QED
      BY <3>1, Zenon
  <2> QED
    BY <2>1
<1>2. Rounds!Resolve(w, A) = F[{}] /\ Resolve(w, A) = G[{}]
  BY Zenon DEF Rounds!Resolve, Resolve, Rounds!Peripherals, Peripherals
<1>3. F = G
  <2> HIDE DEF One, Other
  <2>1. \A f : [out \in SUBSET Peripherals |-> One(f, out)]
             = [out \in SUBSET Peripherals |-> Other(f, out)]
    BY <1>1, Zenon
  <2> QED
    BY <2>1, Zenon
<1> QED
  BY <1>2, <1>3

\* And of the same worlds.
LEMMA SameWorlds == Rounds!World = World /\ Rounds!Peripherals = Peripherals
BY Zenon DEF Rounds!World, World, Rounds!Need, Need, Rounds!Peripherals, Peripherals,
   Rounds!Endpoints, Endpoints

\* What BindingProofs assumes.
LEMMA RoundsAssume ==
    NumPeripherals \in Nat /\ NumEndpoints \in Nat /\ Rounds!World \subseteq Rounds!World
    /\ World \subseteq Rounds!World
BY NumAssumption, SameWorlds

\* What a resolution grants: of those alive, with what each of its required needs accepts.
LEMMA Grants ==
    ASSUME NEW w \in World, NEW A \in SUBSET Peripherals
    PROVE  /\ Resolve(w, A).wanted \subseteq A
           /\ \A p \in Resolve(w, A).wanted : \A i \in DOMAIN w.needs[p] :
                /\ \A x \in Resolve(w, A).holds[p][i] :
                      /\ x \in w.needs[p][i].accepts
                      /\ w.provider[x] \in Resolve(w, A).wanted
                /\ w.needs[p][i].required => Resolve(w, A).holds[p][i] # {}
<1>1. \A v \in Rounds!World, B \in SUBSET Rounds!Peripherals :
        LET r == Rounds!Resolve(v, B)
        IN  /\ r.wanted \subseteq B
            /\ \A p \in r.wanted : \A i \in DOMAIN v.needs[p] :
                  Rounds!Meets(v, p, i, r.wanted, r.holds[p][i])
  BY Rounds!ResolveGrants, RoundsAssume
<1>2. LET r == Resolve(w, A)
      IN  /\ r.wanted \subseteq A
          /\ \A p \in r.wanted : \A i \in DOMAIN w.needs[p] :
                  Rounds!Meets(w, p, i, r.wanted, r.holds[p][i])
  BY <1>1, SameWorlds, SameResolve
<1> QED
  BY <1>2 DEF Rounds!Meets

\* What is resolved has its required needs met, each by the entry there is.
LEMMA ResolvedMeets ==
    ASSUME TypeOK, NEW lives \in [Peripherals -> Lives \cup {NoLife}], NEW entries
    PROVE  LET b == Resolved(lives, entries)
           IN  \A p \in b.wanted : \A i \in Required(p) :
                  /\ IsMet(p, i, b.links[p][i])
                  /\ \A l \in b.links[p][i] : l[2] = lives[Provider(l)[1]]
<1> DEFINE w == [hub.home EXCEPT !.offers = offers]
           A == {p \in Peripherals : lives[p] # NoLife
                                     /\ entries[<<p, lives[p]>>].state \notin GivenUp}
           r == Resolve(w, A)
           links(p, i) == {l \in Link : l[2] = lives[hub.home.provider[l[1]]] /\ l[1] \in r.holds[p][i]}
           b == Resolved(lives, entries)
<1>1. hub.home \in World
  BY HubsAssumption DEF TypeOK
<1>2. w \in World /\ w.needs = hub.home.needs /\ w.provider = hub.home.provider
  <2>1. offers \subseteq Endpoints
    BY DEF TypeOK
  <2> QED
    BY <1>1, <2>1 DEF World
<1>3. A \subseteq Peripherals /\ \A q \in A : lives[q] \in Lives
  OBVIOUS
<1>4. /\ b.wanted = A \cap r.wanted
      /\ \A p \in Peripherals : \A i \in DOMAIN hub.home.needs[p] : b.links[p][i] = links(p, i)
  BY DEF Resolved
<1>5. hub.home.provider \in [Endpoints -> Peripherals] /\ hub.home.needs \in [Peripherals -> Seq(Need)]
  BY <1>1 DEF World
<1> HIDE DEF b, A, w
<1>6. /\ r.wanted \subseteq A
      /\ \A p \in r.wanted : \A i \in DOMAIN hub.home.needs[p] :
            /\ \A x \in r.holds[p][i] : /\ x \in hub.home.needs[p][i].accepts
                                        /\ hub.home.provider[x] \in r.wanted
            /\ hub.home.needs[p][i].required => r.holds[p][i] # {}
  BY <1>2, <1>3, Grants
<1> HIDE DEF r
<1> SUFFICES ASSUME NEW p \in b.wanted, NEW i \in Required(p)
             PROVE  /\ IsMet(p, i, b.links[p][i])
                    /\ \A l \in b.links[p][i] : l[2] = lives[Provider(l)[1]]
  BY DEF b
<1>7. p \in Peripherals /\ p \in r.wanted /\ i \in DOMAIN hub.home.needs[p]
      /\ hub.home.needs[p][i].required
  BY <1>3, <1>4 DEF Required
<1>8. b.links[p][i] = links(p, i)
  BY <1>4, <1>7
<1>9. \A l \in links(p, i) : l[1] \in hub.home.needs[p][i].accepts
  BY <1>6, <1>7
<1>10. links(p, i) # {}
  <2>1. PICK x : x \in r.holds[p][i]
    BY <1>6, <1>7
  <2>2. x \in hub.home.needs[p][i].accepts /\ hub.home.provider[x] \in A
    BY <1>6, <1>7, <2>1
  <2>3. x \in Endpoints
    <3>1. hub.home.needs[p][i] \in Need
      BY <1>5, <1>7
    <3> QED
      BY <2>2, <3>1 DEF Need
  <2>4. <<x, lives[hub.home.provider[x]]>> \in Link
    BY <1>3, <2>2, <2>3 DEF Link
  <2>5. <<x, lives[hub.home.provider[x]]>> \in links(p, i)
    BY <2>1, <2>4
  <2> QED
    BY <2>5
<1>11. \A l \in links(p, i) : l[2] = lives[Provider(l)[1]]
  BY DEF Provider
<1> HIDE DEF links
<1> QED
  BY <1>8, <1>9, <1>10, <1>11 DEF IsMet

\* A pass that begins binds what should run to what is there.
LEMMA BeginPassWithin ==
    ASSUME Steady, NoneForgotten, TypeOK', WithinUsers, WithinPass, BeginPass
    PROVE  WithinUsers' /\ WithinPass'
<1>1. hub' = hub /\ bound' = Resolved(known', entry') /\ Collects
  BY PassCollects DEF BeginPass
<1>2. Todo' = {Stop(e) : e \in Gone} \cup {Step("drop", NoEntry)}
  BY BeginPassWork DEF Steady
<1>3. \A x \in Todo' : x.do \in {"stop", "drop"}
  BY <1>2 DEF Stop, StopTo, Step
<1>4. NoneBegins /\ \A f \in Entry : entry[f].state = "running" => entry'[f].state = "running"
  BY <1>1, CollectWithin
<1>5. WithinUsers'
  BY <1>1, <1>3, <1>4, WithinUsersStays
<1>6. known' \in [Peripherals -> Lives \cup {NoLife}]
  BY DEF TypeOK, Lives
<1>7. \A p \in bound'.wanted : \A i \in Required(p) :
         /\ IsMet(p, i, bound'.links[p][i])
         /\ \A l \in bound'.links[p][i] : l[2] = known'[Provider(l)[1]]
  BY <1>1, <1>6, ResolvedMeets DEF Steady
<1>8. WantedAreMet'
  BY <1>1, <1>7 DEF WantedAreMet, IsMet, Required
<1>9. LinksAreCurrent'
  <2> SUFFICES ASSUME NEW p \in bound'.wanted, NEW i \in Required(p),
                      NEW l \in bound'.links[p][i], NEW f \in Entry, IsCurrent(f)',
                      f[1] = Provider(l)[1]
               PROVE  f = Provider(l)
    BY <1>1 DEF LinksAreCurrent, Required, Provider, Entry, Lives
  <2>1. f[2] = l[2]
    BY <1>7 DEF IsCurrent
  <2> QED
    BY <2>1, EntryOf DEF Provider, Steady
<1>10. StartedAreWanted'
  BY <1>3 DEF StartedAreWanted, Delivers
<1> QED
  BY <1>5, <1>8, <1>9, <1>10 DEF WithinPass

\* What started and should not run is stopped.
LEMMA DropWithin ==
    ASSUME Steady, NoneForgotten, TypeOK', WithinUsers, WithinPass, DropUnwanted
    PROVE  WithinUsers' /\ WithinPass'
<1> DEFINE unwanted == {e \in CurrentEntries : IsStarted(e) /\ e[1] \notin bound.wanted}
<1>1. /\ work # <<>> /\ Head(work).do = "drop"
      /\ Todo' = {Stop(e) : e \in unwanted} \cup {Step("moves", NoEntry)}
  BY DropUnwantedWork DEF Steady
<1>2. UNCHANGED <<hub, known, bound, entry>>
  BY DEF DropUnwanted
<1>3. NoneBegins
  BY <1>2 DEF NoneBegins, IsStarted, IsCurrent
<1>4. \A x \in Todo' : x.do \in {"stop", "moves"}
  BY <1>1 DEF Stop, StopTo, Step
<1>5. WithinUsers'
  BY <1>2, <1>3, <1>4, WithinUsersStays
<1>6. Resolves
  BY <1>1, HeadFits DEF Steady, Resolves
<1>7. WantedAreMet'
  BY <1>2 DEF WithinPass, WantedAreMet, IsMet, Required
<1>8. LinksAreCurrent'
  BY <1>2, <1>6 DEF WithinPass, LinksAreCurrent, Required, Provider, IsCurrent, Entry, Lives
<1>9. StartedAreWanted'
  <2> SUFFICES ASSUME NEW e \in Entry, IsStarted(e)
               PROVE  e[1] \in bound.wanted \/ ToStop(e)'
    BY <1>2 DEF StartedAreWanted, IsStarted, Entry, Lives
  <2>1. ~ ToStop(e)
    BY <1>1, HeadNotStopping DEF Steady, ToStop, Stops
  <2>2. e \in CurrentEntries
    BY <2>1, CurrentTyped DEF Steady, NoneForgotten, StopsLater
  <2>3. e \in unwanted => Stop(e) \in Todo'
    BY <1>1
  <2>4. Stop(e).do \in Stops /\ Stop(e).e = e
    BY DEF Stop, StopTo, Stops
  <2> QED
    BY <2>2, <2>3, <2>4 DEF ToStop
<1> QED
  BY <1>5, <1>7, <1>8, <1>9 DEF WithinPass

\* Those there are get their turn.
LEMMA BeginDeliverWithin ==
    ASSUME Steady, TypeOK', WithinUsers, WithinPass, BeginDeliver
    PROVE  WithinUsers' /\ WithinPass'
<1>1. /\ work # <<>> /\ Head(work).do = "moves" /\ Head(work) \in Todo
      /\ Todo' = {Step("deliver", e) : e \in CurrentEntries} \cup {Step("start", NoEntry)}
  BY BeginDeliverWork, HeadFits DEF Steady
<1>2. UNCHANGED <<hub, known, bound, entry>>
  BY DEF BeginDeliver
<1>3. NoneBegins
  BY <1>2 DEF NoneBegins, IsStarted, IsCurrent
<1>4. \A x \in Todo' : x.do \in {"deliver", "start"}
  BY <1>1 DEF Step
<1>5. WithinUsers'
  BY <1>2, <1>3, <1>4, WithinUsersStays
<1>6. Resolves /\ Delivers
  BY <1>1 DEF Resolves, Delivers
<1>7. \A e \in Entry : ~ ToStop(e)
  BY <1>1, HeadNotStopping DEF Steady, ToStop, Stops
<1>8. WithinPass'
  BY <1>2, <1>3, <1>6, <1>7, WithinPassStays
<1> QED
  BY <1>5, <1>8

\* A delivery hands one that runs its bindings of now, and nobody else anything.
LEMMA DeliverHands ==
    ASSUME TypeOK, WorkInOrder, Deliver
    PROVE  LET e == Head(work).e
           IN  \A f \in Entry :
                  \/ entry'[f].bindings = entry[f].bindings
                  \/ f = e /\ entry[f].state = "running" /\ entry'[f].bindings = Handed(f)
<1> DEFINE e == Head(work).e
           now == Handed(e)
           v == IF entry[e].state # "starting" /\ now # entry[e].stoppedWith.on
                THEN NotStopped ELSE entry[e].stoppedWith
           x == [entry[e] EXCEPT !.bindings = now]
           y == [entry[e] EXCEPT !.stoppedWith = v]
<1>1. /\ work # <<>>
      /\ \/ entry[e].state = "running" /\ entry' = [entry EXCEPT ![e].bindings = now]
         \/ entry' = [entry EXCEPT ![e].stoppedWith =
                          IF entry[e].state # "starting" /\ now # @.on THEN NotStopped ELSE @]
  BY DEF Deliver, HeadIs
<1>2. e \in Entry /\ entry[e] \in EntryType(e[1]) /\ DOMAIN entry = Entry
  BY <1>1, HeadTyped, EntryOf
<1> HIDE DEF now
<1>3. \/ entry[e].state = "running" /\ entry' = [entry EXCEPT ![e] = x]
      \/ entry' = [entry EXCEPT ![e] = y]
  BY <1>1
<1> HIDE DEF v
<1>4. x.bindings = now /\ y.bindings = entry[e].bindings
  BY <1>2 DEF EntryType
<1> HIDE DEF x, y, e
<1>5. CASE entry[e].state = "running" /\ entry' = [entry EXCEPT ![e] = x]
  BY <1>2, <1>4, <1>5 DEF now, e
<1>6. CASE entry' = [entry EXCEPT ![e] = y]
  BY <1>2, <1>4, <1>6 DEF e
<1> QED
  BY <1>3, <1>5, <1>6

\* What is inside another one is not moved out of it: its need has one provider, of which the
\* entry that runs is the one bound.
LEMMA DeliverWithin ==
    ASSUME InsideByOne, Steady, NoneForgotten, TypeOK', WithinUsers, WithinPass, Deliver
    PROVE  WithinUsers' /\ WithinPass'
<1> DEFINE e == Head(work).e
<1>1. /\ work # <<>> /\ Head(work).do = "deliver" /\ e \in Entry /\ Head(work) \in Todo
      /\ Rest \subseteq Todo' /\ Todo' \ {Step("tell_need", e)} = Rest \ {Step("tell_need", e)}
  BY DeliverWork, HeadFits DEF Steady
<1>2. UNCHANGED <<hub, known, bound>> /\ \A f \in Entry : entry'[f].state = entry[f].state
  BY MarksDo DEF Steady, Marking
<1>3. \A f \in Entry : \/ entry'[f].bindings = entry[f].bindings
                       \/ f = e /\ entry[f].state = "running" /\ entry'[f].bindings = Handed(f)
  BY DeliverHands DEF Steady
<1>4. \A f \in Entry : ~ ToStop(f)
  BY <1>1, HeadNotStopping DEF Steady, ToStop, Stops
<1>5. Delivers /\ Resolves
  BY <1>1 DEF Delivers, Resolves
<1>6. \A f \in Entry : IsStarted(f) => f[1] \in bound.wanted /\ IsCurrent(f)
  BY <1>4, <1>5 DEF WithinPass, StartedAreWanted, NoneForgotten, StopsLater
<1>7. \A f \in Entry : \A i \in Required(f[1]) : Handed(f)[i] = bound.links[f[1]][i]
  BY DEF Handed, Required
<1> HIDE DEF e
<1>8. StartedAreMet'
  <2> SUFFICES ASSUME NEW f \in Entry, entry'[f].state \in Started, NEW i \in Required(f[1])
               PROVE  IsMet(f[1], i, entry'[f].bindings[i])
    BY <1>2 DEF StartedAreMet, IsStarted, IsMet, Required, Entry, Lives
  <2>1. IsStarted(f) /\ f[1] \in bound.wanted
    BY <1>2, <1>6 DEF IsStarted
  <2>2. CASE entry'[f].bindings = entry[f].bindings
    BY <2>1, <2>2 DEF WithinUsers, StartedAreMet
  <2>3. CASE entry'[f].bindings = Handed(f)
    BY <1>7, <2>1, <2>3 DEF WithinPass, WantedAreMet
  <2> QED
    BY <1>3, <2>2, <2>3
<1>9. InsideRunsWithin'
  <2> SUFFICES ASSUME NEW u \in CurrentEntries', entry'[u].state \in Started,
                      NEW i \in Required(u[1]), NEW l \in entry'[u].bindings[i], l[1] \in hub.inside
               PROVE  entry'[Provider(l)].state = "running"
    BY <1>2 DEF InsideRunsWithin, IsStarted, Provider, Required
  <2>1. u \in Entry /\ u \in CurrentEntries /\ IsStarted(u)
    <3>1. u \in Entry /\ IsCurrent(u)'
      BY <1>2, CurrentNext
    <3>2. IsCurrent(u) /\ IsStarted(u)
      BY <1>2, <3>1 DEF IsCurrent, IsStarted
    <3> QED
      BY <3>1, <3>2, CurrentTyped DEF Steady
  <2>2. CASE entry'[u].bindings = entry[u].bindings
    <3>1. entry[Provider(l)].state = "running" /\ Provider(l) \in Entry
      BY <2>1, <2>2, LinkTyped DEF WithinUsers, InsideRunsWithin, Steady
    <3> QED
      BY <1>2, <3>1
  <2>3. CASE entry'[u].bindings = Handed(u)
    <3> DEFINE need == hub.home.needs[u[1]][i]
    <3>1. l \in bound.links[u[1]][i] /\ u[1] \in bound.wanted
      BY <1>6, <1>7, <2>1, <2>3
    <3>2. l[1] \in need.accepts
      BY <3>1 DEF WithinPass, WantedAreMet, IsMet
    <3>3. PICK m \in entry[u].bindings[i] : m[1] \in need.accepts
      BY <2>1 DEF WithinUsers, StartedAreMet, IsMet
    <3>4. m[1] \in hub.inside /\ hub.home.provider[m[1]] = hub.home.provider[l[1]]
      <4>1. /\ hub \in Hubs /\ u[1] \in Peripherals /\ i \in DOMAIN hub.home.needs[u[1]]
            /\ need.required
        BY <2>1, EntryOf DEF Steady, TypeOK, Required
      <4>2. need.accepts \cap hub.inside # {} =>
              /\ need.accepts \subseteq hub.inside
              /\ \A x, y \in need.accepts : hub.home.provider[x] = hub.home.provider[y]
        BY <4>1 DEF InsideByOne
      <4> HIDE DEF need
      <4> QED
        BY <3>2, <3>3, <4>2
    <3>5. entry[Provider(m)].state = "running" /\ Provider(m) \in Entry
      BY <2>1, <3>3, <3>4, LinkTyped DEF WithinUsers, InsideRunsWithin, Steady
    <3>6. IsCurrent(Provider(m))
      BY <1>6, <3>5 DEF IsStarted, Started
    <3>7. Provider(m)[1] = Provider(l)[1]
      BY <3>4 DEF Provider
    <3>8. Provider(m) = Provider(l)
      BY <1>5, <3>1, <3>5, <3>6, <3>7 DEF WithinPass, LinksAreCurrent
    <3> QED
      BY <1>2, <3>5, <3>8
  <2> QED
    BY <1>3, <2>1, <2>2, <2>3
<1>10. \A x \in Todo' : x.do \notin {"cancelled", "stopping"}
  <2>1. \A x \in Rest : x.do \notin {"cancelled", "stopping"}
    BY <1>1, HeadFits DEF Steady, Ongoing
  <2>2. Step("tell_need", e).do = "tell_need"
    BY DEF Step
  <2> QED
    BY <1>1, <2>1, <2>2
<1>11. UsersStopFirst'
  BY <1>10 DEF UsersStopFirst
<1>12. WantedAreMet'
  BY <1>2 DEF WithinPass, WantedAreMet, IsMet, Required
<1>13. LinksAreCurrent'
  BY <1>2, <1>5 DEF WithinPass, LinksAreCurrent, Required, Provider, IsCurrent, Entry, Lives
<1>14. StartedAreWanted'
  BY <1>2, <1>6 DEF StartedAreWanted, IsStarted, Entry, Lives
<1> QED
  BY <1>8, <1>9, <1>11, <1>12, <1>13, <1>14 DEF WithinUsers, WithinPass

\* What starts has its providers running.
LEMMA EndPassWithin ==
    ASSUME Steady, NoneForgotten, TypeOK', WithinUsers, WithinPass, EndPass
    PROVE  WithinUsers' /\ WithinPass'
<1> DEFINE S == {Current(p) : p \in {q \in Known : CanStart(q)}}
<1>1. /\ work # <<>> /\ Head(work).do = "start" /\ Head(work) \in Todo
      /\ \A x \in Todo' : x.do = "pass"
  BY EndPassWork, HeadFits DEF Steady, Pass, Step
<1>2. UNCHANGED <<hub, known, bound>>
  BY DEF EndPass
<1>3. \A e \in Entry :
         IF e \notin S THEN entry'[e] = entry[e]
         ELSE entry'[e].state = "starting" /\ entry'[e].bindings = Handed(e)
  <2>1. entry' = [e \in Entry |->
                IF e \notin S THEN entry[e]
                ELSE [entry[e] EXCEPT !.state = "starting", !.bindings = Handed(e),
                                      !.toldFailure = FALSE, !.stopping = FALSE,
                                      !.missedSettings = FALSE, !.missedPlatform = FALSE,
                                      !.task = NewTask(e)]]
    BY DEF EndPass
  <2> HIDE DEF S
  <2> QED
    BY <2>1, EntryOf DEF EntryType, Steady
<1>4. \A e \in S : /\ e \in Entry /\ entry[e].state = "waiting" /\ e[1] \in bound.wanted
                   /\ \A i \in Required(e[1]) : \A l \in bound.links[e[1]][i] :
                         IsServing(Provider(l)[1])
  <2> SUFFICES ASSUME NEW p \in Known, CanStart(p)
               PROVE  LET e == Current(p)
                      IN  /\ e \in Entry /\ entry[e].state = "waiting" /\ e[1] \in bound.wanted
                          /\ \A i \in Required(e[1]) : \A l \in bound.links[e[1]][i] :
                                IsServing(Provider(l)[1])
    OBVIOUS
  <2>1. Current(p) \in Entry /\ Current(p)[1] = p
    BY CurrentTyped DEF Steady
  <2> QED
    BY <2>1 DEF CanStart
<1>5. Resolves
  BY <1>1 DEF Resolves
<1>6. \A f \in Entry : \A i \in Required(f[1]) : Handed(f)[i] = bound.links[f[1]][i]
  BY DEF Handed, Required
<1> HIDE DEF S
<1>7. \A f \in Entry : entry[f].state = "running" => entry'[f].state = "running"
  BY <1>3, <1>4
<1>8. StartedAreMet'
  <2> SUFFICES ASSUME NEW f \in Entry, entry'[f].state \in Started, NEW i \in Required(f[1])
               PROVE  IsMet(f[1], i, entry'[f].bindings[i])
    BY <1>2 DEF StartedAreMet, IsStarted, IsMet, Required, Entry, Lives
  <2>1. CASE f \notin S
    <3>1. IsStarted(f) /\ entry'[f] = entry[f]
      BY <1>3, <2>1 DEF IsStarted
    <3> QED
      BY <3>1 DEF WithinUsers, StartedAreMet
  <2>2. CASE f \in S
    <3>1. entry'[f].bindings[i] = bound.links[f[1]][i] /\ f[1] \in bound.wanted
      BY <1>3, <1>4, <1>6, <2>2
    <3> QED
      BY <3>1 DEF WithinPass, WantedAreMet
  <2> QED
    BY <2>1, <2>2
<1>9. InsideRunsWithin'
  <2> SUFFICES ASSUME NEW u \in CurrentEntries', entry'[u].state \in Started,
                      NEW i \in Required(u[1]), NEW l \in entry'[u].bindings[i], l[1] \in hub.inside
               PROVE  entry'[Provider(l)].state = "running"
    BY <1>2 DEF InsideRunsWithin, IsStarted, Provider, Required
  <2>1. u \in Entry /\ IsCurrent(u)
    <3>1. u \in Entry /\ IsCurrent(u)'
      BY <1>2, CurrentNext
    <3> QED
      BY <1>2, <3>1 DEF IsCurrent
  <2>2. CASE u \notin S
    <3>1. u \in CurrentEntries /\ IsStarted(u) /\ entry'[u] = entry[u]
      BY <1>3, <2>1, <2>2, CurrentTyped DEF IsStarted, Steady
    <3>2. entry[Provider(l)].state = "running" /\ Provider(l) \in Entry
      BY <2>1, <3>1, LinkTyped DEF WithinUsers, InsideRunsWithin, Steady
    <3> QED
      BY <1>7, <3>2
  <2>3. CASE u \in S
    <3>1. l \in bound.links[u[1]][i] /\ u[1] \in bound.wanted /\ IsServing(Provider(l)[1])
      BY <1>3, <1>4, <1>6, <2>3
    <3>2. PICK f \in Entry : IsCurrent(f) /\ f[1] = Provider(l)[1] /\ entry[f].state = "running"
      BY <3>1, CurrentTyped DEF IsServing, Steady
    <3>3. f = Provider(l)
      BY <1>5, <3>1, <3>2 DEF WithinPass, LinksAreCurrent
    <3> QED
      BY <1>7, <3>2, <3>3
  <2> QED
    BY <2>2, <2>3
<1>10. UsersStopFirst'
  BY <1>1 DEF UsersStopFirst
<1>11. WantedAreMet'
  BY <1>2 DEF WithinPass, WantedAreMet, IsMet, Required
<1>12. LinksAreCurrent' /\ StartedAreWanted'
  BY <1>1 DEF LinksAreCurrent, StartedAreWanted, Resolves, Delivers
<1> QED
  BY <1>8, <1>9, <1>10, <1>11, <1>12 DEF WithinUsers, WithinPass

\* Every step keeps it.
LEMMA WithinStays ==
    ASSUME InsideByOne, Steady, NoneForgotten, TypeOK', WithinUsers, WithinPass, [Next]_vars
    PROVE  WithinUsers' /\ WithinPass'
<1>1. CASE UNCHANGED vars
  <2>1. UNCHANGED <<hub, known, bound, entry, work>>
    BY <1>1 DEF vars
  <2>2. NoneBegins
    BY <2>1 DEF NoneBegins, IsStarted, IsCurrent
  <2>3. Todo' = Todo /\ \A f \in Entry : entry'[f] = entry[f]
    BY <2>1 DEF Todo
  <2>4. \A x \in Todo' : x.do \in {"cancelled", "stopping"} => InsideUsers(x.e) = {}
    BY <2>3 DEF WithinUsers, UsersStopFirst
  <2>5. WithinUsers'
    BY <2>1, <2>2, <2>3, <2>4, WithinUsersStays
  <2>6. (Resolves' => Resolves) /\ (Delivers' => Delivers) /\ \A e \in Entry : ToStop(e) => ToStop(e)'
    BY <2>3 DEF Resolves, Delivers, ToStop
  <2>7. WithinPass'
    BY <2>1, <2>2, <2>3, <2>6, WithinPassStays
  <2> QED
    BY <2>5, <2>7
<1>2. CASE Holder
  BY <1>2, AcquireWithin, FreedWithin, MarkedWithin, StateWithin, StopsWithin, HookWithin,
     BeginPassWithin, DropWithin, BeginDeliverWithin, DeliverWithin, EndPassWithin DEF Holder
<1>3. CASE Boot \/ Begins \/ Ends \/ Retry \/ Called
  BY <1>3, OthersWithin
<1> QED
  BY <1>1, <1>2, <1>3 DEF Next

\* What runs inside another one's process object runs only while that one does, and the entry
\* that runs is the one it is bound to: no stop, restart, replacement, failure or refresh comes
\* between (`_stop`, which stops `_inside_of` first, `_deliver`, `_start_ready`).
THEOREM InsideIsServed ==
    ASSUME ClosesWhole, InsideByOne
    PROVE  Spec => []InsideRunsWithin
<1>1. Init => WithinUsers /\ WithinPass
  <2> SUFFICES ASSUME Init
               PROVE  WithinUsers /\ WithinPass
    OBVIOUS
  <2>1. Todo = {} /\ bound.wanted = {}
    BY DEF Init, Todo, ToSet
  <2>2. \A e \in Entry : ~ IsStarted(e)
    BY DEF Init, NewEntry, IsStarted, Started
  <2>3. CurrentEntries \subseteq Entry
    BY SteadyAtFirst, CurrentTyped DEF Steady
  <2>4. WithinUsers
    BY <2>1, <2>2, <2>3 DEF WithinUsers, InsideRunsWithin, StartedAreMet, UsersStopFirst
  <2>5. WithinPass
    BY <2>1 DEF WithinPass, WantedAreMet, LinksAreCurrent, StartedAreWanted, Resolves, Delivers
  <2> QED
    BY <2>4, <2>5
<1>2. Orderliness /\ WithinUsers /\ WithinPass /\ [Next]_vars => (WithinUsers /\ WithinPass)'
  <2> SUFFICES ASSUME Orderliness, WithinUsers, WithinPass, [Next]_vars
               PROVE  WithinUsers' /\ WithinPass'
    OBVIOUS
  <2>1. Steady /\ NoneForgotten
    BY DEF Orderliness
  <2>2. TypeOK'
    BY <2>1, SteadyStays DEF Steady
  <2> QED
    BY <2>1, <2>2, WithinStays
<1>3. WithinUsers => InsideRunsWithin
  BY DEF WithinUsers
<1> QED
  BY <1>1, <1>2, <1>3, AlwaysOrderly, PTL DEF Spec
=============================================================================
