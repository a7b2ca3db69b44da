----------------------------- MODULE PartsProofs -----------------------------
(***************************************************************************)
(* Theorems about the Parts, for any values of their constants: each keeps *)
(* what it promises, by the inductive invariant its module ends with.      *)
(***************************************************************************)
EXTENDS Parts, ComposeProofs, WellFoundedInduction

-----------------------------------------------------------------------------
(* Border routers: what BorderRouter promises of the networks it joins. *)

LEMMA RouterStarts == R!Init => R!IInv
<1> SUFFICES ASSUME R!Init PROVE R!IInv
  OBVIOUS
<1>1. R!AtACall
  BY DEF R!Init, R!AtACall, R!Parts, R!Calls, R!Off, R!Step, R!None
<1>2. R!TypeOK
  BY DEF R!Init, R!TypeOK, R!Off, R!Step, R!None
<1> QED
  BY <1>1, <1>2, RouterAssumption DEF R!Init, R!IInv, R!TypeOK, R!AtACall, R!Parts, R!Calls, R!JoinsRight,
      R!JoinedIsOn, R!ReadsZigbee,
   R!SeenStands, R!IsOnItsWay, R!ToldAsItStays, R!Off, R!Step, R!NoNetwork, R!Network, R!None

LEMMA RouterStep ==
    ASSUME R!IInv, [R!Next]_(R!vars)
    PROVE  R!IInv'
<1> USE RouterAssumption DEF R!IInv, R!TypeOK, R!AtACall, R!Parts, R!Calls, R!JoinsRight, R!JoinedIsOn,
    R!ReadsZigbee,
   R!SeenStands, R!IsOnItsWay, R!ToldAsItStays, R!Off, R!Step, R!NoNetwork, R!Network, R!Begins, R!None,
       R!router, R!IsMultiPan, R!Heading
<1>1. CASE R!Start
  <2>1. PICK stored \in R!Stored : v2' \in R!Restored(stored[1]) /\ v3' \in R!Following(v2', stored[2])
    BY <1>1 DEF R!Start
  <2>2. v2' \in R!Network \cup {R!NoNetwork} /\ v3' \in R!Network \cup {R!NoNetwork}
    <3>1. stored[1] \in R!Network \cup {R!NoNetwork} /\ stored[2] \in R!Network \cup {R!NoNetwork}
      BY <2>1 DEF R!Stored
    <3>2. v2' \in R!Network \cup {R!NoNetwork}
      BY <2>1, <3>1 DEF R!Restored
    <3> QED
      BY <2>1, <3>1, <3>2 DEF R!Following
  <2>3. /\ v7' = IF v1 # "own" THEN R!Step("channel", "pending") ELSE R!Step("join", "active")
        /\ v4' \in BOOLEAN
        /\ v1' = IF v1 = "own" THEN "own"
                 ELSE IF R!Heading(v2', v3').channel = Zigbee THEN "followed" ELSE "apart"
        /\ v6' = v5 /\ UNCHANGED <<v5, v8, v9, v10>>
    BY <1>1 DEF R!Start, R!IsMultiPan
  <2>4. v7' \in [part : R!Parts, call : R!Calls] /\ v7'.part \in {"channel", "join"}
      /\ v7'.call \in {"pending", "active"} /\ (v7'.part = "channel" <=> v1' # "own")
    BY <2>3
  <2>5. R!TypeOK'
    BY <2>2, <2>3, <2>4
  <2>6. v1' = "followed" => v2' # R!NoNetwork
    BY <2>2, <2>3 DEF R!Heading
  <2>7. R!ReadsZigbee'
    BY <2>3, <2>4, <2>6 DEF R!IsMultiPan
  <2> QED
    BY <2>4, <2>5, <2>7
<1>2. CASE R!Stop
  BY <1>2 DEF R!Stop
<1>3. CASE R!Lands
  BY <1>3 DEF R!Lands
<1>4. CASE R!Fails
  BY <1>4 DEF R!Fails
<1>5. ASSUME NEW n \in [name : Networks, channel : Channels], R!Learn(n) PROVE R!IInv'
  BY <1>5 DEF R!Learn
<1>6. CASE R!ReadPending
  BY <1>6 DEF R!ReadPending
<1>7. CASE R!ReadChannel
  <2>1. v1 # "own" /\ UNCHANGED <<v1, v2, v3, v4, v5, v8, v10>>
    BY <1>7 DEF R!ReadChannel
  <2>2. CASE v2 = R!NoNetwork
    <3>1. v7' = R!Step("channel", "pending") /\ UNCHANGED <<v6, v9>>
      BY <1>7, <2>2 DEF R!ReadChannel
    <3> QED
      BY <1>7, <2>1, <3>1 DEF R!ReadChannel
  <2>3. CASE v2 # R!NoNetwork
    <3>1. v7' = R!Step("join", "active") /\ v9' = R!OrMoving.channel /\ v6' = v5
      BY <1>7, <2>3 DEF R!ReadChannel
    <3>2. R!OrMoving \in R!Network
      BY <2>3 DEF R!OrMoving, R!PendingSeen
    <3>3. v1 = "followed" => R!OrMoving.channel = Zigbee
      BY <1>7, <2>3 DEF R!ReadChannel, R!OrMoving, R!PendingSeen
    <3> QED
      BY <2>1, <3>1, <3>2, <3>3
  <2> QED
    BY <2>2, <2>3
<1>8. CASE R!ReadMove
  <2>1. UNCHANGED <<v1, v2, v3, v4, v5, v6, v8, v9, v10>> /\ v1 # "own"
    BY <1>8 DEF R!ReadMove
  <2>2. v2 # R!NoNetwork
    BY <1>8 DEF R!ReadMove
  <2>3. CASE R!OrMoving.channel = v9
    <3>1. v7' = R!Step("tell", "pending")
      BY <1>8, <2>3 DEF R!ReadMove
    <3>2. R!Heading(v2, v3).channel = v9
      BY <1>8, <2>2, <2>3 DEF R!ReadMove, R!OrMoving, R!PendingSeen
    <3>3. R!IsOnItsWay'
      BY <2>1, <3>1, <3>2
    <3>4. R!TypeOK' /\ R!AtACall' /\ R!JoinsRight' /\ R!JoinedIsOn'
      BY <1>8, <2>1, <3>1 DEF R!ReadMove
    <3>5. R!ReadsZigbee' /\ R!SeenStands' /\ R!ToldAsItStays'
      BY <1>8, <2>1, <3>1 DEF R!ReadMove
    <3> QED
      BY <3>3, <3>4, <3>5
  <2>4. CASE R!OrMoving.channel # v9
    <3>1. v7' = R!Step("move", "put")
      BY <1>8, <2>4 DEF R!ReadMove
    <3>2. R!TypeOK' /\ R!AtACall' /\ R!JoinsRight' /\ R!JoinedIsOn'
      BY <1>8, <2>1, <3>1 DEF R!ReadMove
    <3>3. R!ReadsZigbee' /\ R!SeenStands' /\ R!IsOnItsWay' /\ R!ToldAsItStays'
      BY <1>8, <2>1, <3>1 DEF R!ReadMove
    <3> QED
      BY <3>2, <3>3
  <2> QED
    BY <2>3, <2>4
<1>9. CASE R!PutPending
  <2>1. v7 = R!Step("move", "put") /\ v4 /\ UNCHANGED <<v1, v2, v4, v5, v6, v8, v9, v10>>
    BY <1>9 DEF R!PutPending
  <2>2. v2 # R!NoNetwork /\ v9 \in Channels
    BY <2>1
  <2>3. v3' = [v2 EXCEPT !.channel = v9]
    BY <1>9 DEF R!PutPending, R!MovedTo
  <2>4. v3' \in R!Network /\ R!Heading(v2, v3').channel = v9
    BY <2>2, <2>3
  <2>5. v7' \in {R!Step("tell", "pending"), R!Step("move", "pending")}
    BY <1>9 DEF R!PutPending, R!Goes
  <2>6. R!TypeOK' /\ R!AtACall' /\ R!JoinsRight' /\ R!JoinedIsOn'
    BY <2>1, <2>4, <2>5
  <2>7. R!ReadsZigbee' /\ R!SeenStands' /\ R!IsOnItsWay' /\ R!ToldAsItStays'
    BY <2>1, <2>4, <2>5
  <2> QED
    BY <2>6, <2>7
<1>10. CASE R!Tell
  BY <1>10 DEF R!Tell, R!PendingSeen, R!Learned
<1>11. CASE R!ReadActive
  BY <1>11 DEF R!ReadActive, R!IsAnother
<1>12. CASE R!ReadState
  BY <1>12 DEF R!ReadState, R!Joined
<1>13. CASE R!Disable
  <2>1. \/ v7' = R!Step("join", "write")
        \/ v7' = R!Step("join", "active")
    BY <1>13 DEF R!Disable, R!Goes
  <2>2. v7'.part = "join" /\ v7'.call \in {"write", "active"} /\ v7' \in [part : R!Parts, call : R!Calls]
    BY <2>1
  <2>3. R!TypeOK' /\ R!AtACall'
    BY <1>13, <2>2 DEF R!Disable
  <2>4. R!JoinsRight' /\ R!JoinedIsOn' /\ R!ToldAsItStays'
    BY <2>2
  <2>5. R!ReadsZigbee' /\ R!SeenStands' /\ R!IsOnItsWay'
    BY <1>13, <2>2 DEF R!Disable
  <2> QED
    BY <2>3, <2>4, <2>5
<1>14. CASE R!WriteActive
  BY <1>14 DEF R!WriteActive, R!Goes
<1>15. CASE R!Enable
  BY <1>15 DEF R!Enable, R!Goes, R!Joined
<1>16. CASE UNCHANGED R!vars
  BY <1>16 DEF R!vars
<1> QED
  BY <1>1, <1>2, <1>3, <1>4, <1>5, <1>6, <1>7, <1>8, <1>9, <1>10, <1>11, <1>12, <1>13, <1>14, <1>15, <1>16
      DEF R!Next

-----------------------------------------------------------------------------
(* Zeroconf: the timers and tasks counted, and what each registration is told. *)

LEMMA RecordsStart == Z!Init => Z!IInv
BY ZeroconfAssumption DEF Z!Init, Z!IInv, Z!TypeOK, Z!NoTasks, Z!QueuedIsTimed, Z!RemovedIsParted,
    Z!KnownWasFound,
   Z!Promise!Init, Z!Promise!Call, Z!Unknown

TaskCounts == [timers : 0..MaxTasks, due : 0..MaxTasks, resolving : 0..MaxTasks,
               confirming : 0..MaxTasks, removing : 0..MaxTasks]

LEMMA CountsAre == [DOMAIN Z!NoTasks -> 0..MaxTasks] = TaskCounts
BY DEF Z!NoTasks, TaskCounts

\* A call to the listener that may follow what it was told last.
LEMMA ToldRight ==
    ASSUME Z!TypeOK, NEW r \in Registrations, NEW n \in Instances, NEW call \in {"found", "updated", "lost"},
           <<r, n>> \notin v8 =>
                <<v10[r][n], call>> \in Z!Promise!MayFollow \/ (v10[r][n] = call /\ call = "updated"),
           Z!Told(r, n, call)
    PROVE  /\ v10' \in [Registrations -> [Instances -> Z!Promise!Call]]
           /\ v9' \in [Registrations -> [Instances -> Z!Promise!Call]]
           /\ \A q \in Registrations, m \in Instances : 
                 v10'[q][m] = IF q = r /\ m = n /\ <<r, n>> \notin v8 THEN call ELSE v10[q][m]
           /\ [Z!Promise!Next]_v10
<1>1. call \in Z!Promise!Call
  BY DEF Z!Promise!Call
<1>2. v9' \in [Registrations -> [Instances -> Z!Promise!Call]]
  BY <1>1 DEF Z!Told, Z!TypeOK
<1>3. CASE <<r, n>> \in v8
  BY <1>2, <1>3 DEF Z!Told, Z!TypeOK
<1>4. CASE <<r, n>> \notin v8
  <2>1. Z!Promise!After(v10[r][n], call) = call
    BY <1>4 DEF Z!Promise!After, Z!Promise!MayFollow
  <2>2. v10' = [v10 EXCEPT ![r][n] = call]
    BY <1>4, <2>1 DEF Z!Told, Z!TypeOK
  <2>3. v10' \in [Registrations -> [Instances -> Z!Promise!Call]]
    BY <1>1, <2>2 DEF Z!TypeOK
  <2>4. \A q \in Registrations, m \in Instances :
            v10'[q][m] = IF q = r /\ m = n THEN call ELSE v10[q][m]
    BY <2>2 DEF Z!TypeOK
  <2>5. Z!Promise!Next
    BY <1>4, <2>3, <2>4 DEF Z!Promise!Next
  <2> QED
    BY <1>2, <1>4, <2>3, <2>4, <2>5
<1> QED
  BY <1>3, <1>4

\* What is learned is told as Discovery has it.
LEMMA LearnedRight ==
    ASSUME Z!TypeOK, Z!KnownWasFound, NEW r \in Registrations, NEW n \in Instances, NEW v \in Tellings,
           Z!Learn(r, n, v), v8' = v8
    PROVE  /\ v6' \in [Registrations -> [Instances -> Tellings \cup {Z!Unknown}]]
           /\ v9' \in [Registrations -> [Instances -> Z!Promise!Call]]
           /\ v10' \in [Registrations -> [Instances -> Z!Promise!Call]]
           /\ Z!KnownWasFound'
           /\ [Z!Promise!Next]_v10
<1>1. v6' = [v6 EXCEPT ![r][n] = v]
  BY DEF Z!Learn
<1>2. v6' \in [Registrations -> [Instances -> Tellings \cup {Z!Unknown}]]
  BY <1>1 DEF Z!TypeOK
<1>3. \A q \in Registrations, m \in Instances : v6'[q][m] = IF q = r /\ m = n THEN v ELSE v6[q][m]
  BY <1>1 DEF Z!TypeOK
<1>4. v # Z!Unknown
  BY ZeroconfAssumption DEF Z!Unknown
<1>5. v10[r][n] \in Z!Promise!Call
  BY DEF Z!TypeOK
<1>6. CASE v6[r][n] = Z!Unknown
  <2>1. Z!Told(r, n, "found")
    BY <1>6 DEF Z!Learn
  <2>2. <<r, n>> \notin v8 => <<v10[r][n], "found">> \in Z!Promise!MayFollow
    BY <1>5, <1>6 DEF Z!KnownWasFound, Z!Promise!MayFollow, Z!Promise!Call
  <2>3. /\ v10' \in [Registrations -> [Instances -> Z!Promise!Call]]
        /\ v9' \in [Registrations -> [Instances -> Z!Promise!Call]]
        /\ \A q \in Registrations, m \in Instances : 
                 v10'[q][m] = IF q = r /\ m = n /\ <<r, n>> \notin v8 THEN "found" ELSE v10[q][m]
        /\ [Z!Promise!Next]_v10
    BY <2>1, <2>2, ToldRight
  <2>4. Z!KnownWasFound'
    <3>1. \A q \in Registrations, m \in Instances :
              <<q, m>> \notin v8 => (v6[q][m] # Z!Unknown <=> v10[q][m] \in {"found", "updated"})
      BY DEF Z!KnownWasFound
    <3>2. ASSUME NEW q \in Registrations, NEW m \in Instances, <<q, m>> \notin v8'
          PROVE  v6'[q][m] # Z!Unknown <=> v10'[q][m] \in {"found", "updated"}
      <4>1. CASE q = r /\ m = n
        <5>1. v6'[q][m] = v /\ v10'[q][m] = "found"
          BY <1>3, <2>3, <3>2, <4>1
        <5> QED
          BY <1>4, <5>1
      <4>2. CASE ~ (q = r /\ m = n)
        <5>1. v6'[q][m] = v6[q][m] /\ v10'[q][m] = v10[q][m]
          BY <1>3, <2>3, <4>2
        <5> QED
          BY <3>1, <3>2, <5>1
      <4> QED
        BY <4>1, <4>2
    <3> QED
      BY <3>2 DEF Z!KnownWasFound
  <2> QED
    BY <1>2, <2>3, <2>4
<1>7. CASE v6[r][n] # Z!Unknown /\ v6[r][n] # v
  <2>1. Z!Told(r, n, "updated")
    BY <1>7 DEF Z!Learn, Z!IsAsKnown
  <2>2. <<r, n>> \notin v8 => <<v10[r][n], "updated">> \in Z!Promise!MayFollow
      \/ (v10[r][n] = "updated" /\ "updated" = "updated")
    BY <1>5, <1>7 DEF Z!KnownWasFound, Z!Promise!MayFollow, Z!Promise!Call
  <2>3. /\ v10' \in [Registrations -> [Instances -> Z!Promise!Call]]
        /\ v9' \in [Registrations -> [Instances -> Z!Promise!Call]]
        /\ \A q \in Registrations, m \in Instances : 
                 v10'[q][m] = IF q = r /\ m = n /\ <<r, n>> \notin v8 THEN "updated" ELSE v10[q][m]
        /\ [Z!Promise!Next]_v10
    BY <2>1, <2>2, ToldRight
  <2>4. Z!KnownWasFound'
    BY <1>3, <1>4, <1>7, <2>3 DEF Z!KnownWasFound
  <2> QED
    BY <1>2, <2>3, <2>4
<1>8. CASE v6[r][n] = v
  <2>1. v9' = v9 /\ v10' = v10
    BY <1>4, <1>8 DEF Z!Learn, Z!IsAsKnown, Z!calls
  <2>2. Z!KnownWasFound'
    BY <1>3, <1>8, <2>1 DEF Z!KnownWasFound
  <2> QED
    BY <1>2, <2>1, <2>2 DEF Z!TypeOK
<1> QED
  BY <1>6, <1>7, <1>8

LEMMA LostRight ==
    ASSUME Z!TypeOK, Z!KnownWasFound, NEW r \in Registrations, NEW n \in Instances,
           Z!Unreachable(r, n), v8' = v8
    PROVE  /\ v6' \in [Registrations -> [Instances -> Tellings \cup {Z!Unknown}]]
           /\ v9' \in [Registrations -> [Instances -> Z!Promise!Call]]
           /\ v10' \in [Registrations -> [Instances -> Z!Promise!Call]]
           /\ Z!KnownWasFound'
           /\ [Z!Promise!Next]_v10
<1>1. CASE v6[r][n] = Z!Unknown
  BY <1>1 DEF Z!Unreachable, Z!calls, Z!TypeOK, Z!KnownWasFound
<1>2. CASE v6[r][n] # Z!Unknown
  <2>1. v6' = [v6 EXCEPT ![r][n] = Z!Unknown] /\ Z!Told(r, n, "lost")
    BY <1>2 DEF Z!Unreachable
  <2>2. v6' \in [Registrations -> [Instances -> Tellings \cup {Z!Unknown}]]
    BY <2>1 DEF Z!TypeOK
  <2>3. \A q \in Registrations, m \in Instances : v6'[q][m] = IF q = r /\ m = n THEN Z!Unknown ELSE v6[q][m]
    BY <2>1 DEF Z!TypeOK
  <2>4. <<r, n>> \notin v8 => <<v10[r][n], "lost">> \in Z!Promise!MayFollow
    BY <1>2 DEF Z!KnownWasFound, Z!Promise!MayFollow
  <2>5. /\ v10' \in [Registrations -> [Instances -> Z!Promise!Call]]
        /\ v9' \in [Registrations -> [Instances -> Z!Promise!Call]]
        /\ \A q \in Registrations, m \in Instances : 
                 v10'[q][m] = IF q = r /\ m = n /\ <<r, n>> \notin v8 THEN "lost" ELSE v10[q][m]
        /\ [Z!Promise!Next]_v10
    BY <2>1, <2>4, ToldRight
  <2>6. Z!KnownWasFound'
    BY <2>3, <2>5 DEF Z!KnownWasFound
  <2> QED
    BY <2>2, <2>5, <2>6
<1> QED
  BY <1>1, <1>2

\* The timers and tasks, and what is queued.
CountsRight ==
    /\ v5 \in [Registrations -> [Instances -> {"none", "set", "fired"}]]
    /\ v7 \in [Registrations -> [Instances -> TaskCounts]]
    /\ Z!QueuedIsTimed /\ Z!RemovedIsParted

RestTyped == v1' \in {"off", "on", "stopping"}
       /\ v2' \in [Registrations -> {"none", "pending", "live", "over"}]
       /\ v3' \subseteq Registrations /\ v4' \subseteq Registrations
       /\ v8' \subseteq Registrations \X Instances

LEMMA CountedIs ==
    ASSUME NEW t \in TaskCounts, NEW k \in 0..MaxTasks
    PROVE  /\ [t EXCEPT !.timers = k] \in TaskCounts /\ [t EXCEPT !.due = k] \in TaskCounts
           /\ [t EXCEPT !.resolving = k] \in TaskCounts /\ [t EXCEPT !.confirming = k] \in TaskCounts
           /\ [t EXCEPT !.removing = k] \in TaskCounts
BY DEF TaskCounts

LEMMA CancelledRight ==
    ASSUME CountsRight, NEW rs \in SUBSET Registrations, Z!CancelQueued(rs), v8' = v8
    PROVE  CountsRight'
<1>1. v5' \in [Registrations -> [Instances -> {"none", "set", "fired"}]]
  BY DEF CountsRight, Z!CancelQueued
<1>2. ASSUME NEW r \in Registrations, NEW n \in Instances
      PROVE  /\ v7'[r][n] \in TaskCounts
             /\ v5'[r][n] = "set" => v7'[r][n].timers > 0
             /\ v7'[r][n].removing = v7[r][n].removing
  <2>1. v7[r][n] \in TaskCounts /\ (v5[r][n] = "set" => v7[r][n].timers > 0)
    BY DEF CountsRight, Z!QueuedIsTimed
  <2>2. CASE r \in rs /\ v5[r][n] = "set"
    <3> DEFINE t == v7[r][n]  k == t.timers - 1
    <3>1. v7'[r][n] = [t EXCEPT !.timers = k] /\ v5'[r][n] = "none"
      BY <2>2 DEF Z!CancelQueued
    <3>2. t \in TaskCounts /\ k \in 0..MaxTasks
      BY <2>1, <2>2, ZeroconfAssumption DEF TaskCounts
    <3> HIDE DEF k
    <3>3. [t EXCEPT !.timers = k] \in TaskCounts
      BY <3>2, CountedIs
    <3>4. [t EXCEPT !.timers = k].removing = t.removing
      BY <3>2 DEF TaskCounts
    <3> QED
      BY <3>1, <3>3, <3>4
  <2>3. CASE ~ (r \in rs /\ v5[r][n] = "set")
    BY <2>1, <2>3 DEF Z!CancelQueued
  <2> QED
    BY <2>2, <2>3
<1>3. v7' \in [Registrations -> [Instances -> TaskCounts]]
  BY <1>2 DEF Z!CancelQueued
<1> QED
  BY <1>1, <1>2, <1>3 DEF CountsRight, Z!QueuedIsTimed, Z!RemovedIsParted

LEMMA CountRight ==
    ASSUME CountsRight, NEW r \in Registrations, NEW n \in Instances,
           NEW q \in {"none", "set", "fired"}, NEW t \in TaskCounts,
           v5' = [v5 EXCEPT ![r][n] = q], v7' = [v7 EXCEPT ![r][n] = t],
           q = "set" => t.timers > 0,
           t.removing > 0 => v7[r][n].removing > 0 \/ <<r, n>> \in v8',
           v8 \subseteq v8'
    PROVE  CountsRight'
BY DEF CountsRight, Z!QueuedIsTimed, Z!RemovedIsParted

LEMMA ScheduledRight ==
    ASSUME CountsRight, NEW r \in Registrations, NEW resolves \in SUBSET Instances,
        NEW confirms \in SUBSET Instances,
           Z!Scheduled(r, resolves, confirms), v8' = v8
    PROVE  CountsRight'
<1>1. v5' \in [Registrations -> [Instances -> {"none", "set", "fired"}]]
  BY DEF CountsRight, Z!Scheduled
<1>2. ASSUME NEW q \in Registrations, NEW n \in Instances
      PROVE  /\ v7'[q][n] \in TaskCounts
             /\ v5'[q][n] = "set" => v7'[q][n].timers > 0
             /\ v7'[q][n].removing = v7[q][n].removing
  <2>1. v7[q][n] \in TaskCounts /\ (v5[q][n] = "set" => v7[q][n].timers > 0)
    BY DEF CountsRight, Z!QueuedIsTimed
  <2>2. CASE q # r
    BY <2>1, <2>2 DEF Z!Scheduled, CountsRight
  <2>3. CASE q = r /\ n \in resolves
    <3> DEFINE t == v7[q][n]  k == t.timers + 1
    <3>1. v7'[q][n] = [t EXCEPT !.timers = k]
      BY <2>3 DEF Z!Scheduled, CountsRight
    <3>2. t \in TaskCounts /\ k \in 0..MaxTasks /\ k > 0
      BY <2>1, <2>3, ZeroconfAssumption DEF TaskCounts, Z!Scheduled
    <3> HIDE DEF k
    <3>3. [t EXCEPT !.timers = k] \in TaskCounts
      BY <3>2, CountedIs
    <3>4. [t EXCEPT !.timers = k].removing = t.removing /\ [t EXCEPT !.timers = k].timers = k
      BY <3>2 DEF TaskCounts
    <3> QED
      BY <3>1, <3>2, <3>3, <3>4
  <2>4. CASE q = r /\ n \notin resolves /\ n \in confirms
    <3> DEFINE t == v7[q][n]  k == t.confirming + 1
    <3>1. v7'[q][n] = [t EXCEPT !.confirming = k] /\ v5'[q][n] = v5[q][n]
      BY <2>4 DEF Z!Scheduled, CountsRight
    <3>2. t \in TaskCounts /\ k \in 0..MaxTasks
      BY <2>1, <2>4, ZeroconfAssumption DEF TaskCounts, Z!Scheduled
    <3> HIDE DEF k
    <3>3. [t EXCEPT !.confirming = k] \in TaskCounts
      BY <3>2, CountedIs
    <3>4. [t EXCEPT !.confirming = k].removing = t.removing /\ [t EXCEPT !.confirming = k].timers = t.timers
      BY <3>2 DEF TaskCounts
    <3> QED
      BY <2>1, <3>1, <3>3, <3>4
  <2>5. CASE q = r /\ n \notin resolves /\ n \notin confirms
    BY <2>1, <2>5 DEF Z!Scheduled, CountsRight
  <2> QED
    BY <2>2, <2>3, <2>4, <2>5
<1>3. v7' \in [Registrations -> [Instances -> TaskCounts]]
  BY <1>2 DEF Z!Scheduled, CountsRight
<1> QED
  BY <1>1, <1>2, <1>3 DEF CountsRight, Z!QueuedIsTimed, Z!RemovedIsParted

LEMMA AllOfIt ==
    ASSUME RestTyped, CountsRight', v6' \in [Registrations -> [Instances -> Tellings \cup {Z!Unknown}]],
           v9' \in [Registrations -> [Instances -> Z!Promise!Call]],
           v10' \in [Registrations -> [Instances -> Z!Promise!Call]],
           Z!KnownWasFound'
    PROVE  Z!IInv'
BY CountsAre DEF RestTyped, CountsRight, Z!IInv, Z!TypeOK

LEMMA RecordsStep ==
    ASSUME Z!IInv, [Z!Next]_(Z!vars)
    PROVE  Z!IInv' /\ [Z!Promise!Next]_v10
<1>1. CountsRight /\ Z!TypeOK /\ Z!KnownWasFound
  BY CountsAre DEF CountsRight, Z!IInv, Z!TypeOK
<1>2. ASSUME UNCHANGED <<v6, v8, v9, v10>>
      PROVE  /\ v6' \in [Registrations -> [Instances -> Tellings \cup {Z!Unknown}]]
             /\ v9' \in [Registrations -> [Instances -> Z!Promise!Call]]
             /\ v10' \in [Registrations -> [Instances -> Z!Promise!Call]]
             /\ Z!KnownWasFound' /\ [Z!Promise!Next]_v10
  BY <1>1, <1>2 DEF Z!TypeOK, Z!KnownWasFound
<1>3. ASSUME UNCHANGED <<v5, v7, v8>> PROVE CountsRight'
  BY <1>1, <1>3 DEF CountsRight, Z!QueuedIsTimed, Z!RemovedIsParted
<1>4. ASSUME NEW r \in Registrations, Z!Register(r) PROVE Z!IInv' /\ [Z!Promise!Next]_v10
  <2>1. RestTyped
    BY <1>1, <1>4 DEF RestTyped, Z!Register, Z!TypeOK
  <2> QED
    BY <1>2, <1>3, <1>4, <2>1, AllOfIt DEF Z!Register, Z!calls
<1>5. ASSUME NEW r \in Registrations, Z!Cancel(r) PROVE Z!IInv' /\ [Z!Promise!Next]_v10
  <2>1. RestTyped
    BY <1>1, <1>5 DEF RestTyped, Z!Cancel, Z!TypeOK
  <2>2. CountsRight'
    <3>1. CASE UNCHANGED <<v5, v7>>
      BY <1>3, <1>5, <3>1 DEF Z!Cancel
    <3>2. CASE Z!CancelQueued({r})
      BY <1>1, <1>5, <3>2, CancelledRight DEF Z!Cancel
    <3> QED
      BY <1>5, <3>1, <3>2 DEF Z!Cancel
  <2> QED
    BY <1>2, <1>5, <2>1, <2>2, AllOfIt DEF Z!Cancel, Z!calls
<1>6. CASE Z!Start
  <2>1. RestTyped
    BY <1>1, <1>6 DEF RestTyped, Z!Start, Z!Pending, Z!TypeOK
  <2> QED
    BY <1>2, <1>3, <1>6, <2>1, AllOfIt DEF Z!Start, Z!calls
<1>7. CASE Z!Stop
  <2>1. RestTyped
    BY <1>1, <1>7 DEF RestTyped, Z!Stop, Z!TypeOK
  <2>2. CountsRight'
    BY <1>1, <1>7, CancelledRight DEF Z!Stop, Z!Live
  <2> QED
    BY <1>2, <1>7, <2>1, <2>2, AllOfIt DEF Z!Stop, Z!calls
<1>8. CASE Z!Stopped
  <2>1. RestTyped
    BY <1>1, <1>8 DEF RestTyped, Z!Stopped, Z!Live, Z!TypeOK
  <2> QED
    BY <1>2, <1>3, <1>8, <2>1, AllOfIt DEF Z!Stopped, Z!calls
<1>9. ASSUME NEW r \in Registrations, Z!EndBrowse(r) PROVE Z!IInv' /\ [Z!Promise!Next]_v10
  <2>1. RestTyped
    BY <1>1, <1>9 DEF RestTyped, Z!EndBrowse, Z!TypeOK
  <2> QED
    BY <1>2, <1>3, <1>9, <2>1, AllOfIt DEF Z!EndBrowse, Z!calls
<1>10. ASSUME NEW r \in Registrations, Z!SyncWithCache(r) PROVE Z!IInv' /\ [Z!Promise!Next]_v10
  <2>1. RestTyped
    BY <1>1, <1>10 DEF RestTyped, Z!SyncWithCache, Z!TypeOK
  <2>2. PICK resolves \in SUBSET Instances, confirms \in SUBSET Instances : Z!Scheduled(r, resolves, confirms)
    <3>1. PICK expired \in SUBSET Instances, alive \in SUBSET Instances :
            Z!Scheduled(r, {n \in alive : v6[r][n] = Z!Unknown /\ v5[r][n] = "none"},
                           {n \in expired : v6[r][n] # Z!Unknown /\ v5[r][n] = "none"})
      BY <1>10 DEF Z!SyncWithCache
    <3> QED
      BY <3>1
  <2>3. CountsRight'
    BY <1>1, <1>10, <2>2, ScheduledRight DEF Z!SyncWithCache
  <2> QED
    BY <1>2, <1>10, <2>1, <2>3, AllOfIt DEF Z!SyncWithCache, Z!calls
<1>11. ASSUME NEW r \in Registrations, NEW n \in Instances, Z!HearRecord(r, n)
    PROVE Z!IInv' /\ [Z!Promise!Next]_v10
  <2>1. RestTyped
    BY <1>1, <1>11 DEF RestTyped, Z!HearRecord, Z!TypeOK
  <2>2. CountsRight'
    BY <1>1, <1>11, ScheduledRight DEF Z!HearRecord
  <2> QED
    BY <1>2, <1>11, <2>1, <2>2, AllOfIt DEF Z!HearRecord, Z!calls
<1>12. ASSUME NEW r \in Registrations, NEW n \in Instances, Z!Goodbye(r, n)
    PROVE Z!IInv' /\ [Z!Promise!Next]_v10
  <2>1. RestTyped
    BY <1>1, <1>12 DEF RestTyped, Z!Goodbye, Z!TypeOK
  <2> DEFINE t == v7[r][n]  k == IF v5[r][n] = "set" THEN t.timers - 1 ELSE t.timers
             new == [[t EXCEPT !.timers = k] EXCEPT !.removing = t.removing + 1]
  <2>2. t \in TaskCounts /\ k \in 0..MaxTasks /\ t.removing + 1 \in 0..MaxTasks
    BY <1>1, <1>12, ZeroconfAssumption DEF CountsRight, TaskCounts, Z!QueuedIsTimed, Z!Goodbye
  <2>3. v5' = [v5 EXCEPT ![r][n] = "none"] /\ v7' = [v7 EXCEPT ![r][n] = new] /\ <<r, n>> \in v8'
      /\ v8 \subseteq v8'
    BY <1>1, <1>12, <2>2 DEF Z!Goodbye, CountsRight, TaskCounts
  <2>4. new \in TaskCounts
    BY <2>2 DEF TaskCounts
  <2>5. CountsRight'
    <3> HIDE DEF new
    <3> QED
      BY <1>1, <2>3, <2>4, CountRight
  <2>6. v6' \in [Registrations -> [Instances -> Tellings \cup {Z!Unknown}]]
    BY <1>1, <1>12 DEF Z!Goodbye, Z!TypeOK
  <2>7. Z!KnownWasFound'
    BY <1>1, <1>12 DEF Z!Goodbye, Z!TypeOK, Z!KnownWasFound, Z!calls
  <2>8. v9' = v9 /\ v10' = v10
    BY <1>12 DEF Z!Goodbye, Z!calls
  <2> QED
    BY <1>1, <2>1, <2>5, <2>6, <2>7, <2>8, AllOfIt DEF Z!TypeOK
<1>13. ASSUME NEW r \in Registrations, NEW n \in Instances, Z!TellRemoved(r, n)
    PROVE Z!IInv' /\ [Z!Promise!Next]_v10
  <2>1. RestTyped
    BY <1>1, <1>13 DEF RestTyped, Z!TellRemoved, Z!TypeOK
  <2> DEFINE t == v7[r][n]  new == [t EXCEPT !.removing = t.removing - 1]
  <2>2. t \in TaskCounts /\ t.removing - 1 \in 0..MaxTasks
    BY <1>1, <1>13, ZeroconfAssumption DEF CountsRight, TaskCounts, Z!TellRemoved
  <2>3. v5' = [v5 EXCEPT ![r][n] = v5[r][n]] /\ v7' = [v7 EXCEPT ![r][n] = new] /\ v8' = v8
    BY <1>1, <1>13, <2>2 DEF Z!TellRemoved, CountsRight, TaskCounts
  <2>4. new \in TaskCounts /\ new.timers = t.timers
    BY <2>2 DEF TaskCounts
  <2>5. <<r, n>> \in v8
    BY <1>13, <1>1 DEF Z!TellRemoved, CountsRight, Z!RemovedIsParted
  <2>6. CountsRight'
    <3>1. v5[r][n] \in {"none", "set", "fired"} /\ (v5[r][n] = "set" => new.timers > 0)
      BY <1>1, <2>4 DEF CountsRight, Z!QueuedIsTimed
    <3> HIDE DEF new
    <3> QED
      BY <1>1, <2>3, <2>4, <2>5, <3>1, CountRight
  <2>7. Z!Told(r, n, "lost")
    BY <1>13 DEF Z!TellRemoved
  <2>8. /\ v9' \in [Registrations -> [Instances -> Z!Promise!Call]]
        /\ v10' = v10
    BY <1>1, <2>5, <2>7 DEF Z!Told, Z!TypeOK, Z!Promise!Call
  <2> QED
    BY <1>1, <1>13, <2>1, <2>6, <2>8, AllOfIt DEF Z!TellRemoved, Z!TypeOK, Z!KnownWasFound
<1>14. ASSUME NEW r \in Registrations, NEW n \in Instances, Z!TimerFires(r, n)
    PROVE Z!IInv' /\ [Z!Promise!Next]_v10
  <2>1. RestTyped
    BY <1>1, <1>14 DEF RestTyped, Z!TimerFires, Z!TypeOK
  <2> DEFINE t == v7[r][n]  new == [[t EXCEPT !.timers = t.timers - 1] EXCEPT !.due = t.due + 1]
             q == v5'[r][n]
  <2>2. t \in TaskCounts /\ t.timers - 1 \in 0..MaxTasks /\ t.due + 1 \in 0..MaxTasks
    BY <1>1, <1>14, ZeroconfAssumption DEF CountsRight, TaskCounts, Z!TimerFires
  <2>3. v7' = [v7 EXCEPT ![r][n] = new] /\ v8' = v8
    BY <1>1, <1>14, <2>2 DEF Z!TimerFires, CountsRight, TaskCounts
  <2>4. new \in TaskCounts /\ new.timers = t.timers - 1 /\ new.removing = t.removing
    BY <2>2 DEF TaskCounts
  <2>5. /\ v5' = [v5 EXCEPT ![r][n] = q] /\ q \in {"none", "set", "fired"}
        /\ q = "set" => t.timers > 1
    BY <1>1, <1>14 DEF Z!TimerFires, CountsRight
  <2>6. q = "set" => new.timers > 0
    BY <2>2, <2>4, <2>5 DEF TaskCounts
  <2>7. CountsRight'
    <3> HIDE DEF new, q
    <3> QED
      BY <1>1, <2>3, <2>4, <2>5, <2>6, CountRight
  <2> QED
    BY <1>2, <1>14, <2>1, <2>7, AllOfIt DEF Z!TimerFires, Z!calls
<1>15. ASSUME NEW r \in Registrations, NEW n \in Instances, Z!BeginResolve(r, n)
    PROVE Z!IInv' /\ [Z!Promise!Next]_v10
  <2>1. RestTyped /\ v8' = v8
    BY <1>1, <1>15 DEF RestTyped, Z!BeginResolve, Z!TypeOK
  <2> DEFINE t == v7[r][n]  new == v7'[r][n]
  <2>2. t \in TaskCounts /\ t.due - 1 \in 0..MaxTasks
    BY <1>1, <1>15, ZeroconfAssumption DEF CountsRight, TaskCounts, Z!BeginResolve
  <2>3. v5' = [v5 EXCEPT ![r][n] = "none"]
    BY <1>15 DEF Z!BeginResolve
  <2>4. v7' = [v7 EXCEPT ![r][n] = new] /\ new \in TaskCounts /\ new.removing = t.removing
    <3>1. CASE v7' = [v7 EXCEPT ![r][n].due = @ - 1]
      BY <1>1, <2>2, <3>1 DEF CountsRight, TaskCounts
    <3>2. CASE t.resolving < MaxTasks /\ v7' = [v7 EXCEPT ![r][n].due = @ - 1, ![r][n].resolving = @ + 1]
      <4>1. t.resolving + 1 \in 0..MaxTasks
        BY <2>2, <3>2, ZeroconfAssumption DEF TaskCounts
      <4> QED
        BY <1>1, <2>2, <3>2, <4>1 DEF CountsRight, TaskCounts
    <3> QED
      BY <1>15, <3>1, <3>2 DEF Z!BeginResolve
  <2>5. CountsRight'
    <3> HIDE DEF new
    <3> QED
      BY <1>1, <2>1, <2>3, <2>4, CountRight
  <2>6. CASE UNCHANGED <<v6, v9, v10>>
    BY <1>2, <2>1, <2>5, <2>6, AllOfIt
  <2>7. ASSUME NEW v \in Tellings, Z!Learn(r, n, v) PROVE Z!IInv' /\ [Z!Promise!Next]_v10
    BY <1>1, <2>1, <2>5, <2>7, LearnedRight, AllOfIt
  <2> QED
    BY <1>15, <2>6, <2>7 DEF Z!BeginResolve, Z!calls
<1>16. ASSUME NEW r \in Registrations, NEW n \in Instances, Z!EndResolve(r, n)
    PROVE Z!IInv' /\ [Z!Promise!Next]_v10
  <2>1. RestTyped /\ v8' = v8
    BY <1>1, <1>16 DEF RestTyped, Z!EndResolve, Z!TypeOK
  <2> DEFINE t == v7[r][n]  new == [t EXCEPT !.resolving = t.resolving - 1]
  <2>2. t \in TaskCounts /\ t.resolving - 1 \in 0..MaxTasks
    BY <1>1, <1>16, ZeroconfAssumption DEF CountsRight, TaskCounts, Z!EndResolve
  <2>3. v5' = [v5 EXCEPT ![r][n] = v5[r][n]] /\ v7' = [v7 EXCEPT ![r][n] = new]
    BY <1>1, <1>16, <2>2 DEF Z!EndResolve, CountsRight, TaskCounts
  <2>4. new \in TaskCounts /\ new.timers = t.timers /\ new.removing = t.removing
    BY <2>2 DEF TaskCounts
  <2>5. CountsRight'
    <3>1. v5[r][n] \in {"none", "set", "fired"} /\ (v5[r][n] = "set" => new.timers > 0)
      BY <1>1, <2>4 DEF CountsRight, Z!QueuedIsTimed
    <3> HIDE DEF new
    <3> QED
      BY <1>1, <2>1, <2>3, <2>4, <3>1, CountRight
  <2>6. CASE UNCHANGED <<v6, v9, v10>>
    BY <1>2, <2>1, <2>5, <2>6, AllOfIt
  <2>7. ASSUME NEW v \in Tellings, Z!Learn(r, n, v) PROVE Z!IInv' /\ [Z!Promise!Next]_v10
    BY <1>1, <2>1, <2>5, <2>7, LearnedRight, AllOfIt
  <2> QED
    BY <1>16, <2>6, <2>7 DEF Z!EndResolve, Z!calls
<1>17. ASSUME NEW r \in Registrations, NEW n \in Instances, Z!EndConfirm(r, n)
    PROVE Z!IInv' /\ [Z!Promise!Next]_v10
  <2>1. RestTyped /\ v8' = v8
    BY <1>1, <1>17 DEF RestTyped, Z!EndConfirm, Z!TypeOK
  <2> DEFINE t == v7[r][n]  new == [t EXCEPT !.confirming = t.confirming - 1]
  <2>2. t \in TaskCounts /\ t.confirming - 1 \in 0..MaxTasks
    BY <1>1, <1>17, ZeroconfAssumption DEF CountsRight, TaskCounts, Z!EndConfirm
  <2>3. v5' = [v5 EXCEPT ![r][n] = v5[r][n]] /\ v7' = [v7 EXCEPT ![r][n] = new]
    BY <1>1, <1>17, <2>2 DEF Z!EndConfirm, CountsRight, TaskCounts
  <2>4. new \in TaskCounts /\ new.timers = t.timers /\ new.removing = t.removing
    BY <2>2 DEF TaskCounts
  <2>5. CountsRight'
    <3>1. v5[r][n] \in {"none", "set", "fired"} /\ (v5[r][n] = "set" => new.timers > 0)
      BY <1>1, <2>4 DEF CountsRight, Z!QueuedIsTimed
    <3> HIDE DEF new
    <3> QED
      BY <1>1, <2>1, <2>3, <2>4, <3>1, CountRight
  <2>6. CASE UNCHANGED <<v6, v9, v10>>
    BY <1>2, <2>1, <2>5, <2>6, AllOfIt
  <2>7. ASSUME NEW v \in Tellings, Z!Learn(r, n, v) PROVE Z!IInv' /\ [Z!Promise!Next]_v10
    BY <1>1, <2>1, <2>5, <2>7, LearnedRight, AllOfIt
  <2>8. CASE Z!Unreachable(r, n)
    BY <1>1, <2>1, <2>5, <2>8, LostRight, AllOfIt
  <2> QED
    BY <1>17, <2>6, <2>7, <2>8 DEF Z!EndConfirm, Z!calls
<1>18. CASE UNCHANGED Z!vars
  <2>1. RestTyped
    BY <1>1, <1>18 DEF RestTyped, Z!vars, Z!TypeOK
  <2> QED
    BY <1>2, <1>3, <1>18, <2>1, AllOfIt DEF Z!vars
<1> QED
  BY <1>4, <1>5, <1>6, <1>7, <1>8, <1>9, <1>10, <1>11, <1>12, <1>13, <1>14, <1>15, <1>16, <1>17, <1>18
      DEF Z!Next

-----------------------------------------------------------------------------
(* Bluetooth devices: what is told of them as they are tracked. *)

AnyCall == {"none", "found", "updated", "lost", "repeated", "unfound"}

LEMMA NoAdvIs == T!NoAdv \notin T!Adv /\ (\A l \in Listeners : ~ T!Matches(l, T!NoAdv))
BY TrackingAssumption DEF T!NoAdv, T!Adv, T!Matches

LEMMA TrackingStarts == T!Init => T!IInv /\ T!Promise!Init
<1> SUFFICES ASSUME T!Init PROVE T!IInv /\ T!Promise!Init
  OBVIOUS
<1>1. T!TypeOK
  BY DEF T!Init, T!TypeOK, T!None, T!NotHeard
<1>2. T!HeardIsKnown /\ T!NewIsTold
  BY DEF T!Init, T!HeardIsKnown, T!NewIsTold
<1>3. T!TracksAsTold /\ T!Promise!Init
  BY DEF T!Init, T!TracksAsTold, T!Promise!Init, T!Promise!Call, T!Steady
<1> QED
  BY <1>1, <1>2, <1>3 DEF T!IInv

\* A steady listener's matches.
LEMMA SteadyMatches ==
    ASSUME NEW l \in T!Steady
    PROVE  /\ l \in Listeners
           /\ \/ \A a : ~ T!Matches(l, a)
              \/ \A a \in T!Adv : T!Matches(l, a)
BY DEF T!Steady, T!Matches

\* What one call makes of what a listener was told.
LEMMA ToldIs ==
    ASSUME NEW l \in Listeners, NEW d \in Devices, NEW call \in {"none", "found", "updated", "lost"},
           v10[l][d] \in AnyCall
    PROVE  /\ T!Told(l, d, call) \in AnyCall
           /\ call = "none" => T!Told(l, d, call) = v10[l][d]
           /\ call = "found" /\ (l \in T!Steady => v10[l][d] \in {"none", "lost"})
                => T!Told(l, d, call) = "found"
           /\ call = "updated" /\ v10[l][d] \in {"found", "updated"} => T!Told(l, d, call) = "updated"
           /\ call = "lost" /\ (l \in T!Steady => v10[l][d] \in {"found", "updated"})
                => T!Told(l, d, call) = "lost"
BY DEF T!Told, T!Promise!After, AnyCall

\* What is told of one device, as what is tracked of it changes, keeps all that is promised.
LEMMA TellKeeps ==
    ASSUME T!IInv, T!TypeOK', v2' = v2, v1' = v1,
           \A l \in Listeners, e \in Devices :
              v10'[l][e] # v10[l][e] \/ v3'[e] # v3[e] =>
                /\ l \in v1 => /\ T!Matches(l, v3'[e]) => v10'[l][e] \in {"found", "updated"}
                               /\ l \in T!Steady /\ ~ T!Matches(l, v3'[e]) => v10'[l][e] \in {"none", "lost"}
                /\ l \notin v1 => v10'[l][e] = v10[l][e],
           \A l \in T!Steady, e \in Devices :
              v10'[l][e] # v10[l][e] => <<v10[l][e], v10'[l][e]>> \in T!Promise!MayFollow
    PROVE  T!IInv' /\ T!Promise!Next
<1>1. \A l \in T!Steady : l \in Listeners
  BY SteadyMatches
<1>2. v1 \subseteq Listeners
  BY DEF T!IInv, T!TypeOK
<1>3. T!HeardIsKnown'
  <2> SUFFICES ASSUME NEW l \in v1, NEW e \in Devices, T!Matches(l, v3'[e])
      PROVE v10'[l][e] \in {"found", "updated"}
    BY DEF T!HeardIsKnown, T!Matches
  <2>1. CASE v3'[e] = v3[e] /\ v10'[l][e] = v10[l][e]
    BY <2>1 DEF T!IInv, T!HeardIsKnown
  <2> QED
    BY <1>2, <2>1
<1>4. T!NewIsTold'
  BY DEF T!IInv, T!NewIsTold
<1>5. \A l \in T!Steady, e \in Devices : v10'[l][e] \in T!Promise!Call
  BY DEF T!IInv, T!TracksAsTold, T!Promise!MayFollow, T!Promise!Call
<1>6. T!TracksAsTold'
  <2> SUFFICES ASSUME NEW l \in T!Steady, NEW e \in Devices, l \in v1, ~ T!Matches(l, v3'[e])
               PROVE  v10'[l][e] \in {"none", "lost"}
    BY <1>5 DEF T!TracksAsTold, T!Matches
  <2>1. CASE v3'[e] = v3[e] /\ v10'[l][e] = v10[l][e]
    BY <2>1 DEF T!IInv, T!TracksAsTold
  <2> QED
    BY <1>1, <2>1
<1>7. T!Promise!Next
  <2>1. v10' \in [Listeners -> [Devices -> AnyCall]]
    BY DEF T!TypeOK, AnyCall
  <2>2. \A l \in T!Steady : v10'[l] \in [Devices -> T!Promise!Call]
    <3> SUFFICES ASSUME NEW l \in T!Steady PROVE v10'[l] \in [Devices -> T!Promise!Call]
      OBVIOUS
    <3>1. v10'[l] \in [Devices -> AnyCall]
      BY <1>1, <2>1
    <3> QED
      BY <1>5, <3>1
  <2> QED
    BY <2>2 DEF T!Promise!Next
<1> QED
  BY <1>3, <1>4, <1>6, <1>7 DEF T!IInv

LEMMA AdvertiseStep ==
    ASSUME T!IInv, NEW d \in Devices, NEW s \in Sources, NEW strength \in Strengths, NEW adv \in T!Adv,
           T!Advertise(d, s, strength, adv)
    PROVE  T!IInv' /\ (T!Promise!Next \/ v10' = v10)
<1> DEFINE strengths == [v5[d] EXCEPT ![s] = strength]
           heardName == adv.name \/ d \in v4
           new == [adv EXCEPT !.name = heardName]
           call(l) == T!CallFor(l, v3[d], new)
<1>1. /\ v3 \in [Devices -> T!Adv \cup {T!NoAdv}] /\ v4 \subseteq Devices
      /\ v5 \in [Devices -> [Sources -> Strengths \cup {T!Unheard}]]
      /\ v10 \in [Listeners -> [Devices -> AnyCall]] /\ v1 \subseteq Listeners
  BY DEF T!IInv, T!TypeOK, AnyCall
<1>2. new \in T!Adv
  BY DEF T!Adv
<1>3. /\ v5' = [v5 EXCEPT ![d] = strengths] /\ v4' = IF adv.name THEN v4 \cup {d} ELSE v4
      /\ UNCHANGED <<v1, v2, v6, v7, v8, v9>>
  BY DEF T!Advertise
<1>4. v5' \in [Devices -> [Sources -> Strengths \cup {T!Unheard}]] /\ v4' \subseteq Devices
  BY <1>1, <1>3
<1>5. CASE v3' = v3 /\ v10' = v10
  <2>1. T!TypeOK'
    BY <1>3, <1>4, <1>5 DEF T!IInv, T!TypeOK
  <2>2. T!HeardIsKnown' /\ T!NewIsTold' /\ T!TracksAsTold'
    BY <1>3, <1>5 DEF T!IInv, T!HeardIsKnown, T!NewIsTold, T!TracksAsTold, T!Matches
  <2> QED
    BY <1>5, <2>1, <2>2 DEF T!IInv
<1>6. CASE /\ v3' = [v3 EXCEPT ![d] = new]
           /\ v10' = [l \in Listeners |-> IF l \notin v1 THEN v10[l]
                                          ELSE [v10[l] EXCEPT ![d] = T!Told(l, d, call(l))]]
  <2>1. \A l \in Listeners : call(l) \in {"none", "found", "updated", "lost"}
    BY DEF T!CallFor
  <2>2. v3' \in [Devices -> T!Adv \cup {T!NoAdv}] /\ v3'[d] = new /\ \A e \in Devices \ {d} : v3'[e] = v3[e]
    BY <1>1, <1>2, <1>6
  <2> HIDE DEF new, call
  <2>3. \A l \in Listeners : T!Told(l, d, call(l)) \in AnyCall
    BY <1>1, <2>1, ToldIs
  <2>4. /\ v10' \in [Listeners -> [Devices -> AnyCall]]
        /\ \A l \in Listeners, e \in Devices :
              v10'[l][e] = IF l \in v1 /\ e = d THEN T!Told(l, d, call(l)) ELSE v10[l][e]
    BY <1>1, <1>6, <2>3
  <2>5. T!TypeOK'
    BY <1>3, <1>4, <2>2, <2>4 DEF T!IInv, T!TypeOK, AnyCall
  <2>6. ASSUME NEW l \in v1
        PROVE  /\ T!Matches(l, new) => T!Told(l, d, call(l)) \in {"found", "updated"}
               /\ l \in T!Steady /\ ~ T!Matches(l, new) => T!Told(l, d, call(l)) \in {"none", "lost"}
               /\ l \in T!Steady /\ T!Told(l, d, call(l)) # v10[l][d] =>
                     <<v10[l][d], T!Told(l, d, call(l))>> \in T!Promise!MayFollow
    <3>1. l \in Listeners /\ v10[l][d] \in AnyCall
      BY <1>1
    <3>2. CASE ~ T!Matches(l, new)
      <4>1. T!Told(l, d, call(l)) = v10[l][d]
        BY <3>1, <3>2, ToldIs DEF call, T!CallFor
      <4>2. l \in T!Steady => ~ T!Matches(l, v3[d])
        BY <1>1, <1>2, <3>1, <3>2, SteadyMatches, NoAdvIs
      <4> QED
        BY <3>2, <4>1, <4>2 DEF T!IInv, T!TracksAsTold
    <3>3. CASE T!Matches(l, new) /\ ~ T!Matches(l, v3[d])
      <4>1. call(l) = "found"
        BY <3>3 DEF call, T!CallFor
      <4>2. l \in T!Steady => v10[l][d] \in {"none", "lost"}
        BY <3>3 DEF T!IInv, T!TracksAsTold
      <4>3. T!Told(l, d, call(l)) = "found"
        BY <3>1, <4>1, <4>2, ToldIs
      <4> QED
        BY <3>3, <4>2, <4>3 DEF T!Promise!MayFollow
    <3>4. CASE T!Matches(l, new) /\ T!Matches(l, v3[d])
      <4>1. v10[l][d] \in {"found", "updated"}
        BY <3>4 DEF T!IInv, T!HeardIsKnown
      <4>2. call(l) \in {"updated", "none"}
        BY <3>4 DEF call, T!CallFor
      <4>3. T!Told(l, d, call(l)) \in {"updated", v10[l][d]}
        BY <3>1, <4>1, <4>2, ToldIs
      <4> QED
        BY <3>4, <4>1, <4>3 DEF T!Promise!MayFollow
    <3> QED
      BY <3>2, <3>3, <3>4
  <2>7. \A l \in Listeners, e \in Devices :
              v10'[l][e] # v10[l][e] \/ v3'[e] # v3[e] =>
                /\ l \in v1 => /\ T!Matches(l, v3'[e]) => v10'[l][e] \in {"found", "updated"}
                               /\ l \in T!Steady /\ ~ T!Matches(l, v3'[e]) => v10'[l][e] \in {"none", "lost"}
                /\ l \notin v1 => v10'[l][e] = v10[l][e]
    BY <2>2, <2>4, <2>6
  <2>8. \A l \in T!Steady, e \in Devices :
              v10'[l][e] # v10[l][e] => <<v10[l][e], v10'[l][e]>> \in T!Promise!MayFollow
    BY <2>4, <2>6, SteadyMatches
  <2>9. v2' = v2 /\ v1' = v1
    BY <1>3
  <2> QED
    BY <2>5, <2>7, <2>8, <2>9, TellKeeps
<1> QED
  BY <1>5, <1>6 DEF T!Advertise

LEMMA EvictStep ==
    ASSUME T!IInv, NEW e \in Evictors, NEW d \in Devices, T!Evict(e, d)
    PROVE  T!IInv' /\ T!Promise!Next
<1> DEFINE seen == T!Looked(e, d)
<1>1. /\ v3 \in [Devices -> T!Adv \cup {T!NoAdv}] /\ v4 \subseteq Devices
      /\ v5 \in [Devices -> [Sources -> Strengths \cup {T!Unheard}]]
      /\ v7 \in [Evictors -> SUBSET Devices] /\ v8 \in [Evictors -> [Devices -> T!Adv \cup {T!NoAdv}]]
      /\ v10 \in [Listeners -> [Devices -> AnyCall]] /\ v1 \subseteq Listeners
  BY DEF T!IInv, T!TypeOK, AnyCall
<1>2. v3[d] \in T!Adv /\ seen \in T!Adv
  BY <1>1 DEF T!Evict, T!IsTracked, T!Looked
<1>3. /\ v3' = [v3 EXCEPT ![d] = T!NoAdv] /\ v4' = v4 \ {d} /\ v5' = [v5 EXCEPT ![d] = T!NotHeard]
      /\ v7' = [v7 EXCEPT ![e] = v7[e] \ {d}] /\ UNCHANGED <<v1, v2, v6, v9>>
      /\ v10' = [l \in Listeners |-> IF l \in v1 /\ T!Matches(l, seen)
                                     THEN [v10[l] EXCEPT ![d] = T!Told(l, d, "lost")] ELSE v10[l]]
  BY DEF T!Evict
<1>4. v8' \in [Evictors -> [Devices -> T!Adv \cup {T!NoAdv}]]
  <2>1. v8' = [o \in Evictors |->
                 [v8[o] EXCEPT ![d] = IF o = e THEN T!NoAdv
                                      ELSE IF d \in v7[o] /\ v8[o][d] = T!NoAdv THEN v3[d] ELSE v8[o][d]]]
    BY DEF T!Evict
  <2> QED
    BY <1>1, <2>1
<1>5. /\ v3' \in [Devices -> T!Adv \cup {T!NoAdv}] /\ v4' \subseteq Devices
      /\ v5' \in [Devices -> [Sources -> Strengths \cup {T!Unheard}]]
      /\ v7' \in [Evictors -> SUBSET Devices]
  BY <1>1, <1>3 DEF T!NotHeard
<1> HIDE DEF seen
<1>6. /\ v10' \in [Listeners -> [Devices -> AnyCall]]
      /\ \A l \in Listeners, f \in Devices :
            v10'[l][f] = IF l \in v1 /\ T!Matches(l, seen) /\ f = d THEN T!Told(l, d, "lost") ELSE v10[l][f]
  <2>1. \A l \in Listeners : T!Told(l, d, "lost") \in AnyCall
    BY <1>1, ToldIs
  <2> QED
    BY <1>1, <1>3, <2>1
<1>7. T!TypeOK'
  BY <1>3, <1>4, <1>5, <1>6 DEF T!IInv, T!TypeOK, AnyCall
<1>8. \A l \in Listeners : ~ T!Matches(l, T!NoAdv)
  BY NoAdvIs
<1>9. v3'[d] = T!NoAdv /\ \A f \in Devices \ {d} : v3'[f] = v3[f]
  BY <1>1, <1>3
<1>10. ASSUME NEW l \in T!Steady, l \in v1
       PROVE  /\ T!Matches(l, seen) => /\ T!Told(l, d, "lost") = "lost" /\ v10[l][d] \in {"found", "updated"}
              /\ ~ T!Matches(l, seen) => v10[l][d] \in {"none", "lost"}
  <2>1. l \in Listeners /\ v10[l][d] \in AnyCall
    BY <1>1, <1>10
  <2>2. CASE T!Matches(l, seen)
    <3>1. T!Matches(l, v3[d])
      BY <1>2, <2>2, SteadyMatches
    <3>2. v10[l][d] \in {"found", "updated"}
      BY <1>10, <3>1 DEF T!IInv, T!HeardIsKnown
    <3> QED
      BY <2>1, <2>2, <3>2, ToldIs
  <2>3. CASE ~ T!Matches(l, seen)
    <3>1. ~ T!Matches(l, v3[d])
      BY <1>2, <2>3, SteadyMatches
    <3> QED
      BY <1>10, <2>3, <3>1 DEF T!IInv, T!TracksAsTold
  <2> QED
    BY <2>2, <2>3
<1>11. \A l \in Listeners, f \in Devices :
              v10'[l][f] # v10[l][f] \/ v3'[f] # v3[f] =>
                /\ l \in v1 => /\ T!Matches(l, v3'[f]) => v10'[l][f] \in {"found", "updated"}
                               /\ l \in T!Steady /\ ~ T!Matches(l, v3'[f]) => v10'[l][f] \in {"none", "lost"}
                /\ l \notin v1 => v10'[l][f] = v10[l][f]
  BY <1>6, <1>8, <1>9, <1>10
<1>12. \A l \in T!Steady, f \in Devices :
              v10'[l][f] # v10[l][f] => <<v10[l][f], v10'[l][f]>> \in T!Promise!MayFollow
  BY <1>6, <1>10, SteadyMatches DEF T!Promise!MayFollow
<1>13. v2' = v2 /\ v1' = v1
  BY <1>3
<1> QED
  BY <1>7, <1>11, <1>12, <1>13, TellKeeps

LEMMA RegisterStep ==
    ASSUME T!IInv, NEW l \in Listeners, T!Register(l)
    PROVE  T!IInv' /\ T!Promise!Next
<1>1. /\ v10 \in [Listeners -> [Devices -> AnyCall]] /\ v1 \subseteq Listeners /\ v2 \subseteq Listeners
  BY DEF T!IInv, T!TypeOK, AnyCall
<1>2. /\ l \notin v1 /\ l \notin v2 /\ v1' = v1 \cup {l} /\ UNCHANGED <<v2, v3, v4, v5, v6, v7, v8, v9>>
      /\ v10' = [v10 EXCEPT ![l] = [d \in Devices |-> IF T!Matches(l, v3[d]) THEN T!Told(l, d, "found")
                                                      ELSE v10[l][d]]]
  BY DEF T!Register
<1>3. \A d \in Devices : v10[l][d] = "none"
  BY <1>2 DEF T!IInv, T!NewIsTold
<1>4. \A d \in Devices : T!Told(l, d, "found") = "found"
  BY <1>1, <1>3, ToldIs
<1>5. /\ v10' \in [Listeners -> [Devices -> AnyCall]]
      /\ \A d \in Devices : v10'[l][d] = IF T!Matches(l, v3[d]) THEN "found" ELSE "none"
      /\ \A m \in Listeners \ {l} : v10'[m] = v10[m]
  <2> HIDE DEF AnyCall
  <2>1. "found" \in AnyCall /\ "none" \in AnyCall
    BY DEF AnyCall
  <2> QED
    BY <1>1, <1>2, <1>3, <1>4, <2>1
<1>6. T!TypeOK'
  BY <1>1, <1>2, <1>5 DEF T!IInv, T!TypeOK, AnyCall
<1>7. T!HeardIsKnown'
  BY <1>1, <1>2, <1>5 DEF T!IInv, T!HeardIsKnown, T!Matches
<1>8. T!NewIsTold'
  BY <1>1, <1>2, <1>5 DEF T!IInv, T!NewIsTold
<1>9. \A m \in T!Steady : m \in Listeners
  BY SteadyMatches
<1>10. T!TracksAsTold'
  BY <1>1, <1>2, <1>5, <1>9 DEF T!IInv, T!TracksAsTold, T!Matches, T!Promise!Call
<1>11. T!Promise!Next
  <2>1. \A m \in T!Steady, d \in Devices : v10'[m][d] \in T!Promise!Call
    BY <1>10 DEF T!TracksAsTold
  <2>2. \A m \in T!Steady, d \in Devices :
            v10'[m][d] # v10[m][d] => <<v10[m][d], v10'[m][d]>> \in T!Promise!MayFollow
    BY <1>3, <1>5, <1>9 DEF T!Promise!MayFollow
  <2>3. \A m \in T!Steady : v10'[m] \in [Devices -> T!Promise!Call]
    <3> SUFFICES ASSUME NEW m \in T!Steady PROVE v10'[m] \in [Devices -> T!Promise!Call]
      OBVIOUS
    <3>1. v10'[m] \in [Devices -> AnyCall]
      BY <1>5, <1>9
    <3> QED
      BY <2>1, <3>1
  <2> QED
    BY <2>2, <2>3 DEF T!Promise!Next
<1> QED
  BY <1>6, <1>7, <1>8, <1>10, <1>11 DEF T!IInv

\* The others tell nobody, and track what they did.
LEMMA QuietStep ==
    ASSUME T!IInv, T!TypeOK', v3' = v3, v10' = v10, v1' \subseteq v1, v1 \cup v2 \subseteq v1' \cup v2'
    PROVE  T!IInv'
<1>1. T!HeardIsKnown'
  BY DEF T!IInv, T!HeardIsKnown, T!Matches
<1>2. T!NewIsTold'
  BY DEF T!IInv, T!NewIsTold
<1>3. T!TracksAsTold'
  BY DEF T!IInv, T!TracksAsTold, T!Matches
<1> QED
  BY <1>1, <1>2, <1>3 DEF T!IInv

LEMMA TrackingStep ==
    ASSUME T!IInv, [T!Next]_(T!vars)
    PROVE  T!IInv' /\ [T!Promise!Next]_v10
<1>1. /\ v1 \subseteq Listeners /\ v2 \subseteq Listeners
      /\ v3 \in [Devices -> T!Adv \cup {T!NoAdv}]
      /\ v4 \subseteq Devices /\ v6 \subseteq Devices
      /\ v5 \in [Devices -> [Sources -> Strengths \cup {T!Unheard}]]
      /\ v7 \in [Evictors -> SUBSET Devices] /\ v8 \in [Evictors -> [Devices -> T!Adv \cup {T!NoAdv}]]
      /\ v9 \in {"on", "dead"} /\ v10 \in [Listeners -> [Devices -> AnyCall]]
  BY DEF T!IInv, T!TypeOK, AnyCall
<1>2. ASSUME NEW l \in Listeners, T!Cancel(l) PROVE T!IInv' /\ [T!Promise!Next]_v10
  <2>1. T!TypeOK'
    BY <1>1, <1>2 DEF T!Cancel, T!TypeOK, AnyCall
  <2>2. v3' = v3 /\ v10' = v10 /\ v1' \subseteq v1 /\ v1 \cup v2 \subseteq v1' \cup v2'
    BY <1>2 DEF T!Cancel
  <2> QED
    BY <2>1, <2>2, QuietStep
<1>3. ASSUME v1' = v1, v2' = v2, v3' = v3, v10' = v10, T!TypeOK' PROVE T!IInv' /\ [T!Promise!Next]_v10
  BY <1>3, QuietStep
<1>4. ASSUME NEW d \in Devices, T!Hold(d) PROVE T!IInv' /\ [T!Promise!Next]_v10
  <2>1. T!TypeOK'
    BY <1>1, <1>4 DEF T!Hold, T!TypeOK, AnyCall
  <2> QED
    BY <1>3, <1>4, <2>1 DEF T!Hold
<1>5. ASSUME NEW d \in Devices, NEW s \in Sources, T!Fade(d, s) PROVE T!IInv' /\ [T!Promise!Next]_v10
  <2>1. v5' \in [Devices -> [Sources -> Strengths \cup {T!Unheard}]]
    BY <1>1, <1>5 DEF T!Fade
  <2>2. T!TypeOK'
    BY <1>1, <1>5, <2>1 DEF T!Fade, T!TypeOK, AnyCall
  <2> QED
    BY <1>3, <1>5, <2>2 DEF T!Fade
<1>6. ASSUME NEW e \in Evictors, T!BeginEvict(e) PROVE T!IInv' /\ [T!Promise!Next]_v10
  <2>1. T!TypeOK'
    BY <1>1, <1>6 DEF T!BeginEvict, T!TypeOK, AnyCall
  <2> QED
    BY <1>3, <1>6, <2>1 DEF T!BeginEvict
<1>7. ASSUME NEW e \in Evictors, NEW d \in Devices, T!Keep(e, d) PROVE T!IInv' /\ [T!Promise!Next]_v10
  <2>1. v7' \in [Evictors -> SUBSET Devices] /\ v8' \in [Evictors -> [Devices -> T!Adv \cup {T!NoAdv}]]
    BY <1>1, <1>7 DEF T!Keep, T!LookedAt
  <2>2. T!TypeOK'
    BY <1>1, <1>7, <2>1 DEF T!Keep, T!TypeOK, AnyCall
  <2> QED
    BY <1>3, <1>7, <2>2 DEF T!Keep
<1>8. ASSUME NEW e \in Evictors, NEW d \in Devices, T!Stumble(e, d) PROVE T!IInv' /\ [T!Promise!Next]_v10
  <2>1. v7' \in [Evictors -> SUBSET Devices] /\ v8' \in [Evictors -> [Devices -> T!Adv \cup {T!NoAdv}]]
    BY <1>1, <1>8 DEF T!Stumble, T!None
  <2>2. T!TypeOK'
    BY <1>1, <1>8, <2>1 DEF T!Stumble, T!TypeOK, AnyCall
  <2> QED
    BY <1>3, <1>8, <2>2 DEF T!Stumble
<1>9. CASE T!Restart
  <2>1. v7' \in [Evictors -> SUBSET Devices] /\ v8' \in [Evictors -> [Devices -> T!Adv \cup {T!NoAdv}]]
    BY <1>1, <1>9 DEF T!Restart, T!None
  <2>2. T!TypeOK'
    BY <1>1, <1>9, <2>1 DEF T!Restart, T!TypeOK, AnyCall
  <2> QED
    BY <1>3, <1>9, <2>2 DEF T!Restart
<1>10. CASE UNCHANGED T!vars
  <2>1. T!TypeOK'
    BY <1>1, <1>10 DEF T!vars, T!TypeOK, AnyCall
  <2> QED
    BY <1>3, <1>10, <2>1 DEF T!vars
<1>11. ASSUME NEW l \in Listeners, T!Register(l) PROVE T!IInv' /\ [T!Promise!Next]_v10
  BY <1>11, RegisterStep
<1>12. ASSUME NEW d \in Devices, NEW s \in Sources, NEW strength \in Strengths, NEW adv \in T!Adv,
              T!Advertise(d, s, strength, adv)
       PROVE  T!IInv' /\ [T!Promise!Next]_v10
  BY <1>12, AdvertiseStep
<1>13. ASSUME NEW e \in Evictors, NEW d \in Devices, T!Evict(e, d) PROVE T!IInv' /\ [T!Promise!Next]_v10
  BY <1>13, EvictStep
<1> QED
  BY <1>2, <1>4, <1>5, <1>6, <1>7, <1>8, <1>9, <1>10, <1>11, <1>12, <1>13 DEF T!Next

-----------------------------------------------------------------------------
(* USB radios, while no stick is off the bus when something is done to it. *)

Operation == [kind : {"none", "scan", "probe", "flash", "forget"}, at : {"off", "letting go", "working"},
              drivers : SUBSET U!Drivers]
Memory == [driver : U!Drivers \cup {U!None}, firmware : U!Firmwares, claimed : BOOLEAN]
ScanState == [on : BOOLEAN, todo : SUBSET Sticks, found : SUBSET Sticks, drivers : SUBSET U!Drivers]

LEMMA SticksStart == U!Init => U!IInv
<1> SUFFICES ASSUME U!Init PROVE U!IInv
  OBVIOUS
<1>1. U!NoRadio \in U!Radio /\ U!Idle \in Operation /\ U!Nothing \in Memory /\ U!NoScan \in ScanState
  <2>0. U!None \in U!Firmwares
    BY DEF U!Firmwares
  <2>1. U!NoRadio \in U!Radio
    BY <2>0 DEF U!NoRadio, U!Radio
  <2>2. U!Idle \in Operation /\ U!NoScan \in ScanState
    BY DEF U!Idle, Operation, U!NoScan, ScanState
  <2>3. U!Nothing \in Memory
    BY <2>0 DEF U!Nothing, Memory
  <2> QED
    BY <2>1, <2>2, <2>3
<1>2. U!TypeOK
  BY <1>1 DEF U!Init, U!TypeOK, Operation, Memory, ScanState
<1>3. U!NoneIsLost /\ U!AskedIsThere /\ U!ScannedExists
  BY DEF U!Init, U!NoneIsLost, U!AskedIsThere, U!ScannedExists, U!Idle, U!NoScan, U!Asks, U!Objects
<1>4. U!ToldIsRun /\ U!RemembersRight
  BY DEF U!Init, U!ToldIsRun, U!RemembersRight, U!NoRadio, U!Nothing, U!Objects
<1> QED
  BY <1>2, <1>3, <1>4 DEF U!IInv

\* What one step does to one stick: the radio it has, what is done to it, what is kept of it, and
\* the firmware it runs.
StickMoves(s, r, p, k, f) ==
    /\ v7' = [v7 EXCEPT ![s]["now"] = r] /\ v8' = [v8 EXCEPT ![s]["now"] = p]
    /\ v9' = [v9 EXCEPT ![s] = k] /\ v3' = [v3 EXCEPT ![s] = f]
    /\ v1' = v1 /\ v2' = v2 /\ v4' = v4 /\ v5' = v5 /\ v6' = v6
    /\ v10' \in ScanState /\ v10'.on = v10.on /\ v10'.found = v10.found
    /\ v10.todo \ {s} \subseteq v10'.todo /\ v10'.todo \subseteq v10.todo
    /\ p.kind \in U!Asks => s \in v2 /\ r.exists /\ (v10.on => s \in v10.found)
    /\ p.kind = "flash" => r.driver # U!None
    /\ p.kind = "scan" => v10.on
    /\ p.kind = "none" => p = U!Idle
    /\ s \in v6 \/ s \in v10.found \ v10'.todo => r.exists
    /\ ~ (p.kind = "flash" /\ p.at = "working") => r.firmware \in {U!None, f} /\ k.firmware \in {U!None, f}
    /\ ~ v10.on /\ s \in v6 /\ p = U!Idle /\ r.driver # U!None
         => k.driver = r.driver /\ k.firmware = r.firmware

LEMMA StickStep ==
    ASSUME U!IInv, NEW s \in Sticks, NEW r \in U!Radio, NEW p \in Operation, NEW k \in Memory,
           NEW f \in U!Firmwares, StickMoves(s, r, p, k, f)
    PROVE  U!IInv'
<1> USE DEF StickMoves
<1>1. /\ v7 \in [Sticks -> [U!Objects -> U!Radio]] /\ v8 \in [Sticks -> [U!Objects -> Operation]]
      /\ v9 \in [Sticks -> Memory] /\ v3 \in [Sticks -> U!Firmwares] /\ "now" \in U!Objects
           /\ "lost" \in U!Objects
  BY DEF U!IInv, U!TypeOK, Operation, Memory, U!Objects
<1>2. /\ v7' \in [Sticks -> [U!Objects -> U!Radio]] /\ v8' \in [Sticks -> [U!Objects -> Operation]]
      /\ v9' \in [Sticks -> Memory] /\ v3' \in [Sticks -> U!Firmwares]
  BY <1>1
<1>3. U!TypeOK'
  BY <1>2 DEF U!IInv, U!TypeOK, Operation, Memory, ScanState
<1>4. /\ v7'[s]["now"] = r /\ v8'[s]["now"] = p /\ v9'[s] = k /\ v3'[s] = f
      /\ \A t \in Sticks : v7'[t]["lost"] = v7[t]["lost"] /\ v8'[t]["lost"] = v8[t]["lost"]
      /\ \A t \in Sticks \ {s} : v7'[t] = v7[t] /\ v8'[t] = v8[t] /\ v9'[t] = v9[t] /\ v3'[t] = v3[t]
  BY <1>1
<1>5. U!NoneIsLost'
  BY <1>4 DEF U!IInv, U!NoneIsLost
<1>6. U!AskedIsThere'
  BY <1>4 DEF U!IInv, U!AskedIsThere
<1>7. U!ScannedExists'
  <2>1. ASSUME NEW t \in Sticks, t \in v6 \/ t \in v10.found \ v10'.todo PROVE v7'[t]["now"].exists
    <3>1. CASE t = s
      BY <1>4, <2>1, <3>1
    <3>2. CASE t # s
      BY <1>4, <2>1, <3>2 DEF U!IInv, U!ScannedExists
    <3> QED
      BY <3>1, <3>2
  <2>2. v6 \subseteq Sticks /\ v10.found \subseteq Sticks
    BY DEF U!IInv, U!TypeOK
  <2>4. v10'.todo # {} => v10'.on
    BY DEF U!IInv, U!ScannedExists
  <2>3. v6' = v6 /\ v10'.found = v10.found
    OBVIOUS
  <2> QED
    BY <2>1, <2>2, <2>3, <2>4 DEF U!ScannedExists
<1>8. \A t \in Sticks : v8'[t]["lost"].kind = "none"
  BY <1>5 DEF U!NoneIsLost, U!Idle
<1>9. U!ToldIsRun'
  <2> SUFFICES ASSUME NEW t \in Sticks, ~ U!IsFlashed(t)'
               PROVE  (v7'[t]["now"].firmware \in {U!None, v3'[t]} /\ v9'[t].firmware \in {U!None, v3'[t]})
    BY DEF U!ToldIsRun
  <2>1. ~ (v8'[t]["now"].kind = "flash" /\ v8'[t]["now"].at = "working")
    BY <1>1 DEF U!IsFlashed
  <2>2. CASE t = s
    BY <1>4, <2>1, <2>2
  <2>3. CASE t # s
    <3>1. ~ U!IsFlashed(t)
      BY <1>4, <2>3 DEF U!IsFlashed
    <3> QED
      BY <1>4, <2>3, <3>1 DEF U!IInv, U!ToldIsRun
  <2> QED
    BY <2>2, <2>3
<1>10. U!RemembersRight'
  <2> SUFFICES ASSUME ~ v10.on, NEW t \in v6, v8'[t]["now"] = U!Idle, v8'[t]["lost"] = U!Idle,
                      v7'[t]["now"].driver # U!None
               PROVE  v9'[t].driver = v7'[t]["now"].driver /\ v9'[t].firmware = v7'[t]["now"].firmware
    BY DEF U!RemembersRight, U!IsBusy
  <2>1. t \in Sticks
    BY DEF U!IInv, U!TypeOK
  <2>2. CASE t = s
    BY <1>4, <2>2
  <2>3. CASE t # s
    BY <1>4, <2>1, <2>3 DEF U!IInv, U!RemembersRight, U!IsBusy
  <2> QED
    BY <2>2, <2>3
<1> QED
  BY <1>3, <1>5, <1>6, <1>7, <1>9, <1>10 DEF U!IInv

\* As it is, in the terms of the step.
LEMMA StickIs ==
    ASSUME U!IInv, NEW s \in Sticks
    PROVE  /\ v7[s]["now"] \in U!Radio /\ v8[s]["now"] \in Operation /\ v9[s] \in Memory
                /\ v3[s] \in U!Firmwares
           /\ v10 \in ScanState
           /\ v7 = [v7 EXCEPT ![s]["now"] = v7[s]["now"]] /\ v8 = [v8 EXCEPT ![s]["now"] = v8[s]["now"]]
           /\ v9 = [v9 EXCEPT ![s] = v9[s]] /\ v3 = [v3 EXCEPT ![s] = v3[s]]
           /\ v8[s]["lost"] = U!Idle /\ v7[s]["lost"] = U!NoRadio
           /\ v8[s]["now"].kind \in U!Asks => s \in v2 /\ v7[s]["now"].exists /\ (v10.on => s \in v10.found)
           /\ v8[s]["now"].kind = "flash" => v7[s]["now"].driver # U!None
           /\ v8[s]["now"].kind = "scan" => v10.on
           /\ v8[s]["now"].kind = "none" => v8[s]["now"] = U!Idle
           /\ s \in v6 \/ s \in v10.found \ v10.todo => v7[s]["now"].exists
           /\ ~ (v8[s]["now"].kind = "flash" /\ v8[s]["now"].at = "working") =>
                    v7[s]["now"].firmware \in {U!None, v3[s]} /\ v9[s].firmware \in {U!None, v3[s]}
           /\ ~ v10.on /\ s \in v6 /\ v8[s]["now"] = U!Idle /\ v7[s]["now"].driver # U!None =>
                    v9[s].driver = v7[s]["now"].driver /\ v9[s].firmware = v7[s]["now"].firmware
<1>1. /\ v7 \in [Sticks -> [U!Objects -> U!Radio]] /\ v8 \in [Sticks -> [U!Objects -> Operation]]
      /\ v9 \in [Sticks -> Memory] /\ v3 \in [Sticks -> U!Firmwares] /\ "now" \in U!Objects
           /\ "lost" \in U!Objects
      /\ v10 \in ScanState
  BY DEF U!IInv, U!TypeOK, Operation, Memory, U!Objects, ScanState
<1>2. v8[s]["lost"] = U!Idle /\ v7[s]["lost"] = U!NoRadio
  BY DEF U!IInv, U!NoneIsLost
<1>3. ~ (v8[s]["now"].kind = "flash" /\ v8[s]["now"].at = "working") => ~ U!IsFlashed(s)
  BY <1>2 DEF U!IsFlashed, U!Objects, U!Idle
<1>4. ~ (v8[s]["now"].kind = "flash" /\ v8[s]["now"].at = "working") =>
                    v7[s]["now"].firmware \in {U!None, v3[s]} /\ v9[s].firmware \in {U!None, v3[s]}
  BY <1>3 DEF U!IInv, U!ToldIsRun
<1>5. ~ v10.on /\ s \in v6 /\ v8[s]["now"] = U!Idle /\ v7[s]["now"].driver # U!None =>
                    v9[s].driver = v7[s]["now"].driver /\ v9[s].firmware = v7[s]["now"].firmware
  BY <1>2 DEF U!IInv, U!RemembersRight, U!IsBusy
<1>6. /\ v7 = [v7 EXCEPT ![s]["now"] = v7[s]["now"]] /\ v8 = [v8 EXCEPT ![s]["now"] = v8[s]["now"]]
      /\ v9 = [v9 EXCEPT ![s] = v9[s]] /\ v3 = [v3 EXCEPT ![s] = v3[s]]
  BY <1>1
<1>7. /\ v8[s]["now"].kind \in U!Asks => s \in v2 /\ v7[s]["now"].exists /\ (v10.on => s \in v10.found)
      /\ v8[s]["now"].kind = "flash" => v7[s]["now"].driver # U!None
      /\ v8[s]["now"].kind = "scan" => v10.on
      /\ v8[s]["now"].kind = "none" => v8[s]["now"] = U!Idle
  BY DEF U!IInv, U!AskedIsThere
<1>8. s \in v6 \/ s \in v10.found \ v10.todo => v7[s]["now"].exists
  BY DEF U!IInv, U!ScannedExists
<1> QED
  BY <1>1, <1>2, <1>4, <1>5, <1>6, <1>7, <1>8

\* What is told when drivers are asked.
LEMMA WhatIsTold ==
    ASSUME U!IInv, NEW s \in Sticks, NEW q \in U!Radio, NEW ds \in SUBSET U!Drivers,
           NEW r \in U!Recognised(s, q, ds)
    PROVE  r \in U!Radio /\ r.exists = q.exists /\ r.firmware \in {q.firmware, v3[s]}
<1>1. v3[s] \in U!Firmwares
  BY DEF U!IInv, U!TypeOK
<1>2. CASE r = [q EXCEPT !.asked = @ \cup ds]
  BY <1>2 DEF U!Radio
<1>3. CASE \E d \in ds : r = [q EXCEPT !.driver = d, !.firmware = v3[s]]
  BY <1>1, <1>3 DEF U!Radio
<1> QED
  BY <1>2, <1>3 DEF U!Recognised

LEMMA StickNow ==
    ASSUME U!IInv, NEW s \in Sticks, NEW o \in U!Objects, NEW kind, NEW at, kind # "none",
        U!Is(s, o, kind, at)
    PROVE  o = "now" /\ v8[s]["now"].kind = kind /\ v8[s]["now"].at = at
BY StickIs DEF U!Is, U!Objects, U!Idle

LEMMA ScanNextStep ==
    ASSUME U!IInv, NEW s \in Sticks, NEW by, U!ScanNext(s, by)
    PROVE  U!IInv'
<1> DEFINE q == U!Found(s)
           r == U!Restored(s, q)
           isOpened == U!IsTrusted(s, r) /\ r.driver = U!None
           seen == IF r.claimed \/ U!IsBusy(s, "now") THEN r ELSE [r EXCEPT !.held = U!IsHeld(by, isOpened)]
           asks == isOpened /\ ~ seen.held /\ ~ U!IsBusy(s, "now")
           told == [kind |-> "scan", at |-> "working", drivers |-> U!Available \ seen.asked]
           p == IF asks THEN told ELSE v8[s]["now"]
           was == v7[s]["now"]
<1>1. /\ was \in U!Radio /\ v8[s]["now"] \in Operation /\ v9[s] \in Memory /\ v3[s] \in U!Firmwares
      /\ v10 \in ScanState
  BY StickIs
<1>2. /\ q \in U!Radio /\ q.exists /\ (was.exists => q = was)
      /\ q.firmware \in {U!None, was.firmware}
  <2>1. CASE was.exists
    BY <1>1, <2>1 DEF U!Found
  <2>2. CASE ~ was.exists
    <3>1. q = [U!NoRadio EXCEPT !.exists = TRUE, !.claimed = v9[s].claimed]
      BY <2>2 DEF U!Found
    <3>2. v9[s].claimed \in BOOLEAN /\ U!None \in U!Firmwares
      BY <1>1 DEF Memory, U!Firmwares
    <3> QED
      BY <2>2, <3>1, <3>2 DEF U!NoRadio, U!Radio
  <2> QED
    BY <2>1, <2>2
<1>3. /\ r \in U!Radio /\ r.exists /\ r.firmware \in {q.firmware, v9[s].firmware}
      /\ q.driver # U!None => r.driver # U!None
  BY <1>1, <1>2 DEF U!Restored, U!Radio, Memory
<1>4. /\ seen \in U!Radio /\ seen.exists /\ seen.firmware = r.firmware /\ seen.driver = r.driver
  <2>1. U!IsHeld(by, isOpened) \in BOOLEAN
    BY DEF U!IsHeld
  <2> HIDE DEF r, isOpened
  <2> QED
    BY <1>3, <2>1 DEF U!Radio
<1>5. v4 \subseteq Extra
  BY DEF U!IInv, U!TypeOK
<1>6. p \in Operation
  BY <1>1, <1>5 DEF Operation, U!Available, U!Drivers
<1>7. /\ v10' = [v10 EXCEPT !.todo = @ \ {s}] /\ v7' = [v7 EXCEPT ![s]["now"] = seen]
      /\ s \in v10.todo /\ UNCHANGED <<v1, v2, v3, v4, v5, v6, v9>>
      /\ v8' = IF asks THEN [v8 EXCEPT ![s]["now"] = told] ELSE v8
  BY DEF U!ScanNext
<1>8. /\ v8' = [v8 EXCEPT ![s]["now"] = p] /\ v9' = [v9 EXCEPT ![s] = v9[s]] /\ v3' = [v3 EXCEPT ![s] = v3[s]]
  BY <1>7, StickIs
<1>9. /\ v10' \in ScanState /\ v10'.on = v10.on /\ v10'.found = v10.found /\ v10'.todo = v10.todo \ {s}
  BY <1>1, <1>7 DEF ScanState
<1>10. v10.on
  BY <1>7 DEF U!IInv, U!ScannedExists
<1>11. /\ asks => p = told /\ v8[s]["now"] = U!Idle
       /\ ~ asks => p = v8[s]["now"]
  BY DEF U!IsBusy
<1>12. told.kind = "scan" /\ U!Idle.kind = "none"
  BY DEF U!Idle
<1> HIDE DEF q, r, isOpened, seen, asks, told, p, was
<1>13. p.kind \in U!Asks => s \in v2 /\ seen.exists /\ (v10.on => s \in v10.found)
  BY <1>4, <1>11, <1>12, StickIs DEF U!Asks
<1>14. p.kind = "flash" => seen.driver # U!None
  <2>1. SUFFICES ASSUME p.kind = "flash" PROVE seen.driver # U!None
    OBVIOUS
  <2>2. p = v8[s]["now"]
    BY <1>11, <1>12, <2>1
  <2>3. was.exists /\ was.driver # U!None
    BY <2>1, <2>2, StickIs DEF U!Asks, was
  <2> QED
    BY <1>2, <1>3, <1>4, <2>3
<1>15. p.kind = "none" => p = U!Idle
  BY <1>11, <1>12, StickIs
<1>16. ~ (p.kind = "flash" /\ p.at = "working") => seen.firmware \in {U!None, v3[s]}
    /\ v9[s].firmware \in {U!None, v3[s]}
  <2>1. SUFFICES ASSUME ~ (p.kind = "flash" /\ p.at = "working")
                 PROVE  seen.firmware \in {U!None, v3[s]} /\ v9[s].firmware \in {U!None, v3[s]}
    OBVIOUS
  <2>2. ~ (v8[s]["now"].kind = "flash" /\ v8[s]["now"].at = "working")
    BY <1>11, <1>12, <2>1
  <2>3. was.firmware \in {U!None, v3[s]} /\ v9[s].firmware \in {U!None, v3[s]}
    BY <2>2, StickIs DEF was
  <2> QED
    BY <1>2, <1>3, <1>4, <2>3
<1>17. StickMoves(s, seen, p, v9[s], v3[s])
  <2>1. s \in v6 \/ s \in v10.found \ v10'.todo => seen.exists
    BY <1>4
  <2> QED
    BY <1>7, <1>8, <1>9, <1>10, <1>13, <1>14, <1>15, <1>16, <2>1 DEF StickMoves
<1> QED
  BY <1>1, <1>4, <1>6, <1>17, StickStep

LEMMA EndRecogniseStep ==
    ASSUME U!IInv, NEW s \in Sticks, U!EndRecognise(s)
    PROVE  U!IInv'
<1>1. PICK r \in U!Recognised(s, v7[s]["now"], v8[s]["now"].drivers) : v7' = [v7 EXCEPT ![s]["now"] = r]
  BY DEF U!EndRecognise
<1>2. v8[s]["now"].drivers \in SUBSET U!Drivers
  BY StickIs DEF Operation
<1>3. r \in U!Radio /\ r.exists = v7[s]["now"].exists /\ r.firmware \in {v7[s]["now"].firmware, v3[s]}
  BY <1>2, StickIs, WhatIsTold
<1>4. /\ v8' = [v8 EXCEPT ![s]["now"] = U!Idle] /\ UNCHANGED <<v1, v2, v3, v4, v5, v6, v9, v10>>
      /\ v8[s]["now"].kind = "scan"
  BY DEF U!EndRecognise
<1>5. v10.on
  BY <1>4, StickIs
<1>6. U!Idle \in Operation /\ U!Idle.kind = "none"
  BY DEF U!Idle, Operation
<1>7. v9' = [v9 EXCEPT ![s] = v9[s]] /\ v3' = [v3 EXCEPT ![s] = v3[s]]
  BY <1>4, StickIs
<1>8. /\ v10' \in ScanState /\ v10'.on = v10.on /\ v10'.found = v10.found /\ v10'.todo = v10.todo
  BY <1>4, StickIs
<1>9. s \in v6 \/ s \in v10.found \ v10'.todo => r.exists
  BY <1>3, <1>8, StickIs
<1>10. r.firmware \in {U!None, v3[s]} /\ v9[s].firmware \in {U!None, v3[s]}
  BY <1>3, <1>4, StickIs
<1>11. StickMoves(s, r, U!Idle, v9[s], v3[s])
  BY <1>1, <1>4, <1>5, <1>6, <1>7, <1>8, <1>9, <1>10 DEF StickMoves, U!Asks
<1> QED
  BY <1>3, <1>6, <1>11, StickIs, StickStep

\* The steps of what the user asked, and the stick that runs another firmware.
LEMMA BeginStep ==
    ASSUME U!IInv, NEW s \in Sticks, NEW kind \in U!Asks, U!Begin(s, kind)
    PROVE  U!IInv'
<1> DEFINE p == [kind |-> kind, at |-> "letting go",
                 drivers |-> IF kind = "flash" THEN {v7[s]["now"].driver} ELSE {}]
<1>1. /\ s \in v6 /\ v8[s]["now"] = U!Idle /\ s \in v2 /\ (v10.on => s \in v10.found)
      /\ kind = "flash" => v7[s]["now"].driver # U!None
      /\ v8' = [v8 EXCEPT ![s]["now"] = p]
      /\ UNCHANGED <<v1, v2, v3, v4, v5, v6, v7, v9, v10>>
  BY DEF U!Begin, U!IsBusy
<1>2. v7[s]["now"].exists
  BY <1>1, StickIs
<1>3. p \in Operation
  <2>1. kind = "flash" => v7[s]["now"].driver \in U!Drivers
    BY <1>1, StickIs DEF U!Radio
  <2> QED
    BY <2>1 DEF Operation, U!Asks
<1>4. p.kind = kind /\ p.at = "letting go" /\ p # U!Idle /\ U!Idle.kind = "none"
  BY DEF U!Idle, U!Asks
<1>5. v7' = [v7 EXCEPT ![s]["now"] = v7[s]["now"]] /\ v9' = [v9 EXCEPT ![s] = v9[s]]
    /\ v3' = [v3 EXCEPT ![s] = v3[s]]
  BY <1>1, StickIs
<1>6. v10' \in ScanState
  BY <1>1, StickIs
<1>7. v7[s]["now"].firmware \in {U!None, v3[s]} /\ v9[s].firmware \in {U!None, v3[s]}
  BY <1>1, <1>4, StickIs
<1> HIDE DEF p
<1>8. StickMoves(s, v7[s]["now"], p, v9[s], v3[s])
  BY <1>1, <1>2, <1>4, <1>5, <1>6, <1>7 DEF StickMoves, U!Asks
<1> QED
  BY <1>3, <1>8, StickIs, StickStep

LEMMA ProbeStep ==
    ASSUME U!IInv, NEW s \in Sticks, NEW o \in U!Objects, U!Probe(s, o)
    PROVE  U!IInv'
<1> DEFINE r == [v7[s]["now"] EXCEPT !.held = FALSE, !.claimed = TRUE]
           p == [v8[s]["now"] EXCEPT !.at = "working", !.drivers = U!Available]
<1>1. o = "now" /\ v8[s]["now"].kind = "probe" /\ v8[s]["now"].at = "letting go"
  BY StickNow DEF U!Probe
<1>2. /\ v7[s]["now"] \in U!Radio /\ v8[s]["now"] \in Operation /\ v4 \subseteq Extra
      /\ v7 \in [Sticks -> [U!Objects -> U!Radio]] /\ v8 \in [Sticks -> [U!Objects -> Operation]]
  BY StickIs DEF U!IInv, U!TypeOK, Operation
<1>3. /\ r \in U!Radio /\ r.exists = v7[s]["now"].exists /\ r.driver = v7[s]["now"].driver
      /\ r.firmware = v7[s]["now"].firmware
  BY <1>2 DEF U!Radio
<1>4. p \in Operation /\ p.kind = "probe"
  BY <1>1, <1>2 DEF Operation, U!Available, U!Drivers
<1>5. /\ v7' = [v7 EXCEPT ![s]["now"] = r] /\ v8' = [v8 EXCEPT ![s]["now"] = p]
  BY <1>1, <1>2 DEF U!Probe, U!Objects
<1>6. UNCHANGED <<v1, v2, v3, v4, v5, v6, v9, v10>>
  BY DEF U!Probe
<1>7. v10' \in ScanState /\ v9' = [v9 EXCEPT ![s] = v9[s]] /\ v3' = [v3 EXCEPT ![s] = v3[s]]
  BY <1>6, StickIs
<1>8. s \in v2 /\ v7[s]["now"].exists /\ (v10.on => s \in v10.found)
  BY <1>1, StickIs DEF U!Asks
<1>9. r.firmware \in {U!None, v3[s]} /\ v9[s].firmware \in {U!None, v3[s]}
  BY <1>1, <1>3, StickIs
<1>10. p # U!Idle
  BY <1>4 DEF U!Idle
<1> HIDE DEF r, p
<1>11. StickMoves(s, r, p, v9[s], v3[s])
  BY <1>3, <1>4, <1>5, <1>6, <1>7, <1>8, <1>9, <1>10 DEF StickMoves, U!Asks
<1> QED
  BY <1>3, <1>4, <1>11, StickIs, StickStep

\* What was asked is done: its lock is let go of, and what is told is remembered.
LEMMA DoneStep ==
    ASSUME U!IInv, NEW s \in Sticks, NEW o \in U!Objects, NEW r \in U!Radio, NEW k \in Memory,
           v8[s][o].kind \in U!Asks, U!Done(s, o, r), v9' = [v9 EXCEPT ![s] = k],
           UNCHANGED <<v1, v2, v3, v4, v5, v6, v10>>,
           r.exists, r.firmware \in {U!None, v3[s]}, k.firmware \in {U!None, v3[s]},
           r.driver # U!None => k.driver = r.driver /\ k.firmware = r.firmware
    PROVE  U!IInv'
<1>1. o = "now" /\ U!Idle \in Operation /\ U!Idle.kind = "none"
  <2>1. U!Idle \in Operation /\ U!Idle.kind = "none"
    BY DEF U!Idle, Operation
  <2>2. o # "lost"
    BY <2>1, StickIs DEF U!Asks
  <2> QED
    BY <2>1, <2>2 DEF U!Objects
<1>2. v7' = [v7 EXCEPT ![s]["now"] = r] /\ v8' = [v8 EXCEPT ![s]["now"] = U!Idle]
  BY <1>1 DEF U!Done
<1>3. v10' \in ScanState /\ v3' = [v3 EXCEPT ![s] = v3[s]]
  BY StickIs
<1>4. StickMoves(s, r, U!Idle, k, v3[s])
  BY <1>1, <1>2, <1>3 DEF StickMoves, U!Asks
<1> QED
  BY <1>1, <1>4, StickIs, StickStep

LEMMA EndProbeStep ==
    ASSUME U!IInv, NEW s \in Sticks, NEW o \in U!Objects, U!EndProbe(s, o)
    PROVE  U!IInv'
<1>1. o = "now" /\ v8[s]["now"].kind = "probe"
  BY StickNow DEF U!EndProbe
<1>2. PICK r \in U!Recognised(s, v7[s]["now"], v8[s]["now"].drivers) : U!Done(s, "now", r) /\ U!Remember(s, r)
  BY <1>1 DEF U!EndProbe
<1>3. v8[s]["now"].drivers \in SUBSET U!Drivers
  BY StickIs DEF Operation
<1>4. r \in U!Radio /\ r.exists = v7[s]["now"].exists /\ r.firmware \in {v7[s]["now"].firmware, v3[s]}
  BY <1>3, StickIs, WhatIsTold
<1>5. v7[s]["now"].exists /\ v7[s]["now"].firmware \in {U!None, v3[s]}
  BY <1>1, StickIs DEF U!Asks
<1>6. U!Kept(r) \in Memory /\ U!Kept(r).driver = r.driver /\ U!Kept(r).firmware = r.firmware
  BY <1>4 DEF U!Kept, Memory, U!Radio
<1>7. v9' = [v9 EXCEPT ![s] = U!Kept(r)]
  BY <1>2 DEF U!Remember
<1>8. UNCHANGED <<v1, v2, v3, v4, v5, v6, v10>>
  BY DEF U!EndProbe
<1>9. r.exists /\ r.firmware \in {U!None, v3[s]} /\ U!Kept(r).firmware \in {U!None, v3[s]}
  BY <1>4, <1>5, <1>6
<1>10. "now" \in U!Objects /\ v8[s]["now"].kind \in U!Asks
  BY <1>1 DEF U!Objects, U!Asks
<1> QED
  BY <1>2, <1>4, <1>6, <1>7, <1>8, <1>9, <1>10, DoneStep

LEMMA FlashStep ==
    ASSUME U!IInv, NEW s \in Sticks, NEW o \in U!Objects, U!Flash(s, o)
    PROVE  U!IInv'
<1> DEFINE p == [v8[s]["now"] EXCEPT !.at = "working"]
<1>1. o = "now" /\ v8[s]["now"].kind = "flash"
  BY StickNow DEF U!Flash
<1>2. v8[s]["now"] \in Operation /\ p \in Operation /\ p.kind = "flash" /\ p.at = "working"
  <2>1. v8[s]["now"] \in Operation
    BY StickIs
  <2> QED
    BY <1>1, <2>1 DEF Operation
<1>3. v8' = [v8 EXCEPT ![s]["now"] = p] /\ UNCHANGED <<v1, v2, v3, v4, v5, v6, v7, v9, v10>>
  <2>1. v8 \in [Sticks -> [U!Objects -> Operation]]
    BY DEF U!IInv, U!TypeOK, Operation
  <2> QED
    BY <1>1, <2>1 DEF U!Flash, U!Objects
<1>4. /\ v10' \in ScanState /\ v9' = [v9 EXCEPT ![s] = v9[s]] /\ v3' = [v3 EXCEPT ![s] = v3[s]]
      /\ v7' = [v7 EXCEPT ![s]["now"] = v7[s]["now"]]
  BY <1>3, StickIs
<1>5. s \in v2 /\ v7[s]["now"].exists /\ (v10.on => s \in v10.found) /\ v7[s]["now"].driver # U!None
  BY <1>1, StickIs DEF U!Asks
<1>6. p # U!Idle
  BY <1>2 DEF U!Idle
<1> HIDE DEF p
<1>7. StickMoves(s, v7[s]["now"], p, v9[s], v3[s])
  BY <1>2, <1>3, <1>4, <1>5, <1>6 DEF StickMoves, U!Asks
<1> QED
  BY <1>2, <1>7, StickIs, StickStep

LEMMA FlashTakesStep ==
    ASSUME U!IInv, NEW s \in Sticks, NEW o \in U!Objects, U!FlashTakes(s, o)
    PROVE  U!IInv'
<1> DEFINE p == v8[s]["now"]
<1>1. o = "now" /\ p.kind = "flash" /\ p.at = "working"
  BY StickNow DEF U!FlashTakes
<1>2. PICK f \in U!Firmwares : v3' = [v3 EXCEPT ![s] = f]
  BY DEF U!FlashTakes
<1>3. UNCHANGED <<v1, v2, v4, v5, v6, v7, v8, v9, v10>>
  BY DEF U!FlashTakes
<1>4. /\ v10' \in ScanState /\ v9' = [v9 EXCEPT ![s] = v9[s]] /\ v8' = [v8 EXCEPT ![s]["now"] = p]
      /\ v7' = [v7 EXCEPT ![s]["now"] = v7[s]["now"]]
  BY <1>3, StickIs
<1>5. s \in v2 /\ v7[s]["now"].exists /\ (v10.on => s \in v10.found) /\ v7[s]["now"].driver # U!None
  BY <1>1, StickIs DEF U!Asks
<1>6. p # U!Idle /\ p \in Operation
  BY <1>1, StickIs DEF U!Idle
<1> HIDE DEF p
<1>7. StickMoves(s, v7[s]["now"], p, v9[s], f)
  BY <1>1, <1>2, <1>3, <1>4, <1>5, <1>6 DEF StickMoves, U!Asks
<1> QED
  BY <1>6, <1>7, StickIs, StickStep

LEMMA EndFlashStep ==
    ASSUME U!IInv, NEW s \in Sticks, NEW o \in U!Objects, U!EndFlash(s, o)
    PROVE  U!IInv'
<1>1. o = "now" /\ v8[s]["now"].kind = "flash"
  BY StickNow DEF U!EndFlash
<1>2. PICK f \in {U!None, v3[s]} :
         /\ U!Done(s, "now", [v7[s]["now"] EXCEPT !.firmware = f])
         /\ U!Remember(s, [v7[s]["now"] EXCEPT !.firmware = f])
  BY <1>1 DEF U!EndFlash
<1> DEFINE r == [v7[s]["now"] EXCEPT !.firmware = f]
<1>3. f \in U!Firmwares
  BY StickIs DEF U!Firmwares
<1>4. r \in U!Radio /\ r.exists = v7[s]["now"].exists /\ r.firmware = f
  BY <1>3, StickIs DEF U!Radio
<1>5. v7[s]["now"].exists
  BY <1>1, StickIs DEF U!Asks
<1>6. U!Kept(r) \in Memory /\ U!Kept(r).driver = r.driver /\ U!Kept(r).firmware = r.firmware
  BY <1>4 DEF U!Kept, Memory, U!Radio
<1>7. U!Done(s, "now", r) /\ v9' = [v9 EXCEPT ![s] = U!Kept(r)]
  BY <1>2 DEF U!Remember
<1> HIDE DEF r
<1>8. UNCHANGED <<v1, v2, v3, v4, v5, v6, v10>>
  BY DEF U!EndFlash
<1>9. r.exists /\ r.firmware \in {U!None, v3[s]} /\ U!Kept(r).firmware \in {U!None, v3[s]}
  BY <1>2, <1>4, <1>5, <1>6
<1>10. "now" \in U!Objects /\ v8[s]["now"].kind \in U!Asks
  BY <1>1 DEF U!Objects, U!Asks
<1> QED
  BY <1>4, <1>6, <1>7, <1>8, <1>9, <1>10, DoneStep

LEMMA ForgetStep ==
    ASSUME U!IInv, NEW s \in Sticks, NEW o \in U!Objects, U!Forget(s, o)
    PROVE  U!IInv'
<1> DEFINE r == [U!NoRadio EXCEPT !.exists = TRUE, !.held = v7[s]["now"].held]
<1>1. o = "now" /\ v8[s]["now"].kind = "forget"
  BY StickNow DEF U!Forget
<1>2. v7[s]["now"].held \in BOOLEAN /\ U!None \in U!Firmwares
  BY StickIs DEF U!Radio, U!Firmwares
<1>3. r \in U!Radio /\ r.exists /\ r.firmware = U!None /\ r.driver = U!None
  BY <1>2 DEF U!NoRadio, U!Radio
<1>4. U!Nothing \in Memory /\ U!Nothing.firmware = U!None
  BY <1>2 DEF U!Nothing, Memory
<1>5. U!Done(s, "now", r) /\ v9' = [v9 EXCEPT ![s] = U!Nothing]
  BY <1>1 DEF U!Forget
<1> HIDE DEF r
<1>6. UNCHANGED <<v1, v2, v3, v4, v5, v6, v10>>
  BY DEF U!Forget
<1>7. r.firmware \in {U!None, v3[s]} /\ U!Nothing.firmware \in {U!None, v3[s]}
  BY <1>3, <1>4
<1>8. r.driver # U!None => U!Nothing.driver = r.driver /\ U!Nothing.firmware = r.firmware
  BY <1>3
<1>9. "now" \in U!Objects /\ v8[s]["now"].kind \in U!Asks
  BY <1>1 DEF U!Objects, U!Asks
<1> QED
  BY <1>3, <1>4, <1>5, <1>6, <1>7, <1>8, <1>9, DoneStep

\* What comes to each stick's objects when all of ss are the scanner's no more, none of which the
\* user asked something of.
LEMMA NoneIsDropped ==
    ASSUME U!IInv, NEW ss \in SUBSET Sticks, U!Dropped(ss),
           \A s \in ss : v8[s]["now"].kind \notin U!Asks
    PROVE  /\ v7' \in [Sticks -> [U!Objects -> U!Radio]] /\ v8' \in [Sticks -> [U!Objects -> Operation]]
           /\ \A s \in Sticks : v7'[s]["lost"] = U!NoRadio /\ v8'[s]["lost"] = U!Idle
           /\ \A s \in ss : v7'[s]["now"] = U!NoRadio /\ v8'[s]["now"] = U!Idle
           /\ \A s \in Sticks \ ss : v7'[s] = v7[s] /\ v8'[s] = v8[s]
<1>1. /\ v7 \in [Sticks -> [U!Objects -> U!Radio]] /\ v8 \in [Sticks -> [U!Objects -> Operation]]
      /\ U!Objects = {"now", "lost"}
  BY DEF U!IInv, U!TypeOK, Operation, U!Objects
<1>2. U!NoRadio \in U!Radio /\ U!Idle \in Operation
  <2>1. U!None \in U!Firmwares
    BY DEF U!Firmwares
  <2> QED
    BY <2>1 DEF U!NoRadio, U!Radio, U!Idle, Operation
<1>3. \A s \in ss : v8[s]["now"] = U!Idle \/ v8[s]["now"].kind = "scan"
  BY StickIs DEF U!Asks, Operation
<1>4. \A s \in ss : ~ (U!IsBusy(s, "now") /\ v8[s]["now"].kind # "scan")
  BY <1>3 DEF U!IsBusy
<1>5. \A s \in Sticks : v7[s]["lost"] = U!NoRadio /\ v8[s]["lost"] = U!Idle
  BY StickIs
<1>6. v7' = [s \in Sticks |-> IF s \notin ss THEN v7[s]
                              ELSE [now |-> U!NoRadio,
                                    lost |-> IF U!IsBusy(s, "now") /\ v8[s]["now"].kind # "scan"
                                             THEN v7[s]["now"] ELSE v7[s]["lost"]]]
  BY DEF U!Dropped
<1>7. v8' = [s \in Sticks |-> IF s \notin ss THEN v8[s]
                              ELSE [now |-> U!Idle,
                                    lost |-> IF v8[s]["now"].kind \in {"probe", "flash", "forget"}
                                             THEN v8[s]["now"] ELSE v8[s]["lost"]]]
  BY DEF U!Dropped
<1>8. \A s \in ss : v7'[s] = [now |-> U!NoRadio, lost |-> U!NoRadio]
  BY <1>4, <1>5, <1>6
<1>9. \A s \in ss : v8'[s] = [now |-> U!Idle, lost |-> U!Idle]
  BY <1>5, <1>7 DEF U!Asks
<1>10. \A s \in Sticks \ ss : v7'[s] = v7[s] /\ v8'[s] = v8[s]
  BY <1>6, <1>7
<1>11. v7' = [s \in Sticks |-> v7'[s]] /\ v8' = [s \in Sticks |-> v8'[s]]
  BY <1>6, <1>7
<1>12. \A s \in Sticks : v7'[s] \in [U!Objects -> U!Radio] /\ v8'[s] \in [U!Objects -> Operation]
  <2> SUFFICES ASSUME NEW s \in Sticks
               PROVE  v7'[s] \in [U!Objects -> U!Radio] /\ v8'[s] \in [U!Objects -> Operation]
    OBVIOUS
  <2>1. CASE s \in ss
    <3>1. [now |-> U!NoRadio, lost |-> U!NoRadio] \in [U!Objects -> U!Radio]
      BY <1>1, <1>2
    <3>2. [now |-> U!Idle, lost |-> U!Idle] \in [U!Objects -> Operation]
      BY <1>1, <1>2
    <3> QED
      BY <1>8, <1>9, <2>1, <3>1, <3>2
  <2>2. CASE s \notin ss
    BY <1>1, <1>10, <2>2
  <2> QED
    BY <2>1, <2>2
<1>13. v7' \in [Sticks -> [U!Objects -> U!Radio]] /\ v8' \in [Sticks -> [U!Objects -> Operation]]
  BY <1>11, <1>12
<1> DEFINE gone == [now |-> U!NoRadio, lost |-> U!NoRadio]
           free == [now |-> U!Idle, lost |-> U!Idle]
<1>14. /\ gone["now"] = U!NoRadio /\ gone["lost"] = U!NoRadio
       /\ free["now"] = U!Idle /\ free["lost"] = U!Idle
  OBVIOUS
<1>15. \A s \in ss : v7'[s] = gone /\ v8'[s] = free
  BY <1>8, <1>9
<1> HIDE DEF gone, free
<1>16. \A s \in ss : v7'[s]["now"] = U!NoRadio /\ v8'[s]["now"] = U!Idle
  BY <1>14, <1>15
<1>17. \A s \in Sticks : v7'[s]["lost"] = U!NoRadio /\ v8'[s]["lost"] = U!Idle
  BY <1>5, <1>10, <1>14, <1>15
<1> QED
  BY <1>10, <1>13, <1>16, <1>17

LEMMA IsNotFlashed ==
    ASSUME U!IInv, NEW s \in Sticks, ~ U!IsFlashed(s)
    PROVE  v7[s]["now"].firmware \in {U!None, v3[s]} /\ v9[s].firmware \in {U!None, v3[s]}
BY DEF U!IInv, U!ToldIsRun

\* Only the plugs, the drivers and whether the scanner runs change.
PlugsOnly ==
    /\ UNCHANGED <<v1, v3, v6, v7, v8, v9, v10>>
    /\ v2' \subseteq Sticks /\ v4' \subseteq Extra /\ v5' \in BOOLEAN
    /\ \A s \in Sticks : v8[s]["now"].kind \in U!Asks /\ s \in v2 => s \in v2'

LEMMA PlugsStep ==
    ASSUME U!IInv,
           \/ \E s \in Sticks : U!Plug(s) \/ U!Unplug(s)
           \/ \E d \in Extra : U!Bind(d)
           \/ U!Start
    PROVE  U!IInv'
<1> USE DEF PlugsOnly
<1>1. PlugsOnly
  <2>1. v2 \subseteq Sticks /\ v4 \subseteq Extra /\ v5 \in BOOLEAN
    BY DEF U!IInv, U!TypeOK
  <2>2. CASE \E s \in Sticks : U!Plug(s)
    BY <2>1, <2>2 DEF U!Plug
  <2>3. ASSUME NEW s \in Sticks, U!Unplug(s) PROVE PlugsOnly
    <3>1. v8[s]["now"].kind \notin U!Asks
      BY <2>3 DEF U!Unplug, U!MayDrop, U!Objects, U!Asks
    <3> QED
      BY <2>1, <2>3, <3>1 DEF U!Unplug
  <2>4. ASSUME NEW d \in Extra, U!Bind(d) PROVE PlugsOnly
    BY <2>1, <2>4 DEF U!Bind
  <2>5. CASE U!Start
    BY <2>1, <2>5 DEF U!Start
  <2> QED
    BY <2>2, <2>3, <2>4, <2>5
<1>2. U!TypeOK'
  BY <1>1 DEF U!IInv, U!TypeOK
<1>3. U!NoneIsLost' /\ U!ScannedExists' /\ U!RemembersRight'
  BY <1>1 DEF U!IInv, U!NoneIsLost, U!ScannedExists, U!RemembersRight, U!IsBusy
<1>4. U!AskedIsThere'
  BY <1>1 DEF U!IInv, U!AskedIsThere
<1>5. U!ToldIsRun'
  BY <1>1 DEF U!IInv, U!ToldIsRun, U!IsFlashed
<1> QED
  BY <1>2, <1>3, <1>4, <1>5 DEF U!IInv

\* While the scanner is off nothing is listed, scanned or worked on.
LEMMA OffStep ==
    ASSUME U!IInv, v3' = v3, v9' = v9, v1' = v1, v2' = v2, v4' \subseteq Extra, v5' = FALSE, v6' = {},
           v10' = U!NoScan,
           v7' \in [Sticks -> [U!Objects -> U!Radio]], v8' \in [Sticks -> [U!Objects -> Operation]],
           \A s \in Sticks : ~ U!IsFlashed(s),
           \A s \in Sticks : /\ v7'[s]["now"] = U!NoRadio /\ v7'[s]["lost"] = U!NoRadio
                             /\ v8'[s]["now"] = U!Idle /\ v8'[s]["lost"] = U!Idle
    PROVE  U!IInv'
<1>1. U!NoScan \in ScanState /\ U!NoScan.found = {} /\ U!NoScan.todo = {} /\ ~ U!NoScan.on
  BY DEF U!NoScan, ScanState
<1>2. U!TypeOK'
  BY <1>1 DEF U!IInv, U!TypeOK, Operation, ScanState
<1>3. U!NoneIsLost' /\ U!ScannedExists' /\ U!RemembersRight'
  BY <1>1 DEF U!NoneIsLost, U!ScannedExists, U!RemembersRight
<1>4. U!AskedIsThere'
  BY DEF U!AskedIsThere, U!Idle, U!Asks
<1>5. U!ToldIsRun'
  <2>1. \A s \in Sticks : v9[s].firmware \in {U!None, v3[s]}
    BY IsNotFlashed
  <2> QED
    BY <2>1 DEF U!ToldIsRun, U!NoRadio
<1> QED
  BY <1>2, <1>3, <1>4, <1>5 DEF U!IInv

LEMMA StopStep == ASSUME U!IInv, U!Stop PROVE U!IInv'
<1>1. \A s \in Sticks : v8[s]["now"].kind \notin U!Asks /\ ~ U!IsFlashed(s)
  BY DEF U!Stop, U!MayDrop, U!Asks, U!Objects, U!IsFlashed
<1>2. U!Dropped(Sticks)
  BY DEF U!Stop
<1>3. /\ v7' \in [Sticks -> [U!Objects -> U!Radio]] /\ v8' \in [Sticks -> [U!Objects -> Operation]]
      /\ \A s \in Sticks : v7'[s]["lost"] = U!NoRadio /\ v8'[s]["lost"] = U!Idle
      /\ \A s \in Sticks : v7'[s]["now"] = U!NoRadio /\ v8'[s]["now"] = U!Idle
  BY <1>1, <1>2, NoneIsDropped
<1>4. /\ v3' = v3 /\ v9' = v9 /\ v1' = v1 /\ v2' = v2 /\ v4' = v4 /\ v5' = FALSE /\ v6' = {}
           /\ v10' = U!NoScan
      /\ v4 \subseteq Extra
  BY DEF U!Stop, U!IInv, U!TypeOK
<1> QED
  BY <1>1, <1>3, <1>4, OffStep

LEMMA CrashStep == ASSUME U!IInv, U!Crash PROVE U!IInv'
<1>1. U!NoRadio \in U!Radio /\ U!Idle \in Operation
  <2>1. U!None \in U!Firmwares
    BY DEF U!Firmwares
  <2> QED
    BY <2>1 DEF U!NoRadio, U!Radio, U!Idle, Operation
<1>2. /\ v7' = [s \in Sticks |-> [o \in U!Objects |-> U!NoRadio]]
      /\ v8' = [s \in Sticks |-> [o \in U!Objects |-> U!Idle]]
      /\ v3' = v3 /\ v9' = v9 /\ v1' = v1 /\ v2' = v2 /\ v4' = {} /\ v5' = FALSE /\ v6' = {}
           /\ v10' = U!NoScan
      /\ \A s \in Sticks : ~ U!IsFlashed(s)
  BY DEF U!Crash
<1>3. /\ v7' \in [Sticks -> [U!Objects -> U!Radio]] /\ v8' \in [Sticks -> [U!Objects -> Operation]]
      /\ \A s \in Sticks : /\ v7'[s]["now"] = U!NoRadio /\ v7'[s]["lost"] = U!NoRadio
                             /\ v8'[s]["now"] = U!Idle /\ v8'[s]["lost"] = U!Idle
  BY <1>1, <1>2 DEF U!Objects
<1> QED
  BY <1>2, <1>3, OffStep

LEMMA BeginScanStep == ASSUME U!IInv, U!BeginScan PROVE U!IInv'
<1>1. /\ UNCHANGED <<v1, v2, v3, v4, v5, v6, v7, v8, v9>>
      /\ v10' = [on |-> TRUE, todo |-> v2, found |-> v2, drivers |-> U!Available]
  BY DEF U!BeginScan
<1>2. v2 \subseteq Sticks /\ U!Available \subseteq U!Drivers
  BY DEF U!IInv, U!TypeOK, U!Available, U!Drivers
<1>3. v10' \in ScanState
  BY <1>1, <1>2 DEF ScanState
<1>4. U!TypeOK'
  BY <1>1, <1>3 DEF U!IInv, U!TypeOK, ScanState
<1>5. U!NoneIsLost' /\ U!ScannedExists' /\ U!RemembersRight'
  BY <1>1 DEF U!IInv, U!NoneIsLost, U!ScannedExists, U!RemembersRight
<1>6. U!AskedIsThere'
  BY <1>1 DEF U!IInv, U!AskedIsThere
<1>7. U!ToldIsRun'
  BY <1>1 DEF U!IInv, U!ToldIsRun, U!IsFlashed
<1> QED
  BY <1>4, <1>5, <1>6, <1>7 DEF U!IInv

LEMMA EndScanStep == ASSUME U!IInv, U!EndScan PROVE U!IInv'
<1> DEFINE keeps(s) == s \in v10.found /\ (v7[s]["now"].driver # U!None \/ v7[s]["now"].claimed)
<1>1. /\ v10.on /\ v10.todo = {} /\ v10' = U!NoScan /\ v6' = v10.found /\ U!Dropped(Sticks \ v10.found)
      /\ v1' = v1 /\ v2' = v2 /\ v3' = v3 /\ v4' = v4 /\ v5' = v5
      /\ \A s \in Sticks : v8[s]["now"].kind # "scan"
      /\ v9' = [s \in Sticks |-> IF keeps(s) THEN U!Kept(v7[s]["now"]) ELSE v9[s]]
  BY DEF U!EndScan
<1>2. v10.found \subseteq Sticks
  BY DEF U!IInv, U!TypeOK
<1>3. \A s \in Sticks \ v10.found : v8[s]["now"].kind \notin U!Asks
  BY <1>1, StickIs
<1>4. /\ v7' \in [Sticks -> [U!Objects -> U!Radio]] /\ v8' \in [Sticks -> [U!Objects -> Operation]]
      /\ \A s \in Sticks : v7'[s]["lost"] = U!NoRadio /\ v8'[s]["lost"] = U!Idle
      /\ \A s \in Sticks \ v10.found : v7'[s]["now"] = U!NoRadio /\ v8'[s]["now"] = U!Idle
      /\ \A s \in v10.found : v7'[s] = v7[s] /\ v8'[s] = v8[s]
  <2>1. Sticks \ (Sticks \ v10.found) = v10.found
    BY <1>2
  <2> DEFINE ss == Sticks \ v10.found
  <2>2. ss \in SUBSET Sticks /\ U!Dropped(ss) /\ \A s \in ss : v8[s]["now"].kind \notin U!Asks
    BY <1>1, <1>3
  <2>3. Sticks \ ss = v10.found
    BY <2>1
  <2> HIDE DEF ss
  <2>4. /\ v7' \in [Sticks -> [U!Objects -> U!Radio]] /\ v8' \in [Sticks -> [U!Objects -> Operation]]
        /\ \A s \in Sticks : v7'[s]["lost"] = U!NoRadio /\ v8'[s]["lost"] = U!Idle
        /\ \A s \in ss : v7'[s]["now"] = U!NoRadio /\ v8'[s]["now"] = U!Idle
        /\ \A s \in Sticks \ ss : v7'[s] = v7[s] /\ v8'[s] = v8[s]
    BY <2>2, NoneIsDropped
  <2> QED
    BY <2>3, <2>4 DEF ss
<1>5. \A s \in Sticks : /\ U!Kept(v7[s]["now"]) \in Memory
                         /\ U!Kept(v7[s]["now"]).driver = v7[s]["now"].driver
                         /\ U!Kept(v7[s]["now"]).firmware = v7[s]["now"].firmware
  BY StickIs DEF U!Kept, Memory, U!Radio
<1>6. v9' \in [Sticks -> Memory] /\ \A s \in Sticks : v9'[s] \in {v9[s], U!Kept(v7[s]["now"])}
  <2>1. \A s \in Sticks : v9[s] \in Memory
    BY StickIs
  <2> QED
    BY <1>1, <1>5, <2>1
<1>7. U!NoScan \in ScanState /\ U!NoScan.found = {} /\ U!NoScan.todo = {} /\ ~ U!NoScan.on
  BY DEF U!NoScan, ScanState
<1>8. U!TypeOK'
  BY <1>1, <1>2, <1>4, <1>6, <1>7 DEF U!IInv, U!TypeOK, Operation, Memory, ScanState
<1>9. U!NoneIsLost'
  BY <1>4 DEF U!NoneIsLost
<1>10. U!ScannedExists'
  <2>1. \A s \in v10.found : v7[s]["now"].exists
    BY <1>1 DEF U!IInv, U!ScannedExists
  <2> QED
    BY <1>1, <1>4, <1>7, <2>1 DEF U!ScannedExists
<1>11. U!AskedIsThere'
  <2> SUFFICES ASSUME NEW s \in Sticks
               PROVE  /\ v8'[s]["now"].kind \in U!Asks => s \in v2 /\ v7'[s]["now"].exists
                      /\ v8'[s]["now"].kind = "flash" => v7'[s]["now"].driver # U!None
                      /\ v8'[s]["now"].kind # "scan"
                      /\ v8'[s]["now"].kind = "none" => v8'[s]["now"] = U!Idle
    BY <1>1, <1>7 DEF U!AskedIsThere
  <2>1. CASE s \in v10.found
    BY <1>1, <1>4, <2>1, StickIs
  <2>2. CASE s \notin v10.found
    <3>1. v8'[s]["now"] = U!Idle
      BY <1>4, <2>2
    <3> QED
      BY <3>1 DEF U!Idle, U!Asks
  <2> QED
    BY <2>1, <2>2
<1>12. U!ToldIsRun'
  <2> SUFFICES ASSUME NEW s \in Sticks, ~ U!IsFlashed(s)'
               PROVE  v7'[s]["now"].firmware \in {U!None, v3[s]} /\ v9'[s].firmware \in {U!None, v3[s]}
    BY <1>1 DEF U!ToldIsRun
  <2>1. ~ U!IsFlashed(s)
    <3>1. CASE s \in v10.found
      BY <1>4, <3>1 DEF U!IsFlashed
    <3>2. CASE s \notin v10.found
      <4>1. v8[s]["now"].kind \notin U!Asks /\ v8[s]["lost"] = U!Idle
        BY <1>3, <3>2, StickIs
      <4> QED
        BY <4>1 DEF U!IsFlashed, U!Objects, U!Asks, U!Idle
    <3> QED
      BY <3>1, <3>2
  <2>2. v7[s]["now"].firmware \in {U!None, v3[s]} /\ v9[s].firmware \in {U!None, v3[s]}
    BY <2>1, IsNotFlashed
  <2>3. v9'[s].firmware \in {U!None, v3[s]}
    BY <1>5, <1>6, <2>2
  <2>4. CASE s \in v10.found
    BY <1>4, <2>2, <2>3, <2>4
  <2>5. CASE s \notin v10.found
    <3>1. v7'[s]["now"] = U!NoRadio
      BY <1>4, <2>5
    <3> QED
      BY <2>3, <3>1 DEF U!NoRadio
  <2> QED
    BY <2>4, <2>5
<1>13. U!RemembersRight'
  <2> SUFFICES ASSUME NEW s \in v10.found, v7'[s]["now"].driver # U!None
               PROVE  v9'[s].driver = v7'[s]["now"].driver /\ v9'[s].firmware = v7'[s]["now"].firmware
    BY <1>1 DEF U!RemembersRight
  <2>1. s \in Sticks /\ v7'[s] = v7[s]
    BY <1>2, <1>4
  <2>2. v9'[s] = U!Kept(v7[s]["now"])
    BY <1>1, <2>1
  <2> QED
    BY <1>5, <2>1, <2>2
<1> QED
  BY <1>8, <1>9, <1>10, <1>11, <1>12, <1>13 DEF U!IInv

\* Every step of the scanner keeps it.
LEMMA SticksStep == U!IInv /\ [U!Next]_(U!vars) => U!IInv'
<1> SUFFICES ASSUME U!IInv, [U!Next]_(U!vars) PROVE U!IInv'
  OBVIOUS
<1>1. CASE UNCHANGED U!vars
  BY <1>1 DEF U!vars, U!IInv, U!TypeOK, U!NoneIsLost, U!AskedIsThere, U!ScannedExists, U!ToldIsRun,
              U!RemembersRight, U!IsBusy, U!IsFlashed
<1>2. CASE U!Stop
  BY <1>2, StopStep
<1>3. CASE U!Crash
  BY <1>3, CrashStep
<1>4. CASE U!BeginScan
  BY <1>4, BeginScanStep
<1>5. CASE U!EndScan
  BY <1>5, EndScanStep
<1>6. CASE U!Start \/ (\E d \in Extra : U!Bind(d)) \/ \E s \in Sticks : U!Plug(s) \/ U!Unplug(s)
  BY <1>6, PlugsStep
<1>7. CASE \E s \in Sticks : U!EndRecognise(s)
  BY <1>7, EndRecogniseStep
<1>8. CASE \E s \in Sticks : \E by \in {U!None, "open", "locked"} : U!ScanNext(s, by)
  BY <1>8, ScanNextStep
<1>9. CASE \E s \in Sticks : \E kind \in {"probe", "flash", "forget"} : U!Begin(s, kind)
  BY <1>9, BeginStep DEF U!Asks
<1>10. CASE \E s \in Sticks : \E o \in U!Objects : U!Probe(s, o) \/ U!EndProbe(s, o) \/ U!Forget(s, o)
  BY <1>10, ProbeStep, EndProbeStep, ForgetStep
<1>11. CASE \E s \in Sticks : \E o \in U!Objects : U!Flash(s, o) \/ U!FlashTakes(s, o) \/ U!EndFlash(s, o)
  BY <1>11, FlashStep, FlashTakesStep, EndFlashStep
<1> QED
  BY <1>1, <1>2, <1>3, <1>4, <1>5, <1>6, <1>7, <1>8, <1>9, <1>10, <1>11 DEF U!Next

\* A radio that serves is not worked on, so it is what is told.
LEMMA SticksServe == U!IInv => U!ServesWhatRuns
<1> SUFFICES ASSUME U!IInv, NEW s \in Sticks, U!Serves(s) PROVE v7[s]["now"].firmware = v3[s]
  BY DEF U!ServesWhatRuns
<1>1. v8[s]["now"] = U!Idle /\ v8[s]["lost"] = U!Idle /\ v7[s]["now"].firmware # U!None
  BY StickIs DEF U!Serves, U!IsBusy
<1>2. ~ U!IsFlashed(s)
  BY <1>1 DEF U!IsFlashed, U!Objects, U!Idle
<1> QED
  BY <1>1, <1>2, IsNotFlashed

-----------------------------------------------------------------------------
(* Host ports.  What is kept is apart from what others keep as it is chosen, and what was chosen
   before docker answered is what was kept already.  What is rendered is what is kept; so what
   docker is taking may be older only for a start whose apply is still to come. *)

\* A set of naturals that is not empty has a first one, and CHOOSE finds it.
LEMMA FirstIs ==
    ASSUME NEW ps \in SUBSET Nat, ps # {}
    PROVE  LET first == CHOOSE t \in ps : \A u \in ps : t <= u
           IN  first \in ps /\ \A u \in ps : first <= u
<1> DEFINE Less == {ss \in Nat \X Nat : ss[1] < ss[2]}
<1>1. IsWellFoundedOn(Less, Nat)
  BY NatLessThanWellFounded, Zenon DEF OpToRel
<1>2. PICK t \in ps : \A u \in ps : ~ (<<u, t>> \in Less)
  BY <1>1, WFMin
<1>3. \A u \in ps : t <= u
  <2> SUFFICES ASSUME NEW u \in ps PROVE ~ (u < t)
    OBVIOUS
  <2>1. u < t => <<u, t>> \in Less
    OBVIOUS
  <2>2. QED
    BY <1>2, <2>1
<1>4. QED
  BY <1>3

\* What is chosen, no other service keeps.
LEMMA ChoiceApart ==
    ASSUME PORTS \subseteq Nat, NEW s \in Ported, NEW n \in DOMAIN Preferred[s], P!Free(s) # {}
    PROVE  /\ P!Choice(s, Preferred[s][n]) \notin P!OfOthers(s)
           /\ P!Choice(s, Preferred[s][n]) \in P!AllPorts
<1>1. P!Min(P!Free(s)) \in P!Free(s)
  BY FirstIs DEF P!Free, P!Min
<1>2. P!Min(P!Free(s)) \in PORTS /\ P!Min(P!Free(s)) \notin P!OfOthers(s)
  BY <1>1 DEF P!Free
<1>3. Preferred[s][n] \in P!AllPorts
  BY DEF P!AllPorts, P!PortsIn
<1>4. QED
  BY <1>2, <1>3 DEF P!Choice, P!AllPorts

LEMMA PortsOfApart ==
    ASSUME PORTS \subseteq Nat, NEW s \in Ported, P!Free(s) # {},
           NEW had, \A n \in DOMAIN had : had[n] \in P!AllPorts
    PROVE  /\ P!PortsOf(s, had) \in [DOMAIN Preferred[s] -> P!AllPorts]
           /\ P!PortsIn(P!PortsOf(s, had)) \cap P!OfOthers(s) = {}
<1>1. \A n \in DOMAIN Preferred[s] :
        P!PortsOf(s, had)[n] \in P!AllPorts /\ P!PortsOf(s, had)[n] \notin P!OfOthers(s)
  BY ChoiceApart DEF P!PortsOf
<1>2. QED
  BY <1>1 DEF P!PortsOf, P!PortsIn

\* What it had, if no other service keeps it, it has again.
LEMMA PortsOfHad ==
    ASSUME NEW s \in Ported, NEW had \in [DOMAIN Preferred[s] -> P!AllPorts],
           P!PortsIn(had) \cap P!OfOthers(s) = {}
    PROVE  P!PortsOf(s, had) = had
BY DEF P!PortsOf, P!PortsIn

\* Ports by its names are some.
LEMMA AreSome ==
    ASSUME NEW s \in Ported, DOMAIN Preferred[s] # {}, NEW ports \in [DOMAIN Preferred[s] -> P!AllPorts]
    PROVE  ports # P!NoPorts
BY DEF P!NoPorts

\* What one has is ports of its own.
LEMMA PortsTypedAt ==
    ASSUME P!PortsTyped, NEW s \in Ported
    PROVE  /\ {v1[s], v2[s], v3[s].ports, v5[s], v9[s].ports} \subseteq P!Ports(s)
           /\ \A project \in {v6, v7} : project # P!Unknown => project[s] \in P!Ports(s)
BY DEF P!PortsTyped, P!TypeOK

\* Ports of a service are all of them ports, and by its names if there are some.
LEMMA PortsAre ==
    ASSUME NEW s \in Ported, NEW ports \in P!Ports(s)
    PROVE  /\ \A n \in DOMAIN ports : ports[n] \in P!AllPorts
           /\ ports # P!NoPorts => ports \in [DOMAIN Preferred[s] -> P!AllPorts]
BY DEF P!Ports, P!NoPorts

\* It keeps what no other keeps, and renders with it: nothing docker has of it is to stay yet.
LEMMA KeepStep ==
    ASSUME P!IInv, NEW s \in Ported, DOMAIN Preferred[s] # {}, v4[s] = "off",
           NEW ports \in [DOMAIN Preferred[s] -> P!AllPorts], P!PortsIn(ports) \cap P!OfOthers(s) = {},
           P!Keep(s, ports)
    PROVE  P!IInv'
<1>0. /\ P!PortsTyped /\ P!PortsStand /\ P!AskedIsKept
      /\ P!RenderedIsKept /\ P!CreatedKeeps /\ P!AppliedIsThere
  BY DEF P!IInv
<1>1. \A t \in Ported :
        /\ v1'[t] = IF t = s THEN ports ELSE v1[t]
        /\ v2'[t] = IF t = s THEN P!NoPorts ELSE v2[t]
        /\ v5'[t] = IF t = s THEN ports ELSE v5[t]
        /\ v4'[t] = IF t = s THEN "up" ELSE v4[t]
        /\ v3'[t] = IF t = s THEN P!NoAsk ELSE v3[t]
  BY <1>0 DEF P!Keep, P!PortsTyped, P!Projects
<1>2. UNCHANGED <<v6, v7, v8, v9, v10>>
  BY DEF P!Keep
<1>3. ports \in P!Ports(s) /\ P!NoPorts \in P!Ports(s) /\ ports # P!NoPorts
  BY AreSome DEF P!Ports
<1>4. P!PortsTyped'
  <2>1. ports \in P!AnyPorts /\ P!NoPorts \in P!AnyPorts
    BY <1>3 DEF P!AnyPorts
  <2>2. v1' \in P!Projects /\ v2' \in P!Projects /\ v5' \in P!Projects
    BY <1>0, <2>1 DEF P!Keep, P!PortsTyped, P!Projects
  <2>3. /\ v3' \in [Ported -> [ports : P!AnyPorts, answer : {"none", "runs", "not"}]]
        /\ v4' \in [Ported -> {"off", "up", "created"}]
    BY <1>0, <2>1 DEF P!Keep, P!PortsTyped, P!NoAsk
  <2>4. P!TypeOK'
    BY <1>0, <1>1, <1>2, <1>3 DEF P!PortsTyped, P!TypeOK, P!NoAsk
  <2>5. QED
    BY <1>0, <1>2, <2>2, <2>3, <2>4 DEF P!PortsTyped
<1>5. P!PortsStand'
  <2>1. \A t \in Ported \ {s} : P!PortsIn(ports) \cap P!PortsIn(v1[t]) = {}
    BY DEF P!OfOthers
  <2>2. \A t, u \in Ported : t # u => P!PortsIn(v1'[t]) \cap P!PortsIn(v1'[u]) = {}
    <3> SUFFICES ASSUME NEW t \in Ported, NEW u \in Ported, t # u
                 PROVE  P!PortsIn(v1'[t]) \cap P!PortsIn(v1'[u]) = {}
      OBVIOUS
    <3>1. CASE t = s
      BY <1>1, <2>1, <3>1
    <3>2. CASE u = s
      BY <1>1, <2>1, <3>2
    <3>3. CASE t # s /\ u # s
      BY <1>0, <1>1, <3>3 DEF P!PortsStand
    <3>4. QED
      BY <3>1, <3>2, <3>3
  <2>3. QED
    BY <1>0, <1>1, <1>2, <2>2 DEF P!PortsStand
<1>6. P!AskedIsKept'
  BY <1>0, <1>1 DEF P!AskedIsKept, P!IsAsking, P!NoAsk
<1>7. P!RenderedIsKept'
  BY <1>0, <1>1 DEF P!RenderedIsKept
<1>8. P!CreatedKeeps'
  BY <1>0, <1>1, <1>2, <1>3 DEF P!CreatedKeeps
<1>9. P!AppliedIsThere'
  BY <1>0, <1>1, <1>2 DEF P!AppliedIsThere
<1>10. QED
  BY <1>4, <1>5, <1>6, <1>7, <1>8, <1>9 DEF P!IInv

\* Keeping: what one keeps at once or after docker answered is apart from what others keep.
LEMMA KeepsStep ==
    ASSUME P!IInv, NEW s \in Ported, P!KeepPorts(s) \/ P!FoundRunning(s) \/ P!FoundStopped(s)
    PROVE  P!IInv'
<1>0. /\ P!PortsTyped /\ P!PortsStand /\ P!AskedIsKept
      /\ P!RenderedIsKept /\ P!CreatedKeeps /\ P!AppliedIsThere
  BY DEF P!IInv
<1>1. DOMAIN Preferred[s] # {} /\ PORTS \subseteq Nat
  BY PortsAssumption
<1>2. v3[s].ports \in P!Ports(s) /\ P!Had(s) \in P!Ports(s) /\ v1[s] \in P!Ports(s)
  BY <1>0, PortsTypedAt DEF P!Had
<1>3. v1[s] # P!NoPorts =>
        v1[s] \in [DOMAIN Preferred[s] -> P!AllPorts] /\ P!PortsIn(v1[s]) \cap P!OfOthers(s) = {}
  BY <1>0, <1>2, PortsAre DEF P!PortsStand, P!OfOthers
<1>4. CASE P!KeepPorts(s)
  <2> DEFINE ports == P!PortsOf(s, P!Had(s))
  <2>1. ports \in [DOMAIN Preferred[s] -> P!AllPorts] /\ P!PortsIn(ports) \cap P!OfOthers(s) = {}
    BY <1>1, <1>2, <1>4, PortsAre, PortsOfApart DEF P!KeepPorts
  <2>2. v1[s] # P!NoPorts => ports = v1[s]
    BY <1>3, PortsOfHad DEF P!Had
  <2>3. CASE P!Keep(s, ports)
    BY <1>1, <1>4, <2>1, <2>3, KeepStep DEF P!KeepPorts
  <2>4. CASE /\ v2' = P!Told(s, ports)
             /\ v3' = [v3 EXCEPT ![s] = [ports |-> ports, answer |-> "none"]]
             /\ UNCHANGED <<v1, v4, P!projects, v9, v10>>
    <3>1. ports \in P!Ports(s) /\ ports \in P!AnyPorts /\ v4[s] = "off"
      BY <1>4, <2>1 DEF P!Ports, P!AnyPorts, P!KeepPorts
    <3>2. \A t \in Ported :
            /\ v2'[t] \in {v2[t], IF t = s THEN ports ELSE v2[t]}
            /\ v3'[t] = IF t = s THEN [ports |-> ports, answer |-> "none"] ELSE v3[t]
      BY <1>0, <2>4 DEF P!Told, P!PortsTyped, P!Projects
    <3>3. /\ v2' \in P!Projects
          /\ v3' \in [Ported -> [ports : P!AnyPorts, answer : {"none", "runs", "not"}]]
      BY <1>0, <2>4, <3>1 DEF P!Told, P!PortsTyped, P!Projects
    <3>4. P!PortsTyped'
      <4>1. P!TypeOK'
        BY <1>0, <2>4, <3>1, <3>2 DEF P!PortsTyped, P!TypeOK, P!projects
      <4>2. QED
        BY <1>0, <2>4, <3>3, <4>1 DEF P!PortsTyped, P!projects
    <3>5. P!AskedIsKept'
      BY <1>0, <2>2, <2>4, <3>1, <3>2 DEF P!AskedIsKept, P!IsAsking
    <3>6. P!PortsStand' /\ P!RenderedIsKept' /\ P!CreatedKeeps' /\ P!AppliedIsThere'
      BY <1>0, <2>4 DEF P!PortsStand, P!RenderedIsKept, P!CreatedKeeps, P!AppliedIsThere, P!projects
    <3>7. QED
      BY <3>4, <3>5, <3>6 DEF P!IInv
  <2>5. QED
    BY <1>4, <2>3, <2>4 DEF P!KeepPorts
<1>5. CASE P!FoundRunning(s)
  <2>1. v3[s].ports = v1[s] /\ v1[s] # P!NoPorts /\ v4[s] = "off"
    BY <1>0, <1>5 DEF P!FoundRunning, P!AskedIsKept
  <2>2. P!Keep(s, v1[s])
    BY <1>5, <2>1 DEF P!FoundRunning
  <2>3. QED
    BY <1>1, <1>3, <2>1, <2>2, KeepStep
<1>6. CASE P!FoundStopped(s)
  <2>1. P!IsAsking(s) /\ v4[s] = "off" /\ P!Free(s) # {} /\ P!Keep(s, P!Moved(s))
    BY <1>0, <1>6 DEF P!FoundStopped, P!AskedIsKept
  <2>2. \A n \in P!StillFree(s) : v3[s].ports[n] \in P!AllPorts
    BY <1>2, PortsAre DEF P!StillFree
  <2>3. P!Moved(s) \in [DOMAIN Preferred[s] -> P!AllPorts] /\ P!PortsIn(P!Moved(s)) \cap P!OfOthers(s) = {}
    BY <1>1, <2>1, <2>2, PortsOfApart DEF P!Moved
  <2>4. QED
    BY <1>1, <2>1, <2>3, KeepStep
<1>7. QED
  BY <1>4, <1>5, <1>6

\* Asking docker, and what changes neither what is kept nor the projects.
LEMMA QuietPortsStep ==
    ASSUME P!IInv, NEW s \in Ported, P!Provided(s) \/ P!DockerLooks(s) \/ P!AskFailed(s) \/ P!Flips(s)
    PROVE  P!IInv'
<1>0. /\ P!PortsTyped /\ P!PortsStand /\ P!AskedIsKept
      /\ P!RenderedIsKept /\ P!CreatedKeeps /\ P!AppliedIsThere
  BY DEF P!IInv
<1>1. CASE P!Provided(s)
  <2> DEFINE ports == P!PortsOf(s, P!Had(s))
  <2>1. P!Had(s) \in P!Ports(s)
    BY <1>0, PortsTypedAt DEF P!Had
  <2>2. ports \in [DOMAIN Preferred[s] -> P!AllPorts]
    BY <1>1, <2>1, PortsAre, PortsOfApart, PortsAssumption DEF P!Provided
  <2>3. ports \in P!Ports(s) /\ ports \in P!AnyPorts
    BY <2>2 DEF P!Ports, P!AnyPorts
  <2>4. v2' = P!Told(s, ports) /\ UNCHANGED <<v1, v3, v4, P!projects, v9, v10>>
    BY <1>1 DEF P!Provided
  <2> HIDE DEF ports
  <2>5. v2' \in P!Projects /\ \A t \in Ported : v2'[t] \in {v2[t], IF t = s THEN ports ELSE v2[t]}
    BY <1>0, <2>3, <2>4 DEF P!Told, P!PortsTyped, P!Projects
  <2>6. P!TypeOK'
    BY <1>0, <2>3, <2>4, <2>5 DEF P!PortsTyped, P!TypeOK, P!projects
  <2>7. P!PortsTyped'
    BY <1>0, <2>4, <2>5, <2>6 DEF P!PortsTyped, P!projects
  <2>8. P!PortsStand' /\ P!AskedIsKept' /\ P!RenderedIsKept' /\ P!CreatedKeeps' /\ P!AppliedIsThere'
    BY <1>0, <2>4 DEF P!PortsStand, P!AskedIsKept, P!IsAsking, P!RenderedIsKept, P!CreatedKeeps,
        P!AppliedIsThere, P!projects
  <2>9. QED
    BY <2>7, <2>8 DEF P!IInv
<1>2. CASE P!DockerLooks(s)
  <2>1. UNCHANGED <<v1, v2, v4, P!projects, v9, v10>>
    BY <1>2 DEF P!DockerLooks
  <2>2. PICK answer \in {"runs", "not"} :
          /\ answer = "runs" => v9[s].ports # P!NoPorts
          /\ v3' = [v3 EXCEPT ![s].answer = answer]
    BY <1>2 DEF P!DockerLooks
  <2>3. \A t \in Ported :
          /\ v3'[t].ports = v3[t].ports
          /\ v3'[t].answer = IF t = s THEN answer ELSE v3[t].answer
    BY <1>0, <2>2 DEF P!PortsTyped
  <2>4. v3' \in [Ported -> [ports : P!AnyPorts, answer : {"none", "runs", "not"}]]
    BY <1>0, <2>2 DEF P!PortsTyped
  <2>5. P!TypeOK'
    BY <1>0, <2>1, <2>2, <2>3 DEF P!PortsTyped, P!TypeOK, P!projects
  <2>6. P!PortsTyped'
    BY <1>0, <2>1, <2>4, <2>5 DEF P!PortsTyped, P!projects
  <2>7. answer = "runs" => v1[s] # P!NoPorts
    BY <1>0, <2>2 DEF P!CreatedKeeps
  <2>8. P!AskedIsKept'
    BY <1>0, <1>2, <2>1, <2>3, <2>7 DEF P!AskedIsKept, P!IsAsking, P!DockerLooks
  <2>9. P!PortsStand' /\ P!RenderedIsKept' /\ P!CreatedKeeps' /\ P!AppliedIsThere'
    BY <1>0, <2>1 DEF P!PortsStand, P!RenderedIsKept, P!CreatedKeeps, P!AppliedIsThere, P!projects
  <2>10. QED
    BY <2>6, <2>8, <2>9 DEF P!IInv
<1>3. CASE P!AskFailed(s)
  <2>1. UNCHANGED <<v1, v2, v4, P!projects, v9, v10>>
    BY <1>3 DEF P!AskFailed
  <2>2. P!NoPorts \in P!Ports(s) /\ P!NoPorts \in P!AnyPorts
    BY DEF P!Ports, P!AnyPorts
  <2>3. \A t \in Ported : v3'[t] = IF t = s THEN P!NoAsk ELSE v3[t]
    BY <1>0, <1>3 DEF P!AskFailed, P!PortsTyped
  <2>4. v3' \in [Ported -> [ports : P!AnyPorts, answer : {"none", "runs", "not"}]]
    BY <1>0, <1>3, <2>2 DEF P!AskFailed, P!PortsTyped, P!NoAsk
  <2>5. P!TypeOK'
    BY <1>0, <2>1, <2>2, <2>3 DEF P!PortsTyped, P!TypeOK, P!projects, P!NoAsk
  <2>6. P!PortsTyped'
    BY <1>0, <2>1, <2>4, <2>5 DEF P!PortsTyped, P!projects
  <2>7. P!AskedIsKept'
    BY <1>0, <2>1, <2>3 DEF P!AskedIsKept, P!IsAsking, P!NoAsk
  <2>8. P!PortsStand' /\ P!RenderedIsKept' /\ P!CreatedKeeps' /\ P!AppliedIsThere'
    BY <1>0, <2>1 DEF P!PortsStand, P!RenderedIsKept, P!CreatedKeeps, P!AppliedIsThere, P!projects
  <2>9. QED
    BY <2>6, <2>7, <2>8 DEF P!IInv
<1>4. CASE P!Flips(s)
  <2>1. UNCHANGED <<v1, v2, v3, v4, P!projects, v10>>
    BY <1>4 DEF P!Flips
  <2>2. /\ v9' \in [Ported -> [ports : P!AnyPorts, listens : BOOLEAN, isOurs : BOOLEAN]]
        /\ \A t \in Ported :
              /\ v9'[t].ports = v9[t].ports /\ v9'[t].isOurs = v9[t].isOurs
              /\ v9'[t].listens \in BOOLEAN
    BY <1>0, <1>4 DEF P!Flips, P!PortsTyped
  <2>3. P!TypeOK'
    BY <1>0, <2>1, <2>2 DEF P!PortsTyped, P!TypeOK, P!projects
  <2>4. P!PortsTyped'
    BY <1>0, <2>1, <2>2, <2>3 DEF P!PortsTyped, P!projects
  <2>5. P!PortsStand' /\ P!AskedIsKept' /\ P!RenderedIsKept' /\ P!CreatedKeeps' /\ P!AppliedIsThere'
    BY <1>0, <2>1, <2>2 DEF P!PortsStand, P!AskedIsKept, P!IsAsking, P!RenderedIsKept, P!CreatedKeeps,
        P!AppliedIsThere, P!projects
  <2>6. QED
    BY <2>4, <2>5 DEF P!IInv
<1>5. QED
  BY <1>1, <1>2, <1>3, <1>4

\* Docker creates a container: of the project it is taking, if it is this hub's.
LEMMA TakesStep ==
    ASSUME P!IInv, NEW s \in Ported, NEW isOurs \in BOOLEAN, NEW project, project[s] \in P!Ports(s),
           v1[s] = P!NoPorts => project[s] = P!NoPorts,
           isOurs => v7 # P!Unknown /\ project[s] = v7[s],
           P!Takes(s, project, isOurs)
    PROVE  P!IInv'
<1>0. /\ P!PortsTyped /\ P!PortsStand /\ P!AskedIsKept
      /\ P!RenderedIsKept /\ P!CreatedKeeps /\ P!AppliedIsThere
  BY DEF P!IInv
<1>1. UNCHANGED <<v1, v2, v3, v4, P!projects, v10>>
  BY DEF P!Takes
<1>2. project[s] \in P!AnyPorts
  BY DEF P!AnyPorts
<1>3. \A t \in Ported :
        /\ v9'[t].ports = IF t = s THEN project[s] ELSE v9[t].ports
        /\ v9'[t].isOurs = IF t = s THEN isOurs ELSE v9[t].isOurs
        /\ v9'[t].listens \in BOOLEAN
  BY <1>0 DEF P!Takes, P!PortsTyped
<1>4. v9' \in [Ported -> [ports : P!AnyPorts, listens : BOOLEAN, isOurs : BOOLEAN]]
  BY <1>0, <1>2 DEF P!Takes, P!PortsTyped
<1>5. P!TypeOK'
  BY <1>0, <1>1, <1>3 DEF P!PortsTyped, P!TypeOK, P!projects
<1>6. P!PortsTyped'
  BY <1>0, <1>1, <1>4, <1>5 DEF P!PortsTyped, P!projects
<1>7. P!PortsStand'
  BY <1>0, <1>1, <1>3 DEF P!PortsStand, P!AppliedIsThere
<1>8. P!CreatedKeeps'
  BY <1>0, <1>1, <1>3 DEF P!CreatedKeeps, P!projects
<1>9. P!AppliedIsThere'
  BY <1>0, <1>1, <1>3 DEF P!AppliedIsThere, P!projects
<1>10. P!AskedIsKept' /\ P!RenderedIsKept'
  BY <1>0, <1>1 DEF P!AskedIsKept, P!IsAsking, P!RenderedIsKept, P!projects
<1>11. QED
  BY <1>6, <1>7, <1>8, <1>9, <1>10 DEF P!IInv

\* Docker at this hub's project has what is kept; what it was at for another hub is not ours.
LEMMA DockerPortsStep ==
    ASSUME P!IInv, NEW s \in Ported, P!DockerTakes(s) \/ P!LeftTakes(s)
    PROVE  P!IInv'
<1>0. P!PortsTyped /\ P!CreatedKeeps
  BY DEF P!IInv
<1>1. CASE P!DockerTakes(s)
  <2>1. v7 # P!Unknown /\ P!Takes(s, v7, TRUE)
    BY <1>1 DEF P!DockerTakes
  <2>2. v7[s] \in P!Ports(s)
    BY <1>0, <2>1, PortsTypedAt
  <2>3. v1[s] = P!NoPorts => v7[s] = P!NoPorts
    BY <1>0, <2>1 DEF P!CreatedKeeps
  <2>4. QED
    BY <2>1, <2>2, <2>3, TakesStep
<1>2. CASE P!LeftTakes(s)
  <2>1. PICK ports \in P!Ports(s) : v1[s] # P!NoPorts /\ P!Takes(s, [v1 EXCEPT ![s] = ports], FALSE)
    BY <1>2 DEF P!LeftTakes
  <2> DEFINE project == [v1 EXCEPT ![s] = ports]
  <2>2. project[s] = ports
    BY <1>0 DEF P!PortsTyped, P!Projects
  <2>3. project[s] \in P!Ports(s) /\ P!Takes(s, project, FALSE) /\ v1[s] # P!NoPorts
    BY <2>1, <2>2
  <2> HIDE DEF project
  <2>4. QED
    BY <2>3, TakesStep
<1>3. QED
  BY <1>1, <1>2

\* The applies and `down`.
LEMMA PortsApplyStep ==
    ASSUME P!IInv, P!BeginApply \/ P!SkipApply \/ P!EndApply \/ P!FailApply \/ \E s \in Ported : P!Down(s)
    PROVE  P!IInv'
<1>0. /\ P!PortsTyped /\ P!PortsStand /\ P!AskedIsKept
      /\ P!RenderedIsKept /\ P!CreatedKeeps /\ P!AppliedIsThere
  BY DEF P!IInv
<1>1. CASE P!BeginApply
  <2>1. /\ UNCHANGED <<v1, v2, v3, v4, v5, v8, v9, v10>>
        /\ v7' = v5 /\ v6' = P!Unknown
    BY <1>1 DEF P!BeginApply
  <2>2. P!TypeOK'
    BY <1>0, <2>1 DEF P!PortsTyped, P!TypeOK
  <2>3. P!PortsTyped'
    BY <1>0, <2>1, <2>2 DEF P!PortsTyped
  <2>4. \A s \in Ported :
          /\ v1[s] = P!NoPorts => v5[s] = P!NoPorts
          /\ v4[s] = "created" => v5[s] = v1[s]
    BY <1>0 DEF P!RenderedIsKept
  <2>5. P!CreatedKeeps' /\ P!AppliedIsThere'
    BY <1>0, <2>1, <2>4 DEF P!CreatedKeeps, P!AppliedIsThere
  <2>6. P!PortsStand' /\ P!AskedIsKept' /\ P!RenderedIsKept'
    BY <1>0, <2>1 DEF P!PortsStand, P!AskedIsKept, P!IsAsking, P!RenderedIsKept
  <2>7. QED
    BY <2>3, <2>5, <2>6 DEF P!IInv
<1>2. ASSUME NEW project, P!GoesThrough(project)
      PROVE  /\ v4' \in [Ported -> {"off", "up", "created"}]
             /\ \A s \in Ported :
                   v4'[s] = IF v4[s] = "up" /\ v5[s] = project[s] THEN "created" ELSE v4[s]
  BY <1>0, <1>2 DEF P!GoesThrough, P!PortsTyped
<1>3. CASE P!SkipApply
  <2>1. /\ UNCHANGED <<v1, v2, v3, P!projects, v9, v10>>
        /\ v7 = P!Unknown /\ v6 # P!Unknown /\ v5 = v6 /\ P!GoesThrough(v6)
    BY <1>3 DEF P!SkipApply
  <2>2. /\ v4' \in [Ported -> {"off", "up", "created"}]
        /\ \A s \in Ported :
              v4'[s] = IF v4[s] = "up" /\ v5[s] = v6[s] THEN "created" ELSE v4[s]
    BY <1>2, <2>1
  <2>3. P!TypeOK'
    BY <1>0, <2>1, <2>2 DEF P!PortsTyped, P!TypeOK, P!projects
  <2>4. P!PortsTyped'
    BY <1>0, <2>1, <2>2, <2>3 DEF P!PortsTyped, P!projects
  <2>5. P!PortsStand'
    BY <1>0, <2>1, <2>2 DEF P!PortsStand, P!RenderedIsKept, P!AppliedIsThere
  <2>6. P!AskedIsKept' /\ P!RenderedIsKept' /\ P!CreatedKeeps' /\ P!AppliedIsThere'
    BY <1>0, <2>1, <2>2 DEF P!AskedIsKept, P!IsAsking, P!RenderedIsKept, P!CreatedKeeps, P!AppliedIsThere,
        P!projects
  <2>7. QED
    BY <2>4, <2>5, <2>6 DEF P!IInv
<1>4. CASE P!EndApply
  <2>1. /\ UNCHANGED <<v1, v2, v3, v5, v8, v9, v10>>
        /\ v7 # P!Unknown /\ v6' = v7 /\ v7' = P!Unknown /\ P!GoesThrough(v7)
        /\ \A s \in Ported : v9[s].isOurs => v9[s].ports = v7[s]
    BY <1>4 DEF P!EndApply
  <2>2. /\ v4' \in [Ported -> {"off", "up", "created"}]
        /\ \A s \in Ported :
              v4'[s] = IF v4[s] = "up" /\ v5[s] = v7[s] THEN "created" ELSE v4[s]
    BY <1>2, <2>1
  <2>3. P!TypeOK'
    BY <1>0, <2>1, <2>2 DEF P!PortsTyped, P!TypeOK
  <2>4. P!PortsTyped'
    BY <1>0, <2>1, <2>2, <2>3 DEF P!PortsTyped
  <2>5. P!PortsStand'
    BY <1>0, <2>1, <2>2 DEF P!PortsStand, P!RenderedIsKept
  <2>6. P!AskedIsKept' /\ P!RenderedIsKept' /\ P!CreatedKeeps' /\ P!AppliedIsThere'
    BY <1>0, <2>1, <2>2 DEF P!AskedIsKept, P!IsAsking, P!RenderedIsKept, P!CreatedKeeps, P!AppliedIsThere
  <2>7. QED
    BY <2>4, <2>5, <2>6 DEF P!IInv
<1>5. CASE P!FailApply
  <2>1. /\ UNCHANGED <<v1, v2, v3, v5, v6, v8, v9, v10>>
        /\ v7' = P!Unknown
        /\ v4' \in {v4} \cup {[v4 EXCEPT ![s] = "off"] : s \in Ported}
    BY <1>5 DEF P!FailApply
  <2>2. /\ v4' \in [Ported -> {"off", "up", "created"}]
        /\ \A s \in Ported : v4'[s] \in {v4[s], "off"}
    BY <1>0, <2>1 DEF P!PortsTyped
  <2>3. P!TypeOK'
    BY <1>0, <2>1, <2>2 DEF P!PortsTyped, P!TypeOK
  <2>4. P!PortsTyped'
    BY <1>0, <2>1, <2>2, <2>3 DEF P!PortsTyped
  <2>5. P!PortsStand'
    BY <1>0, <2>1, <2>2 DEF P!PortsStand
  <2>6. P!AskedIsKept'
    BY <1>0, <2>1, <2>2 DEF P!AskedIsKept, P!IsAsking
  <2>7. P!RenderedIsKept' /\ P!CreatedKeeps' /\ P!AppliedIsThere'
    BY <1>0, <2>1, <2>2 DEF P!RenderedIsKept, P!CreatedKeeps, P!AppliedIsThere
  <2>8. QED
    BY <2>4, <2>5, <2>6, <2>7 DEF P!IInv
<1>6. ASSUME NEW s \in Ported, P!Down(s) PROVE P!IInv'
  <2>1. UNCHANGED <<v1, v2, v3, v6, v7, v8, v9, v10>>
    BY <1>6 DEF P!Down
  <2>2. P!NoPorts \in P!AnyPorts /\ \A t \in Ported : P!NoPorts \in P!Ports(t)
    BY DEF P!AnyPorts, P!Ports
  <2>3. /\ v4' \in [Ported -> {"off", "up", "created"}]
        /\ v5' \in P!Projects
        /\ \A t \in Ported :
              /\ v4'[t] = IF t = s THEN "off" ELSE v4[t]
              /\ v5'[t] = IF t = s THEN P!NoPorts ELSE v5[t]
    BY <1>0, <1>6, <2>2 DEF P!Down, P!PortsTyped, P!Projects
  <2>4. P!TypeOK'
    BY <1>0, <2>1, <2>2, <2>3 DEF P!PortsTyped, P!TypeOK
  <2>5. P!PortsTyped'
    BY <1>0, <2>1, <2>3, <2>4 DEF P!PortsTyped
  <2>6. P!PortsStand'
    BY <1>0, <2>1, <2>3 DEF P!PortsStand
  <2>7. P!AskedIsKept'
    BY <1>0, <2>1, <2>3 DEF P!AskedIsKept, P!IsAsking
  <2>8. P!RenderedIsKept' /\ P!CreatedKeeps' /\ P!AppliedIsThere'
    BY <1>0, <2>1, <2>3 DEF P!RenderedIsKept, P!CreatedKeeps, P!AppliedIsThere
  <2>9. QED
    BY <2>5, <2>6, <2>7, <2>8 DEF P!IInv
<1>7. QED
  BY <1>1, <1>3, <1>4, <1>5, <1>6

\* No ports are ports of any service.
LEMMA NoneTyped ==
    /\ P!None \in P!Projects
    /\ \A s \in Ported : P!None[s] = P!NoPorts /\ P!NoPorts \in P!Ports(s) /\ P!NoPorts \in P!AnyPorts
BY DEF P!None, P!Projects, P!AnyPorts, P!Ports

\* A crash leaves the containers and what is kept.
LEMMA PortsCrashStep == ASSUME P!IInv, P!Crash PROVE P!IInv'
<1>0. /\ P!PortsTyped /\ P!PortsStand /\ P!AskedIsKept
      /\ P!RenderedIsKept /\ P!CreatedKeeps /\ P!AppliedIsThere
  BY DEF P!IInv
<1>1. /\ v8' \in BOOLEAN /\ v2' = P!None /\ v5' = P!None
      /\ v6' = P!Unknown /\ v7' = P!Unknown /\ UNCHANGED <<v1, v10>>
  BY <1>0 DEF P!Crash, P!PortsTyped, P!TypeOK
<1>2. /\ v3' \in [Ported -> [ports : P!AnyPorts, answer : {"none", "runs", "not"}]]
      /\ v4' \in [Ported -> {"off", "up", "created"}]
      /\ \A s \in Ported : v3'[s] = P!NoAsk /\ v4'[s] = "off"
  BY NoneTyped DEF P!Crash, P!NoAsk
<1>3. /\ v9' \in [Ported -> [ports : P!AnyPorts, listens : BOOLEAN, isOurs : BOOLEAN]]
      /\ \A s \in Ported : v9'[s].ports = v9[s].ports
  BY <1>0 DEF P!Crash, P!PortsTyped
<1>4. P!TypeOK'
  BY <1>0, <1>1, <1>2, <1>3, NoneTyped DEF P!PortsTyped, P!TypeOK, P!NoAsk
<1>5. P!PortsTyped'
  BY <1>0, <1>1, <1>2, <1>3, <1>4, NoneTyped DEF P!PortsTyped
<1>6. P!PortsStand'
  BY <1>0, <1>1, <1>2 DEF P!PortsStand
<1>7. P!AskedIsKept'
  BY <1>2 DEF P!AskedIsKept, P!IsAsking, P!NoAsk
<1>8. P!CreatedKeeps' /\ P!AppliedIsThere'
  BY <1>0, <1>1, <1>3 DEF P!CreatedKeeps, P!AppliedIsThere
<1>9. P!RenderedIsKept'
  BY <1>1, <1>2, NoneTyped DEF P!RenderedIsKept
<1>10. QED
  BY <1>5, <1>6, <1>7, <1>8, <1>9 DEF P!IInv

-----------------------------------------------------------------------------
(* All together. *)

LEMMA PortsStart == P!Init => P!IInv
<1> SUFFICES ASSUME P!Init PROVE P!IInv
  OBVIOUS
<1>1. P!PortsTyped
  BY NoneTyped DEF P!Init, P!PortsTyped, P!TypeOK, P!NoAsk, P!NoContainer
<1>2. \A s \in Ported : v1[s] = P!NoPorts /\ v5[s] = P!NoPorts
  BY NoneTyped DEF P!Init
<1>3. /\ \A s \in Ported : v3[s] = P!NoAsk /\ v4[s] = "off" /\ v9[s] = P!NoContainer
      /\ v6 = P!Unknown /\ v7 = P!Unknown
  BY DEF P!Init
<1>4. P!PortsIn(P!NoPorts) = {}
  BY DEF P!PortsIn, P!NoPorts
<1>5. P!PortsStand
  BY <1>2, <1>3, <1>4 DEF P!PortsStand
<1>6. P!AskedIsKept
  BY <1>3 DEF P!AskedIsKept, P!IsAsking, P!NoAsk
<1>7. P!RenderedIsKept /\ P!CreatedKeeps /\ P!AppliedIsThere
  BY <1>2, <1>3 DEF P!RenderedIsKept, P!CreatedKeeps, P!AppliedIsThere, P!NoContainer
<1>8. QED
  BY <1>1, <1>5, <1>6, <1>7 DEF P!IInv

LEMMA PortsStep ==
    ASSUME P!IInv, [P!Next]_(P!vars)
    PROVE  P!IInv'
<1>0. /\ P!PortsTyped /\ P!PortsStand /\ P!AskedIsKept
      /\ P!RenderedIsKept /\ P!CreatedKeeps /\ P!AppliedIsThere
  BY DEF P!IInv
<1>1. ASSUME NEW p \in P!AllPorts, P!Take(p) \/ P!LetGo(p) PROVE P!IInv'
  <2>1. UNCHANGED <<v1, v2, v3, v4, P!projects, v9>> /\ v10' \subseteq v10 \cup {p}
    BY <1>1 DEF P!Take, P!LetGo
  <2>2. P!TypeOK'
    BY <1>0, <1>1, <2>1 DEF P!PortsTyped, P!TypeOK, P!projects
  <2>3. P!PortsTyped'
    BY <1>0, <2>1, <2>2 DEF P!PortsTyped, P!projects
  <2>4. P!PortsStand' /\ P!AskedIsKept' /\ P!RenderedIsKept' /\ P!CreatedKeeps' /\ P!AppliedIsThere'
    BY <1>0, <2>1 DEF P!PortsStand, P!AskedIsKept, P!IsAsking, P!RenderedIsKept, P!CreatedKeeps,
        P!AppliedIsThere, P!projects
  <2>5. QED
    BY <2>3, <2>4 DEF P!IInv
<1>2. CASE UNCHANGED P!vars
  <2>1. P!PortsTyped'
    BY <1>0, <1>2 DEF P!vars, P!PortsTyped, P!TypeOK
  <2>2. P!PortsStand' /\ P!AskedIsKept' /\ P!RenderedIsKept' /\ P!CreatedKeeps' /\ P!AppliedIsThere'
    BY <1>0, <1>2 DEF P!vars, P!PortsStand, P!AskedIsKept, P!IsAsking, P!RenderedIsKept, P!CreatedKeeps,
        P!AppliedIsThere
  <2>3. QED
    BY <2>1, <2>2 DEF P!IInv
<1>3. ASSUME NEW s \in Ported, P!KeepPorts(s) \/ P!FoundRunning(s) \/ P!FoundStopped(s) PROVE P!IInv'
  BY <1>3, KeepsStep
<1>4. ASSUME NEW s \in Ported, P!Provided(s) \/ P!DockerLooks(s) \/ P!AskFailed(s) \/ P!Flips(s) PROVE P!IInv'
  BY <1>4, QuietPortsStep
<1>5. ASSUME NEW s \in Ported, P!DockerTakes(s) \/ P!LeftTakes(s) PROVE P!IInv'
  BY <1>5, DockerPortsStep
<1>6. ASSUME P!BeginApply \/ P!SkipApply \/ P!EndApply \/ P!FailApply \/ \E s \in Ported : P!Down(s)
    PROVE P!IInv'
  BY <1>6, PortsApplyStep
<1>7. ASSUME P!Crash PROVE P!IInv'
  BY <1>7, PortsCrashStep
<1>8. QED
  BY <1>1, <1>2, <1>3, <1>4, <1>5, <1>6, <1>7 DEF P!Next

-----------------------------------------------------------------------------
(* The device repository. *)

LEMMA SessionsStart == D!Init => D!IInv
BY DEF D!Init, D!IInv, D!TypeOK, D!StoredByOwner, D!WriterIsOpen, D!WritesAlike, D!Store

\* What a store is: each record, where there is one, its owner's.
OwnedStore == {store \in D!Store : \A i \in Ids : store[i] # D!Absent => store[i].integration = Owner[i]}

LEMMA StoresAre == D!TypeOK /\ D!StoredByOwner <=>
    /\ v1 \in OwnedStore /\ v2 \in OwnedStore /\ v3 \in OwnedStore
    /\ v4 \in Sessions \cup {D!None} /\ v5 \in [Sessions -> D!Scope \cup {D!None}] /\ v6 \in BOOLEAN
BY DEF D!TypeOK, D!StoredByOwner, OwnedStore

\* A save by the owner of both ids, or by the hub for it, is the same in both.
LEMMA SavedAlike ==
    ASSUME NEW store \in OwnedStore, NEW scope, NEW i \in Ids, NEW previous \in Ids, NEW device \in D!Device,
           scope \in {D!Hub, device.integration}, device.integration = Owner[i], Owner[previous] = Owner[i]
    PROVE  /\ D!SavedMemory(store, scope, i, previous, device) = D!SavedSqlite(store, scope, i, previous,
                device)
           /\ D!SavedMemory(store, scope, i, previous, device) \in OwnedStore
<1> DEFINE base == IF previous # i /\ store[previous] # D!Absent THEN store[previous] ELSE store[i]
           merged == D!Merged(base, device)
<1>1. store[i] \in D!Record \cup {D!Absent} /\ store[previous] \in D!Record \cup {D!Absent}
  BY DEF OwnedStore, D!Store
<1>2. D!Owned(store, scope, i) = store[i] /\ D!Owned(store, scope, previous) = store[previous]
  BY DEF D!Owned, D!InScope, OwnedStore
<1>3. /\ D!SavedMemory(store, scope, i, previous, device) =
            [store EXCEPT ![previous] = IF previous # i THEN D!Absent ELSE store[previous], ![i] = merged]
      /\ D!SavedSqlite(store, scope, i, previous, device) =
            [store EXCEPT ![previous] = IF previous # i THEN D!Absent ELSE store[previous], ![i] = merged]
  BY <1>2 DEF D!SavedMemory, D!SavedSqlite
<1>4. base.data \in Values \cup {D!Empty} /\ base.parameter \in D!Parameter \cup {D!NoParameter}
  BY <1>1 DEF D!Record, D!Absent
<1>5. merged \in D!Record /\ merged.integration = Owner[i]
  BY <1>4 DEF D!Merged, D!Device, D!Record
<1> HIDE DEF merged
<1>6. [store EXCEPT ![previous] = IF previous # i THEN D!Absent ELSE store[previous],
    ![i] = merged] \in OwnedStore
  BY <1>1, <1>5 DEF OwnedStore, D!Store
<1> QED
  BY <1>3, <1>6

LEMMA ChangedRight ==
    ASSUME NEW store \in OwnedStore, NEW scope, NEW i \in Ids
    PROVE  /\ D!Deleted(store, scope, i) \in OwnedStore
           /\ \A p \in D!Parameter : D!WithParameter(store, scope, i, p) \in OwnedStore
           /\ \A visible \in BOOLEAN : D!WithVisibility(store, scope, i, visible) \in OwnedStore
<1>1. D!Deleted(store, scope, i) \in OwnedStore
  BY DEF OwnedStore, D!Store, D!Deleted
<1>2. ASSUME D!Owned(store, scope, i).parameter # D!NoParameter
      PROVE  store[i] \in D!Record /\ store[i].parameter \in D!Parameter /\ store[i] # D!Absent
  BY <1>2 DEF OwnedStore, D!Store, D!Owned, D!Absent, D!Record
<1>3. ASSUME NEW p \in D!Parameter PROVE D!WithParameter(store, scope, i, p) \in OwnedStore
  <2>1. CASE D!Owned(store, scope, i).parameter = D!NoParameter
    BY <2>1 DEF D!WithParameter
  <2>2. CASE D!Owned(store, scope, i).parameter # D!NoParameter
    <3> DEFINE new == [store[i] EXCEPT !.parameter = p]
    <3>1. new \in D!Record /\ new.integration = store[i].integration
      BY <1>2, <2>2 DEF D!Record
    <3>2. D!WithParameter(store, scope, i, p) = [store EXCEPT ![i] = new]
      BY <2>2 DEF D!WithParameter
    <3> HIDE DEF new
    <3> QED
      BY <1>2, <2>2, <3>1, <3>2 DEF OwnedStore, D!Store
  <2> QED
    BY <2>1, <2>2
<1>4. ASSUME NEW visible \in BOOLEAN PROVE D!WithVisibility(store, scope, i, visible) \in OwnedStore
  <2>1. CASE D!Owned(store, scope, i).parameter = D!NoParameter
    BY <2>1 DEF D!WithVisibility
  <2>2. CASE D!Owned(store, scope, i).parameter # D!NoParameter
    <3> DEFINE p == [store[i].parameter EXCEPT !.visible = visible]
               new == [store[i] EXCEPT !.parameter = p]
    <3>1. p \in D!Parameter
      BY <1>2, <2>2 DEF D!Parameter
    <3>2. D!WithVisibility(store, scope, i, visible) = [store EXCEPT ![i] = new]
      BY <2>2 DEF D!WithVisibility
    <3> HIDE DEF p
    <3>3. new \in D!Record /\ new.integration = store[i].integration
      BY <1>2, <2>2, <3>1 DEF D!Record
    <3> HIDE DEF new
    <3> QED
      BY <1>2, <2>2, <3>2, <3>3 DEF OwnedStore, D!Store
  <2> QED
    BY <2>1, <2>2
<1> QED
  BY <1>1, <1>3, <1>4

\* A call that writes alike where both have the same.
LEMMA WritesRight ==
    ASSUME D!IInv, NEW x \in Sessions, NEW inMemory, NEW inSqlite, D!Writes(x, inMemory, inSqlite),
           inMemory \in OwnedStore, inSqlite = inMemory
    PROVE  D!IInv'
<1>1. /\ v1 \in OwnedStore /\ v2 \in OwnedStore /\ v3 \in OwnedStore
      /\ v4 \in Sessions \cup {D!None} /\ v5 \in [Sessions -> D!Scope \cup {D!None}] /\ v6 \in BOOLEAN
  BY StoresAre DEF D!IInv
<1>2. /\ v1' \in OwnedStore /\ v2' \in OwnedStore /\ v3' \in OwnedStore
      /\ v4' \in Sessions \cup {D!None} /\ v5' \in [Sessions -> D!Scope \cup {D!None}] /\ v6' \in BOOLEAN
  BY <1>1 DEF D!Writes
<1>3. D!TypeOK' /\ D!StoredByOwner'
  BY <1>2 DEF D!TypeOK, D!StoredByOwner, OwnedStore
<1>4. D!WriterIsOpen' /\ D!WritesAlike'
  BY RepositoryAssumption DEF D!Writes, D!WriterIsOpen, D!WritesAlike
<1> QED
  BY <1>3, <1>4 DEF D!IInv

LEMMA SessionsStep ==
    ASSUME D!IInv, [D!Next]_(D!vars)
    PROVE  D!IInv'
<1>1. /\ v1 \in OwnedStore /\ v2 \in OwnedStore /\ v3 \in OwnedStore
      /\ v4 \in Sessions \cup {D!None} /\ v5 \in [Sessions -> D!Scope \cup {D!None}] /\ v6 \in BOOLEAN
  BY StoresAre DEF D!IInv
<1>2. ASSUME NEW x \in Sessions, NEW inMemory, NEW inSqlite, D!Writes(x, inMemory, inSqlite) PROVE v1 = v3
  BY <1>2 DEF D!Writes, D!IInv, D!WritesAlike
<1>3. ASSUME NEW x \in Sessions, NEW i \in Ids, NEW previous \in Ids, NEW device \in D!Device,
    D!Save(x, i, previous, device)
      PROVE  D!IInv'
  <2>1. v5[x] \in {D!Hub, device.integration} /\ device.integration = Owner[i] /\ Owner[previous] = Owner[i]
    BY <1>3 DEF D!Save
  <2>2. v1 = v3
    BY <1>2, <1>3 DEF D!Save
  <2>3. D!Writes(x, D!SavedMemory(v1, v5[x], i, previous, device),
      D!SavedSqlite(v1, v5[x], i, previous, device))
    BY <1>3, <2>2 DEF D!Save
  <2>4. /\ D!SavedMemory(v1, v5[x], i, previous, device) = D!SavedSqlite(v1, v5[x], i, previous, device)
        /\ D!SavedMemory(v1, v5[x], i, previous, device) \in OwnedStore
    BY <1>1, <2>1, SavedAlike
  <2> QED
    BY <2>3, <2>4, WritesRight
<1>4. ASSUME NEW x \in Sessions, NEW i \in Ids, NEW p \in D!Parameter, D!SaveParameter(x, i, p) PROVE D!IInv'
  <2>1. v1 = v3
    BY <1>2, <1>4 DEF D!SaveParameter
  <2>2. D!Writes(x, D!WithParameter(v1, v5[x], i, p), D!WithParameter(v1, v5[x], i, p))
    BY <1>4, <2>1 DEF D!SaveParameter
  <2>3. D!WithParameter(v1, v5[x], i, p) \in OwnedStore
    BY <1>1, ChangedRight
  <2> QED
    BY <2>2, <2>3, WritesRight
<1>5. ASSUME NEW x \in Sessions, NEW i \in Ids, NEW visible \in BOOLEAN, D!UpdateVisibility(x, i, visible)
    PROVE D!IInv'
  <2>1. v1 = v3
    BY <1>2, <1>5 DEF D!UpdateVisibility
  <2>2. D!Writes(x, D!WithVisibility(v1, D!Hub, i, visible), D!WithVisibility(v1, D!Hub, i, visible))
    BY <1>5, <2>1 DEF D!UpdateVisibility
  <2>3. D!WithVisibility(v1, D!Hub, i, visible) \in OwnedStore
    BY <1>1, ChangedRight
  <2> QED
    BY <2>2, <2>3, WritesRight
<1>6. ASSUME NEW x \in Sessions, NEW i \in Ids, D!Delete(x, i) PROVE D!IInv'
  <2>1. v1 = v3
    BY <1>2, <1>6 DEF D!Delete
  <2>2. D!Writes(x, D!Deleted(v1, D!Hub, i), D!Deleted(v1, D!Hub, i))
    BY <1>6, <2>1 DEF D!Delete
  <2>3. D!Deleted(v1, D!Hub, i) \in OwnedStore
    BY <1>1, ChangedRight
  <2> QED
    BY <2>2, <2>3, WritesRight
<1>7. ASSUME NEW x \in Sessions, NEW scope \in D!Scope, D!Open(x, scope) PROVE D!IInv'
  BY <1>7, RepositoryAssumption DEF D!Open, D!IInv, D!TypeOK, D!StoredByOwner, D!WriterIsOpen, D!WritesAlike
<1>8. ASSUME NEW x \in Sessions, D!Close(x) PROVE D!IInv'
  BY <1>8, RepositoryAssumption DEF D!Close, D!IInv, D!TypeOK, D!StoredByOwner, D!WriterIsOpen, D!WritesAlike
<1>9. ASSUME NEW x \in Sessions, D!Fail(x) PROVE D!IInv'
  BY <1>9, RepositoryAssumption DEF D!Fail, D!IsLocked, D!IInv, D!TypeOK, D!StoredByOwner, D!WriterIsOpen,
      D!WritesAlike
<1>10. CASE D!Crash
  BY <1>10, RepositoryAssumption DEF D!Crash, D!IInv, D!TypeOK, D!StoredByOwner, D!WriterIsOpen,
      D!WritesAlike, D!Store
<1>11. CASE UNCHANGED D!vars
  BY <1>11 DEF D!vars, D!IInv, D!TypeOK, D!StoredByOwner, D!WriterIsOpen, D!WritesAlike
<1> QED
  BY <1>3, <1>4, <1>5, <1>6, <1>7, <1>8, <1>9, <1>10, <1>11 DEF D!Next

LEMMA SessionsAgree == D!IInv => D!SameInBoth
<1> SUFFICES ASSUME D!IInv, ~ v6, NEW x \in Sessions, NEW scope \in D!Scope,
                    \A y \in Sessions \ {x} : v5[y] = D!None
             PROVE  D!ReadInMemory(scope) = D!ReadInSqlite(x, scope)
  BY DEF D!SameInBoth
<1>1. v1 = v3 /\ v4 \in {x, D!None} /\ (v4 = D!None => v2 = v3)
  BY DEF D!IInv, D!TypeOK, D!WriterIsOpen, D!WritesAlike
<1>2. (IF v4 = x THEN v3 ELSE v2) = v1
  BY <1>1
<1> QED
  BY <1>2 DEF D!ReadInMemory, D!ReadInSqlite

-----------------------------------------------------------------------------
(* The proofs of Ssdp and of BleSources, of each instance of these. *)

SProofs == INSTANCE SsdpProofs
    WITH Services <- Usns, Versions <- Tellings, NoOne <- NoListener,
         isRunning <- v1, subscribers <- v2, cancelled <- v3, known <- v4, stale <- v5,
         notify <- v6, expiry <- v7, scan <- v8, told <- v10

NProofs == INSTANCE SsdpProofs
    WITH Subscribers <- Followers, Services <- Usns, Versions <- Telling, Scanners <- {}, NoOne <- NoListener,
         isRunning <- v1, subscribers <- v2, cancelled <- v3, known <- v4, stale <- v5,
         notify <- v6, expiry <- v7, scan <- v8, told <- v10

AdapterProofs == INSTANCE BleSourcesProofs
    WITH Given <- Names, Pausable <- {},
         isRunning <- v1, sources <- v2, radio <- v3, runtime <- v4, loop <- v5, client <- v6,
         holder <- v7, leased <- v8, jobs <- v9

StickProofs == INSTANCE BleSourcesProofs
    WITH Given <- {}, Pausable <- {},
         isRunning <- v1, sources <- v2, radio <- v3, runtime <- v4, loop <- v5, client <- v6,
         holder <- v7, leased <- v8, jobs <- v9

ProxyProofs == INSTANCE BleSourcesProofs
    WITH Given <- {}, Pausable <- Names,
         isRunning <- v1, sources <- v2, radio <- v3, runtime <- v4, loop <- v5, client <- v6,
         holder <- v7, leased <- v8, jobs <- v9

\* An instance of the proofs' module is of what that of the component is, definition by definition.
LEMMA SsdpIs ==
    /\ (S!Init <=> SProofs!Init) /\ (S!Next <=> SProofs!Next) /\ S!vars = SProofs!vars
    /\ (S!TypeOK <=> SProofs!TypeOK) /\ (S!Promise!Init <=> SProofs!Promise!Init)
    /\ (S!Promise!Next <=> SProofs!Promise!Next)
<1> USE DEF S!Unknown, SProofs!Unknown, S!vars, SProofs!vars, S!Message, SProofs!Message, S!Idle,
            SProofs!Idle, S!Listening, SProofs!Listening, S!Unchecked, SProofs!Unchecked, S!Init,
            SProofs!Init, S!Register, SProofs!Register, S!Cancel, SProofs!Cancel, S!Start,
            SProofs!Start, S!Stop, SProofs!Stop, S!Notified, SProofs!Notified, S!Forgotten,
            SProofs!Forgotten, S!Hear, SProofs!Hear, S!TellAlive, SProofs!TellAlive, S!KnowingFrom,
            SProofs!KnowingFrom, S!IsFirst, SProofs!IsFirst, S!TellByebye, SProofs!TellByebye,
            S!HeardOut, SProofs!HeardOut, S!BeginScan, SProofs!BeginScan, S!NextReply,
            SProofs!NextReply, S!TellReply, SProofs!TellReply, S!EndScan, SProofs!EndScan,
            S!GoStale, SProofs!GoStale, S!Expired, SProofs!Expired, S!BeginCheck,
            SProofs!BeginCheck, S!CheckNext, SProofs!CheckNext, S!EvictListed, SProofs!EvictListed,
            S!EvictNext, SProofs!EvictNext, S!Next, SProofs!Next, S!Reply, SProofs!Reply,
            S!Listener, SProofs!Listener, S!Checker, SProofs!Checker, S!Scan, SProofs!Scan,
            S!TypeOK, SProofs!TypeOK, S!ToSet, SProofs!ToSet, S!RemoveAt, SProofs!RemoveAt,
            S!Promise!Call, SProofs!Promise!Call, S!Promise!After, SProofs!Promise!After,
            S!Promise!Init, SProofs!Promise!Init, S!Promise!MayFollow, SProofs!Promise!MayFollow,
            S!Promise!Next, SProofs!Promise!Next
<1>1. S!Init <=> SProofs!Init
  BY Zenon
<1>2. S!Next <=> SProofs!Next
  BY Zenon
<1>3. S!vars = SProofs!vars
  BY Zenon
<1>4. S!TypeOK <=> SProofs!TypeOK
  BY Zenon
<1>5. (S!Promise!Init <=> SProofs!Promise!Init) /\ (S!Promise!Next <=> SProofs!Promise!Next)
  BY Zenon
<1> QED
  BY ONLY <1>1, <1>2, <1>3, <1>4, <1>5

LEMMA NotifiedIs ==
    /\ (N!Init <=> NProofs!Init) /\ (N!Next <=> NProofs!Next) /\ N!vars = NProofs!vars
    /\ (N!TypeOK <=> NProofs!TypeOK) /\ (N!Promise!Init <=> NProofs!Promise!Init)
    /\ (N!Promise!Next <=> NProofs!Promise!Next)
<1> USE DEF N!Unknown, NProofs!Unknown, N!vars, NProofs!vars, N!Message, NProofs!Message, N!Idle,
            NProofs!Idle, N!Listening, NProofs!Listening, N!Unchecked, NProofs!Unchecked, N!Init,
            NProofs!Init, N!Register, NProofs!Register, N!Cancel, NProofs!Cancel, N!Start,
            NProofs!Start, N!Stop, NProofs!Stop, N!Notified, NProofs!Notified, N!Forgotten,
            NProofs!Forgotten, N!Hear, NProofs!Hear, N!TellAlive, NProofs!TellAlive, N!KnowingFrom,
            NProofs!KnowingFrom, N!IsFirst, NProofs!IsFirst, N!TellByebye, NProofs!TellByebye,
            N!HeardOut, NProofs!HeardOut, N!BeginScan, NProofs!BeginScan, N!NextReply,
            NProofs!NextReply, N!TellReply, NProofs!TellReply, N!EndScan, NProofs!EndScan,
            N!GoStale, NProofs!GoStale, N!Expired, NProofs!Expired, N!BeginCheck,
            NProofs!BeginCheck, N!CheckNext, NProofs!CheckNext, N!EvictListed, NProofs!EvictListed,
            N!EvictNext, NProofs!EvictNext, N!Next, NProofs!Next, N!Reply, NProofs!Reply,
            N!Listener, NProofs!Listener, N!Checker, NProofs!Checker, N!Scan, NProofs!Scan,
            N!TypeOK, NProofs!TypeOK, N!ToSet, NProofs!ToSet, N!RemoveAt, NProofs!RemoveAt,
            N!Promise!Call, NProofs!Promise!Call, N!Promise!After, NProofs!Promise!After,
            N!Promise!Init, NProofs!Promise!Init, N!Promise!MayFollow, NProofs!Promise!MayFollow,
            N!Promise!Next, NProofs!Promise!Next
<1>1. N!Init <=> NProofs!Init
  BY Zenon
<1>2. N!Next <=> NProofs!Next
  BY Zenon
<1>3. N!vars = NProofs!vars
  BY Zenon
<1>4. N!TypeOK <=> NProofs!TypeOK
  BY Zenon
<1>5. (N!Promise!Init <=> NProofs!Promise!Init) /\ (N!Promise!Next <=> NProofs!Promise!Next)
  BY Zenon
<1> QED
  BY ONLY <1>1, <1>2, <1>3, <1>4, <1>5

LEMMA AdapterIs ==
    /\ (Adapter!Init <=> AdapterProofs!Init) /\ (Adapter!Next <=> AdapterProofs!Next)
         /\ Adapter!vars = AdapterProofs!vars
    /\ (Adapter!LeasesEnd <=> AdapterProofs!LeasesEnd)
<1> USE DEF Adapter!vars, AdapterProofs!vars, Adapter!NoOne, AdapterProofs!NoOne, Adapter!None,
            AdapterProofs!None, Adapter!JobOf, AdapterProofs!JobOf, Adapter!Out, AdapterProofs!Out,
            Adapter!NoLoop, AdapterProofs!NoLoop, Adapter!Init, AdapterProofs!Init,
            Adapter!IsLeased, AdapterProofs!IsLeased, Adapter!MayStart, AdapterProofs!MayStart,
            Adapter!Awaits, AdapterProofs!Awaits, Adapter!Without, AdapterProofs!Without,
            Adapter!AskAll, AdapterProofs!AskAll, Adapter!Does, AdapterProofs!Does, Adapter!LetGo,
            AdapterProofs!LetGo, Adapter!Outdated, AdapterProofs!Outdated, Adapter!Start,
            AdapterProofs!Start, Adapter!Started, AdapterProofs!Started, Adapter!AddSource,
            AdapterProofs!AddSource, Adapter!RemoveSource, AdapterProofs!RemoveSource,
            Adapter!HookDone, AdapterProofs!HookDone, Adapter!Stop, AdapterProofs!Stop,
            Adapter!Stopped, AdapterProofs!Stopped, Adapter!CutOff, AdapterProofs!CutOff,
            Adapter!WaitFor, AdapterProofs!WaitFor, Adapter!GiveUp, AdapterProofs!GiveUp,
            Adapter!PassOver, AdapterProofs!PassOver, Adapter!Lease, AdapterProofs!Lease,
            Adapter!Acquire, AdapterProofs!Acquire, Adapter!Hold, AdapterProofs!Hold, Adapter!Leave,
            AdapterProofs!Leave, Adapter!Resume, AdapterProofs!Resume, Adapter!Release,
            AdapterProofs!Release, Adapter!BeginRevive, AdapterProofs!BeginRevive,
            Adapter!ReviveNext, AdapterProofs!ReviveNext, Adapter!EndRevive,
            AdapterProofs!EndRevive, Adapter!Switch, AdapterProofs!Switch, Adapter!Connect,
            AdapterProofs!Connect, Adapter!IsFirst, AdapterProofs!IsFirst, Adapter!Then,
            AdapterProofs!Then, Adapter!EndStopping, AdapterProofs!EndStopping, Adapter!EndStarting,
            AdapterProofs!EndStarting, Adapter!EndPausing, AdapterProofs!EndPausing,
            Adapter!EndSwitching, AdapterProofs!EndSwitching, Adapter!EndConnecting,
            AdapterProofs!EndConnecting, Adapter!End, AdapterProofs!End, Adapter!Next,
            AdapterProofs!Next, Adapter!LeasesEnd, AdapterProofs!LeasesEnd, Adapter!SetToSeq,
            AdapterProofs!SetToSeq, Adapter!RemoveAt, AdapterProofs!RemoveAt, Adapter!IsInjective,
            AdapterProofs!IsInjective, Adapter!Cardinality, AdapterProofs!Cardinality
<1>1. Adapter!Init <=> AdapterProofs!Init
  BY Zenon
<1>2. Adapter!Next <=> AdapterProofs!Next
  BY Zenon
<1>3. Adapter!vars = AdapterProofs!vars
  BY Zenon
<1>4. Adapter!LeasesEnd <=> AdapterProofs!LeasesEnd
  BY Zenon DEF Adapter!HasLease, AdapterProofs!HasLease
<1> QED
  BY ONLY <1>1, <1>2, <1>3, <1>4

LEMMA StickIsSource ==
    /\ (Stick!Init <=> StickProofs!Init) /\ (Stick!Next <=> StickProofs!Next) /\ Stick!vars = StickProofs!vars
    /\ (Stick!LeasesEnd <=> StickProofs!LeasesEnd)
<1> USE DEF Stick!vars, StickProofs!vars, Stick!NoOne, StickProofs!NoOne, Stick!None,
            StickProofs!None, Stick!JobOf, StickProofs!JobOf, Stick!Out, StickProofs!Out,
            Stick!NoLoop, StickProofs!NoLoop, Stick!Init, StickProofs!Init, Stick!IsLeased,
            StickProofs!IsLeased, Stick!MayStart, StickProofs!MayStart, Stick!Awaits,
            StickProofs!Awaits, Stick!Without, StickProofs!Without, Stick!AskAll,
            StickProofs!AskAll, Stick!Does, StickProofs!Does, Stick!LetGo, StickProofs!LetGo,
            Stick!Outdated, StickProofs!Outdated, Stick!Start, StickProofs!Start, Stick!Started,
            StickProofs!Started, Stick!AddSource, StickProofs!AddSource, Stick!RemoveSource,
            StickProofs!RemoveSource, Stick!HookDone, StickProofs!HookDone, Stick!Stop,
            StickProofs!Stop, Stick!Stopped, StickProofs!Stopped, Stick!CutOff, StickProofs!CutOff,
            Stick!WaitFor, StickProofs!WaitFor, Stick!GiveUp, StickProofs!GiveUp, Stick!PassOver,
            StickProofs!PassOver, Stick!Lease, StickProofs!Lease, Stick!Acquire,
            StickProofs!Acquire, Stick!Hold, StickProofs!Hold, Stick!Leave, StickProofs!Leave,
            Stick!Resume, StickProofs!Resume, Stick!Release, StickProofs!Release, Stick!BeginRevive,
            StickProofs!BeginRevive, Stick!ReviveNext, StickProofs!ReviveNext, Stick!EndRevive,
            StickProofs!EndRevive, Stick!Switch, StickProofs!Switch, Stick!Connect,
            StickProofs!Connect, Stick!IsFirst, StickProofs!IsFirst, Stick!Then, StickProofs!Then,
            Stick!EndStopping, StickProofs!EndStopping, Stick!EndStarting, StickProofs!EndStarting,
            Stick!EndPausing, StickProofs!EndPausing, Stick!EndSwitching, StickProofs!EndSwitching,
            Stick!EndConnecting, StickProofs!EndConnecting, Stick!End, StickProofs!End, Stick!Next,
            StickProofs!Next, Stick!LeasesEnd, StickProofs!LeasesEnd, Stick!SetToSeq,
            StickProofs!SetToSeq, Stick!RemoveAt, StickProofs!RemoveAt, Stick!IsInjective,
            StickProofs!IsInjective, Stick!Cardinality, StickProofs!Cardinality
<1>1. Stick!Init <=> StickProofs!Init
  BY Zenon
<1>2. Stick!Next <=> StickProofs!Next
  BY Zenon
<1>3. Stick!vars = StickProofs!vars
  BY Zenon
<1>4. Stick!LeasesEnd <=> StickProofs!LeasesEnd
  BY Zenon DEF Stick!HasLease, StickProofs!HasLease
<1> QED
  BY ONLY <1>1, <1>2, <1>3, <1>4

LEMMA ProxyIs ==
    /\ (Proxy!Init <=> ProxyProofs!Init) /\ (Proxy!Next <=> ProxyProofs!Next) /\ Proxy!vars = ProxyProofs!vars
    /\ (Proxy!LeasesEnd <=> ProxyProofs!LeasesEnd)
<1> USE DEF Proxy!vars, ProxyProofs!vars, Proxy!NoOne, ProxyProofs!NoOne, Proxy!None,
            ProxyProofs!None, Proxy!JobOf, ProxyProofs!JobOf, Proxy!Out, ProxyProofs!Out,
            Proxy!NoLoop, ProxyProofs!NoLoop, Proxy!Init, ProxyProofs!Init, Proxy!IsLeased,
            ProxyProofs!IsLeased, Proxy!MayStart, ProxyProofs!MayStart, Proxy!Awaits,
            ProxyProofs!Awaits, Proxy!Without, ProxyProofs!Without, Proxy!AskAll,
            ProxyProofs!AskAll, Proxy!Does, ProxyProofs!Does, Proxy!LetGo, ProxyProofs!LetGo,
            Proxy!Outdated, ProxyProofs!Outdated, Proxy!Start, ProxyProofs!Start, Proxy!Started,
            ProxyProofs!Started, Proxy!AddSource, ProxyProofs!AddSource, Proxy!RemoveSource,
            ProxyProofs!RemoveSource, Proxy!HookDone, ProxyProofs!HookDone, Proxy!Stop,
            ProxyProofs!Stop, Proxy!Stopped, ProxyProofs!Stopped, Proxy!CutOff, ProxyProofs!CutOff,
            Proxy!WaitFor, ProxyProofs!WaitFor, Proxy!GiveUp, ProxyProofs!GiveUp, Proxy!PassOver,
            ProxyProofs!PassOver, Proxy!Lease, ProxyProofs!Lease, Proxy!Acquire,
            ProxyProofs!Acquire, Proxy!Hold, ProxyProofs!Hold, Proxy!Leave, ProxyProofs!Leave,
            Proxy!Resume, ProxyProofs!Resume, Proxy!Release, ProxyProofs!Release, Proxy!BeginRevive,
            ProxyProofs!BeginRevive, Proxy!ReviveNext, ProxyProofs!ReviveNext, Proxy!EndRevive,
            ProxyProofs!EndRevive, Proxy!Switch, ProxyProofs!Switch, Proxy!Connect,
            ProxyProofs!Connect, Proxy!IsFirst, ProxyProofs!IsFirst, Proxy!Then, ProxyProofs!Then,
            Proxy!EndStopping, ProxyProofs!EndStopping, Proxy!EndStarting, ProxyProofs!EndStarting,
            Proxy!EndPausing, ProxyProofs!EndPausing, Proxy!EndSwitching, ProxyProofs!EndSwitching,
            Proxy!EndConnecting, ProxyProofs!EndConnecting, Proxy!End, ProxyProofs!End, Proxy!Next,
            ProxyProofs!Next, Proxy!LeasesEnd, ProxyProofs!LeasesEnd, Proxy!SetToSeq,
            ProxyProofs!SetToSeq, Proxy!RemoveAt, ProxyProofs!RemoveAt, Proxy!IsInjective,
            ProxyProofs!IsInjective, Proxy!Cardinality, ProxyProofs!Cardinality
<1>1. Proxy!Init <=> ProxyProofs!Init
  BY Zenon
<1>2. Proxy!Next <=> ProxyProofs!Next
  BY Zenon
<1>3. Proxy!vars = ProxyProofs!vars
  BY Zenon
<1>4. Proxy!LeasesEnd <=> ProxyProofs!LeasesEnd
  BY Zenon DEF Proxy!HasLease, ProxyProofs!HasLease
<1> QED
  BY ONLY <1>1, <1>2, <1>3, <1>4

-----------------------------------------------------------------------------
(* Together: each behaviour is one of the chosen part. *)

PartsIInv ==
    /\ which = "ssdp"       => SProofs!IInv
    /\ which = "notified"   => NProofs!IInv
    /\ which = "zeroconf"   => Z!IInv
    /\ which = "adapter"    => AdapterProofs!IInv
    /\ which = "stick"      => StickProofs!IInv
    /\ which = "proxy"      => ProxyProofs!IInv
    /\ which = "tracking"   => T!IInv
    /\ which = "usb"        => U!IInv
    /\ which = "ports"      => P!IInv
    /\ which = "router"     => R!IInv
    /\ which = "repository" => D!IInv

LEMMA SsdpAssumptionIs == SProofs!Unknown \notin Tellings /\ NProofs!Unknown \notin Telling
BY DiscoveryAssumption DEF DiscoveryAssumption, S!Unknown, SProofs!Unknown, NProofs!Unknown

LEMMA SourcesAssumptionIs ==
    AdapterProofs!NoOne \notin Clients /\ StickProofs!NoOne \notin Clients /\ ProxyProofs!NoOne \notin Clients
BY SourcesAssumption DEF AdapterProofs!NoOne, StickProofs!NoOne, ProxyProofs!NoOne, Adapter!NoOne

LEMMA PartsStart == PartsInit => PartsIInv /\ PromiseInit
<1> SUFFICES ASSUME PartsInit PROVE PartsIInv /\ PromiseInit
  OBVIOUS
<1>1. which = "ssdp" => SProofs!IInv /\ S!Promise!Init
  <2> SUFFICES ASSUME which = "ssdp" PROVE SProofs!IInv /\ S!Promise!Init
    OBVIOUS
  <2>1. S!Init /\ S!Promise!Init
    BY DEF PartsInit, S!Init
  <2>2. SProofs!Init
    BY <2>1, SsdpIs
  <2> QED
    BY <2>1, <2>2, SsdpAssumptionIs, SProofs!InitIInv
<1>2. which = "notified" => NProofs!IInv /\ N!Promise!Init
  <2> SUFFICES ASSUME which = "notified" PROVE NProofs!IInv /\ N!Promise!Init
    OBVIOUS
  <2>1. N!Init /\ N!Promise!Init
    BY DEF PartsInit, N!Init
  <2>2. NProofs!Init
    BY <2>1, NotifiedIs
  <2> QED
    BY <2>1, <2>2, SsdpAssumptionIs, NProofs!InitIInv
<1>3. which = "zeroconf" => Z!IInv /\ Z!Promise!Init
  <2>1. which = "zeroconf" => Z!Init
    BY DEF PartsInit
  <2>2. Z!Init => Z!Promise!Init
    BY DEF Z!Init
  <2> QED
    BY <2>1, <2>2, RecordsStart
<1>4. which = "adapter" => AdapterProofs!IInv
  <2>1. which = "adapter" => Adapter!Init
    BY DEF PartsInit
  <2> QED
    BY <2>1, AdapterIs, SourcesAssumptionIs, AdapterProofs!InitIInv
<1>5. which = "stick" => StickProofs!IInv
  <2>1. which = "stick" => Stick!Init
    BY DEF PartsInit
  <2> QED
    BY <2>1, StickIsSource, SourcesAssumptionIs, StickProofs!InitIInv
<1>6. which = "proxy" => ProxyProofs!IInv
  <2>1. which = "proxy" => Proxy!Init
    BY DEF PartsInit
  <2> QED
    BY <2>1, ProxyIs, SourcesAssumptionIs, ProxyProofs!InitIInv
<1>7. which = "tracking" => T!IInv /\ T!Promise!Init
  BY TrackingStarts DEF PartsInit
<1>8. which = "usb" => U!IInv
  BY SticksStart DEF PartsInit
<1>9. which = "ports" => P!IInv
  BY PortsStart DEF PartsInit
<1>10. which = "router" => R!IInv
  BY RouterStarts DEF PartsInit
<1>11. which = "repository" => D!IInv
  BY SessionsStart DEF PartsInit
<1> QED
  BY <1>1, <1>2, <1>3, <1>4, <1>5, <1>6, <1>7, <1>8, <1>9, <1>10, <1>11 DEF PartsIInv, PromiseInit

\* A step is one of the chosen part, or leaves its variables as they are.
LEMMA StepIs ==
    ASSUME [PartsNext]_<<which, parts, vars>>
    PROVE  /\ which' = which
           /\ which = "ssdp"       => [S!Next]_(S!vars)
           /\ which = "notified"   => [N!Next]_(N!vars)
           /\ which = "zeroconf"   => [Z!Next]_(Z!vars)
           /\ which = "adapter"    => [Adapter!Next]_(Adapter!vars)
           /\ which = "stick"      => [Stick!Next]_(Stick!vars)
           /\ which = "proxy"      => [Proxy!Next]_(Proxy!vars)
           /\ which = "tracking"   => [T!Next]_(T!vars)
           /\ which = "usb"        => [U!Next]_(U!vars)
           /\ which = "ports"      => [P!Next]_(P!vars)
           /\ which = "router"     => [R!Next]_(R!vars)
           /\ which = "repository" => [D!Next]_(D!vars)
<1>1. which' = which
  BY DEF PartsNext
<1>2. CASE PartsStep
  BY <1>1, <1>2 DEF PartsStep
<1>3. CASE UNCHANGED parts
  BY <1>1, <1>3 DEF parts, S!vars, N!vars, Z!vars, Adapter!vars, Stick!vars, Proxy!vars, T!vars, U!vars,
                    P!vars, R!vars, D!vars
<1> QED
  BY <1>2, <1>3 DEF PartsNext

LEMMA PartsKeep ==
    ASSUME PartsIInv, [PartsNext]_<<which, parts, vars>>
    PROVE  PartsIInv' /\ [PromiseNext]_v10
<1>0. which' = which
  BY StepIs
<1>1. which = "ssdp" => SProofs!IInv' /\ [S!Promise!Next]_v10
  <2> SUFFICES ASSUME which = "ssdp" PROVE SProofs!IInv' /\ [S!Promise!Next]_v10
    OBVIOUS
  <2>1. SProofs!IInv
    BY DEF PartsIInv
  <2>2. [SProofs!Next]_(SProofs!vars)
    <3>1. [S!Next]_(S!vars)
      BY StepIs
    <3>2. CASE S!Next
      BY <3>2, SsdpIs
    <3>3. CASE UNCHANGED S!vars
      BY <3>3 DEF S!vars, SProofs!vars
    <3> QED
      BY <3>1, <3>2, <3>3
  <2>3. SProofs!Unknown \notin Tellings
    BY SsdpAssumptionIs
  <2>4. SProofs!IInv' /\ [SProofs!Promise!Next]_v10
    BY <2>1, <2>2, <2>3, SProofs!NextIInv
  <2> QED
    BY <2>4, SsdpIs
<1>2. which = "notified" => NProofs!IInv' /\ [N!Promise!Next]_v10
  <2> SUFFICES ASSUME which = "notified" PROVE NProofs!IInv' /\ [N!Promise!Next]_v10
    OBVIOUS
  <2>1. NProofs!IInv
    BY DEF PartsIInv
  <2>2. [NProofs!Next]_(NProofs!vars)
    <3>1. [N!Next]_(N!vars)
      BY StepIs
    <3>2. CASE N!Next
      BY <3>2, NotifiedIs
    <3>3. CASE UNCHANGED N!vars
      BY <3>3 DEF N!vars, NProofs!vars
    <3> QED
      BY <3>1, <3>2, <3>3
  <2>3. NProofs!Unknown \notin Telling
    BY SsdpAssumptionIs
  <2>4. NProofs!IInv' /\ [NProofs!Promise!Next]_v10
    BY <2>1, <2>2, <2>3, NProofs!NextIInv
  <2> QED
    BY <2>4, NotifiedIs
<1>3. which = "zeroconf" => Z!IInv' /\ [Z!Promise!Next]_v10
  BY StepIs, RecordsStep DEF PartsIInv
<1>4. which = "adapter" => AdapterProofs!IInv'
  <2> SUFFICES ASSUME which = "adapter" PROVE AdapterProofs!IInv'
    OBVIOUS
  <2>1. AdapterProofs!IInv /\ AdapterProofs!NoOne \notin Clients
    BY SourcesAssumptionIs DEF PartsIInv
  <2>2. CASE Adapter!Next
    <3>1. AdapterProofs!Next
      BY <2>2, AdapterIs
    <3> QED
      BY <2>1, <3>1, AdapterProofs!NextIInv
  <2>3. CASE UNCHANGED Adapter!vars
    <3>1. UNCHANGED AdapterProofs!vars
      BY <2>3 DEF Adapter!vars, AdapterProofs!vars
    <3> QED
      BY <2>1, <3>1, AdapterProofs!NextIInv
  <2> QED
    BY <2>2, <2>3, StepIs
<1>5. which = "stick" => StickProofs!IInv'
  <2> SUFFICES ASSUME which = "stick" PROVE StickProofs!IInv'
    OBVIOUS
  <2>1. StickProofs!IInv /\ StickProofs!NoOne \notin Clients
    BY SourcesAssumptionIs DEF PartsIInv
  <2>2. CASE Stick!Next
    <3>1. StickProofs!Next
      BY <2>2, StickIsSource
    <3> QED
      BY <2>1, <3>1, StickProofs!NextIInv
  <2>3. CASE UNCHANGED Stick!vars
    <3>1. UNCHANGED StickProofs!vars
      BY <2>3 DEF Stick!vars, StickProofs!vars
    <3> QED
      BY <2>1, <3>1, StickProofs!NextIInv
  <2> QED
    BY <2>2, <2>3, StepIs
<1>6. which = "proxy" => ProxyProofs!IInv'
  <2> SUFFICES ASSUME which = "proxy" PROVE ProxyProofs!IInv'
    OBVIOUS
  <2>1. ProxyProofs!IInv /\ ProxyProofs!NoOne \notin Clients
    BY SourcesAssumptionIs DEF PartsIInv
  <2>2. CASE Proxy!Next
    <3>1. ProxyProofs!Next
      BY <2>2, ProxyIs
    <3> QED
      BY <2>1, <3>1, ProxyProofs!NextIInv
  <2>3. CASE UNCHANGED Proxy!vars
    <3>1. UNCHANGED ProxyProofs!vars
      BY <2>3 DEF Proxy!vars, ProxyProofs!vars
    <3> QED
      BY <2>1, <3>1, ProxyProofs!NextIInv
  <2> QED
    BY <2>2, <2>3, StepIs
<1>7. which = "tracking" => T!IInv' /\ [T!Promise!Next]_v10
  BY StepIs, TrackingStep DEF PartsIInv
<1>8. which = "usb" => U!IInv'
  BY StepIs, SticksStep DEF PartsIInv
<1>9. which = "ports" => P!IInv'
  BY StepIs, PortsStep DEF PartsIInv
<1>10. which = "router" => R!IInv'
  BY StepIs, RouterStep DEF PartsIInv
<1>11. which = "repository" => D!IInv'
  BY StepIs, SessionsStep DEF PartsIInv
<1>12. PartsIInv'
  BY <1>0, <1>1, <1>2, <1>3, <1>4, <1>5, <1>6, <1>7, <1>8, <1>9, <1>10, <1>11 DEF PartsIInv
<1>13. [PromiseNext]_v10
  BY <1>1, <1>2, <1>3, <1>7 DEF PromiseNext
<1> QED
  BY <1>12, <1>13

LEMMA PartsInvariant == PartsSpec => []PartsIInv
<1>1. PartsIInv /\ [PartsNext]_<<which, parts, vars>> => PartsIInv'
  BY PartsKeep
<1> QED
  BY PartsStart, <1>1, PTL DEF PartsSpec

\* Over SSDP, mDNS and Bluetooth alike, each registration hears found, updated and lost in order:
\* the three discoveries implement Discovery, for any registrations and things.
THEOREM PromisesAreKept == PartsSpec => ToldInOrder
<1>1. PartsInit => PartsIInv /\ PromiseInit
  BY PartsStart
<1>2. PartsIInv /\ [PartsNext]_<<which, parts, vars>> => PartsIInv' /\ [PromiseNext]_v10
  BY PartsKeep
<1> QED
  BY <1>1, <1>2, PTL DEF PartsSpec, ToldInOrder

\* A registered Bluetooth listener was told of each device it wants, as that is known now, for
\* any listeners, matchers, sources and evictors at once.
THEOREM TrackedIsTold == PartsSpec => []HeardIsKnown
<1>1. PartsIInv => HeardIsKnown
  BY DEF PartsIInv, T!IInv, HeardIsKnown
<1> QED
  BY <1>1, PartsInvariant, PTL

\* A source of any kind is locked exactly while one client has its lease, and marked leased
\* exactly then, for any sources and clients.
THEOREM LeasesOfEachKindEnd == PartsSpec => []LeasesEnd
<1>1. PartsIInv => LeasesEnd
  BY AdapterIs, StickIsSource, ProxyIs
     DEF PartsIInv, LeasesEnd, AdapterProofs!IInv, StickProofs!IInv, ProxyProofs!IInv
<1> QED
  BY <1>1, PartsInvariant, PTL

\* What a USB radio serves as is what it runs, for any sticks, drivers and firmwares, through
\* restarts, crashes, replugs and flashes, while no stick is off the bus as something is done to it.
THEOREM RadiosServeWhatTheyRun == PartsSpec => []ServesWhatRuns
<1>1. PartsIInv => ServesWhatRuns
  BY SticksServe DEF PartsIInv, ServesWhatRuns
<1> QED
  BY <1>1, PartsInvariant, PTL

\* A radio nobody works on is kept as what it was told to be.
THEOREM RadiosAreRemembered == PartsSpec => []RemembersRight
<1>1. PartsIInv => RemembersRight
  BY DEF PartsIInv, RemembersRight, U!IInv
<1> QED
  BY <1>1, PartsInvariant, PTL

\* No two services ever keep one port, and once the apply of a service's start went through its
\* container has the ports the service keeps, unless docker made it for a hub that died: for any
\* services and ports, however starts, applies, crashes and other programs come in between.
THEOREM PortsAlwaysStand == PartsSpec => []PortsStand
<1>1. PartsIInv => PortsStand
  BY DEF PartsIInv, PortsStand, P!IInv
<1> QED
  BY <1>1, PartsInvariant, PTL

\* A border router joins the hub's network only switched on, for any networks.
THEOREM RoutersJoin == PartsSpec => []JoinedIsOn
<1>1. PartsIInv => JoinedIsOn
  BY DEF PartsIInv, R!IInv, JoinedIsOn
<1> QED
  BY <1>1, PartsInvariant, PTL

\* What a border router tells the hub is what its network stays: on a radio that serves Zigbee
\* too, on the channel it read as Zigbee's as its container answered, which is Zigbee's if the
\* container could have Thread follow; for any networks and channels.
THEOREM RoutersTell == PartsSpec => []ToldAsItStays
<1>1. PartsIInv => ToldAsItStays
  BY DEF PartsIInv, R!IInv, ToldAsItStays
<1> QED
  BY <1>1, PartsInvariant, PTL

\* Both repositories read alike for a session that is alone, for any devices and sessions.
THEOREM RepositoriesAgree == PartsSpec => []SameInBoth
<1>1. PartsIInv => SameInBoth
  BY SessionsAgree DEF PartsIInv, SameInBoth
<1> QED
  BY <1>1, PartsInvariant, PTL

\* The types of the variables of each part but the Bluetooth sources.
PartsTyped ==
    /\ which = "ssdp"       => S!TypeOK
    /\ which = "notified"   => N!TypeOK
    /\ which = "zeroconf"   => Z!TypeOK
    /\ which = "tracking"   => T!TypeOK
    /\ which = "usb"        => U!TypeOK
    /\ which = "ports"      => P!TypeOK
    /\ which = "router"     => R!TypeOK
    /\ which = "repository" => D!TypeOK

\* They keep their types, for any constants.
THEOREM PartsTypeCorrect == PartsSpec => []PartsTyped
<1>1. PartsIInv => PartsTyped
  BY SsdpIs, NotifiedIs
     DEF PartsIInv, PartsTyped, SProofs!IInv, NProofs!IInv, Z!IInv, T!IInv, U!IInv, P!IInv, P!PortsTyped,
         R!IInv, D!IInv
<1> QED
  BY <1>1, PartsInvariant, PTL

\* Compose is one of the parts: what holds of its behaviours holds of those of the Parts.
THEOREM ComposeIsAPart == PartsSpec => Spec
<1>1. PartsInit => Init
  BY DEF PartsInit
<1>2. [PartsNext]_<<which, parts, vars>> => [Next]_vars
  BY DEF PartsNext
<1> QED
  BY <1>1, <1>2, PTL DEF PartsSpec, Spec
=============================================================================
