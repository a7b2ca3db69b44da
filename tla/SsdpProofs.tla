----------------------------- MODULE SsdpProofs -----------------------------
(***************************************************************************)
(* Theorems about Ssdp, for any subscribers, services and scans: whatever  *)
(* its tasks do in between one another, it keeps what Discovery promises.  *)
(***************************************************************************)
EXTENDS Ssdp, TLAPS

\* What a subscriber knows of, it was told of and not told lost, and only that.
KnownWasFound ==
    \A s \in Subscribers, u \in Services :
        known[s][u] # Unknown <=> told[s][u] \in {"found", "updated"}

\* Only what is known may expire.
StaleIsKnown ==
    \A s \in Subscribers, u \in Services : <<s, u>> \in stale => known[s][u] # Unknown

\* A task that tells has what to tell, and to whom.
TasksTellSomething ==
    /\ notify.at \in {"alive", "byebye"} => notify.msg \in Message
    /\ notify.at = "alive" => notify.msg.version \in Versions
    /\ \A x \in Scanners : scan[x].at = "telling" => scan[x].msg \in Reply
    /\ expiry.left # {} => expiry.of \in Subscribers

IInv == TypeOK /\ KnownWasFound /\ StaleIsKnown /\ TasksTellSomething

-----------------------------------------------------------------------------
(* Telling one listener. *)

\* Telling what was not known, or not as it is told, keeps the promise.
LEMMA NotifiedKeeps ==
    ASSUME Unknown \notin Versions, TypeOK, KnownWasFound, StaleIsKnown,
           NEW s \in Subscribers, NEW u \in Services, NEW v \in Versions, Notified(s, u, v)
    PROVE  /\ known' \in [Subscribers -> [Services -> Versions \cup {Unknown}]]
           /\ stale' \subseteq Subscribers \X Services
           /\ told' \in [Subscribers -> [Services -> Promise!Call]]
           /\ KnownWasFound' /\ StaleIsKnown'
           /\ [Promise!Next]_told
<1> DEFINE call == IF known[s][u] = Unknown THEN "found"
                   ELSE IF known[s][u] # v THEN "updated" ELSE told[s][u]
<1>1. told[s][u] \in Promise!Call /\ known[s][u] \in Versions \cup {Unknown}
  BY DEF TypeOK
<1>2. known[s][u] # Unknown <=> told[s][u] \in {"found", "updated"}
  BY DEF KnownWasFound
<1>3. told' = [told EXCEPT ![s][u] = call]
  BY <1>1, <1>2 DEF Notified, Promise!After, Promise!Call
<1>4. call \in {"found", "updated"}
  BY <1>2
<1>5. call # told[s][u] => <<told[s][u], call>> \in Promise!MayFollow
  BY <1>1, <1>2 DEF Promise!MayFollow, Promise!Call
<1> HIDE DEF call
<1>6. /\ known' = [known EXCEPT ![s][u] = v] /\ stale' = stale \ {<<s, u>>}
      /\ known' \in [Subscribers -> [Services -> Versions \cup {Unknown}]]
      /\ told' \in [Subscribers -> [Services -> Promise!Call]]
  BY <1>3, <1>4 DEF Notified, TypeOK, Promise!Call
<1>7. \A t \in Subscribers, w \in Services :
        /\ known'[t][w] = IF t = s /\ w = u THEN v ELSE known[t][w]
        /\ told'[t][w] = IF t = s /\ w = u THEN call ELSE told[t][w]
  BY <1>3, <1>6 DEF TypeOK
<1>8. KnownWasFound' /\ StaleIsKnown'
  <2>1. v # Unknown
    OBVIOUS
  <2>2. KnownWasFound'
    BY <2>1, <1>4, <1>7 DEF KnownWasFound
  <2>3. \A t \in Subscribers, w \in Services : <<t, w>> \in stale' => <<t, w>> \in stale
    BY <1>6
  <2>4. StaleIsKnown'
    BY <2>1, <2>3, <1>7 DEF StaleIsKnown
  <2>5. QED
    BY <2>2, <2>4
<1>9. [Promise!Next]_told
  BY <1>5, <1>6, <1>7 DEF Promise!Next
<1>10. QED
  BY <1>6, <1>8, <1>9 DEF TypeOK

\* So does telling lost what is known.
LEMMA ForgottenKeeps ==
    ASSUME TypeOK, KnownWasFound, StaleIsKnown,
           NEW s \in Subscribers, NEW u \in Services, known[s][u] # Unknown, Forgotten(s, u)
    PROVE  /\ known' \in [Subscribers -> [Services -> Versions \cup {Unknown}]]
           /\ stale' \subseteq Subscribers \X Services
           /\ told' \in [Subscribers -> [Services -> Promise!Call]]
           /\ KnownWasFound' /\ StaleIsKnown'
           /\ [Promise!Next]_told
<1>1. told[s][u] \in {"found", "updated"}
  BY DEF KnownWasFound
<1>2. told' = [told EXCEPT ![s][u] = "lost"]
  BY <1>1 DEF Forgotten, Promise!After
<1>3. /\ known' = [known EXCEPT ![s][u] = Unknown] /\ stale' = stale \ {<<s, u>>}
      /\ known' \in [Subscribers -> [Services -> Versions \cup {Unknown}]]
      /\ told' \in [Subscribers -> [Services -> Promise!Call]]
  BY <1>2 DEF Forgotten, TypeOK, Promise!Call
<1>4. \A t \in Subscribers, w \in Services :
        /\ known'[t][w] = IF t = s /\ w = u THEN Unknown ELSE known[t][w]
        /\ told'[t][w] = IF t = s /\ w = u THEN "lost" ELSE told[t][w]
  BY <1>2, <1>3 DEF TypeOK
<1>5. KnownWasFound' /\ StaleIsKnown'
  <2>1. KnownWasFound'
    BY <1>4 DEF KnownWasFound
  <2>2. \A t \in Subscribers, w \in Services :
            <<t, w>> \in stale' => <<t, w>> \in stale /\ ~ (t = s /\ w = u)
    BY <1>3
  <2>3. StaleIsKnown'
    BY <1>4, <2>2 DEF StaleIsKnown
  <2>4. QED
    BY <2>1, <2>3
<1>6. <<told[s][u], "lost">> \in Promise!MayFollow
  BY <1>1 DEF Promise!MayFollow
<1>7. [Promise!Next]_told
  <2>1. \A t \in Subscribers, w \in Services :
            told'[t][w] # told[t][w] => <<told[t][w], told'[t][w]>> \in Promise!MayFollow
    BY <1>4, <1>6
  <2>2. QED
    BY <1>3, <2>1 DEF Promise!Next
<1>8. QED
  BY <1>3, <1>5, <1>7 DEF TypeOK

\* And telling nobody.
LEMMA SilenceKeeps ==
    ASSUME TypeOK, KnownWasFound, StaleIsKnown, UNCHANGED <<known, stale, told>>
    PROVE  /\ known' \in [Subscribers -> [Services -> Versions \cup {Unknown}]]
           /\ stale' \subseteq Subscribers \X Services
           /\ told' \in [Subscribers -> [Services -> Promise!Call]]
           /\ KnownWasFound' /\ StaleIsKnown'
           /\ [Promise!Next]_told
BY DEF TypeOK, KnownWasFound, StaleIsKnown

-----------------------------------------------------------------------------
(* What its tasks and callers do. *)

LEMMA Types ==
    /\ Idle \in Listener /\ Listening \in Listener /\ [Idle EXCEPT !.at = "dead"] \in Listener
    /\ Idle.at = "off" /\ Listening.at = "listening"
    /\ \A at \in {"off", "sleeping", "reading"} :
          [Idle EXCEPT !.at = at] \in Scan /\ [Idle EXCEPT !.at = at].at = at
    /\ \A at \in {"off", "sleeping", "checking", "dead"} :
          [Unchecked EXCEPT !.at = at] \in Checker /\ [Unchecked EXCEPT !.at = at].left = {}
    /\ Idle \in Scan /\ Unchecked \in Checker /\ Unchecked.left = {}
BY DEF Idle, Listening, Unchecked, Listener, Scan, Checker

LEMMA InitIInv == Unknown \notin Versions /\ Init => IInv
<1> SUFFICES ASSUME Unknown \notin Versions, Init PROVE IInv
  OBVIOUS
<1>1. \A s \in Subscribers, u \in Services : known[s][u] = Unknown /\ told[s][u] = "none"
  BY DEF Init, Promise!Init
<1>2. told \in [Subscribers -> [Services -> Promise!Call]]
  BY DEF Init, Promise!Init, Promise!Call
<1>3. TypeOK
  <2>1. isRunning \in BOOLEAN /\ subscribers \in Seq(Subscribers) /\ cancelled \subseteq Subscribers
    <3>1. isRunning = FALSE /\ subscribers = <<>> /\ cancelled = {}
      BY DEF Init
    <3>2. isRunning \in BOOLEAN
      BY <3>1
    <3>3. subscribers \in Seq(Subscribers)
      BY <3>1
    <3>4. QED
      BY <3>1, <3>2, <3>3
  <2>2. /\ known \in [Subscribers -> [Services -> Versions \cup {Unknown}]]
        /\ stale \subseteq Subscribers \X Services
    BY DEF Init
  <2>3. notify \in Listener /\ expiry \in Checker /\ scan \in [Scanners -> Scan]
    BY Types DEF Init
  <2>4. QED
    BY <1>2, <2>1, <2>2, <2>3 DEF TypeOK
<1>4. KnownWasFound /\ StaleIsKnown
  BY <1>1 DEF Init, KnownWasFound, StaleIsKnown
<1>5. TasksTellSomething
  BY Types DEF Init, TasksTellSomething
<1>6. QED
  BY <1>3, <1>4, <1>5 DEF IInv

\* Each step keeps the invariant and the promise.
LEMMA NextIInv ==
    ASSUME Unknown \notin Versions, IInv, [Next]_vars
    PROVE  IInv' /\ [Promise!Next]_told
<1>0. TypeOK /\ KnownWasFound /\ StaleIsKnown /\ TasksTellSomething
  BY DEF IInv
<1>1. CASE Start \/ Stop \/ BeginCheck \/ HeardOut
  <2>1. UNCHANGED <<known, stale, told, subscribers, cancelled>>
    BY <1>1 DEF Start, Stop, BeginCheck, HeardOut
  <2>2. CASE Start
    <3>1. notify'.at \notin {"alive", "byebye"} /\ notify' \in Listener
      BY <2>2, Types DEF Start, Idle
    <3>2. \A x \in Scanners : scan'[x] = scan[x] \/ scan'[x] = [Idle EXCEPT !.at = "sleeping"]
      BY <2>2 DEF Start
    <3>3. scan' \in [Scanners -> Scan] /\ expiry' \in Checker /\ isRunning' \in BOOLEAN
      BY <1>0, <2>2, Types DEF Start, TypeOK
    <3>4. TypeOK' /\ TasksTellSomething'
      BY <1>0, <2>1, <2>2, <3>1, <3>2, <3>3, Types DEF Start, TypeOK, TasksTellSomething
    <3>5. QED
      BY <1>0, <2>1, <3>4, SilenceKeeps DEF IInv
  <2>3. CASE Stop
    <3>1. \A x \in Scanners : scan'[x] = scan[x] \/ scan'[x] = Idle
      BY <2>3 DEF Stop
    <3>2. scan' \in [Scanners -> Scan]
      BY <1>0, <2>3, Types DEF Stop, TypeOK
    <3>3. TypeOK' /\ TasksTellSomething'
      BY <1>0, <2>1, <2>3, <3>1, <3>2, Types DEF Stop, TypeOK, TasksTellSomething
    <3>4. QED
      BY <1>0, <2>1, <3>3, SilenceKeeps DEF IInv
  <2>4. CASE BeginCheck
    BY <1>0, <2>1, <2>4, Types, SilenceKeeps DEF BeginCheck, IInv, TypeOK, TasksTellSomething
  <2>5. CASE HeardOut
    BY <1>0, <2>1, <2>5, Types, SilenceKeeps DEF HeardOut, IInv, TypeOK, TasksTellSomething
  <2>6. QED
    BY <1>1, <2>2, <2>3, <2>4, <2>5
<1>2. ASSUME NEW s \in Subscribers, Register(s) \/ Cancel(s) PROVE IInv' /\ [Promise!Next]_told
  <2>1. /\ UNCHANGED <<isRunning, known, stale, notify, expiry, scan, told>>
        /\ cancelled' \in {cancelled, cancelled \cup {s}}
    BY <1>2 DEF Register, Cancel
  <2>2. subscribers' \in Seq(Subscribers)
    <3>1. subscribers \in Seq(Subscribers)
      BY <1>0 DEF TypeOK
    <3>2. CASE Register(s)
      BY <3>1, <3>2 DEF Register
    <3>3. CASE Cancel(s)
      <4>1. PICK place \in DOMAIN subscribers : subscribers' = RemoveAt(subscribers, place)
        BY <3>3 DEF Cancel
      <4>2. /\ place \in 1..Len(subscribers)
            /\ SubSeq(subscribers, 1, place - 1) \in Seq(Subscribers)
            /\ SubSeq(subscribers, place + 1, Len(subscribers)) \in Seq(Subscribers)
        BY <3>1
      <4>3. QED
        BY <4>1, <4>2 DEF RemoveAt
    <3>4. QED
      BY <1>2, <3>2, <3>3
  <2>3. TasksTellSomething'
    BY <1>0, <2>1 DEF TasksTellSomething
  <2>4. QED
    BY <1>0, <2>1, <2>2, <2>3, SilenceKeeps DEF IInv, TypeOK
<1>3. ASSUME NEW s \in Subscribers, TellAlive(s) PROVE IInv' /\ [Promise!Next]_told
  <2>1. notify.msg.usn \in Services /\ notify.msg.version \in Versions
    BY <1>0, <1>3 DEF TellAlive, TasksTellSomething, Message
  <2>2. Notified(s, notify.msg.usn, notify.msg.version)
    BY <1>3 DEF TellAlive
  <2>3. /\ KnownWasFound' /\ StaleIsKnown' /\ [Promise!Next]_told
        /\ known' \in [Subscribers -> [Services -> Versions \cup {Unknown}]]
        /\ stale' \subseteq Subscribers \X Services
        /\ told' \in [Subscribers -> [Services -> Promise!Call]]
    BY <1>0, <2>1, <2>2, NotifiedKeeps
  <2>4. TypeOK' /\ TasksTellSomething'
    <3>1. UNCHANGED <<isRunning, subscribers, cancelled, expiry, scan>>
      BY <1>3 DEF TellAlive
    <3>2. notify' = Listening \/ notify' = [notify EXCEPT !.left = @ \ {s}]
      BY <1>3 DEF TellAlive
    <3>3. /\ notify' \in Listener
          /\ notify'.at = "listening" \/ (notify'.at = notify.at /\ notify'.msg = notify.msg)
      BY <1>0, <3>2, Types DEF TypeOK, Listener
    <3>4. QED
      BY <1>0, <2>3, <3>1, <3>3 DEF TypeOK, TasksTellSomething
  <2>5. QED
    BY <2>3, <2>4 DEF IInv
<1>4. ASSUME NEW msg \in Message, Hear(msg) PROVE IInv' /\ [Promise!Next]_told
  <2>1. msg.nts = "alive" => msg.version \in Versions
    BY DEF Message
  <2>2. ToSet(subscribers) \subseteq Subscribers
    BY <1>0 DEF TypeOK, ToSet
  <2>3. msg.nts \in {"alive", "byebye"}
    BY DEF Message
  <2>4. TypeOK' /\ TasksTellSomething'
    <3>1. notify' \in Listener /\ notify'.at = msg.nts /\ notify'.msg = msg
      BY <1>4, <2>2, <2>3 DEF Hear, Listener
    <3>2. QED
      BY <1>0, <1>4, <2>1, <3>1 DEF Hear, TypeOK, TasksTellSomething
  <2>5. QED
    BY <1>0, <1>4, <2>4, SilenceKeeps DEF Hear, IInv
<1>5. CASE TellByebye
  <2>1. PICK next \in KnowingFrom(notify.place, notify.msg.usn) :
            /\ Forgotten(subscribers[next], notify.msg.usn)
            /\ notify' = [notify EXCEPT !.place = next + 1]
    BY <1>5 DEF TellByebye
  <2>2. /\ notify.at = "byebye" /\ notify.msg.usn \in Services
        /\ UNCHANGED <<isRunning, subscribers, cancelled, expiry, scan>>
    BY <1>0, <1>5 DEF TellByebye, TasksTellSomething, Message
  <2>3. /\ next \in Nat /\ subscribers[next] \in Subscribers
        /\ known[subscribers[next]][notify.msg.usn] # Unknown
    BY <1>0 DEF KnowingFrom, TypeOK
  <2>4. /\ KnownWasFound' /\ StaleIsKnown' /\ [Promise!Next]_told
        /\ known' \in [Subscribers -> [Services -> Versions \cup {Unknown}]]
        /\ stale' \subseteq Subscribers \X Services
        /\ told' \in [Subscribers -> [Services -> Promise!Call]]
    BY <1>0, <2>1, <2>2, <2>3, ForgottenKeeps
  <2>5. TypeOK' /\ TasksTellSomething'
    <3>1. notify' \in Listener /\ notify'.at = "byebye" /\ notify'.msg = notify.msg
      <4>1. /\ notify' = [notify EXCEPT !.place = next + 1] /\ notify.at = "byebye"
            /\ notify \in Listener /\ next + 1 \in Nat
        BY <1>0, <2>1, <2>2, <2>3 DEF TypeOK
      <4>2. QED
        BY <4>1 DEF Listener
    <3>2. QED
      BY <1>0, <2>2, <2>4, <3>1 DEF TypeOK, TasksTellSomething
  <2>6. QED
    BY <2>4, <2>5 DEF IInv
<1>6. ASSUME NEW x \in Scanners, BeginScan(x) \/ EndScan(x) PROVE IInv' /\ [Promise!Next]_told
  <2>1. /\ UNCHANGED <<isRunning, subscribers, cancelled, known, stale, notify, expiry, told>>
        /\ \E stage \in {"off", "sleeping", "reading"} : scan' = [scan EXCEPT ![x] = [Idle EXCEPT !.at = stage]]
    BY <1>6 DEF BeginScan, EndScan
  <2>2. TypeOK' /\ TasksTellSomething'
    <3>1. PICK stage \in {"off", "sleeping", "reading"} :
                scan' = [scan EXCEPT ![x] = [Idle EXCEPT !.at = stage]]
      BY <2>1
    <3>2. [Idle EXCEPT !.at = stage] \in Scan /\ [Idle EXCEPT !.at = stage].at # "telling"
      BY <3>1, Types
    <3>3. scan' \in [Scanners -> Scan]
      BY <1>0, <3>1, <3>2 DEF TypeOK
    <3>4. \A y \in Scanners : scan'[y].at = "telling" => scan'[y] = scan[y]
      BY <1>0, <3>1, <3>2 DEF TypeOK
    <3>5. QED
      BY <1>0, <2>1, <3>3, <3>4 DEF TypeOK, TasksTellSomething
  <2>3. QED
    BY <1>0, <2>1, <2>2, SilenceKeeps DEF IInv
<1>7. ASSUME NEW x \in Scanners, NEW u \in Services, NEW v \in Versions, NextReply(x, u, v)
      PROVE  IInv' /\ [Promise!Next]_told
  <2>1. ToSet(subscribers) \subseteq Subscribers
    BY <1>0 DEF TypeOK, ToSet
  <2>2. TypeOK' /\ TasksTellSomething'
    <3>1. [usn |-> u, version |-> v] \in Reply
      BY DEF Reply
    <3>2. scan' \in [Scanners -> Scan]
      BY <1>0, <1>7, <2>1, <3>1 DEF NextReply, TypeOK, Scan
    <3>3. \A y \in Scanners : scan'[y] = scan[y] \/ scan'[y].msg \in Reply
      BY <1>0, <1>7, <3>1 DEF NextReply, TypeOK
    <3>4. QED
      BY <1>0, <1>7, <3>2, <3>3 DEF NextReply, TypeOK, TasksTellSomething
  <2>3. QED
    BY <1>0, <1>7, <2>2, SilenceKeeps DEF NextReply, IInv
<1>8. ASSUME NEW x \in Scanners, NEW s \in Subscribers, TellReply(x, s)
      PROVE  IInv' /\ [Promise!Next]_told
  <2>1. scan[x].msg.usn \in Services /\ scan[x].msg.version \in Versions
    BY <1>0, <1>8 DEF TellReply, TasksTellSomething, Reply
  <2>2. Notified(s, scan[x].msg.usn, scan[x].msg.version)
    BY <1>8 DEF TellReply
  <2>3. /\ KnownWasFound' /\ StaleIsKnown' /\ [Promise!Next]_told
        /\ known' \in [Subscribers -> [Services -> Versions \cup {Unknown}]]
        /\ stale' \subseteq Subscribers \X Services
        /\ told' \in [Subscribers -> [Services -> Promise!Call]]
    BY <1>0, <2>1, <2>2, NotifiedKeeps
  <2>4. TypeOK' /\ TasksTellSomething'
    <3>1. scan' \in [Scanners -> Scan]
      <4>1. scan \in [Scanners -> Scan] /\ scan' = [scan EXCEPT ![x].left = scan[x].left \ {s}]
        BY <1>0, <1>8 DEF TellReply, TypeOK
      <4>2. scan[x] \in Scan
        BY <4>1
      <4>3. [scan[x] EXCEPT !.left = scan[x].left \ {s}] \in Scan
        BY <4>2 DEF Scan
      <4>4. QED
        BY <4>1, <4>3
    <3>2. \A y \in Scanners : scan'[y].at = scan[y].at /\ scan'[y].msg = scan[y].msg
      BY <1>0, <1>8 DEF TellReply, TypeOK, Scan
    <3>3. QED
      BY <1>0, <1>8, <2>3, <3>1, <3>2 DEF TellReply, TypeOK, TasksTellSomething
  <2>5. QED
    BY <2>3, <2>4 DEF IInv
<1>9. ASSUME NEW s \in Subscribers, NEW u \in Services, GoStale(s, u)
      PROVE  IInv' /\ [Promise!Next]_told
  <2>1. StaleIsKnown' /\ KnownWasFound' /\ TasksTellSomething' /\ TypeOK'
    BY <1>0, <1>9 DEF GoStale, StaleIsKnown, KnownWasFound, TasksTellSomething, TypeOK
  <2>2. QED
    BY <1>9, <2>1 DEF GoStale, IInv
<1>10. CASE CheckNext
  <2>0. UNCHANGED <<isRunning, subscribers, cancelled, notify, scan>> /\ expiry.left = {}
    BY <1>10 DEF CheckNext
  <2>1. CASE UNCHANGED <<known, stale, told>> /\ expiry' = [Unchecked EXCEPT !.at = "sleeping"]
    BY <1>0, <2>0, <2>1, Types, SilenceKeeps DEF IInv, TypeOK, TasksTellSomething
  <2>2. CASE \E next \in DOMAIN subscribers : \E u \in Expired(subscribers[next]) :
                /\ Forgotten(subscribers[next], u)
                /\ expiry' = [expiry EXCEPT !.place = next + 1, !.of = subscribers[next],
                                            !.left = Expired(subscribers[next]) \ {u}]
    <3>0. PICK next \in DOMAIN subscribers : \E u \in Expired(subscribers[next]) :
                /\ Forgotten(subscribers[next], u)
                /\ expiry' = [expiry EXCEPT !.place = next + 1, !.of = subscribers[next],
                                            !.left = Expired(subscribers[next]) \ {u}]
      BY <2>2
    <3>1. PICK u \in Expired(subscribers[next]) :
                /\ Forgotten(subscribers[next], u)
                /\ expiry' = [expiry EXCEPT !.place = next + 1, !.of = subscribers[next],
                                            !.left = Expired(subscribers[next]) \ {u}]
      BY <3>0
    <3>2. next \in Nat /\ subscribers[next] \in Subscribers /\ u \in Services
      BY <1>0 DEF TypeOK, Expired
    <3>3. known[subscribers[next]][u] # Unknown
      BY <1>0, <3>2 DEF StaleIsKnown, Expired
    <3>4. /\ KnownWasFound' /\ StaleIsKnown' /\ [Promise!Next]_told
          /\ known' \in [Subscribers -> [Services -> Versions \cup {Unknown}]]
          /\ stale' \subseteq Subscribers \X Services
          /\ told' \in [Subscribers -> [Services -> Promise!Call]]
      BY <1>0, <3>1, <3>2, <3>3, ForgottenKeeps
    <3>5. TypeOK' /\ TasksTellSomething'
      <4>1. expiry' \in Checker /\ expiry'.of \in Subscribers
        <5>1. /\ expiry' = [expiry EXCEPT !.place = next + 1, !.of = subscribers[next],
                                          !.left = Expired(subscribers[next]) \ {u}]
              /\ expiry \in Checker /\ next + 1 \in Nat
          BY <1>0, <3>1, <3>2 DEF TypeOK
        <5>2. Expired(subscribers[next]) \ {u} \in SUBSET Services
          BY DEF Expired
        <5>3. QED
          BY <3>2, <5>1, <5>2 DEF Checker
      <4>2. QED
        BY <1>0, <2>0, <3>4, <4>1 DEF TypeOK, TasksTellSomething
    <3>6. QED
      BY <3>4, <3>5 DEF IInv
  <2>3. QED
    BY <1>10, <2>1, <2>2 DEF CheckNext
<1>11. CASE EvictNext
  <2>1. PICK u \in expiry.left : EvictListed(u)
    BY <1>11 DEF EvictNext
  <2>2. UNCHANGED <<isRunning, subscribers, cancelled, notify, scan>>
    BY <1>11 DEF EvictNext
  <2>3. expiry.of \in Subscribers /\ u \in Services
    BY <1>0, <2>1 DEF TypeOK, TasksTellSomething, Checker
  <2>4. CASE known[expiry.of][u] = Unknown
    BY <1>0, <2>1, <2>2, <2>4, Types, SilenceKeeps DEF EvictListed, IInv, TypeOK, TasksTellSomething
  <2>5. CASE known[expiry.of][u] # Unknown
    <3>1. Forgotten(expiry.of, u) /\ expiry' = [expiry EXCEPT !.left = @ \ {u}]
      BY <2>1, <2>5 DEF EvictListed
    <3>2. /\ KnownWasFound' /\ StaleIsKnown' /\ [Promise!Next]_told
          /\ known' \in [Subscribers -> [Services -> Versions \cup {Unknown}]]
          /\ stale' \subseteq Subscribers \X Services
          /\ told' \in [Subscribers -> [Services -> Promise!Call]]
      BY <1>0, <2>3, <2>5, <3>1, ForgottenKeeps
    <3>3. TypeOK' /\ TasksTellSomething'
      <4>1. expiry' \in Checker /\ expiry'.of \in Subscribers
        BY <1>0, <2>3, <3>1 DEF TypeOK, Checker
      <4>2. QED
        BY <1>0, <2>2, <3>2, <4>1 DEF TypeOK, TasksTellSomething
    <3>4. QED
      BY <3>2, <3>3 DEF IInv
  <2>6. QED
    BY <2>4, <2>5
<1>12. CASE UNCHANGED vars
  BY <1>0, <1>12 DEF vars, IInv, TypeOK, KnownWasFound, StaleIsKnown, TasksTellSomething
<1>13. QED
  BY <1>1, <1>2, <1>3, <1>4, <1>5, <1>6, <1>7, <1>8, <1>9, <1>10, <1>11, <1>12 DEF Next

-----------------------------------------------------------------------------

\* Every variable keeps its type, for any subscribers, services and versions.
THEOREM TypeCorrect == Unknown \notin Versions => (Spec => []TypeOK)
<1> SUFFICES ASSUME Unknown \notin Versions PROVE Spec => []TypeOK
  OBVIOUS
<1>1. Init => IInv
  BY InitIInv
<1>2. IInv /\ [Next]_vars => IInv'
  BY NextIInv
<1>3. IInv => TypeOK
  BY DEF IInv
<1>4. QED
  BY <1>1, <1>2, <1>3, PTL DEF Spec

\* SSDP discovery implements Discovery: each listener hears found, updated and lost in order
\* about each service, for any subscribers, services and scans.
THEOREM KeepsThePromise == Unknown \notin Versions => (Spec => ToldInOrder)
<1> SUFFICES ASSUME Unknown \notin Versions PROVE Spec => ToldInOrder
  OBVIOUS
<1>1. Init => IInv /\ Promise!Init
  BY InitIInv DEF Init
<1>2. IInv /\ [Next]_vars => IInv' /\ [Promise!Next]_told
  BY NextIInv
<1>3. QED
  BY <1>1, <1>2, PTL DEF Spec, ToldInOrder, Promise!Spec
=============================================================================
