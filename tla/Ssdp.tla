-------------------------------- MODULE Ssdp --------------------------------
(***************************************************************************)
(* SSDP discovery: `SSDPDiscoveryService` of providers/ssdp.py, for one    *)
(* search target of one multicast group.                                   *)
(*                                                                         *)
(* Three tasks of its own and the scans asked for run in turns on one      *)
(* asyncio loop, and each gives way while a listener is told: the one that *)
(* listens to NOTIFYs, the one that scans, the one that checks what        *)
(* expired.  What comes from the network is arbitrary: UDP loses, repeats  *)
(* and reorders.  A `_Subscriber` registers once and is cancelled once;    *)
(* the tasks may still hold it then.                                       *)
(***************************************************************************)
EXTENDS Naturals, Sequences, SequencesExt, FiniteSets

CONSTANTS
    Subscribers,    \* the `_Subscriber`s there may be
    Services,       \* USNs
    Versions,       \* what a service tells of itself: its location and server; none is 0
    Scanners,       \* "periodic" for the task's scans, and the calls of perform_scan
    NoOne           \* no subscriber, and no message

Unknown == 0

VARIABLES
    isRunning,      \* `_is_running`
    subscribers,    \* the list of the search target
    cancelled,      \* the ones that cancelled
    known,          \* what each knows of each service: its version, or Unknown
    stale,          \* the <<subscriber, service>> not heard for _missed_scans_evict scans
    notify,         \* the task that listens
    expiry,         \* the task that checks what expired
    scan,           \* the scans
    told            \* the calls to each listener

vars == <<isRunning, subscribers, cancelled, known, stale, notify, expiry, scan, told>>

Promise == INSTANCE Discovery WITH Registrations <- Subscribers, Things <- Services

Message == [nts : {"alive"}, usn : Services, version : Versions]
           \cup [nts : {"byebye"}, usn : Services, version : {Unknown}]

\* A message or reply being told: to whom still, or for a byebye from which place on.
Idle       == [at |-> "off", msg |-> NoOne, place |-> 1, left |-> {}]
Listening  == [Idle EXCEPT !.at = "listening"]
Unchecked  == [at |-> "off", place |-> 1, of |-> NoOne, left |-> {}]

Init ==
    /\ isRunning = FALSE
    /\ subscribers = <<>>
    /\ cancelled = {}
    /\ known = [s \in Subscribers |-> [u \in Services |-> Unknown]]
    /\ stale = {}
    /\ notify = Idle
    /\ expiry = Unchecked
    /\ scan = [x \in Scanners |-> Idle]
    /\ Promise!Init

-----------------------------------------------------------------------------
(* What is called from outside. *)

Register(s) ==
    /\ s \notin ToSet(subscribers) \cup cancelled
    /\ subscribers' = Append(subscribers, s)
    /\ UNCHANGED <<isRunning, cancelled, known, stale, notify, expiry, scan, told>>

\* A task that goes through the list skips the one after it, if it is past it.
Cancel(s) ==
    /\ \E place \in DOMAIN subscribers :
          /\ subscribers[place] = s
          /\ subscribers' = RemoveAt(subscribers, place)
    /\ cancelled' = cancelled \cup {s}
    /\ UNCHANGED <<isRunning, known, stale, notify, expiry, scan, told>>

\* What is known outlives a stop.  The task that listens ends if its port is taken.
Start ==
    /\ ~ isRunning
    /\ isRunning' = TRUE
    /\ notify' \in {Listening, [Idle EXCEPT !.at = "dead"]}
    /\ expiry' = [Unchecked EXCEPT !.at = "sleeping"]
    /\ scan' = [x \in Scanners |-> IF x = "periodic" THEN [Idle EXCEPT !.at = "sleeping"] ELSE scan[x]]
    /\ UNCHANGED <<subscribers, cancelled, known, stale, told>>

\* Its tasks are cancelled wherever they are; a scan asked for goes on.
Stop ==
    /\ isRunning
    /\ isRunning' = FALSE
    /\ notify' = Idle
    /\ expiry' = Unchecked
    /\ scan' = [x \in Scanners |-> IF x = "periodic" THEN Idle ELSE scan[x]]
    /\ UNCHANGED <<subscribers, cancelled, known, stale, told>>

-----------------------------------------------------------------------------
(* Telling one listener. *)

\* Slip: told as found though known.
NotifiedAnew(s, u, v) ==
    /\ known' = [known EXCEPT ![s][u] = v]
    /\ stale' = stale \ {<<s, u>>}
    /\ told' = [told EXCEPT ![s][u] = Promise!After(@, "found")]

\* `_notify_subscriber`: found, changed, or seen again.
Notified(s, u, v) ==
    /\ known' = [known EXCEPT ![s][u] = v]
    /\ stale' = stale \ {<<s, u>>}
    /\ told' = [told EXCEPT ![s][u] =
                    IF known[s][u] = Unknown THEN Promise!After(@, "found")
                    ELSE IF known[s][u] # v THEN Promise!After(@, "updated")
                    ELSE @]

\* Popped from what it knows, and told lost.
Forgotten(s, u) ==
    /\ known' = [known EXCEPT ![s][u] = Unknown]
    /\ stale' = stale \ {<<s, u>>}
    /\ told' = [told EXCEPT ![s][u] = Promise!After(@, "lost")]

-----------------------------------------------------------------------------
(* Listening: `_start_listening_notify`. *)

\* A message comes; an alive one is told to all at once, a byebye to one after another.
Hear(msg) ==
    /\ notify.at = "listening"
    /\ notify' = [at |-> msg.nts, msg |-> msg, place |-> 1,
                  left |-> IF msg.nts = "alive" THEN ToSet(subscribers) ELSE {}]
    /\ UNCHANGED <<isRunning, subscribers, cancelled, known, stale, expiry, scan, told>>

TellAlive(s) ==
    /\ notify.at = "alive" /\ s \in notify.left
    /\ Notified(s, notify.msg.usn, notify.msg.version)
    /\ notify' = IF notify.left = {s} THEN Listening ELSE [notify EXCEPT !.left = @ \ {s}]
    /\ UNCHANGED <<isRunning, subscribers, cancelled, expiry, scan>>

\* The places in the list, from one on, of those that know it.
KnowingFrom(place, u) == {i \in DOMAIN subscribers : i >= place /\ known[subscribers[i]][u] # Unknown}

IsFirst(place, places) == \A other \in places : place <= other

\* The next one in the list that knows it.
TellByebye ==
    /\ notify.at = "byebye"
    /\ LET u == notify.msg.usn
           knowing == KnowingFrom(notify.place, u)
       IN  \E next \in knowing :
              /\ IsFirst(next, knowing)
              /\ Forgotten(subscribers[next], u)
              /\ notify' = [notify EXCEPT !.place = next + 1]
    /\ UNCHANGED <<isRunning, subscribers, cancelled, expiry, scan>>

\* Nobody is left to tell.
HeardOut ==
    /\ \/ /\ notify.at = "alive"
          /\ notify.left = {}
       \/ /\ notify.at = "byebye"
          /\ KnowingFrom(notify.place, notify.msg.usn) = {}
    /\ notify' = Listening
    /\ UNCHANGED <<isRunning, subscribers, cancelled, known, stale, expiry, scan, told>>

-----------------------------------------------------------------------------
(* Scanning: `_scan_and_read`, `_process_scan_replies`. *)

\* perform_scan; the task's turn.  Replies are read off the loop until their time is over.
BeginScan(x) ==
    /\ isRunning
    /\ scan[x].at = (IF x = "periodic" THEN "sleeping" ELSE "off")
    /\ scan' = [scan EXCEPT ![x] = [Idle EXCEPT !.at = "reading"]]
    /\ UNCHANGED <<isRunning, subscribers, cancelled, known, stale, notify, expiry, told>>

\* The next of the replies read, from whenever, told to those subscribed now.
NextReply(x, u, v) ==
    /\ scan[x].at \in {"reading", "telling"} /\ scan[x].left = {}
    /\ scan' = [scan EXCEPT ![x] =
                    [at |-> "telling", msg |-> [usn |-> u, version |-> v], place |-> 1,
                     left |-> ToSet(subscribers)]]
    /\ UNCHANGED <<isRunning, subscribers, cancelled, known, stale, notify, expiry, told>>

TellReply(x, s) ==
    /\ scan[x].at = "telling" /\ s \in scan[x].left
    /\ Notified(s, scan[x].msg.usn, scan[x].msg.version)
    /\ scan' = [scan EXCEPT ![x].left = @ \ {s}]
    /\ UNCHANGED <<isRunning, subscribers, cancelled, notify, expiry>>

EndScan(x) ==
    /\ scan[x].at \in {"reading", "telling"} /\ scan[x].left = {}
    /\ scan' = [scan EXCEPT ![x] = [Idle EXCEPT !.at = IF x = "periodic" THEN "sleeping" ELSE "off"]]
    /\ UNCHANGED <<isRunning, subscribers, cancelled, known, stale, notify, expiry, told>>

-----------------------------------------------------------------------------
(* Expiry: `_evict_expired`. *)

\* No reply to that many scans.
GoStale(s, u) ==
    /\ known[s][u] # Unknown
    /\ stale' = stale \cup {<<s, u>>}
    /\ UNCHANGED <<isRunning, subscribers, cancelled, known, notify, expiry, scan, told>>

Expired(s) == {u \in Services : <<s, u>> \in stale}

BeginCheck ==
    /\ expiry.at = "sleeping"
    /\ expiry' = [Unchecked EXCEPT !.at = "checking"]
    /\ UNCHANGED <<isRunning, subscribers, cancelled, known, stale, notify, scan, told>>

\* The next one in the list with anything expired: that is listed at once, and popped one
\* by one, each told before the next.
CheckNext ==
    /\ expiry.at = "checking" /\ expiry.left = {}
    /\ LET expiring == {i \in DOMAIN subscribers : i >= expiry.place /\ Expired(subscribers[i]) # {}}
       IN  \/ /\ expiring = {}
              /\ expiry' = [Unchecked EXCEPT !.at = "sleeping"]
              /\ UNCHANGED <<known, stale, told>>
           \/ \E next \in expiring :
                 LET s == subscribers[next]
                 IN  /\ IsFirst(next, expiring)
                     /\ \E u \in Expired(s) :
                           /\ Forgotten(s, u)
                           /\ expiry' = [expiry EXCEPT !.place = next + 1, !.of = s,
                                                       !.left = Expired(s) \ {u}]
    /\ UNCHANGED <<isRunning, subscribers, cancelled, notify, scan>>

\* Slip: popped if it is there, and told lost in any case.
EvictAnyway(u) ==
    /\ Forgotten(expiry.of, u)
    /\ expiry' = [expiry EXCEPT !.left = @ \ {u}]

\* What a byebye popped meanwhile is not there to pop: the task ends on the KeyError.
EvictListed(u) ==
    IF known[expiry.of][u] = Unknown
    THEN /\ expiry' = [Unchecked EXCEPT !.at = "dead"]
         /\ UNCHANGED <<known, stale, told>>
    ELSE /\ Forgotten(expiry.of, u)
         /\ expiry' = [expiry EXCEPT !.left = @ \ {u}]

EvictNext ==
    /\ expiry.at = "checking"
    /\ \E u \in expiry.left : EvictListed(u)
    /\ UNCHANGED <<isRunning, subscribers, cancelled, notify, scan>>

-----------------------------------------------------------------------------
(* Together. *)

Next ==
    \/ Start \/ Stop
    \/ \E s \in Subscribers : Register(s) \/ Cancel(s) \/ TellAlive(s)
    \/ \E msg \in Message : Hear(msg)
    \/ TellByebye \/ HeardOut
    \/ \E x \in Scanners :
          \/ BeginScan(x) \/ EndScan(x)
          \/ \E u \in Services, v \in Versions : NextReply(x, u, v)
          \/ \E s \in Subscribers : TellReply(x, s)
    \/ \E s \in Subscribers, u \in Services : GoStale(s, u)
    \/ BeginCheck \/ CheckNext \/ EvictNext

Spec == Init /\ [][Next]_vars

-----------------------------------------------------------------------------
(* What it promises. *)

Reply == [usn : Services, version : Versions]

Listener == [at : {"off", "listening", "alive", "byebye", "dead"},
             msg : Message \cup {NoOne}, place : Nat, left : SUBSET Subscribers]
Checker  == [at : {"off", "sleeping", "checking", "dead"},
             place : Nat, of : Subscribers \cup {NoOne}, left : SUBSET Services]
Scan     == [at : {"off", "sleeping", "reading", "telling"},
             msg : Reply \cup {NoOne}, place : Nat, left : SUBSET Subscribers]

TypeOK ==
    /\ isRunning \in BOOLEAN
    /\ subscribers \in Seq(Subscribers) /\ cancelled \subseteq Subscribers
    /\ known \in [Subscribers -> [Services -> Versions \cup {Unknown}]]
    /\ stale \subseteq Subscribers \X Services
    /\ notify \in Listener /\ expiry \in Checker /\ scan \in [Scanners -> Scan]
    /\ told \in [Subscribers -> [Services -> Promise!Call]]

\* Whatever byebyes, late replies, expiries, cancels and restarts come in between, each
\* listener hears found, updated and lost in order about each service.
ToldInOrder == Promise!Spec
=============================================================================
