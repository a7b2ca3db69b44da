-------------------------- MODULE BleSourcesProofs --------------------------
(***************************************************************************)
(* A theorem about BleSources: for any sources and clients, however the    *)
(* operations of the sources interleave, a lease ends with its client.     *)
(***************************************************************************)
EXTENDS BleSources, TLAPS

Stages == {"out", "waiting", "pausing", "in", "leaving", "resuming"}

\* Each client past its beginning has a source.
ClientsTyped ==
    /\ client \in [Clients -> [at : Stages, source : Names \cup {None}]]
    /\ \A c \in Clients : client[c].at # "out" => client[c].source \in Names

LocksTyped == holder \in [Names -> Clients \cup {NoOne}] /\ leased \subseteq Names

IInv == ClientsTyped /\ LocksTyped /\ LeasesEnd

LEMMA InitIInv == NoOne \notin Clients /\ Init => IInv
BY DEF Init, IInv, ClientsTyped, LocksTyped, LeasesEnd, HasLease, IsLeased, Out, Stages

-----------------------------------------------------------------------------
(* One client goes on. *)

LEMMA StageSet ==
    ASSUME ClientsTyped, NEW c \in Clients, NEW stage
    PROVE  [client EXCEPT ![c].at = stage] =
           [client EXCEPT ![c] = [at |-> stage, source |-> client[c].source]]
<1>1. client[c] \in [at : Stages, source : Names \cup {None}]
  BY DEF ClientsTyped
<1>2. [client[c] EXCEPT !.at = stage] = [at |-> stage, source |-> client[c].source]
  BY <1>1
<1>3. QED
  BY <1>2

\* To another stage of the lease it has, or has not.
LEMMA StageKeeps ==
    ASSUME IInv, NEW c \in Clients, NEW r \in [at : Stages, source : Names \cup {None}],
           client' = [client EXCEPT ![c] = r], UNCHANGED <<holder, leased>>,
           r.at # "out" => r.source \in Names,
           \A n \in Names : HasLease(c, n) <=>
                            (r.source = n /\ r.at \in {"pausing", "in", "leaving", "resuming"})
    PROVE  IInv'
<1>1. ClientsTyped'
  BY DEF IInv, ClientsTyped
<1>2. LocksTyped'
  BY DEF IInv, LocksTyped
<1>3. \A b \in Clients, n \in Names : HasLease(b, n)' <=> HasLease(b, n)
  BY DEF IInv, ClientsTyped, HasLease
<1>4. LeasesEnd'
  BY <1>3 DEF IInv, LeasesEnd, IsLeased
<1>5. QED
  BY <1>1, <1>2, <1>4 DEF IInv

\* Into a lease nobody has.
LEMMA LeaseKeeps ==
    ASSUME NoOne \notin Clients, IInv, NEW c \in Clients, NEW n \in Names,
           client[c].at = "waiting", client[c].source = n, ~ IsLeased(n), Lease(c, n)
    PROVE  IInv'
<1>1. /\ client' = [client EXCEPT ![c] = [at |-> "pausing", source |-> n]]
      /\ holder' = [holder EXCEPT ![n] = c] /\ leased' = leased \cup {n}
  BY StageSet DEF Lease, IInv
<1>2. ClientsTyped' /\ LocksTyped'
  BY <1>1 DEF IInv, ClientsTyped, LocksTyped, Stages
<1>3. \A b \in Clients, m \in Names : HasLease(b, m)' <=> HasLease(b, m) \/ (b = c /\ m = n)
  BY <1>1 DEF IInv, ClientsTyped, HasLease
<1>4. \A b \in Clients : ~ HasLease(b, n)
  BY DEF IInv, LeasesEnd, IsLeased
<1>5. \A m \in Names : ~ HasLease(c, m)
  BY DEF HasLease
<1>6. \A m \in Names : /\ holder'[m] = IF m = n THEN c ELSE holder[m]
                       /\ m \in leased' <=> m \in leased \/ m = n
  BY <1>1 DEF IInv, LocksTyped
<1>7. LeasesEnd'
  BY <1>3, <1>4, <1>5, <1>6 DEF IInv, LeasesEnd, IsLeased
<1>8. QED
  BY <1>2, <1>7 DEF IInv

\* Out of its lease.
LEMMA ReleaseKeeps ==
    ASSUME NoOne \notin Clients, IInv, NEW c \in Clients, Release(c)
    PROVE  IInv'
<1> DEFINE n == client[c].source
<1>1. /\ client' = [client EXCEPT ![c] = Out]
      /\ holder' = [holder EXCEPT ![n] = NoOne] /\ leased' = leased \ {n}
      /\ client[c].at = "resuming" /\ n \in Names
  BY DEF Release, IInv, ClientsTyped
<1>2. ClientsTyped' /\ LocksTyped'
  BY <1>1 DEF IInv, ClientsTyped, LocksTyped, Stages, Out
<1>3. \A b \in Clients, m \in Names : HasLease(b, m)' <=> HasLease(b, m) /\ b # c
  BY <1>1 DEF IInv, ClientsTyped, HasLease, Out
<1>4. HasLease(c, n) /\ \A m \in Names : HasLease(c, m) => m = n
  BY <1>1 DEF HasLease
<1>5. \A m \in Names : /\ holder'[m] = IF m = n THEN NoOne ELSE holder[m]
                       /\ m \in leased' <=> m \in leased /\ m # n
  BY <1>1 DEF IInv, LocksTyped
<1>6. holder[n] = c
  BY <1>1, <1>4 DEF IInv, LeasesEnd
<1> HIDE DEF n
<1>7. LeasesEnd'
  BY <1>1, <1>3, <1>4, <1>5, <1>6 DEF IInv, LeasesEnd, IsLeased
<1>8. QED
  BY <1>2, <1>7 DEF IInv

-----------------------------------------------------------------------------

LEMMA NextIInv ==
    ASSUME NoOne \notin Clients, IInv, [Next]_vars
    PROVE  IInv'
<1>1. CASE UNCHANGED <<client, holder, leased>>
  BY <1>1 DEF IInv, ClientsTyped, LocksTyped, LeasesEnd, HasLease, IsLeased
<1>2. ASSUME NEW c \in Clients, NEW n \in Names, WaitFor(c, n) PROVE IInv'
  <2>1. [at |-> "waiting", source |-> n] \in [at : Stages, source : Names \cup {None}]
    BY DEF Stages
  <2>2. QED
    BY <1>2, <2>1, StageKeeps DEF WaitFor, HasLease
<1>3. ASSUME NEW c \in Clients,
             client' = [client EXCEPT ![c] = Out], client[c].at = "waiting",
             UNCHANGED <<holder, leased>>
      PROVE  IInv'
  <2>1. Out \in [at : Stages, source : Names \cup {None}] /\ Out.at = "out"
    BY DEF Out, Stages
  <2>2. QED
    BY <1>3, <2>1, StageKeeps DEF HasLease
<1>4. ASSUME NEW c \in Clients, Acquire(c) PROVE IInv'
  <2>1. client[c].at = "waiting" /\ ~ IsLeased(client[c].source) /\ client[c].source \in Names
    BY <1>4 DEF Acquire, IInv, ClientsTyped
  <2>2. CASE client[c].source \in sources
    BY <1>4, <2>1, <2>2, LeaseKeeps DEF Acquire
  <2>3. CASE client[c].source \notin sources
    BY <1>3, <1>4, <2>1, <2>3 DEF Acquire, PassOver
  <2>4. QED
    BY <2>2, <2>3
<1>5. ASSUME NEW c \in Clients, NEW stage \in {"in", "leaving", "resuming"},
             client' = [client EXCEPT ![c].at = stage],
             client[c].at \in {"pausing", "in", "leaving"},
             UNCHANGED <<holder, leased>>
      PROVE  IInv'
  <2>1. /\ client[c].source \in Names
        /\ client' = [client EXCEPT ![c] = [at |-> stage, source |-> client[c].source]]
        /\ [at |-> stage, source |-> client[c].source] \in [at : Stages, source : Names \cup {None}]
    BY <1>5, StageSet DEF IInv, ClientsTyped, Stages
  <2>2. QED
    BY <1>5, <2>1, StageKeeps DEF HasLease
<1>6. ASSUME NEW c \in Clients, GiveUp(c) \/ Hold(c) \/ Leave(c) \/ Resume(c) PROVE IInv'
  <2>1. CASE GiveUp(c)
    BY <1>3, <2>1 DEF GiveUp
  <2>2. CASE Hold(c)
    <3>1. PICK stage \in {"in", "leaving"} : client' = [client EXCEPT ![c].at = stage]
      BY <2>2 DEF Hold
    <3>2. QED
      BY <1>5, <2>2, <3>1 DEF Hold
  <2>3. CASE Leave(c)
    BY <1>5, <2>3 DEF Leave
  <2>4. CASE Resume(c)
    BY <1>5, <2>4 DEF Resume
  <2>5. QED
    BY <1>6, <2>1, <2>2, <2>3, <2>4
<1>7. ASSUME NEW bound \in SUBSET (Names \ Given), Start(bound) PROVE IInv'
  BY <1>1, <1>7 DEF Start
<1>8. CASE Started \/ HookDone \/ Stop \/ Stopped \/ CutOff \/ BeginRevive \/ EndRevive
  BY <1>1, <1>8 DEF Started, HookDone, Stop, Stopped, CutOff, BeginRevive, EndRevive
<1>9. ASSUME NEW n \in Names,
             AddSource(n) \/ RemoveSource(n) \/ ReviveNext(n) \/ Switch(n) \/ Connect(n)
      PROVE  IInv'
  BY <1>1, <1>9 DEF AddSource, RemoveSource, ReviveNext, Switch, Connect
<1>10. ASSUME NEW i \in DOMAIN jobs, End(i) PROVE IInv'
  BY <1>1, <1>10 DEF End
<1>11. CASE UNCHANGED vars
  BY <1>1, <1>11 DEF vars
<1>12. QED
  BY <1>2, <1>4, <1>6, <1>7, <1>8, <1>9, <1>10, <1>11, ReleaseKeeps DEF Next

\* A source is locked exactly while one client has its lease, and marked leased exactly then,
\* for any sources and clients.
THEOREM LeasesAlwaysEnd == NoOne \notin Clients => (Spec => []LeasesEnd)
<1> SUFFICES ASSUME NoOne \notin Clients PROVE Spec => []LeasesEnd
  OBVIOUS
<1>1. Init => IInv
  BY InitIInv
<1>2. IInv /\ [Next]_vars => IInv'
  BY NextIInv
<1>3. IInv => LeasesEnd
  BY DEF IInv
<1>4. QED
  BY <1>1, <1>2, <1>3, PTL DEF Spec
=============================================================================
