------------------------------- MODULE Parts -------------------------------
(***************************************************************************)
(* The parts that share no state with one another: a behaviour is one of   *)
(* the chosen part, whose variables v1 to v10 stand for.  What holds of a  *)
(* part holds of every behaviour it has.  Compose keeps its own variables, *)
(* which stay as they are when it is not chosen.                           *)
(***************************************************************************)
EXTENDS Compose, Integers

CONSTANTS
    \* Ssdp, once with scans, and once with other subscribers, told by what is notified alone
    Subscribers, Followers, Usns, Tellings, Telling, Scanners, NoListener,
    \* Zeroconf
    Registrations, Instances, MaxTasks,
    \* BleSources, once for each kind of source
    Names, Clients,
    \* BleTracking
    Listeners, Devices, Sources, Strengths, Data, Wants, Evictors,
    \* UsbRadios
    Sticks, Own, Extra, Tells,
    \* ComposePorts
    Ported, Preferred, PORTS, MaxTaken,
    \* BorderRouter
    Networks, Formed, Channels, Zigbee,
    \* Repository
    Ids, Integrations, Owner, Sessions, Values

VARIABLES which, v1, v2, v3, v4, v5, v6, v7, v8, v9, v10

parts == <<v1, v2, v3, v4, v5, v6, v7, v8, v9, v10>>

-----------------------------------------------------------------------------
(* The instances. *)

S == INSTANCE Ssdp
    WITH Services <- Usns, Versions <- Tellings, NoOne <- NoListener,
         isRunning <- v1, subscribers <- v2, cancelled <- v3, known <- v4, stale <- v5,
         notify <- v6, expiry <- v7, scan <- v8, told <- v10

N == INSTANCE Ssdp
    WITH Subscribers <- Followers, Services <- Usns, Versions <- Telling, Scanners <- {}, NoOne <- NoListener,
         isRunning <- v1, subscribers <- v2, cancelled <- v3, known <- v4, stale <- v5,
         notify <- v6, expiry <- v7, scan <- v8, told <- v10

Z == INSTANCE Zeroconf
    WITH Names <- Instances, Versions <- Tellings,
         service <- v1, registration <- v2, early <- v3, browsing <- v4, queue <- v5,
         known <- v6, tasks <- v7, parted <- v8, last <- v9, told <- v10

\* Each kind of source: the hub's own adapter, one on a stick, and a proxy, which is paused.
Adapter == INSTANCE BleSources
    WITH Given <- Names, Pausable <- {},
         isRunning <- v1, sources <- v2, radio <- v3, runtime <- v4, loop <- v5, client <- v6,
         holder <- v7, leased <- v8, jobs <- v9

Stick == INSTANCE BleSources
    WITH Given <- {}, Pausable <- {},
         isRunning <- v1, sources <- v2, radio <- v3, runtime <- v4, loop <- v5, client <- v6,
         holder <- v7, leased <- v8, jobs <- v9

Proxy == INSTANCE BleSources
    WITH Given <- {}, Pausable <- Names,
         isRunning <- v1, sources <- v2, radio <- v3, runtime <- v4, loop <- v5, client <- v6,
         holder <- v7, leased <- v8, jobs <- v9

T == INSTANCE BleTracking
    WITH listeners <- v1, cancelled <- v2, tracked <- v3, named <- v4, heard <- v5,
         held <- v6, todo <- v7, old <- v8, loop <- v9, told <- v10

\* No stick is off the bus while the user has something done to it: FlashedServesNothing is
\* what would become of that.
U == INSTANCE UsbRadios
    WITH DropsWhileBusy <- FALSE,
         trusted <- v1, plugged <- v2, runs <- v3, bound <- v4, isOn <- v5, listed <- v6,
         radio <- v7, op <- v8, known <- v9, scan <- v10

P == INSTANCE ComposePorts
    WITH Services <- Ported,
         kept <- v1, tentative <- v2, asking <- v3, stage <- v4, rendered <- v5, applied <- v6,
         taking <- v7, left <- v8, container <- v9, taken <- v10

R == INSTANCE BorderRouter
    WITH radio <- v1, active <- v2, pending <- v3, isOn <- v4, hub <- v5, dataset <- v6,
         at <- v7, seen <- v8, channel <- v9, told <- v10

D == INSTANCE Repository
    WITH memory <- v1, committed <- v2, written <- v3, writer <- v4, open <- v5, parted <- v6

-----------------------------------------------------------------------------
(* What the code has of the constants: what stands for nothing is none of them. *)

ASSUME DiscoveryAssumption == S!Unknown \notin Tellings \cup Telling

ASSUME ZeroconfAssumption == Z!Unknown \notin Tellings /\ MaxTasks \in Nat

ASSUME SourcesAssumption == Adapter!NoOne \notin Clients

\* A matcher matches advertisements.
ASSUME TrackingAssumption == 0 \notin Data /\ Wants \in [Listeners -> SUBSET T!Adv]

\* Ports are numbers, and only services that have some are told of.
ASSUME PortsAssumption == PORTS \subseteq Nat /\ \A s \in Ported : DOMAIN Preferred[s] # {}

ASSUME RouterAssumption == R!None \notin Networks \cup {Formed} \cup Channels /\ Zigbee \in Channels

\* Each device is an integration's.
ASSUME RepositoryAssumption == Owner \in [Ids -> Integrations] /\ D!None \notin Sessions

-----------------------------------------------------------------------------

PartsInit ==
    /\ \/ which = "ssdp"       /\ S!Init /\ v9 = None
       \/ which = "notified"   /\ N!Init /\ v9 = None
       \/ which = "zeroconf"   /\ Z!Init
       \/ which = "adapter"    /\ Adapter!Init /\ v10 = None
       \/ which = "stick"      /\ Stick!Init /\ v10 = None
       \/ which = "proxy"      /\ Proxy!Init /\ v10 = None
       \/ which = "tracking"   /\ T!Init
       \/ which = "usb"        /\ U!Init
       \/ which = "ports"      /\ P!Init
       \/ which = "router"     /\ R!Init
       \/ which = "repository" /\ D!Init /\ v7 = None /\ v8 = None /\ v9 = None /\ v10 = None
       \/ which = "compose"    /\ v1 = None /\ v2 = None /\ v3 = None /\ v4 = None /\ v5 = None
                                  /\ v6 = None /\ v7 = None /\ v8 = None /\ v9 = None /\ v10 = None
    /\ Init
    /\ which # "compose" => renders = [s \in Services |-> "v"] /\ containers = Empty

PartsStep ==
    \/ which = "ssdp"       /\ S!Next /\ UNCHANGED v9
    \/ which = "notified"   /\ N!Next /\ UNCHANGED v9
    \/ which = "zeroconf"   /\ Z!Next
    \/ which = "adapter"    /\ Adapter!Next /\ UNCHANGED v10
    \/ which = "stick"      /\ Stick!Next /\ UNCHANGED v10
    \/ which = "proxy"      /\ Proxy!Next /\ UNCHANGED v10
    \/ which = "tracking"   /\ T!Next
    \/ which = "usb"        /\ U!Next
    \/ which = "ports"      /\ P!Next
    \/ which = "router"     /\ R!Next
    \/ which = "repository" /\ D!Next /\ UNCHANGED <<v7, v8, v9, v10>>

PartsNext ==
    /\ \/ PartsStep /\ UNCHANGED vars
       \/ which = "compose" /\ Next /\ UNCHANGED parts
    /\ UNCHANGED which

PartsSpec == PartsInit /\ [][PartsNext]_<<which, parts, vars>>

-----------------------------------------------------------------------------

\* The variables of each part keep their types.
PartsTypeOK ==
    CASE which = "ssdp"       -> S!TypeOK
      [] which = "notified"   -> N!TypeOK
      [] which = "zeroconf"   -> Z!TypeOK
      [] which = "adapter"    -> Adapter!TypeOK
      [] which = "stick"      -> Stick!TypeOK
      [] which = "proxy"      -> Proxy!TypeOK
      [] which = "tracking"   -> T!TypeOK
      [] which = "usb"        -> U!TypeOK
      [] which = "ports"      -> P!TypeOK
      [] which = "router"     -> R!TypeOK
      [] which = "repository" -> D!TypeOK
      [] which = "compose"    -> TypeOK

\* Whoever discovers, over SSDP, mDNS or Bluetooth, keeps what Discovery promises: in each
\* part it is ToldInOrder, of `told`.
PromiseInit ==
    /\ which = "ssdp" => S!Promise!Init
    /\ which = "notified" => N!Promise!Init
    /\ which = "zeroconf" => Z!Promise!Init
    /\ which = "tracking" => T!Promise!Init
PromiseNext ==
    /\ which = "ssdp" => S!Promise!Next
    /\ which = "notified" => N!Promise!Next
    /\ which = "zeroconf" => Z!Promise!Next
    /\ which = "tracking" => T!Promise!Next
ToldInOrder == PromiseInit /\ [][PromiseNext]_v10

\* The properties of one part each, stated there.
HeardIsKnown   == which = "tracking" => T!HeardIsKnown
LeasesEnd      == /\ which = "adapter" => Adapter!LeasesEnd
                  /\ which = "stick" => Stick!LeasesEnd
                  /\ which = "proxy" => Proxy!LeasesEnd
ServesWhatRuns == which = "usb" => U!ServesWhatRuns
RemembersRight == which = "usb" => U!RemembersRight
PortsStand     == which = "ports" => P!PortsStand
JoinedIsOn     == which = "router" => R!JoinedIsOn
ToldAsItStays  == which = "router" => R!ToldAsItStays
SameInBoth     == which = "repository" => D!SameInBoth
=============================================================================
