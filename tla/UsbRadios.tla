------------------------------ MODULE UsbRadios ------------------------------
(***************************************************************************)
(* The USB scanner and the radios it finds: `UsbScanner` and `Radio` of    *)
(* runtime/peripherals/hardware/usb.py, and what is kept of them in        *)
(* sticks.json.                                                            *)
(*                                                                         *)
(* One scan at a time goes through the sticks; the user probes, flashes    *)
(* and forgets meanwhile.  A radio is a Python object: the one of a stick  *)
(* in the scanner's list ("now"), or one the scanner dropped while an      *)
(* operation goes on with it ("lost").  What it serves, its serial params  *)
(* and whether it has Bluetooth follow from the driver and the firmware.   *)
(* Radios soldered on the board, a user's call cut short, and a scan a     *)
(* user's forget asked for going on after the scanner stopped are left out.*)
(***************************************************************************)
EXTENDS FiniteSets

CONSTANTS
    Sticks,         \* by-id names
    Own,            \* drivers of the SDK
    Extra,          \* drivers integrations provide
    Tells,          \* the firmwares each driver recognises, and flashes
    DropsWhileBusy  \* whether a stick is off the bus, or the scanner stops, while the user has
                    \* something done to it, or the hub dies while it is flashed

None == "none"
Drivers   == Own \cup Extra
Firmwares == (UNION {Tells[d] : d \in Drivers}) \cup {None} \* None: nothing a driver tells
Objects   == {"now", "lost"}

VARIABLES
    plugged,    \* the sticks there are
    trusted,    \* the ones whose USB id is a known radio's
    runs,       \* the firmware each really runs
    bound,      \* the drivers of integrations that run
    isOn,       \* whether the scanner runs
    listed,     \* `_radios`
    radio,      \* the radio objects of each stick
    op,         \* what holds the lock of each: a scan, or what the user asked for
    known,      \* sticks.json
    scan        \* the scan under way, or NoScan

vars == <<trusted, plugged, runs, bound, isOn, listed, radio, op, known, scan>>

Available == Own \cup bound

NoRadio == [driver |-> None, firmware |-> None, claimed |-> FALSE, held |-> FALSE, asked |-> {},
            exists |-> FALSE]
Idle    == [kind |-> "none", at |-> "off", drivers |-> {}]
Nothing == [driver |-> None, firmware |-> None, claimed |-> FALSE]
NoScan  == [on |-> FALSE, todo |-> {}, found |-> {}, drivers |-> {}]

Init ==
    /\ plugged \in SUBSET Sticks
    /\ trusted \in SUBSET Sticks
    /\ runs \in [Sticks -> Firmwares]
    /\ bound = {}
    /\ isOn = FALSE
    /\ listed = {}
    /\ radio = [s \in Sticks |-> [o \in Objects |-> NoRadio]]
    /\ op = [s \in Sticks |-> [o \in Objects |-> Idle]]
    /\ known = [s \in Sticks |-> Nothing]
    /\ scan = NoScan

IsBusy(s, o) == op[s][o] # Idle
IsFlashed(s) == \E o \in Objects : op[s][o].kind = "flash" /\ op[s][o].at = "working"
MayDrop(s) == DropsWhileBusy \/ \A o \in Objects : op[s][o].kind \in {"none", "scan"}

\* `remember`: what is kept of a radio.
Kept(r) == [driver |-> r.driver, firmware |-> r.firmware, claimed |-> r.claimed]

\* These are the scanner's no more: one the user asked something of goes on, apart.
Dropped(ss) ==
    /\ \A s \in ss : IsBusy(s, "now") /\ op[s]["now"].kind # "scan" => ~ IsBusy(s, "lost")
    /\ radio' = [s \in Sticks |->
                   IF s \notin ss THEN radio[s]
                   ELSE [now |-> NoRadio,
                         lost |-> IF IsBusy(s, "now") /\ op[s]["now"].kind # "scan"
                                  THEN radio[s]["now"] ELSE radio[s]["lost"]]]
    /\ op' = [s \in Sticks |->
                IF s \notin ss THEN op[s]
                ELSE [now |-> Idle,
                      lost |-> IF op[s]["now"].kind \in {"probe", "flash", "forget"}
                               THEN op[s]["now"] ELSE op[s]["lost"]]]

-----------------------------------------------------------------------------
(* The sticks, the drivers of integrations, and the scanner's life. *)

Plug(s) ==
    /\ s \notin plugged
    /\ plugged' = plugged \cup {s}
    /\ UNCHANGED <<trusted, runs, bound, isOn, listed, radio, op, known, scan>>

Unplug(s) ==
    /\ s \in plugged /\ MayDrop(s)
    /\ plugged' = plugged \ {s}
    /\ UNCHANGED <<trusted, runs, bound, isOn, listed, radio, op, known, scan>>

\* An integration starts or stops; the hook's scan is one of those below.
Bind(d) ==
    /\ bound' = IF d \in bound THEN bound \ {d} ELSE bound \cup {d}
    /\ UNCHANGED <<trusted, plugged, runs, isOn, listed, radio, op, known, scan>>

\* start: it reads what is kept, and scans.
Start ==
    /\ ~ isOn
    /\ isOn' = TRUE
    /\ UNCHANGED <<trusted, plugged, runs, bound, listed, radio, op, known, scan>>

\* stop: its tasks, the scans, are cancelled.
Stop ==
    /\ isOn /\ \A s \in Sticks : MayDrop(s)
    /\ isOn' = FALSE
    /\ listed' = {}
    /\ Dropped(Sticks)
    /\ scan' = NoScan
    /\ UNCHANGED <<trusted, plugged, runs, bound, known>>

\* The hub's process dies: what is kept is written whole or not at all.
Crash ==
    /\ DropsWhileBusy \/ \A s \in Sticks : ~ IsFlashed(s)
    /\ isOn' = FALSE /\ bound' = {} /\ listed' = {}
    /\ radio' = [s \in Sticks |-> [o \in Objects |-> NoRadio]]
    /\ op' = [s \in Sticks |-> [o \in Objects |-> Idle]]
    /\ scan' = NoScan
    /\ UNCHANGED <<trusted, plugged, runs, known>>

-----------------------------------------------------------------------------
(* Scans: `_scan`, asked for by the watch, a hook or a forgetting. *)

BeginScan ==
    /\ isOn /\ ~ scan.on
    /\ scan' = [on |-> TRUE, todo |-> plugged, found |-> plugged, drivers |-> Available]
    /\ UNCHANGED <<trusted, plugged, runs, bound, isOn, listed, radio, op, known>>

\* `_radio`: claimed if the user probed it before.
Found(s) ==
    IF radio[s]["now"].exists THEN radio[s]["now"]
    ELSE [NoRadio EXCEPT !.exists = TRUE, !.claimed = known[s].claimed]

\* `_restore`: what it was before, once the driver that told is here.
Restored(s, r) ==
    IF r.driver = None /\ known[s].driver \in Available /\ known[s].firmware # None
    THEN [r EXCEPT !.driver = known[s].driver, !.firmware = known[s].firmware]
    ELSE r

IsAwaited(s, r) == r.driver = None /\ known[s].driver \notin scan.drivers \cup {None}
IsTrusted(s, r) == (r.claimed \/ s \in trusted) /\ ~ IsAwaited(s, r)

\* `_holder`: that another program has it open shows, that one locked it only by opening it.
IsHeld(by, isOpened) == by = "open" \/ (by = "locked" /\ isOpened)

\* Whether another program holds a stick is looked at unless it is claimed or busy; one that
\* may be opened is asked about, and the scan waits.
ScanNext(s, by) ==
    LET r == Restored(s, Found(s))
        isOpened == IsTrusted(s, r) /\ r.driver = None
        seen == IF r.claimed \/ IsBusy(s, "now") THEN r
                ELSE [r EXCEPT !.held = IsHeld(by, isOpened)]
        asks == isOpened /\ ~ seen.held /\ ~ IsBusy(s, "now")
    IN  /\ s \in scan.todo
        /\ \A other \in Sticks : op[other]["now"].kind # "scan"
        /\ scan' = [scan EXCEPT !.todo = @ \ {s}]
        /\ radio' = [radio EXCEPT ![s]["now"] = seen]
        /\ op' = IF asks
                 THEN [op EXCEPT ![s]["now"] = [kind |-> "scan", at |-> "working",
                                                drivers |-> Available \ seen.asked]]
                 ELSE op
        /\ UNCHANGED <<trusted, plugged, runs, bound, isOn, listed, known>>

\* `recognise`: one of the drivers tells, or none does: it doesn't know, hangs or fails.
Recognised(s, r, drivers) ==
    {[r EXCEPT !.driver = d, !.firmware = runs[s]] :
        d \in {e \in drivers : s \in plugged /\ runs[s] \in Tells[e]}}
    \cup {[r EXCEPT !.asked = @ \cup drivers]}

EndRecognise(s) ==
    /\ op[s]["now"].kind = "scan"
    /\ \E r \in Recognised(s, radio[s]["now"], op[s]["now"].drivers) :
          radio' = [radio EXCEPT ![s]["now"] = r]
    /\ op' = [op EXCEPT ![s]["now"] = Idle]
    /\ UNCHANGED <<trusted, plugged, runs, bound, isOn, listed, known, scan>>

EndScan ==
    /\ scan.on /\ scan.todo = {}
    /\ \A s \in Sticks : op[s]["now"].kind # "scan"
    /\ scan' = NoScan
    /\ listed' = scan.found
    /\ Dropped(Sticks \ scan.found)
    /\ known' = [s \in Sticks |->
                   IF s \in scan.found /\ (radio[s]["now"].driver # None \/ radio[s]["now"].claimed)
                   THEN Kept(radio[s]["now"]) ELSE known[s]]
    /\ UNCHANGED <<trusted, plugged, runs, bound, isOn>>

-----------------------------------------------------------------------------
(* What the user asks of a radio, one at a time: first, whatever uses it lets go. *)

Begin(s, kind) ==
    /\ s \in listed /\ ~ IsBusy(s, "now")
    /\ ~ DropsWhileBusy => s \in plugged /\ (scan.on => s \in scan.found)
    /\ kind = "flash" => radio[s]["now"].driver # None
    /\ op' = [op EXCEPT ![s]["now"] =
                [kind |-> kind, at |-> "letting go",
                 drivers |-> IF kind = "flash" THEN {radio[s]["now"].driver} ELSE {}]]
    /\ UNCHANGED <<trusted, plugged, runs, bound, isOn, listed, radio, known, scan>>

Is(s, o, kind, at) == op[s][o].kind = kind /\ op[s][o].at = at

\* Its lock is let go of; one the scanner dropped is gone with it.
Done(s, o, r) ==
    /\ op' = [op EXCEPT ![s][o] = Idle]
    /\ radio' = [radio EXCEPT ![s][o] = IF o = "lost" THEN NoRadio ELSE r]

\* Slip: it is not remembered.
ForgotToRemember(s, r) == UNCHANGED known

Remember(s, r) == known' = [known EXCEPT ![s] = Kept(r)]

Probe(s, o) ==
    /\ Is(s, o, "probe", "letting go")
    /\ radio' = [radio EXCEPT ![s][o].held = FALSE, ![s][o].claimed = TRUE]
    /\ op' = [op EXCEPT ![s][o].at = "working", ![s][o].drivers = Available]
    /\ UNCHANGED <<trusted, plugged, runs, bound, isOn, listed, known, scan>>

EndProbe(s, o) ==
    /\ Is(s, o, "probe", "working")
    /\ \E r \in Recognised(s, radio[s][o], op[s][o].drivers) : Done(s, o, r) /\ Remember(s, r)
    /\ UNCHANGED <<trusted, plugged, runs, bound, isOn, listed, scan>>

Flash(s, o) ==
    /\ Is(s, o, "flash", "letting go")
    /\ op' = [op EXCEPT ![s][o].at = "working"]
    /\ UNCHANGED <<trusted, plugged, runs, bound, isOn, listed, radio, known, scan>>

\* What ran is gone first, then the new one takes, or not.
FlashTakes(s, o) ==
    /\ Is(s, o, "flash", "working") /\ s \in plugged
    /\ \E d \in op[s][o].drivers, f \in Firmwares :
          /\ f \in Tells[d] \cup {None}
          /\ runs' = [runs EXCEPT ![s] = f]
    /\ UNCHANGED <<trusted, plugged, bound, isOn, listed, radio, op, known, scan>>

\* Whether it took or not, its driver is asked what runs now.
EndFlash(s, o) ==
    /\ Is(s, o, "flash", "working")
    /\ \E d \in op[s][o].drivers, f \in {None, runs[s]} :
          /\ f # None => s \in plugged /\ f \in Tells[d]
          /\ Done(s, o, [radio[s][o] EXCEPT !.firmware = f])
          /\ Remember(s, [radio[s][o] EXCEPT !.firmware = f])
    /\ UNCHANGED <<trusted, plugged, runs, bound, isOn, listed, scan>>

\* Then it is looked at as one plugged in anew, by a scan.
Forget(s, o) ==
    /\ Is(s, o, "forget", "letting go")
    /\ known' = [known EXCEPT ![s] = Nothing]
    /\ Done(s, o, [NoRadio EXCEPT !.exists = TRUE, !.held = radio[s][o].held])
    /\ UNCHANGED <<trusted, plugged, runs, bound, isOn, listed, scan>>

Next ==
    \/ Start \/ Stop \/ Crash \/ BeginScan \/ EndScan
    \/ \E d \in Extra : Bind(d)
    \/ \E s \in Sticks :
          \/ Plug(s) \/ Unplug(s) \/ EndRecognise(s)
          \/ \E by \in {None, "open", "locked"} : ScanNext(s, by)
          \/ \E kind \in {"probe", "flash", "forget"} : Begin(s, kind)
          \/ \E o \in Objects :
                \/ Probe(s, o) \/ EndProbe(s, o) \/ Forget(s, o)
                \/ Flash(s, o) \/ FlashTakes(s, o) \/ EndFlash(s, o)

Spec == Init /\ [][Next]_vars

-----------------------------------------------------------------------------

Radio == [driver : Drivers \cup {None}, firmware : Firmwares, claimed : BOOLEAN, held : BOOLEAN,
          asked : SUBSET Drivers, exists : BOOLEAN]

TypeOK ==
    /\ plugged \subseteq Sticks /\ trusted \subseteq Sticks /\ listed \subseteq Sticks /\ bound \subseteq Extra
    /\ runs \in [Sticks -> Firmwares]
    /\ isOn \in BOOLEAN
    /\ radio \in [Sticks -> [Objects -> Radio]]
    /\ op \in [Sticks -> [Objects -> [kind : {"none", "scan", "probe", "flash", "forget"},
                                      at : {"off", "letting go", "working"},
                                      drivers : SUBSET Drivers]]]
    /\ known \in [Sticks -> [driver : Drivers \cup {None}, firmware : Firmwares, claimed : BOOLEAN]]
    /\ scan \in [on : BOOLEAN, todo : SUBSET Sticks, found : SUBSET Sticks, drivers : SUBSET Drivers]

\* A radio that serves: `provides`.
Serves(s) ==
    LET r == radio[s]["now"]
    IN  s \in listed /\ ~ IsBusy(s, "now") /\ ~ r.held /\ r.driver # None /\ r.firmware # None

\* A stick is not opened again to learn what it runs: what a radio serves as is what was kept
\* of it, through restarts, crashes, replugs and drivers that come and go, or what was told
\* last; and it is what the stick runs, also after a flash, whether it took or not.
ServesWhatRuns == \A s \in Sticks : Serves(s) => radio[s]["now"].firmware = runs[s]

\* While nobody scans or works on it, a radio that was identified is kept as what it is: the
\* next start restores that and nothing older.
RemembersRight ==
    ~ scan.on => \A s \in listed :
        ~ IsBusy(s, "now") /\ ~ IsBusy(s, "lost") /\ radio[s]["now"].driver # None =>
            /\ known[s].driver = radio[s]["now"].driver
            /\ known[s].firmware = radio[s]["now"].firmware

\* A radio serves "nothing while another program holds it or it is being flashed" (Radio).
FlashedServesNothing == \A s \in Sticks : IsFlashed(s) => ~ Serves(s)
-----------------------------------------------------------------------------
(* Why, while no stick is off the bus when the user has something done to it: the inductive *)
(* invariant.                                                                               *)

Asks == {"probe", "flash", "forget"}

\* No object is dropped while it is worked on, so none is lost.
NoneIsLost == \A s \in Sticks : op[s]["lost"] = Idle /\ radio[s]["lost"] = NoRadio

\* What the user asked of a radio is done to one the scanner has, and keeps.
AskedIsThere ==
    \A s \in Sticks :
        /\ op[s]["now"].kind \in Asks =>
                s \in plugged /\ radio[s]["now"].exists /\ (scan.on => s \in scan.found)
        /\ op[s]["now"].kind = "flash" => radio[s]["now"].driver # None
        /\ op[s]["now"].kind = "scan" => scan.on
        /\ op[s]["now"].kind = "none" => op[s]["now"] = Idle

\* What was scanned has a radio.
ScannedExists ==
    /\ \A s \in listed : radio[s]["now"].exists
    /\ \A s \in scan.found \ scan.todo : radio[s]["now"].exists
    /\ scan.todo # {} => scan.on

\* What is told of a stick, and what is kept of it, is what it runs, unless it is being flashed.
ToldIsRun ==
    \A s \in Sticks : ~ IsFlashed(s) =>
        /\ radio[s]["now"].firmware \in {None, runs[s]}
        /\ known[s].firmware \in {None, runs[s]}

IInv ==
    TypeOK /\ NoneIsLost /\ AskedIsThere /\ ScannedExists /\ ToldIsRun /\ RemembersRight
=============================================================================
