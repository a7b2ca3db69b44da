----------------------------- MODULE Discovery -----------------------------
(***************************************************************************)
(* What a registration is promised by whoever discovers for it, over SSDP, *)
(* mDNS or Bluetooth (the listener protocols of capabilities/): of each    *)
(* thing it is told that it was found, then of changes, then that it is    *)
(* lost, and only then that it was found again.                            *)
(***************************************************************************)
CONSTANTS
    Registrations,
    Things

VARIABLE told       \* the last call to each about each thing

Call == {"none", "found", "updated", "lost"}

\* What one was told last, now that it is told this too.
After(last, call) == IF call = last /\ call # "updated" THEN "repeated" ELSE call

Init == told = [r \in Registrations |-> [t \in Things |-> "none"]]

MayFollow == {<<"none", "found">>, <<"found", "updated">>, <<"found", "lost">>,
              <<"updated", "lost">>, <<"lost", "found">>}

\* Some of them are told, each of what may follow what it was told before.
Next ==
    /\ told' \in [Registrations -> [Things -> Call]]
    /\ \A r \in Registrations, t \in Things :
          told'[r][t] # told[r][t] => <<told[r][t], told'[r][t]>> \in MayFollow

Spec == Init /\ [][Next]_told
=============================================================================
