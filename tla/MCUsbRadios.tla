---------------------------- MODULE MCUsbRadios ----------------------------
(***************************************************************************)
(* Instances of UsbRadios for TLC: a driver of the SDK, and one of an      *)
(* integration that knows one more firmware.                               *)
(***************************************************************************)
EXTENDS UsbRadios, TLC

MCTells == "own" :> {"a"} @@ "extra" :> {"a", "b"}
=============================================================================
