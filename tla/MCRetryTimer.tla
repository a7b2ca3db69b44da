---------------------------- MODULE MCRetryTimer ----------------------------
(***************************************************************************)
(* Instances of RetryTimer for TLC.                                        *)
(***************************************************************************)
EXTENDS RetryTimer

\* Two retries, the second later than the first, as RETRY_DELAYS has it.
TwoDelays == <<1, 2>>
=============================================================================
