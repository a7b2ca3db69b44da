------------------------------ MODULE MCWaits ------------------------------
(***************************************************************************)
(* The instance of Waits for TLC.                                          *)
(***************************************************************************)
EXTENDS Waits, TLC

\* Two retries, the second later than the first, as RETRY_DELAYS has it.
MCDelays == <<1, 2>>

MCMarks == 1..3

MCAlike == Permutations(Tasks) \cup Permutations(Peripherals)
=============================================================================
