------------------------------ MODULE MCOtpAuth ------------------------------
(***************************************************************************)
(* Two requests under a cap of one that may wait for the lock while the    *)
(* clock ticks, in a window that ends before the clock does; two verifiers *)
(* that race for the last of two guesses; codes that may coincide and live *)
(* for one tick.                                                           *)
(***************************************************************************)
EXTENDS OtpAuth, TLC
==============================================================================
