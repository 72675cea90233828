----------------------------- MODULE MCTimedSync -----------------------------
(***************************************************************************)
(* A small instance of TimedSync: days of four hours of three minutes.     *)
(***************************************************************************)
EXTENDS TimedSync
=============================================================================
