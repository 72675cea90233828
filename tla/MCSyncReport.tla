---------------------------- MODULE MCSyncReport -----------------------------
(***************************************************************************)
(* A small instance of SyncReport: the timer's run and one of GET /sync.   *)
(***************************************************************************)
EXTENDS SyncReport

CONSTANTS timer, web, e1, e2

=============================================================================
