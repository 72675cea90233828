---------------------------- MODULE MCStatusPage -----------------------------
(***************************************************************************)
(* A small instance of StatusPage: the second company is unknown in Exact  *)
(* Online, and nothing tells which of the two comes first.                 *)
(***************************************************************************)
EXTENDS StatusPage, TLC

CONSTANTS b1, b2, d1, d2, v1, v2, v3, hoog

VATNumbers == d1 :> v1 @@ d2 :> v2

KnownAndUnknown == b1 :> v1 @@ b2 :> v3

\* A division lists itself only, so the search must go through all of them.
OnlyItself == [d \in Division |-> {d}]

=============================================================================
