------------------------------- MODULE MCUsers -------------------------------
(* Two callers, two addresses and two values of the sequence.              *)
EXTENDS Users

=============================================================================
