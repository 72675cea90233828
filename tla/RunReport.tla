------------------------------ MODULE RunReport ------------------------------
(***************************************************************************)
(* What a user can count on about the report of a synchronisation, and     *)
(* nothing about goroutines and channels: a run says one thing after the   *)
(* other, closes, and then delivers at most one report, which holds all    *)
(* that it said, in that order.  It may end without a report, and all runs *)
(* may end at once.                                                        *)
(***************************************************************************)
EXTENDS Sequences

CONSTANTS Run, Message

VARIABLES
    phase,      \* phase[r]: "idle", "running" or "closing"
    said,       \* said[r]: what the run has said so far
    reports     \* reports[r]: what r's present or last run delivered

vars == <<phase, said, reports>>

Init ==
    /\ phase = [r \in Run |-> "idle"]
    /\ said = [r \in Run |-> << >>]
    /\ reports = [r \in Run |-> << >>]

Begin(r) ==
    /\ phase[r] = "idle"
    /\ phase' = [phase EXCEPT ![r] = "running"]
    /\ reports' = [reports EXCEPT ![r] = << >>]
    /\ UNCHANGED said

Say(r, m) ==
    /\ phase[r] = "running"
    /\ said' = [said EXCEPT ![r] = Append(@, m)]
    /\ UNCHANGED <<phase, reports>>

Close(r) ==
    /\ phase[r] = "running"
    /\ phase' = [phase EXCEPT ![r] = "closing"]
    /\ UNCHANGED <<said, reports>>

Deliver(r) ==
    /\ phase[r] = "closing"
    /\ reports[r] = << >>
    /\ reports' = [reports EXCEPT ![r] = <<said[r]>>]
    /\ UNCHANGED <<phase, said>>

End(r) ==
    /\ phase[r] = "closing"
    /\ phase' = [phase EXCEPT ![r] = "idle"]
    /\ said' = [said EXCEPT ![r] = << >>]
    /\ UNCHANGED reports

\* The process dies: nothing more comes of any run.
EndAll ==
    /\ phase' = [r \in Run |-> "idle"]
    /\ said' = [r \in Run |-> << >>]
    /\ UNCHANGED reports

Next ==
    \/ \E r \in Run : Begin(r) \/ Close(r) \/ Deliver(r) \/ End(r)
    \/ \E r \in Run, m \in Message : Say(r, m)
    \/ EndAll

Spec == Init /\ [][Next]_vars

=============================================================================
