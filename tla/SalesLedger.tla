----------------------------- MODULE SalesLedger -----------------------------
(***************************************************************************)
(* What the synchronisation promises the bookkeeper, and nothing about how:*)
(* a ledger per division that is only ever appended to, and only by        *)
(*   - an invoice that was sent,                                           *)
(*   - in the division of the company that sent it,                        *)
(*   - for the customer it was sent to, with all its lines of value,       *)
(*   - that the same client has not entered before.                        *)
(* It does not promise that two clients do not both enter an invoice.      *)
(***************************************************************************)
EXTENDS Integers, Sequences

CONSTANTS Client, Division, Klant, Factuur, None,
          DivisionFor,  \* [Factuur -> Division \cup {None}]
          KlantOf,      \* [Factuur -> Klant]
          LinesOf,      \* [Factuur -> SUBSET Nat], the lines of value
          Documents     \* what an entry may have as its document

VARIABLES sent, entries

vars == <<sent, entries>>

Init ==
    /\ sent = {}
    /\ entries = [d \in Division |-> << >>]

Send(f) ==
    /\ f \notin sent
    /\ sent' = sent \cup {f}
    /\ UNCHANGED entries

EnteredBy(c, f) ==
    \E d \in Division : \E i \in DOMAIN entries[d] :
      entries[d][i].factuur = f /\ entries[d][i].client = c

Enter(c, f) ==
    /\ f \in sent
    /\ DivisionFor[f] # None
    /\ LinesOf[f] # {}
    /\ ~EnteredBy(c, f)
    /\ \E doc \in Documents :
         entries' = [entries EXCEPT ![DivisionFor[f]] =
                       Append(@, [factuur |-> f, customer |-> KlantOf[f],
                                  lines |-> LinesOf[f], document |-> doc,
                                  client |-> c])]
    /\ UNCHANGED sent

Next ==
    \/ \E f \in Factuur : Send(f)
    \/ \E c \in Client, f \in Factuur : Enter(c, f)

Spec == Init /\ [][Next]_vars

=============================================================================
