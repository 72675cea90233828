----------------------------- MODULE MCSyncTool ------------------------------
(***************************************************************************)
(* Small instances of SyncTool: one or two companies, one to three         *)
(* invoices; one division, customer, product and VAT percentage.           *)
(***************************************************************************)
EXTENDS SyncTool, TLC

CONSTANTS timer, web, d1, b1, b2, f1, f2, f3, k1, p1, hoog

Line(nul, btw) == [product |-> p1, nul |-> nul, btw |-> btw]

\* No number occurs in another one.
DistinctNumbers == {<<f, f>> : f \in Factuur}

\* f1 has number 1 and f2 number 10.
PrefixNumbers == DistinctNumbers \cup {<<f1, f2>>}

\* The first company has a division of its own, the second is not known in
\* Exact Online.
OneDivision == b1 :> d1 @@ b2 :> None

AllKnown == [b \in Bedrijf |-> d1]

\* Every invoice is the first company's.
JointInvoices == [f \in Factuur |-> b1]

OneKlant == [f \in Factuur |-> k1]

\* Two lines of value, one, and a line without.
SomeLines == f1 :> <<Line(FALSE, hoog), Line(FALSE, hoog)>>
          @@ f2 :> <<Line(FALSE, hoog)>>
          @@ f3 :> <<Line(TRUE, hoog)>>

\* Every invoice has one line of value.
SingleLine == [f \in Factuur |-> <<Line(FALSE, hoog)>>]

Clients == Permutations(Client)

=============================================================================
