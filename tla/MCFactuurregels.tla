--------------------------- MODULE MCFactuurregels ---------------------------
(***************************************************************************)
(* A small instance of FlatRegels: two VAT codes, and invoices with groups *)
(* in groups, lines without value, credit lines and 0%.                    *)
(***************************************************************************)
EXTENDS FlatRegels

CONSTANTS c1, c2, plain, nested

Plain(n) == [before |-> FALSE, number |-> n, plain |-> TRUE]

\* "recras:21", "recras:0", "recras:21 hoog", "BTW recras:21", "recras:hoog"
Descriptions ==
    {Plain(21), Plain(0), [Plain(21) EXCEPT !.plain = FALSE],
     [Plain(21) EXCEPT !.before = TRUE],
     [before |-> FALSE, number |-> None, plain |-> FALSE]}

It(aantal, bedrag, korting, btw) ==
    [type |-> "item", aantal |-> aantal, bedrag |-> bedrag,
     korting |-> korting, btw |-> btw]

Gr(korting, list) == [type |-> "groep", korting |-> korting, regels |-> list]

\* 2 at 1.00; a text; 1 credit of 0.50 with 0% VAT; 1 of 0.01, 95% off.
PlainList == <<It(2, 100, 0, 21), [type |-> "tekst"], It(1, -50, 0, 0),
               It(1, 1, 95, 21)>>

\* An empty group, and a group in a group after an item of its own.
Inner == <<It(1, 60, 0, 21), It(1, 1, 40, 21)>>
Outer == <<It(3, 10, 50, 0), Gr(50, Inner)>>
NestedList == <<Gr(0, << >>), Gr(80, Outer), It(-1, 40, 25, 21)>>

AllLists == {PlainList, << >>, Inner, Outer, NestedList}

RegelsOf == (plain :> PlainList) @@ (nested :> NestedList)

=============================================================================
