----------------------------- MODULE FlatRegels ------------------------------
(***************************************************************************)
(* What the recursion of Factuurregels comes to: a walk along the items of *)
(* the invoice, whatever groups they are in, which is how SyncTool models  *)
(* it, and amounts that add up to what the groups say.                     *)
(***************************************************************************)
EXTENDS Factuurregels, SequencesExt

CONSTANT Scale      \* the unit of the sums: a power of 100, to the depth

\* Lists are finite trees: among any lists there is one without a group whose
\* lines are another one of them.
ASSUME FlatRegelsAssumption ==
    /\ Scale \in Nat
    /\ \A some \in SUBSET Lists :
         some # {} => \E list \in some :
           \A i \in DOMAIN list :
             list[i].type = "groep" => list[i].regels \notin some

Fraction == [num : Int, den : Nat \ {0}]

\* The items of a line of a list, each with the discounts around it, if flat
\* says what those of the list of a group are.
ItemsOf(flat, regel, factor) ==
    CASE regel.type = "item" -> <<[item |-> regel, factor |-> factor]>>
      [] regel.type = "groep" -> flat[regel.regels][Reduce(factor, regel.korting)]
      [] OTHER -> << >>

\* The items of a list and of all groups in it, in the order in which they
\* are written.
Flat[list \in Lists] ==
    [factor \in Fraction |->
       FlattenSeq([i \in DOMAIN list |-> ItemsOf(Flat, list[i], factor)])]

Sum(numbers) == FoldLeft(LAMBDA sum, n : sum + n, 0, numbers)

\* The value of a line, times scale, and of a list: from the inside out.
ValueOf(total, regel, scale) ==
    CASE regel.type = "item" ->
           regel.aantal * regel.bedrag * (100 - regel.korting) * (scale \div 100)
      [] regel.type = "groep" ->
           (100 - regel.korting) * total[regel.regels][scale \div 100]
      [] OTHER -> 0

Total[list \in Lists] ==
    [scale \in Nat |-> Sum([i \in DOMAIN list |-> ValueOf(Total, list[i], scale)])]

Leaves == Flat[Regels[run.factuur]][One]

AmountOf(leaf) == Amount(leaf.item, leaf.factor)

\* An item becomes a line, unless it is of no value.
LineOf(leaf) ==
    IF Tiny(AmountOf(leaf)) THEN << >>
    ELSE <<Line(leaf.item, AmountOf(leaf))>>

LinesOf(leaves) == FlattenSeq([i \in DOMAIN leaves |-> LineOf(leaves[i])])

\* The lines that the calls on the stack have made so far, outermost first.
LinesSoFar ==
    IF run.pc = "convert"
    THEN FlattenSeq(Reverse([k \in DOMAIN run.stack |-> run.stack[k].out]))
    ELSE run.result.lines

\* An amount times Scale.
Scaled(amount) == amount.num * (Scale \div amount.den)

-----------------------------------------------------------------------------
(* Properties.                                                             *)

\* convertFactuurregels walks along the items of an invoice like a loop over
\* a flat list (synctool.go:250-284): at any time, the lines made are those
\* of the items looked up so far that are of value, in their order, each
\* reduced by every group around it, and none is lost when a call returns.
WalkIsFlat ==
    run.factuur # None /\ run.result.error = None =>
      /\ run.seen <= Len(Leaves)
      /\ LinesSoFar = LinesOf(SubSeq(Leaves, 1, run.seen))
      /\ run.pc = "converted" => run.seen = Len(Leaves)

\* What is booked is what the invoice says: lines without value are left out
\* (synctool.go:257-259), debit or credit, so the sum of the lines is off by
\* less than a tenth of a cent per item, and no more.
AmountsAddUp ==
    run.factuur # None /\ run.pc = "converted" /\ run.result.error = None =>
      LET lines == run.result.lines
          sum == Sum([i \in DOMAIN lines |-> Scaled(lines[i].amount)])
          off == sum - Total[Regels[run.factuur]][Scale]
          left == Len(Leaves) - Len(lines)
      IN  /\ 10 * off <= left * Scale
          /\ -10 * off <= left * Scale

=============================================================================
