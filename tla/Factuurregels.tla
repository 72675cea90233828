---------------------------- MODULE Factuurregels ----------------------------
(***************************************************************************)
(* How the lines of an invoice become lines of a sales entry:              *)
(* convertFactuurregels of synctool.go, with the VAT codes that syncBedrijf*)
(* reads before it, and those that the status page asks for.               *)
(*                                                                         *)
(* The lines of an invoice are a tree: a group has lines of its own and a  *)
(* discount that weighs on all of them.  The recursion is a stack of calls,*)
(* one step per iteration of a loop, because every item is a request to    *)
(* Exact Online.  SyncTool abstracts all this to a flat list of lines.     *)
(*                                                                         *)
(* An amount is a fraction of cents: the rounding of float64 is left out.  *)
(***************************************************************************)
EXTENDS Integers, Sequences

CONSTANTS
    Code,           \* VAT codes of the administration
    Description,    \* what the accountant writes with them: see Text
    Percentage,     \* the setting btw_percentages of Recras
    Factuur,        \* invoices
    Regels,         \* [Factuur -> Lists]
    Lists,          \* lists of lines: of an invoice or of a group
    None            \* no description, no error, Go's zero value

\* A text that contains "recras:" (the filter of GetRecrasVATCodes): what
\* stands before it, the number that follows, and whether the text is the
\* one that the page writes of that number ("recras:21", not "recras:21.0").
Text == [before : BOOLEAN, number : Int \cup {None}, plain : BOOLEAN]

Item == [type : {"item"}, aantal : Int, bedrag : Int, korting : 0..100,
         btw : Int]

Groep == [type : {"groep"}, korting : 0..100, regels : Lists]

\* Lines of any other type are passed over.
Other == [type : {"tekst"}]

ASSUME FactuurregelsAssumption ==
    /\ None \notin Int \cup Text \cup Factuur \cup {"item", "gl", "vat"}
    /\ Description \subseteq Text
    /\ Percentage \subseteq Int
    /\ Regels \in [Factuur -> Lists]
    /\ \A list \in Lists :
         list = << >> \/ list \in Seq(Item \cup Groep \cup Other)

VARIABLES
    codes,      \* codes[c]: the description of c, None without "recras:"
    page,       \* the last status page said of the VAT codes: "ok"; and no
                \* code was changed since: "ok" turns to "old"
    run         \* a run that copies the invoices of the company

vars == <<codes, page, run>>

-----------------------------------------------------------------------------
(* Two readings of a description.                                          *)

\* "recras:" + p
PageCode(p) == [before |-> FALSE, number |-> p, plain |-> TRUE]

\* Mutant: the text is searched for "recras:", wherever it is.
SscanfAnywhere(d) == IF d.number = None THEN 0 ELSE d.number

\* fmt.Sscanf(d, "recras:%f", &i): without a match, i stays 0.
Sscanf(d) == IF d.before \/ d.number = None THEN 0 ELSE d.number

\* Mutant: a page that is content with one of the codes.
VATCodesOKAny == \E p \in Percentage, c \in Code : codes[c] = PageCode(p)

\* checkVATCodes compares texts.
VATCodesOK == \A p \in Percentage : \E c \in Code : codes[c] = PageCode(p)

\* syncBedrijf makes a map from number to code: of two codes with the same
\* number the last one of the list, which is in no order.
VATCodeLists ==
    LET found == {c \in Code : codes[c] # None}
    IN  {m \in [{Sscanf(codes[c]) : c \in found} -> found] :
           \A i \in DOMAIN m : Sscanf(codes[m[i]]) = i}

-----------------------------------------------------------------------------
(* Amounts.                                                                *)

One == [num |-> 1, den |-> 1]

\* reductionfactor * (100 - Kortingspercentage) / 100
Reduce(factor, korting) ==
    [num |-> factor.num * (100 - korting), den |-> factor.den * 100]

Amount(item, factor) ==
    LET f == Reduce(factor, item.korting)
    IN  [num |-> item.aantal * item.bedrag * f.num, den |-> f.den]

\* Mutant: the amount of a credit line is less than anything.
TinyUnsigned(a) == 10 * a.num < a.den

\* math.Abs(amountFC) < 1e-3
Tiny(a) ==
    /\ 10 * a.num < a.den
    /\ -10 * a.num < a.den

-----------------------------------------------------------------------------
(* A run.  The innermost call is the first frame of the stack; `seen` is   *)
(* history: the items that were looked up for this invoice, and `ready`    *)
(* whether the page was right to say ok when the codes were read.          *)

Frame(list, factor) == [regels |-> list, i |-> 1, factor |-> factor, out |-> << >>]

NoResult == [error |-> None, btw |-> None, lines |-> << >>]

Idle == [pc |-> "idle", vatcodes |-> << >>, read |-> None, ready |-> FALSE,
         factuur |-> None, stack |-> << >>, seen |-> 0, result |-> NoResult]

Top == Head(run.stack)

AtRegel == run.pc = "convert" /\ Top.i <= Len(Top.regels)

Regel == Top.regels[Top.i]

\* On to the next line of the innermost call, after `lines` from this one.
Advance(lines) ==
    <<[Top EXCEPT !.i = @ + 1, !.out = @ \o lines]>> \o Tail(run.stack)

\* Mutant: an error leaves the calls around it where they are.
FailKeepsStack(error, btw) ==
    run' = [run EXCEPT !.pc = "converted", !.seen = @ + 1,
                       !.result = [NoResult EXCEPT !.error = error,
                                                   !.btw = btw]]

\* An error goes all the way up: the invoice is not copied.
Fail(error, btw) ==
    run' = [run EXCEPT !.pc = "converted", !.stack = << >>, !.seen = @ + 1,
                       !.result = [NoResult EXCEPT !.error = error,
                                                   !.btw = btw]]

GetRecrasVATCodes ==
    /\ run.pc = "idle"
    /\ \E m \in VATCodeLists :
         run' = [Idle EXCEPT !.pc = "converted", !.vatcodes = m,
                             !.read = codes, !.ready = (page = "ok")]
    /\ UNCHANGED <<codes, page>>

ConvertFactuur(f) ==
    /\ run.pc = "converted"
    /\ run' = [run EXCEPT !.pc = "convert", !.factuur = f, !.seen = 0,
                          !.stack = <<Frame(Regels[f], One)>>,
                          !.result = NoResult]
    /\ UNCHANGED <<codes, page>>

-----------------------------------------------------------------------------
(* The lines of a call, in their order.                                    *)

Line(item, amount) ==
    [amount |-> amount, quantity |-> item.aantal, btw |-> item.btw,
     code |-> run.vatcodes[item.btw]]

\* The replies to FindItemByRecrasID: an item with or without a GLRevenue
\* account, or an error.
ConvertItem(reply) ==
    /\ AtRegel
    /\ Regel.type = "item"
    /\ LET a == Amount(Regel, Top.factor)
       IN  \/ /\ reply = "error"
              /\ Fail("item", None)
           \/ /\ reply # "error" /\ Tiny(a)
              /\ run' = [run EXCEPT !.stack = Advance(<< >>), !.seen = @ + 1]
           \/ /\ reply = "bare" /\ ~Tiny(a)
              /\ Fail("gl", None)
           \/ /\ reply = "ready" /\ ~Tiny(a)
              /\ Regel.btw \notin DOMAIN run.vatcodes
              /\ Fail("vat", Regel.btw)
           \/ /\ reply = "ready" /\ ~Tiny(a)
              /\ Regel.btw \in DOMAIN run.vatcodes
              /\ run' = [run EXCEPT !.stack = Advance(<<Line(Regel, a)>>),
                                    !.seen = @ + 1]
    /\ UNCHANGED <<codes, page>>

\* The number of a group (Aantal) is not looked at.
ConvertGroep ==
    /\ AtRegel
    /\ Regel.type = "groep"
    /\ run' = [run EXCEPT !.stack =
                 <<Frame(Regel.regels, Reduce(Top.factor, Regel.korting))>> \o @]
    /\ UNCHANGED <<codes, page>>

PassOver ==
    /\ AtRegel
    /\ Regel.type \notin {"item", "groep"}
    /\ run' = [run EXCEPT !.stack = Advance(<< >>)]
    /\ UNCHANGED <<codes, page>>

\* Mutant: what a group returns takes the place of what was there.
ReturnReplaces ==
    /\ run.pc = "convert"
    /\ Top.i > Len(Top.regels)
    /\ LET rest == Tail(run.stack)
       IN  run' = IF rest = << >>
                  THEN [run EXCEPT !.pc = "converted", !.stack = << >>,
                                   !.result.lines = Top.out]
                  ELSE [run EXCEPT !.stack =
                          <<[Head(rest) EXCEPT !.i = @ + 1, !.out = Top.out]>>
                            \o Tail(rest)]
    /\ UNCHANGED <<codes, page>>

Return ==
    /\ run.pc = "convert"
    /\ Top.i > Len(Top.regels)
    /\ LET rest == Tail(run.stack)
       IN  run' = IF rest = << >>
                  THEN [run EXCEPT !.pc = "converted", !.stack = << >>,
                                   !.result.lines = Top.out]
                  ELSE [run EXCEPT !.stack =
                          <<[Head(rest) EXCEPT !.i = @ + 1,
                                               !.out = @ \o Top.out]>>
                            \o Tail(rest)]
    /\ UNCHANGED <<codes, page>>

\* The last invoice of the company is done.
FinishBedrijf ==
    /\ run.pc = "converted"
    /\ run' = Idle
    /\ UNCHANGED <<codes, page>>

-----------------------------------------------------------------------------
(* The rest of the world.                                                  *)

GetStatus ==
    /\ page' = IF VATCodesOK THEN "ok" ELSE "missing"
    /\ UNCHANGED <<codes, run>>

\* The accountant adds, renames or removes a VAT code.
Describe(c, d) ==
    /\ codes[c] # d
    /\ codes' = [codes EXCEPT ![c] = d]
    /\ page' = IF page = "ok" THEN "old" ELSE page
    /\ UNCHANGED run

Init ==
    /\ codes = [c \in Code |-> None]
    /\ page = "missing"
    /\ run = Idle

Next ==
    \/ GetRecrasVATCodes
    \/ \E f \in Factuur : ConvertFactuur(f)
    \/ \E reply \in {"ready", "bare", "error"} : ConvertItem(reply)
    \/ ConvertGroep \/ PassOver \/ Return \/ FinishBedrijf
    \/ GetStatus
    \/ \E c \in Code, d \in Description \cup {None} : Describe(c, d)

Spec == Init /\ [][Next]_vars

-----------------------------------------------------------------------------
(* Types and the VAT codes; properties of the amounts are in FlatRegels.   *)

\* Every variable has its type.
TypeOK ==
    /\ codes \in [Code -> Description \cup {None}]
    /\ page \in {"missing", "ok", "old"}
    /\ run.pc \in {"idle", "converted", "convert"}
    /\ DOMAIN run.vatcodes \subseteq Int
    /\ run.factuur \in Factuur \cup {None}
    /\ \A k \in DOMAIN run.stack :
         /\ run.stack[k].regels \in Lists
         /\ run.stack[k].i \in 1..(Len(run.stack[k].regels) + 1)
    /\ run.pc = "convert" <=> run.stack # << >>

\* The page compares texts (manage.go:154-158), the run reads numbers
\* (synctool.go:66-71), but a run that begins while the page is right to say
\* ok has a code for every percentage that the page looked at, whatever other
\* descriptions there are and whatever the accountant does meanwhile.
OkPageConverts ==
    run.ready /\ run.result.error = "vat" => run.result.btw \notin Percentage

Lines == {run.result.lines[i] : i \in DOMAIN run.result.lines}

\* However many descriptions are hard to read or read as the same number
\* (synctool.go:69-70), a line with VAT gets a code that the accountant had
\* marked with the line's own percentage.  (It is not so for 0%: the code of
\* a description that cannot be read is taken for that of 0%.)
CodeIsMarked ==
    \A line \in Lines :
      line.btw # 0 =>
        LET d == run.read[line.code]
        IN  d # None /\ ~d.before /\ d.number = line.btw

=============================================================================
