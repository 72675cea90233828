------------------------- MODULE Factuurregels_proof -------------------------
(***************************************************************************)
(* Proofs about the VAT codes in Factuurregels and about its stack of      *)
(* calls, for any set of codes, of descriptions and of percentages, and    *)
(* for invoices of any depth: the types, the codes that lines get, and     *)
(* (from "Induction" on) that the recursion comes to the walk of           *)
(* FlatRegels and to the sums that the groups say.                         *)
(***************************************************************************)
EXTENDS FlatRegels, SequenceTheorems, WellFoundedInduction, TLAPS

-----------------------------------------------------------------------------
(* Facts of sequences.                                                     *)

LEMMA HeadTail ==
    ASSUME NEW S, NEW s \in Seq(S), s # << >>
    PROVE  Head(s) \in S /\ Tail(s) \in Seq(S)
  OBVIOUS

LEMMA Push ==
    ASSUME NEW S, NEW s \in Seq(S), NEW x \in S
    PROVE  <<x>> \o s \in Seq(S) /\ <<x>> \o s # << >>
  OBVIOUS

LEMMA Joined ==
    ASSUME NEW S, NEW s \in Seq(S), NEW t \in Seq(S)
    PROVE  s \o t \in Seq(S)
  OBVIOUS

LEMMA Single ==
    ASSUME NEW S, NEW x \in S
    PROVE  <<x>> \in Seq(S)
  OBVIOUS

LEMMA Associated ==
    ASSUME NEW S, NEW a \in Seq(S), NEW b \in Seq(S), NEW c \in Seq(S)
    PROVE  (a \o b) \o c = a \o (b \o c)
  OBVIOUS

LEMMA Elements ==
    ASSUME NEW S, NEW s \in Seq(S), NEW i \in DOMAIN s
    PROVE  s[i] \in S
  OBVIOUS

-----------------------------------------------------------------------------
(* Types.  A line that a run has made has the code of its percentage.      *)

VATCodes == UNION {[S -> Code] : S \in SUBSET Int}

LineWith(vat) ==
    {l \in [amount : Fraction, quantity : Int, btw : Int, code : Code] :
       l.btw \in DOMAIN vat /\ l.code = vat[l.btw]}

FrameWith(vat) ==
    [regels : Lists, i : Nat \ {0}, factor : Fraction, out : Seq(LineWith(vat))]

ResultWith(vat) ==
    [error : {None, "item", "gl", "vat"}, btw : Int \cup {None},
     lines : Seq(LineWith(vat))]

RunWith(vat) ==
    [pc : {"idle", "converted", "convert"}, vatcodes : VATCodes,
     read : [Code -> Description \cup {None}] \cup {None}, ready : BOOLEAN,
     factuur : Factuur \cup {None}, stack : Seq(FrameWith(vat)), seen : Nat,
     result : ResultWith(vat)]

\* What a run remembers of the codes when it has read them.
ReadRight ==
    \A n \in DOMAIN run.vatcodes :
      LET d == run.read[run.vatcodes[n]]
      IN  d # None /\ Sscanf(d) = n

\* The inductive invariant: the page says ok as long as every percentage has
\* its code, and a run that was ready has a code for each of them.
VATInv ==
    /\ codes \in [Code -> Description \cup {None}]
    /\ run \in RunWith(run.vatcodes)
    /\ run.pc = "convert" => run.stack # << >>
    /\ page = "ok" => VATCodesOK
    /\ run.ready => Percentage \subseteq DOMAIN run.vatcodes
    /\ run.result.error = "vat" => run.result.btw \notin DOMAIN run.vatcodes
    /\ ReadRight

-----------------------------------------------------------------------------
(* Reading the codes.                                                      *)

LEMMA SscanfType ==
    ASSUME NEW d \in Description
    PROVE  Sscanf(d) \in Int
  BY FactuurregelsAssumption DEF Sscanf, Text

LEMMA PageCodeReads ==
    ASSUME NEW p \in Percentage
    PROVE  PageCode(p) # None /\ Sscanf(PageCode(p)) = p
  <1>1. p \in Int /\ p # None
    BY FactuurregelsAssumption
  <1>2. PageCode(p) \in Text
    BY <1>1 DEF PageCode, Text
  <1>. QED  BY <1>1, <1>2, FactuurregelsAssumption DEF PageCode, Sscanf

\* Whatever map from numbers to codes a run makes, every number that some
\* description reads as is in it, with a code that reads so.
LEMMA ListsAreRight ==
    ASSUME codes \in [Code -> Description \cup {None}], NEW m \in VATCodeLists
    PROVE  /\ m \in VATCodes
           /\ \A c \in Code : codes[c] # None => Sscanf(codes[c]) \in DOMAIN m
           /\ \A n \in DOMAIN m : /\ m[n] \in Code
                                  /\ codes[m[n]] # None
                                  /\ Sscanf(codes[m[n]]) = n
  <1>. DEFINE found == {c \in Code : codes[c] # None}
              numbers == {Sscanf(codes[c]) : c \in found}
  <1>1. m \in [numbers -> found] /\ \A n \in numbers : Sscanf(codes[m[n]]) = n
    BY DEF VATCodeLists
  <1>2. numbers \subseteq Int
    BY SscanfType
  <1>3. m \in [numbers -> Code]
    BY <1>1
  <1>4. m \in VATCodes
    <2>. HIDE DEF numbers
    <2>. QED  BY <1>2, <1>3 DEF VATCodes
  <1>. QED  BY <1>1, <1>4

LEMMA OkListsAreWhole ==
    ASSUME codes \in [Code -> Description \cup {None}], VATCodesOK,
           NEW m \in VATCodeLists
    PROVE  Percentage \subseteq DOMAIN m
  BY ListsAreRight, PageCodeReads DEF VATCodesOK

-----------------------------------------------------------------------------
(* The call that is under way.                                             *)

LEMMA TopType ==
    ASSUME VATInv, run.pc = "convert"
    PROVE  /\ Top \in FrameWith(run.vatcodes)
           /\ Tail(run.stack) \in Seq(FrameWith(run.vatcodes))
  <1>1. run.stack \in Seq(FrameWith(run.vatcodes)) /\ run.stack # << >>
    BY DEF VATInv, RunWith
  <1>. QED  BY <1>1, HeadTail DEF Top

LEMMA RegelType ==
    ASSUME VATInv, AtRegel
    PROVE  Regel \in Item \cup Groep \cup Other
  <1>1. /\ Top.regels \in Lists
        /\ Top.i \in Nat \ {0} /\ Top.i <= Len(Top.regels)
    BY TopType DEF AtRegel, FrameWith
  <1>2. CASE Top.regels = << >>
    BY <1>1, <1>2
  <1>3. CASE Top.regels \in Seq(Item \cup Groep \cup Other)
    BY <1>1, <1>3, Elements DEF Regel
  <1>. QED  BY <1>1, <1>2, <1>3, FactuurregelsAssumption

LEMMA ReduceType ==
    ASSUME NEW f \in Fraction, NEW k \in 0..100
    PROVE  Reduce(f, k) \in Fraction
  BY DEF Reduce, Fraction

LEMMA AmountType ==
    ASSUME NEW f \in Fraction, NEW item \in Item
    PROVE  Amount(item, f) \in Fraction
  <1>1. /\ Reduce(f, item.korting) \in Fraction
        /\ item.aantal \in Int /\ item.bedrag \in Int
    BY ReduceType DEF Item
  <1>2. item.aantal * item.bedrag \in Int
    BY <1>1
  <1>. QED  BY <1>1, <1>2 DEF Amount, Fraction

LEMMA LineType ==
    ASSUME NEW item \in Item, NEW a \in Fraction, VATInv,
           item.btw \in DOMAIN run.vatcodes
    PROVE  Line(item, a) \in LineWith(run.vatcodes)
  <1>1. run.vatcodes \in VATCodes
    BY DEF VATInv, RunWith
  <1>2. run.vatcodes[item.btw] \in Code
    BY <1>1 DEF VATCodes
  <1>3. item.aantal \in Int /\ item.btw \in Int
    BY DEF Item
  <1>. QED  BY <1>2, <1>3 DEF Line, LineWith

\* A call that goes on to the next line.
LEMMA Grown ==
    ASSUME NEW vat, NEW fr \in FrameWith(vat), NEW lines \in Seq(LineWith(vat))
    PROVE  [fr EXCEPT !.i = @ + 1, !.out = @ \o lines] \in FrameWith(vat)
  <1>. DEFINE out == fr.out \o lines
  <1>1. out \in Seq(LineWith(vat))
    <2>1. fr.out \in Seq(LineWith(vat))
      BY DEF FrameWith
    <2>. QED  BY <2>1, Joined
  <1>. HIDE DEF out
  <1>2. [fr EXCEPT !.i = @ + 1, !.out = out] \in FrameWith(vat)
    <2>1. fr.i + 1 \in Nat \ {0}
      BY DEF FrameWith
    <2>2. ASSUME NEW i \in Nat \ {0}
          PROVE  [fr EXCEPT !.i = i, !.out = out] \in FrameWith(vat)
      BY <1>1 DEF FrameWith
    <2>. QED  BY <2>1, <2>2
  <1>. QED  BY <1>2 DEF out

LEMMA AdvanceType ==
    ASSUME VATInv, run.pc = "convert",
           NEW lines \in Seq(LineWith(run.vatcodes))
    PROVE  /\ Advance(lines) \in Seq(FrameWith(run.vatcodes))
           /\ Advance(lines) # << >>
  BY TopType, Grown, Push DEF Advance

LEMMA FrameType ==
    ASSUME NEW vat, NEW list \in Lists, NEW f \in Fraction
    PROVE  Frame(list, f) \in FrameWith(vat)
  <1>1. << >> \in Seq(LineWith(vat))
    OBVIOUS
  <1>. QED  BY <1>1 DEF Frame, FrameWith

LEMMA NoResultType ==
    ASSUME NEW vat
    PROVE  NoResult \in ResultWith(vat) /\ NoResult.error = None
  <1>1. << >> \in Seq(LineWith(vat))
    OBVIOUS
  <1>. QED  BY <1>1 DEF NoResult, ResultWith

\* A run that is in no call.
LEMMA RestType ==
    ASSUME NEW m \in VATCodes, NEW pc \in {"idle", "converted"},
           NEW b \in BOOLEAN,
           NEW d \in [Code -> Description \cup {None}] \cup {None}
    PROVE  [pc |-> pc, vatcodes |-> m, read |-> d, ready |-> b,
            factuur |-> None, stack |-> << >>, seen |-> 0,
            result |-> NoResult] \in RunWith(m)
  <1>1. << >> \in Seq(FrameWith(m))
    OBVIOUS
  <1>. QED  BY <1>1, NoResultType DEF RunWith

LEMMA IdleType ==
    /\ Idle \in RunWith(Idle.vatcodes)
    /\ Idle.pc = "idle" /\ ~Idle.ready /\ Idle.result.error # "vat"
    /\ DOMAIN Idle.vatcodes = {}
  <1>1. << >> \in VATCodes /\ DOMAIN << >> = {}
    <2>1. << >> \in [{} -> Code] /\ DOMAIN << >> = {}
      OBVIOUS
    <2>. QED  BY <2>1 DEF VATCodes
  <1>2. Idle \in RunWith(<< >>)
    BY <1>1, RestType DEF Idle
  <1>3. /\ Idle.vatcodes = << >>
        /\ Idle.pc = "idle" /\ ~Idle.ready /\ Idle.result = NoResult
    BY DEF Idle
  <1>. QED  BY <1>1, <1>2, <1>3, FactuurregelsAssumption DEF NoResult

-----------------------------------------------------------------------------
(* A step within a call only changes the stack, the result and the like.   *)

LEMMA InRun ==
    ASSUME VATInv, run' \in RunWith(run.vatcodes), UNCHANGED <<codes, page>>,
           run'.vatcodes = run.vatcodes, run'.read = run.read,
           run'.ready = run.ready,
           run'.pc = "convert" => run'.stack # << >>,
           run'.result.error = "vat" =>
             run'.result.btw \notin DOMAIN run.vatcodes
    PROVE  VATInv'
  BY DEF VATInv, VATCodesOK, ReadRight

LEMMA GetRecrasVATCodesInv ==
    ASSUME VATInv, GetRecrasVATCodes
    PROVE  VATInv'
  <1>1. PICK m \in VATCodeLists :
          run' = [Idle EXCEPT !.pc = "converted", !.vatcodes = m,
                              !.read = codes, !.ready = (page = "ok")]
    BY DEF GetRecrasVATCodes
  <1>2. /\ codes \in [Code -> Description \cup {None}]
        /\ page = "ok" => VATCodesOK
        /\ codes' = codes /\ page' = page
    BY DEF VATInv, GetRecrasVATCodes
  <1>3. m \in VATCodes
    BY <1>2, ListsAreRight
  <1>6. run' = [pc |-> "converted", vatcodes |-> m, read |-> codes,
                ready |-> (page = "ok"), factuur |-> None, stack |-> << >>,
                seen |-> 0, result |-> NoResult]
    BY <1>1 DEF Idle
  <1>7. run' \in RunWith(m)
    BY <1>2, <1>3, <1>6, RestType
  <1>8. /\ run'.vatcodes = m /\ run'.read = codes /\ run'.pc = "converted"
        /\ run'.ready = (page = "ok") /\ run'.result = NoResult
    BY <1>6
  <1>9. ReadRight'
    BY <1>2, <1>8, ListsAreRight DEF ReadRight
  <1>10. run'.ready => Percentage \subseteq DOMAIN m
    BY <1>2, <1>8, OkListsAreWhole
  <1>11. run'.result.error # "vat"
    BY <1>8, FactuurregelsAssumption DEF NoResult
  <1>12. page' = "ok" => VATCodesOK'
    BY <1>2 DEF VATCodesOK
  <1>. QED  BY <1>2, <1>7, <1>8, <1>9, <1>10, <1>11, <1>12 DEF VATInv

LEMMA ConvertFactuurInv ==
    ASSUME VATInv, NEW f \in Factuur, ConvertFactuur(f)
    PROVE  VATInv'
  <1>. DEFINE frame == Frame(Regels[f], One)
  <1>1. /\ run' = [run EXCEPT !.pc = "convert", !.factuur = f, !.seen = 0,
                              !.stack = <<frame>>, !.result = NoResult]
        /\ UNCHANGED <<codes, page>>
    BY DEF ConvertFactuur
  <1>2. frame \in FrameWith(run.vatcodes)
    <2>1. One \in Fraction
      BY DEF One, Fraction
    <2>. QED  BY <2>1, FrameType, FactuurregelsAssumption
  <1>. HIDE DEF frame
  <1>3. <<frame>> \in Seq(FrameWith(run.vatcodes)) /\ <<frame>> # << >>
    BY <1>2, Single
  <1>4. run \in RunWith(run.vatcodes)
    BY DEF VATInv
  <1>5. /\ run'.vatcodes = run.vatcodes /\ run'.read = run.read
        /\ run'.ready = run.ready /\ run'.pc = "convert"
        /\ run'.stack = <<frame>> /\ run'.result = NoResult
        /\ run'.factuur = f /\ run'.seen = 0
    BY <1>1, <1>4 DEF RunWith
  <1>6. run' \in RunWith(run.vatcodes)
    BY <1>1, <1>3, <1>4, NoResultType DEF RunWith
  <1>7. run'.result.error # "vat"
    BY <1>5, FactuurregelsAssumption DEF NoResult
  <1>. QED  BY <1>1, <1>3, <1>5, <1>6, <1>7, InRun

\* The innermost call goes on.
LEMMA NewStackInv ==
    ASSUME VATInv, UNCHANGED <<codes, page>>,
           NEW stack \in Seq(FrameWith(run.vatcodes)), stack # << >>,
           NEW n \in Nat, run' = [run EXCEPT !.stack = stack, !.seen = n]
    PROVE  VATInv'
  <1>1. run \in RunWith(run.vatcodes)
    BY DEF VATInv
  <1>2. /\ run'.vatcodes = run.vatcodes /\ run'.read = run.read
        /\ run'.ready = run.ready /\ run'.stack = stack
        /\ run'.result = run.result
    BY <1>1 DEF RunWith
  <1>3. run' \in RunWith(run.vatcodes)
    BY <1>1 DEF RunWith
  <1>. QED  BY <1>2, <1>3, InRun DEF VATInv

\* The outermost call returns, with lines or with an error.
LEMMA NewResultInv ==
    ASSUME VATInv, UNCHANGED <<codes, page>>,
           NEW result \in ResultWith(run.vatcodes), NEW n \in Nat,
           result.error = "vat" => result.btw \notin DOMAIN run.vatcodes,
           run' = [run EXCEPT !.pc = "converted", !.stack = << >>, !.seen = n,
                              !.result = result]
    PROVE  VATInv'
  <1>1. run \in RunWith(run.vatcodes)
    BY DEF VATInv
  <1>2. /\ run'.vatcodes = run.vatcodes /\ run'.read = run.read
        /\ run'.ready = run.ready /\ run'.pc = "converted"
        /\ run'.result = result
    BY <1>1 DEF RunWith
  <1>3. << >> \in Seq(FrameWith(run.vatcodes))
    OBVIOUS
  <1>4. run' \in RunWith(run.vatcodes)
    BY <1>1, <1>3 DEF RunWith
  <1>. QED  BY <1>2, <1>4, InRun

LEMMA FailInv ==
    ASSUME VATInv, UNCHANGED <<codes, page>>,
           NEW error \in {"item", "gl", "vat"},
           NEW btw \in Int \cup {None},
           error = "vat" => btw \notin DOMAIN run.vatcodes,
           Fail(error, btw)
    PROVE  VATInv'
  <1>. DEFINE result == [NoResult EXCEPT !.error = error, !.btw = btw]
  <1>1. run \in RunWith(run.vatcodes)
    BY DEF VATInv
  <1>2. run.seen + 1 \in Nat
    BY <1>1 DEF RunWith
  <1>3. run' = [run EXCEPT !.pc = "converted", !.stack = << >>,
                           !.seen = run.seen + 1, !.result = result]
    BY <1>1 DEF Fail, RunWith
  <1>4. /\ result \in ResultWith(run.vatcodes)
        /\ result.error = error /\ result.btw = btw
    BY NoResultType DEF ResultWith
  <1>. HIDE DEF result
  <1>. QED  BY <1>2, <1>3, <1>4, NewResultInv

LEMMA ConvertItemInv ==
    ASSUME VATInv, NEW reply, ConvertItem(reply)
    PROVE  VATInv'
  <1>. DEFINE a == Amount(Regel, Top.factor)
  <1>1. /\ run.pc = "convert" /\ AtRegel /\ UNCHANGED <<codes, page>>
    BY DEF ConvertItem, AtRegel
  <1>2. Regel \in Item
    BY <1>1, RegelType DEF ConvertItem, Item, Groep, Other
  <1>3. a \in Fraction
    BY <1>1, <1>2, TopType, AmountType DEF FrameWith
  <1>4. run.seen + 1 \in Nat /\ run = [run EXCEPT !.seen = run.seen]
    BY DEF VATInv, RunWith
  <1>5. CASE Fail("item", None) \/ Fail("gl", None)
    BY <1>1, <1>5, FailInv
  <1>6. CASE run' = [run EXCEPT !.stack = Advance(<< >>), !.seen = @ + 1]
    <2>1. << >> \in Seq(LineWith(run.vatcodes))
      OBVIOUS
    <2>. QED  BY <1>1, <1>4, <1>6, <2>1, AdvanceType, NewStackInv
  <1>7. CASE /\ Regel.btw \notin DOMAIN run.vatcodes
             /\ Fail("vat", Regel.btw)
    <2>1. Regel.btw \in Int
      BY <1>2 DEF Item
    <2>. QED  BY <1>1, <1>7, <2>1, FailInv
  <1>8. CASE /\ Regel.btw \in DOMAIN run.vatcodes
             /\ run' = [run EXCEPT !.stack = Advance(<<Line(Regel, a)>>),
                                   !.seen = @ + 1]
    <2>1. Line(Regel, a) \in LineWith(run.vatcodes)
      BY <1>2, <1>3, <1>8, LineType
    <2>2. <<Line(Regel, a)>> \in Seq(LineWith(run.vatcodes))
      BY <2>1, Single
    <2>. QED  BY <1>1, <1>4, <1>8, <2>2, AdvanceType, NewStackInv
  <1>. QED  BY <1>5, <1>6, <1>7, <1>8 DEF ConvertItem

LEMMA ConvertGroepInv ==
    ASSUME VATInv, ConvertGroep
    PROVE  VATInv'
  <1>. DEFINE frame == Frame(Regel.regels, Reduce(Top.factor, Regel.korting))
  <1>1. /\ run.pc = "convert" /\ AtRegel /\ UNCHANGED <<codes, page>>
        /\ run' = [run EXCEPT !.stack = <<frame>> \o run.stack]
    BY DEF ConvertGroep, AtRegel, VATInv, RunWith
  <1>2. Regel \in Groep
    BY <1>1, RegelType DEF ConvertGroep, Item, Groep, Other
  <1>3. frame \in FrameWith(run.vatcodes)
    <2>1. Top.factor \in Fraction
      BY <1>1, TopType DEF FrameWith
    <2>2. Regel.regels \in Lists /\ Regel.korting \in 0..100
      BY <1>2 DEF Groep
    <2>. QED  BY <2>1, <2>2, ReduceType, FrameType
  <1>. HIDE DEF frame
  <1>4. run \in RunWith(run.vatcodes)
    BY DEF VATInv
  <1>5. /\ run.stack \in Seq(FrameWith(run.vatcodes))
        /\ run.seen \in Nat
        /\ run' = [run EXCEPT !.stack = <<frame>> \o run.stack,
                              !.seen = run.seen]
    BY <1>1, <1>4 DEF RunWith
  <1>6. <<frame>> \o run.stack \in Seq(FrameWith(run.vatcodes))
    BY <1>3, <1>5, Push
  <1>7. <<frame>> \o run.stack # << >>
    BY <1>3, <1>5, Push
  <1>. QED  BY <1>1, <1>5, <1>6, <1>7, NewStackInv

LEMMA PassOverInv ==
    ASSUME VATInv, PassOver
    PROVE  VATInv'
  <1>1. /\ run.pc = "convert" /\ UNCHANGED <<codes, page>>
        /\ run' = [run EXCEPT !.stack = Advance(<< >>)]
    BY DEF PassOver, AtRegel
  <1>2. << >> \in Seq(LineWith(run.vatcodes))
    OBVIOUS
  <1>3. /\ run.seen \in Nat
        /\ run' = [run EXCEPT !.stack = Advance(<< >>), !.seen = run.seen]
    BY <1>1 DEF VATInv, RunWith
  <1>. QED  BY <1>1, <1>2, <1>3, AdvanceType, NewStackInv

LEMMA ReturnInv ==
    ASSUME VATInv, Return
    PROVE  VATInv'
  <1>. DEFINE rest == Tail(run.stack)
  <1>1. run.pc = "convert" /\ UNCHANGED <<codes, page>>
    BY DEF Return
  <1>2. /\ run \in RunWith(run.vatcodes)
        /\ run.result \in ResultWith(run.vatcodes)
        /\ run.seen \in Nat
    BY DEF VATInv, RunWith
  <1>3. /\ Top \in FrameWith(run.vatcodes)
        /\ rest \in Seq(FrameWith(run.vatcodes))
        /\ Top.out \in Seq(LineWith(run.vatcodes))
    BY <1>1, TopType DEF FrameWith
  <1>4. CASE rest = << >>
    <2>. DEFINE result == [run.result EXCEPT !.lines = Top.out]
    <2>1. run' = [run EXCEPT !.pc = "converted", !.stack = << >>,
                             !.result.lines = Top.out]
      BY <1>4 DEF Return
    <2>2. run' = [run EXCEPT !.pc = "converted", !.stack = << >>,
                             !.seen = run.seen, !.result = result]
      BY <1>2, <2>1 DEF RunWith
    <2>3. /\ result \in ResultWith(run.vatcodes)
          /\ result.error = run.result.error /\ result.btw = run.result.btw
      BY <1>2, <1>3 DEF ResultWith
    <2>. HIDE DEF result
    <2>. QED  BY <1>1, <1>2, <2>2, <2>3, NewResultInv DEF VATInv
  <1>5. CASE rest # << >>
    <2>. DEFINE caller == Head(rest)
                frame == [caller EXCEPT !.i = @ + 1, !.out = @ \o Top.out]
    <2>1. run' = [run EXCEPT !.stack = <<frame>> \o Tail(rest)]
      BY <1>5 DEF Return
    <2>2. /\ caller \in FrameWith(run.vatcodes)
          /\ Tail(rest) \in Seq(FrameWith(run.vatcodes))
      BY <1>3, <1>5, HeadTail
    <2>3. frame \in FrameWith(run.vatcodes)
      BY <1>3, <2>2, Grown
    <2>. HIDE DEF frame
    <2>4. run' = [run EXCEPT !.stack = <<frame>> \o Tail(rest),
                             !.seen = run.seen]
      BY <1>2, <2>1 DEF RunWith
    <2>. QED  BY <1>1, <1>2, <2>2, <2>3, <2>4, Push, NewStackInv
  <1>. QED  BY <1>4, <1>5

-----------------------------------------------------------------------------
(* The page and the accountant.                                            *)

LEMMA GetStatusInv ==
    ASSUME VATInv, GetStatus
    PROVE  VATInv'
  <1>1. /\ codes' = codes /\ run' = run
        /\ page' = "ok" => VATCodesOK
    BY DEF GetStatus
  <1>. QED  BY <1>1 DEF VATInv, VATCodesOK, ReadRight

LEMMA DescribeInv ==
    ASSUME VATInv, NEW c \in Code, NEW d \in Description \cup {None},
           Describe(c, d)
    PROVE  VATInv'
  <1>1. /\ codes' \in [Code -> Description \cup {None}]
        /\ page' # "ok" /\ run' = run
    BY DEF Describe, VATInv
  <1>. QED  BY <1>1 DEF VATInv, ReadRight

LEMMA ToIdleInv ==
    ASSUME codes \in [Code -> Description \cup {None}],
           run = Idle, page = "ok" => VATCodesOK
    PROVE  VATInv
  <1>. HIDE DEF Idle
  <1>1. run.pc # "convert"
    BY IdleType
  <1>. QED  BY <1>1, IdleType DEF VATInv, ReadRight

LEMMA FinishBedrijfInv ==
    ASSUME VATInv, FinishBedrijf
    PROVE  VATInv'
  <1>1. /\ run' = Idle /\ codes' = codes /\ page' = page
    BY DEF FinishBedrijf
  <1>2. run'.pc # "convert"
    BY <1>1, IdleType
  <1>3. run' \in RunWith(run'.vatcodes)
    BY <1>1, IdleType
  <1>. QED
    BY <1>1, <1>2, <1>3, IdleType DEF VATInv, ReadRight, VATCodesOK

LEMMA InitInv == Init => VATInv
  BY ToIdleInv DEF Init

LEMMA NextInv == VATInv /\ [Next]_vars => VATInv'
  <1>. SUFFICES ASSUME VATInv, [Next]_vars  PROVE VATInv'
    OBVIOUS
  <1>1. CASE UNCHANGED vars
    BY <1>1 DEF vars, VATInv, VATCodesOK, ReadRight
  <1>. QED
    BY <1>1, GetRecrasVATCodesInv, ConvertFactuurInv, ConvertItemInv,
       ConvertGroepInv, PassOverInv, ReturnInv, FinishBedrijfInv,
       GetStatusInv, DescribeInv DEF Next

\* While the page says ok there is a code for every percentage, and a run that
\* began then has them all in its map, for as long as it copies invoices.
THEOREM VATInvariant == Spec => []VATInv
  BY InitInv, NextInv, PTL DEF Spec

\* A run that begins while the page is right to say ok finds a code for every
\* line with a percentage that the page looked at.
THEOREM OkPageCorrect == Spec => []OkPageConverts
  <1>1. VATInv => OkPageConverts
    BY DEF VATInv, OkPageConverts
  <1>. QED  BY <1>1, VATInvariant, PTL

\* A line with VAT has a code that was marked with its percentage.
THEOREM CodeIsMarkedCorrect == Spec => []CodeIsMarked
  <1>1. VATInv => CodeIsMarked
    <2>. SUFFICES ASSUME VATInv, NEW line \in Lines, line.btw # 0
                  PROVE  LET d == run.read[line.code]
                         IN  d # None /\ ~d.before /\ d.number = line.btw
      BY DEF CodeIsMarked
    <2>1. run.result.lines \in Seq(LineWith(run.vatcodes))
      BY DEF VATInv, RunWith, ResultWith
    <2>2. line \in LineWith(run.vatcodes)
      BY <2>1, Elements DEF Lines
    <2>3. /\ line.btw \in DOMAIN run.vatcodes
          /\ line.code = run.vatcodes[line.btw]
      BY <2>2 DEF LineWith
    <2>4. run.read[line.code] # None /\ Sscanf(run.read[line.code]) = line.btw
      BY <2>3 DEF VATInv, ReadRight
    <2>. QED  BY <2>4 DEF Sscanf
  <1>. QED  BY <1>1, VATInvariant, PTL

-----------------------------------------------------------------------------
(* The stack of calls.                                                     *)
(*                                                                         *)
(* Every call but the innermost is at a group of its list, not past its    *)
(* end: that is where it goes on when the group returns.                   *)

Nested(stack) ==
    \A k \in DOMAIN stack :
      /\ stack[k].i <= Len(stack[k].regels) + 1
      /\ k > 1 => stack[k].i <= Len(stack[k].regels)

CallsInv ==
    /\ page \in {"missing", "ok", "old"}
    /\ run.pc # "convert" => run.stack = << >>
    /\ Nested(run.stack)

LEMMA ListLength ==
    ASSUME NEW vat, NEW fr \in FrameWith(vat)
    PROVE  Len(fr.regels) \in Nat /\ fr.i \in Nat \ {0}
  <1>1. fr.regels \in Lists /\ fr.i \in Nat \ {0}
    BY DEF FrameWith
  <1>2. CASE fr.regels = << >>
    BY <1>1, <1>2
  <1>3. CASE fr.regels \in Seq(Item \cup Groep \cup Other)
    BY <1>1, <1>3
  <1>. QED  BY <1>1, <1>2, <1>3, FactuurregelsAssumption

LEMMA Consed ==
    ASSUME NEW S, NEW s \in Seq(S), NEW x
    PROVE  /\ DOMAIN (<<x>> \o s) = 1 .. Len(s) + 1
           /\ (<<x>> \o s)[1] = x
           /\ \A k \in 2 .. Len(s) + 1 :
                k - 1 \in DOMAIN s /\ (<<x>> \o s)[k] = s[k - 1]
  OBVIOUS

LEMMA FirstElement ==
    ASSUME NEW S, NEW s \in Seq(S), s # << >>
    PROVE  1 \in DOMAIN s /\ Head(s) = s[1]
  OBVIOUS

LEMMA TailElements ==
    ASSUME NEW S, NEW s \in Seq(S), s # << >>
    PROVE  \A k \in DOMAIN Tail(s) :
             k + 1 \in DOMAIN s /\ k + 1 > 1 /\ Tail(s)[k] = s[k + 1]
  OBVIOUS

\* A frame in front of calls that are all at a line.
LEMMA NestedInFront ==
    ASSUME NEW S, NEW s \in Seq(S), NEW fr,
           fr.i <= Len(fr.regels) + 1,
           \A k \in DOMAIN s : s[k].i <= Len(s[k].regels),
           \A k \in DOMAIN s : Len(s[k].regels) \in Nat /\ s[k].i \in Nat
    PROVE  Nested(<<fr>> \o s)
  <1>. DEFINE t == <<fr>> \o s
  <1>1. /\ DOMAIN t = 1 .. Len(s) + 1 /\ Len(s) \in Nat /\ t[1] = fr
        /\ \A k \in 2 .. Len(s) + 1 : k - 1 \in DOMAIN s /\ t[k] = s[k - 1]
    BY Consed
  <1>. HIDE DEF t
  <1>2. ASSUME NEW k \in DOMAIN t
        PROVE  /\ t[k].i <= Len(t[k].regels) + 1
               /\ k > 1 => t[k].i <= Len(t[k].regels)
    <2>1. CASE k = 1
      BY <1>1, <2>1
    <2>2. CASE k # 1
      <3>1. k \in 2 .. Len(s) + 1
        BY <1>1, <2>2
      <3>2. k - 1 \in DOMAIN s /\ t[k] = s[k - 1]
        BY <1>1, <3>1
      <3>. DEFINE i == s[k - 1].i
                  n == Len(s[k - 1].regels)
      <3>3. i <= n /\ i \in Nat /\ n \in Nat
        BY <3>2
      <3>4. t[k].i = i /\ Len(t[k].regels) = n
        BY <3>2
      <3>. HIDE DEF i, n
      <3>. QED  BY <3>3, <3>4
    <2>. QED  BY <2>1, <2>2
  <1>3. Nested(t)
    BY <1>2 DEF Nested
  <1>. QED  BY <1>3 DEF t

\* The calls around the innermost one are all at a line.
LEMMA CallersAtLine ==
    ASSUME VATInv, CallsInv, run.pc = "convert"
    PROVE  /\ \A k \in DOMAIN Tail(run.stack) :
                /\ Tail(run.stack)[k].i <= Len(Tail(run.stack)[k].regels)
                /\ Len(Tail(run.stack)[k].regels) \in Nat
                /\ Tail(run.stack)[k].i \in Nat
           /\ \A k \in DOMAIN run.stack :
                Len(run.stack[k].regels) \in Nat /\ run.stack[k].i \in Nat
           /\ run.stack[1] = Top
  <1>1. run.stack \in Seq(FrameWith(run.vatcodes)) /\ run.stack # << >>
    BY DEF VATInv, RunWith
  <1>2. \A k \in DOMAIN run.stack : run.stack[k] \in FrameWith(run.vatcodes)
    BY <1>1, Elements
  <1>3. \A k \in DOMAIN run.stack :
          Len(run.stack[k].regels) \in Nat /\ run.stack[k].i \in Nat
    BY <1>2, ListLength
  <1>4. \A k \in DOMAIN run.stack :
          k > 1 => run.stack[k].i <= Len(run.stack[k].regels)
    BY DEF CallsInv, Nested
  <1>5. \A k \in DOMAIN Tail(run.stack) :
          /\ k + 1 \in DOMAIN run.stack /\ k + 1 > 1
          /\ Tail(run.stack)[k] = run.stack[k + 1]
    BY <1>1, TailElements
  <1>6. run.stack[1] = Top
    BY <1>1 DEF Top
  <1>. QED  BY <1>3, <1>4, <1>5, <1>6

LEMMA AdvanceNested ==
    ASSUME VATInv, CallsInv, AtRegel, NEW lines
    PROVE  Nested(Advance(lines))
  <1>1. Top \in FrameWith(run.vatcodes) /\ run.pc = "convert"
        /\ Tail(run.stack) \in Seq(FrameWith(run.vatcodes))
    BY TopType DEF AtRegel
  <1>. DEFINE fr == [Top EXCEPT !.i = @ + 1, !.out = @ \o lines]
  <1>2. fr.i = Top.i + 1 /\ fr.regels = Top.regels
    BY <1>1 DEF FrameWith
  <1>3. Top.i <= Len(Top.regels)
    BY DEF AtRegel
  <1>4. fr.i <= Len(fr.regels) + 1
    <2>1. Top.i \in Nat /\ Len(Top.regels) \in Nat
      BY <1>1, ListLength
    <2>. HIDE DEF fr
    <2>. QED  BY <1>2, <1>3, <2>1
  <1>5. Advance(lines) = <<fr>> \o Tail(run.stack)
    BY DEF Advance
  <1>. HIDE DEF fr
  <1>. QED  BY <1>1, <1>4, <1>5, CallersAtLine, NestedInFront

LEMMA CallsStep ==
    ASSUME VATInv, CallsInv,
           \/ \E f \in Factuur : ConvertFactuur(f)
           \/ \E reply \in {"ready", "bare", "error"} : ConvertItem(reply)
           \/ ConvertGroep \/ PassOver \/ Return
    PROVE  CallsInv'
  <1>1. run \in RunWith(run.vatcodes) /\ page' = page
    BY DEF VATInv, ConvertFactuur, ConvertItem, ConvertGroep, PassOver, Return
  <1>2. ASSUME run'.stack = << >>  PROVE Nested(run'.stack)
    BY <1>2 DEF Nested
  <1>3. ASSUME NEW error, NEW btw, Fail(error, btw)  PROVE CallsInv'
    <2>1. run'.stack = << >>
      BY <1>1, <1>3 DEF Fail, RunWith
    <2>. QED  BY <1>1, <1>2, <2>1 DEF CallsInv
  <1>4. ASSUME NEW stack, run'.stack = stack, Nested(stack),
               run'.pc = "convert"
        PROVE  CallsInv'
    BY <1>1, <1>4 DEF CallsInv
  <1>5. ASSUME NEW f \in Factuur, ConvertFactuur(f)  PROVE CallsInv'
    <2>. DEFINE fr == Frame(Regels[f], One)
    <2>1. run'.stack = <<fr>> /\ run'.pc = "convert"
      BY <1>1, <1>5 DEF ConvertFactuur, RunWith
    <2>2. fr \in FrameWith(run.vatcodes) /\ fr.i = 1
      BY FrameType, FactuurregelsAssumption DEF Frame, One, Fraction
    <2>. HIDE DEF fr
    <2>3. fr.i <= Len(fr.regels) + 1
      BY <2>2, ListLength
    <2>4. Nested(<<fr>>)
      BY <2>3 DEF Nested
    <2>. QED  BY <1>4, <2>1, <2>4
  <1>6. ASSUME NEW reply, ConvertItem(reply)  PROVE CallsInv'
    <2>. DEFINE a == Amount(Regel, Top.factor)
    <2>1. AtRegel /\ run.pc = "convert"
      BY <1>6 DEF ConvertItem, AtRegel
    <2>2. \/ \E error, btw : Fail(error, btw)
          \/ run' = [run EXCEPT !.stack = Advance(<< >>), !.seen = @ + 1]
          \/ run' = [run EXCEPT !.stack = Advance(<<Line(Regel, a)>>),
                                !.seen = @ + 1]
      BY <1>6 DEF ConvertItem
    <2>. HIDE DEF a
    <2>3. \/ \E error, btw : Fail(error, btw)
          \/ /\ run'.pc = "convert"
             /\ \E lines : run'.stack = Advance(lines)
      BY <1>1, <2>1, <2>2 DEF RunWith
    <2>. QED  BY <1>3, <1>4, <2>1, <2>3, AdvanceNested
  <1>7. CASE ConvertGroep
    <2>. DEFINE fr == Frame(Regel.regels, Reduce(Top.factor, Regel.korting))
    <2>1. AtRegel /\ run.pc = "convert" /\ Regel.type = "groep"
      BY <1>7 DEF ConvertGroep, AtRegel
    <2>2. run'.stack = <<fr>> \o run.stack /\ run'.pc = "convert"
      BY <1>1, <1>7, <2>1 DEF ConvertGroep, RunWith
    <2>3. Regel \in Groep
      BY <2>1, RegelType DEF Item, Groep, Other
    <2>4. fr \in FrameWith(run.vatcodes) /\ fr.i = 1
      BY <2>1, <2>3, TopType, ReduceType, FrameType
      DEF FrameWith, Groep, Frame
    <2>. HIDE DEF fr
    <2>5. fr.i <= Len(fr.regels) + 1
      BY <2>4, ListLength
    <2>6. \A k \in DOMAIN run.stack :
            run.stack[k].i <= Len(run.stack[k].regels)
      <3>1. run.stack[1].i <= Len(run.stack[1].regels)
        BY <2>1, CallersAtLine DEF AtRegel
      <3>2. run.stack \in Seq(FrameWith(run.vatcodes))
        BY <1>1 DEF RunWith
      <3>3. \A k \in DOMAIN run.stack : k = 1 \/ k > 1
        BY <3>2
      <3>. QED  BY <3>1, <3>3 DEF CallsInv, Nested
    <2>7. run.stack \in Seq(FrameWith(run.vatcodes))
      BY <1>1 DEF RunWith
    <2>8. Nested(<<fr>> \o run.stack)
      BY <2>1, <2>5, <2>6, <2>7, CallersAtLine, NestedInFront
    <2>. QED  BY <1>4, <2>2, <2>8
  <1>8. CASE PassOver
    <2>1. AtRegel /\ run.pc = "convert"
      BY <1>8 DEF PassOver, AtRegel
    <2>2. run'.stack = Advance(<< >>) /\ run'.pc = "convert"
      BY <1>1, <1>8, <2>1 DEF PassOver, RunWith
    <2>. QED  BY <1>4, <2>1, <2>2, AdvanceNested
  <1>9. CASE Return
    <2>. DEFINE rest == Tail(run.stack)
                caller == Head(rest)
                fr == [caller EXCEPT !.i = @ + 1, !.out = @ \o Top.out]
    <2>1. run.pc = "convert" /\ rest \in Seq(FrameWith(run.vatcodes))
      BY <1>9, TopType DEF Return
    <2>2. CASE rest = << >>
      <3>1. run'.stack = << >>
        BY <1>1, <1>9, <2>2 DEF Return, RunWith
      <3>2. run'.pc = "converted"
        BY <1>1, <1>9, <2>2 DEF Return, RunWith
      <3>. QED  BY <1>1, <1>2, <3>1, <3>2 DEF CallsInv
    <2>3. CASE rest # << >>
      <3>1. run'.stack = <<fr>> \o Tail(rest) /\ run'.pc = "convert"
        BY <1>1, <1>9, <2>1, <2>3 DEF Return, RunWith
      <3>2. \A k \in DOMAIN rest :
              /\ rest[k].i <= Len(rest[k].regels)
              /\ Len(rest[k].regels) \in Nat /\ rest[k].i \in Nat
        BY <2>1, CallersAtLine
      <3>3. caller = rest[1] /\ 1 \in DOMAIN rest
            /\ caller \in FrameWith(run.vatcodes)
            /\ Tail(rest) \in Seq(FrameWith(run.vatcodes))
        BY <2>1, <2>3, HeadTail, FirstElement
      <3>4. fr.i = caller.i + 1 /\ fr.regels = caller.regels
        BY <3>3 DEF FrameWith
      <3>. HIDE DEF rest, caller, fr
      <3>5. fr.i <= Len(fr.regels) + 1
        BY <3>2, <3>3, <3>4
      <3>6. \A k \in DOMAIN Tail(rest) :
              /\ Tail(rest)[k].i <= Len(Tail(rest)[k].regels)
              /\ Len(Tail(rest)[k].regels) \in Nat /\ Tail(rest)[k].i \in Nat
        BY <2>1, <2>3, <3>2, TailElements
      <3>7. Nested(<<fr>> \o Tail(rest))
        BY <3>3, <3>5, <3>6, NestedInFront
      <3>. QED  BY <1>4, <3>1, <3>7
    <2>. QED  BY <2>2, <2>3
  <1>. QED  BY <1>5, <1>6, <1>7, <1>8, <1>9

LEMMA CallsInit == Init => CallsInv
  BY DEF Init, CallsInv, Idle, Nested

LEMMA CallsNext == VATInv /\ CallsInv /\ [Next]_vars => CallsInv'
  <1>. SUFFICES ASSUME VATInv, CallsInv, [Next]_vars  PROVE CallsInv'
    OBVIOUS
  <1>1. CASE GetRecrasVATCodes \/ FinishBedrijf
    <2>1. Idle.stack = << >>
      BY DEF Idle
    <2>2. run'.stack = << >> /\ page' = page
      BY <1>1, <2>1 DEF GetRecrasVATCodes, FinishBedrijf, Idle
    <2>. QED  BY <2>2 DEF CallsInv, Nested
  <1>2. CASE GetStatus
    BY <1>2 DEF GetStatus, CallsInv
  <1>3. ASSUME NEW c \in Code, NEW d \in Description \cup {None},
               Describe(c, d)
        PROVE  CallsInv'
    BY <1>3 DEF Describe, CallsInv
  <1>4. CASE UNCHANGED vars
    BY <1>4 DEF vars, CallsInv
  <1>. QED  BY <1>1, <1>2, <1>3, <1>4, CallsStep DEF Next

\* Type correctness, for lists of any length and groups of any depth: no call
\* ever runs past the end of its list, and the stack is empty between invoices.
THEOREM RegelsTypeCorrect == Spec => []TypeOK
  <1>1. VATInv /\ CallsInv => TypeOK
    <2>. SUFFICES ASSUME VATInv, CallsInv  PROVE TypeOK
      OBVIOUS
    <2>1. run \in RunWith(run.vatcodes)
      BY DEF VATInv
    <2>2. /\ run.pc \in {"idle", "converted", "convert"}
          /\ run.factuur \in Factuur \cup {None}
          /\ run.stack \in Seq(FrameWith(run.vatcodes))
          /\ run.vatcodes \in VATCodes
      BY <2>1 DEF RunWith
    <2>3. DOMAIN run.vatcodes \subseteq Int
      BY <2>2 DEF VATCodes
    <2>4. ASSUME NEW k \in DOMAIN run.stack
          PROVE  /\ run.stack[k].regels \in Lists
                 /\ run.stack[k].i \in 1..(Len(run.stack[k].regels) + 1)
      <3>1. run.stack[k] \in FrameWith(run.vatcodes)
        BY <2>2, Elements
      <3>. DEFINE i == run.stack[k].i
                  n == Len(run.stack[k].regels)
      <3>2. i \in Nat \ {0} /\ n \in Nat /\ i <= n + 1
        BY <3>1, ListLength DEF CallsInv, Nested
      <3>3. run.stack[k].regels \in Lists
        BY <3>1 DEF FrameWith
      <3>. HIDE DEF i, n
      <3>4. i \in 1..(n + 1)
        BY <3>2
      <3>. QED  BY <3>3, <3>4 DEF i, n
    <2>. QED  BY <2>2, <2>3, <2>4 DEF TypeOK, VATInv, CallsInv
  <1>. QED
    BY <1>1, CallsInit, CallsNext, InitInv, NextInv, PTL DEF Spec

-----------------------------------------------------------------------------
(* Induction, as facts about sets.                                          *)

\* Induction over numbers, by sets: the theorems of the library take an
\* operator, which cannot be given to them here.
LEMMA NatSetInduction ==
    ASSUME NEW S, 0 \in S, \A n \in Nat : n \in S => n + 1 \in S
    PROVE  Nat \subseteq S
  <1>. DEFINE R == {p \in Nat \X Nat : p[1] < p[2]}
              T == Nat \ S
  <1>1. R = OpToRel(<, Nat)
    BY Zenon DEF OpToRel
  <1>2. \A m, n \in Nat : m < n => <<m, n>> \in R
    OBVIOUS
  <1>. HIDE DEF R
  <1>3. IsWellFoundedOn(R, Nat)
    BY <1>1, NatLessThanWellFounded, Zenon
  <1>4. SUFFICES ASSUME T # {}  PROVE FALSE
    OBVIOUS
  <1>5. PICK n \in T : \A m \in T : <<m, n>> \notin R
    <2>1. T \subseteq Nat
      OBVIOUS
    <2>. HIDE DEF T
    <2>. QED  BY <1>3, <1>4, <2>1, WFMin
  <1>6. n \in Nat /\ n \notin S
    OBVIOUS
  <1>7. n - 1 \in Nat /\ n - 1 < n /\ (n - 1) + 1 = n
    <2>1. n # 0
      BY <1>6
    <2>. QED  BY <1>6, <2>1
  <1>8. n - 1 \in S
    BY <1>2, <1>5, <1>6, <1>7
  <1>. QED  BY <1>6, <1>7, <1>8

\* Induction over sequences.
LEMMA AppendInduction ==
    ASSUME NEW S, NEW T, << >> \in T,
           \A s \in Seq(S), x \in S : s \in T => Append(s, x) \in T
    PROVE  Seq(S) \subseteq T
  <1>. DEFINE N == {n \in Nat : \A s \in Seq(S) : Len(s) = n => s \in T}
  <1>1. 0 \in N
    OBVIOUS
  <1>2. ASSUME NEW n \in Nat, n \in N  PROVE n + 1 \in N
    <2>1. SUFFICES ASSUME NEW s \in Seq(S), Len(s) = n + 1  PROVE s \in T
      OBVIOUS
    <2>. DEFINE front == [i \in 1..n |-> s[i]]
    <2>2. front \in Seq(S) /\ Len(front) = n /\ s[n + 1] \in S
      BY <2>1
    <2>3. s = Append(front, s[n + 1])
      BY <2>1
    <2>. HIDE DEF front
    <2>4. front \in T
      BY <1>2, <2>2
    <2>. QED  BY <2>2, <2>3, <2>4
  <1>. HIDE DEF N
  <1>3. Nat \subseteq N
    BY <1>1, <1>2, NatSetInduction
  <1>4. ASSUME NEW s \in Seq(S)  PROVE s \in T
    <2>1. Len(s) \in Nat
      OBVIOUS
    <2>. QED  BY <1>3, <2>1 DEF N
  <1>. QED  BY <1>4

-----------------------------------------------------------------------------
(* Recursive functions.  TLA+ defines one as some function that solves an   *)
(* equation, so that one exists has to be proved: for a function on a set S *)
(* where what D needs to know at x is its values at below[x].               *)

\* Whatever is chosen of S, there is something with nothing of it below.
Grounded(S, below) ==
    /\ below \in [S -> SUBSET S]
    /\ \A T \in SUBSET S : T # {} => \E x \in T : below[x] \cap T = {}

\* D[<<f, x>>] is the value at x, if f is right below x.
Recursive(D, S, A, below) ==
    /\ D \in [[S -> A] \X S -> A]
    /\ \A f, g \in [S -> A], x \in S :
         (\A y \in below[x] : f[y] = g[y]) => D[<<f, x>>] = D[<<g, x>>]

\* The equation holds on C.
Solves(f, D, C) == \A x \in C : f[x] = D[<<f, x>>]

\* With each of its elements C has all that is below it.
Closed(C, S, below) == C \in SUBSET S /\ \A x \in C : below[x] \subseteq C

\* Two solutions are the same where both are.
LEMMA SolutionsAgree ==
    ASSUME NEW S, NEW A, NEW below, Grounded(S, below),
           NEW D, Recursive(D, S, A, below),
           NEW C, Closed(C, S, below), NEW f \in [S -> A], Solves(f, D, C),
           NEW E, Closed(E, S, below), NEW g \in [S -> A], Solves(g, D, E)
    PROVE  \A x \in C \cap E : f[x] = g[x]
  <1>. DEFINE T == {x \in C \cap E : f[x] # g[x]}
  <1>1. SUFFICES ASSUME T # {}  PROVE FALSE
    OBVIOUS
  <1>2. T \in SUBSET S
    BY DEF Closed
  <1>3. PICK x \in T : below[x] \cap T = {}
    BY <1>1, <1>2 DEF Grounded
  <1>4. \A y \in below[x] : f[y] = g[y]
    BY <1>3 DEF Closed
  <1>5. D[<<f, x>>] = D[<<g, x>>]
    BY <1>2, <1>4 DEF Recursive
  <1>. QED  BY <1>5 DEF Solves

\* There is a solution on all of S: what the solutions on parts of S agree on.
LEMMA RecursionSolved ==
    ASSUME NEW S, NEW A, A # {}, NEW below, Grounded(S, below),
           NEW D, Recursive(D, S, A, below)
    PROVE  \E f \in [S -> A] : Solves(f, D, S)
  <1>. DEFINE P(x, f) == /\ f \in [S -> A]
                         /\ \E C : Closed(C, S, below) /\ x \in C /\ Solves(f, D, C)
              W == {x \in S : \E f : P(x, f)}
              h == [x \in S |-> CHOOSE f : P(x, f)]
  <1>1. PICK a \in A : TRUE
    OBVIOUS
  <1>. DEFINE r == [x \in S |-> IF x \in W THEN h[x][x] ELSE a]
  <1>2. \A x \in W : P(x, h[x])
    <2>1. \A x \in W : x \in S /\ \E f : P(x, f)
      OBVIOUS
    <2>2. \A x \in S : h[x] = CHOOSE f : P(x, f)
      OBVIOUS
    <2>. HIDE DEF P, h
    <2>. QED  BY <2>1, <2>2
  <1>3. W \subseteq S
    OBVIOUS
  <1>4. ASSUME NEW C, Closed(C, S, below), NEW f \in [S -> A],
               Solves(f, D, C)
        PROVE  C \subseteq W
    BY <1>4 DEF Closed
  <1>. HIDE DEF h, W
  <1>5. r \in [S -> A] /\ \A x \in W : r[x] = h[x][x]
    BY <1>2, <1>3
  <1>. HIDE DEF r
  <1>6. ASSUME NEW x \in W
        PROVE  /\ below[x] \subseteq W
               /\ r[x] = D[<<r, x>>]
    <2>1. PICK C : Closed(C, S, below) /\ x \in C /\ Solves(h[x], D, C)
      BY <1>2
    <2>2. h[x] \in [S -> A] /\ C \subseteq W
      BY <1>2, <1>4, <2>1
    <2>3. below[x] \subseteq W
      BY <2>1, <2>2 DEF Closed
    <2>4. ASSUME NEW y \in C  PROVE h[x][y] = r[y]
      <3>1. PICK E : Closed(E, S, below) /\ y \in E /\ Solves(h[y], D, E)
        BY <1>2, <2>2
      <3>2. h[y] \in [S -> A]
        BY <1>2, <2>2
      <3>3. \A f, g \in [S -> A] :
              Solves(f, D, C) /\ Solves(g, D, E) =>
                \A z \in C \cap E : f[z] = g[z]
        BY <2>1, <3>1, SolutionsAgree
      <3>4. h[x][y] = h[y][y]
        BY <2>1, <2>2, <3>1, <3>2, <3>3
      <3>. QED  BY <1>5, <2>2, <3>4
    <2>5. D[<<h[x], x>>] = D[<<r, x>>]
      <3>1. below[x] \subseteq C /\ x \in S
        BY <2>1 DEF Closed
      <3>. QED  BY <1>5, <2>2, <2>4, <3>1 DEF Recursive
    <2>6. h[x][x] = D[<<h[x], x>>]
      BY <2>1 DEF Solves
    <2>. QED  BY <1>5, <2>3, <2>5, <2>6
  <1>7. W = S
    <2>1. SUFFICES ASSUME S \ W # {}  PROVE FALSE
      BY <1>3
    <2>2. PICK x \in S \ W : below[x] \cap (S \ W) = {}
      BY <2>1 DEF Grounded
    <2>. DEFINE C == W \cup {x}
                g == [y \in S |-> IF y = x THEN D[<<r, x>>] ELSE r[y]]
    <2>3. below[x] \subseteq W
      BY <2>2 DEF Grounded
    <2>4. Closed(C, S, below)
      BY <1>3, <1>6, <2>3 DEF Closed
    <2>5. g \in [S -> A] /\ g[x] = D[<<r, x>>] /\ \A y \in W : g[y] = r[y]
      BY <1>3, <1>5 DEF Recursive
    <2>. HIDE DEF g
    <2>6. \A y \in C : D[<<g, y>>] = D[<<r, y>>]
      <3>1. \A y \in C : y \in S /\ \A z \in below[y] : g[z] = r[z]
        BY <1>3, <1>6, <2>3, <2>5
      <3>. QED  BY <1>5, <2>5, <3>1 DEF Recursive
    <2>7. Solves(g, D, C)
      BY <1>6, <2>5, <2>6 DEF Solves
    <2>8. x \in W
      BY <1>4, <2>4, <2>5, <2>7
    <2>. QED  BY <2>8
  <1>. QED  BY <1>5, <1>6, <1>7 DEF Solves

-----------------------------------------------------------------------------
(* Loops, and the flattening of sequences by one.                           *)

\* A loop: f[i] is what step i makes of what came out of the step before it.
IsLoop(f, n, A, a, step) ==
    /\ f \in [1..n -> A]
    /\ \A i \in 1..n : f[i] = step[<<i, IF i = 1 THEN a ELSE f[i - 1]>>]

\* Every loop can be run.
LEMMA LoopSolved ==
    ASSUME NEW A, NEW a \in A, NEW n \in Nat, NEW step \in [(1..n) \X A -> A]
    PROVE  \E f : IsLoop(f, n, A, a, step)
  <1>. DEFINE P(f, k) == \A i \in 1..k :
                f[i] = step[<<i, IF i = 1 THEN a ELSE f[i - 1]>>]
              N == {k \in Nat : k <= n => \E f \in [1..n -> A] : P(f, k)}
  <1>1. 0 \in N
    <2>1. [i \in 1..n |-> a] \in [1..n -> A] /\ 1..0 = {}
      OBVIOUS
    <2>2. \A f : P(f, 0)
      BY <2>1
    <2>. HIDE DEF P
    <2>. QED  BY <2>1, <2>2
  <1>2. ASSUME NEW k \in Nat, k \in N  PROVE k + 1 \in N
    <2>1. SUFFICES ASSUME k + 1 <= n
                   PROVE  \E f \in [1..n -> A] : P(f, k + 1)
      OBVIOUS
    <2>2. PICK f \in [1..n -> A] : P(f, k)
      BY <1>2, <2>1
    <2>. DEFINE x == step[<<k + 1, IF k = 0 THEN a ELSE f[k]>>]
                g == [f EXCEPT ![k + 1] = x]
    <2>3. x \in A
      BY <2>1
    <2>. HIDE DEF x
    <2>4. /\ g \in [1..n -> A] /\ g[k + 1] = x
          /\ \A i \in 1..k : g[i] = f[i]
      BY <2>1, <2>3
    <2>. HIDE DEF g
    <2>5. ASSUME NEW i \in 1..(k + 1)
          PROVE  g[i] = step[<<i, IF i = 1 THEN a ELSE g[i - 1]>>]
      <3>1. CASE i \in 1..k
        <4>1. i # 1 => i - 1 \in 1..k
          BY <3>1
        <4>. QED  BY <2>2, <2>4, <3>1, <4>1
      <3>2. CASE i = k + 1
        <4>1. k # 0 => k \in 1..k /\ (k + 1) - 1 = k
          OBVIOUS
        <4>2. k + 1 = 1 <=> k = 0
          OBVIOUS
        <4>. QED  BY <2>4, <3>2, <4>1, <4>2 DEF x
      <3>. QED  BY <3>1, <3>2
    <2>. QED  BY <2>4, <2>5
  <1>3. n \in N
    <2>. HIDE DEF N
    <2>. QED  BY <1>1, <1>2, NatSetInduction
  <1>. QED  BY <1>3 DEF IsLoop

\* The function by which FlattenSeq is defined.
LEMMA FlattenFunction ==
    ASSUME NEW S, NEW s \in Seq(Seq(S)), s # << >>
    PROVE  \E f \in [1..Len(s) -> Seq(S)] :
             /\ \A i \in 1..Len(s) : f[i] = IF i = 1 THEN s[i] ELSE f[i - 1] \o s[i]
             /\ FlattenSeq(s) = f[Len(s)]
  <1>. DEFINE I == 1..Len(s)
              body(f) == [i \in I |-> IF i = 1 THEN s[i] ELSE f[i - 1] \o s[i]]
              step == [p \in I \X Seq(S) |-> p[2] \o s[p[1]]]
  <1>1. step \in [I \X Seq(S) -> Seq(S)]
    BY Joined
  <1>2. \A i \in I, t \in Seq(S) : step[<<i, t>>] = t \o s[i]
    OBVIOUS
  <1>. HIDE DEF step
  <1>3. << >> \in Seq(S) /\ Len(s) \in Nat
    OBVIOUS
  <1>4. \E f : IsLoop(f, Len(s), Seq(S), << >>, step)
    BY <1>1, <1>3, LoopSolved
  <1>5. \E f : f = body(f)
    <2>1. PICK f \in [I -> Seq(S)] : \A i \in I :
             f[i] = step[<<i, IF i = 1 THEN << >> ELSE f[i - 1]>>]
      BY <1>4 DEF IsLoop
    <2>2. ASSUME NEW i \in I  PROVE f[i] = IF i = 1 THEN s[i] ELSE f[i - 1] \o s[i]
      <3>1. i = 1 \/ i - 1 \in I
        OBVIOUS
      <3>2. s[i] \in Seq(S)
        OBVIOUS
      <3>3. << >> \o s[i] = s[i]
        BY <3>2
      <3>. QED  BY <1>2, <1>3, <2>1, <3>1, <3>3
    <2>3. f = body(f)
      BY <2>2
    <2>. QED  BY <2>3
  <1>. DEFINE g == CHOOSE f : f = body(f)
  <1>6. g = body(g)
    <2>. HIDE DEF body
    <2>. QED  BY <1>5
  <1>7. FlattenSeq(s) = g[Len(s)]
    <2>1. Len(s) # 0
      OBVIOUS
    <2>. QED  BY <2>1, Zenon DEF FlattenSeq
  <1>. HIDE DEF g
  <1>8. \A i \in I : g[i] = IF i = 1 THEN s[i] ELSE g[i - 1] \o s[i]
    BY <1>6
  <1>9. ASSUME NEW i \in I  PROVE g[i] \in Seq(S)
    <2>. DEFINE N == {n \in Nat : n \in I => g[n] \in Seq(S)}
    <2>1. 0 \in N
      OBVIOUS
    <2>2. ASSUME NEW n \in Nat, n \in N  PROVE n + 1 \in N
      <3>1. SUFFICES ASSUME n + 1 \in I PROVE g[n + 1] \in Seq(S)
        OBVIOUS
      <3>2. s[n + 1] \in Seq(S)
        BY <3>1
      <3>3. n # 0 => n \in I /\ (n + 1) - 1 = n
        BY <3>1
      <3>. HIDE DEF I
      <3>4. CASE n = 0
        BY <1>8, <3>1, <3>2, <3>4
      <3>5. CASE n # 0
        <4>1. n \in I /\ g[n] \in Seq(S) /\ n + 1 # 1
          BY <2>2, <3>3, <3>5
        <4>2. g[n + 1] = g[n] \o s[n + 1]
          BY <1>8, <3>1, <3>3, <3>5, <4>1
        <4>. QED  BY <3>2, <4>1, <4>2, Joined
      <3>. QED  BY <3>4, <3>5
    <2>. HIDE DEF N
    <2>3. Nat \subseteq N
      BY <2>1, <2>2, NatSetInduction
    <2>. QED  BY <2>3 DEF N
  <1>10. g \in [I -> Seq(S)]
    BY <1>6, <1>9
  <1>. QED  BY <1>7, <1>8, <1>10

LEMMA FlattenEmpty == FlattenSeq(<< >>) = << >>
  BY DEF FlattenSeq

LEMMA FlattenType ==
    ASSUME NEW S, NEW s \in Seq(Seq(S))
    PROVE  FlattenSeq(s) \in Seq(S)
  <1>1. CASE s = << >>
    <2>1. << >> \in Seq(S)
      OBVIOUS
    <2>. QED  BY <1>1, <2>1, FlattenEmpty, Zenon
  <1>2. CASE s # << >>
    <2>1. Len(s) \in 1..Len(s)
      BY <1>2
    <2>2. PICK f \in [1..Len(s) -> Seq(S)] : FlattenSeq(s) = f[Len(s)]
      BY <1>2, FlattenFunction
    <2>. QED  BY <2>1, <2>2
  <1>. QED  BY <1>1, <1>2

LEMMA Appended ==
    ASSUME NEW R, NEW s \in Seq(R), NEW e \in R
    PROVE  /\ Append(s, e) \in Seq(R) /\ Append(s, e) # << >>
           /\ Len(Append(s, e)) = Len(s) + 1 /\ Len(s) \in Nat
           /\ \A i \in 1..Len(s) : Append(s, e)[i] = s[i] /\ s[i] \in R
           /\ Append(s, e)[Len(s) + 1] = e
           /\ s # << >> => Len(s) # 0
  OBVIOUS

\* One sequence more at the end.
LEMMA FlattenAppend ==
    ASSUME NEW S, NEW s \in Seq(Seq(S)), NEW e \in Seq(S)
    PROVE  FlattenSeq(Append(s, e)) = FlattenSeq(s) \o e
  <1>. DEFINE t == Append(s, e)
  <1>1. /\ t \in Seq(Seq(S)) /\ t # << >> /\ Len(t) = Len(s) + 1
        /\ \A i \in 1..Len(s) : t[i] = s[i]
        /\ t[Len(s) + 1] = e /\ Len(s) \in Nat
    BY Appended
  <1>. HIDE DEF t
  <1>2. PICK g \in [1..Len(t) -> Seq(S)] :
          /\ \A i \in 1..Len(t) : g[i] = IF i = 1 THEN t[i] ELSE g[i - 1] \o t[i]
          /\ FlattenSeq(t) = g[Len(t)]
    BY <1>1, FlattenFunction
  <1>3. CASE s = << >>
    <2>1. FlattenSeq(t) = e
      BY <1>1, <1>2, <1>3
    <2>2. << >> \o e = e
      OBVIOUS
    <2>. QED  BY <1>3, <2>1, <2>2, FlattenEmpty DEF t
  <1>4. CASE s # << >>
    <2>1. PICK f \in [1..Len(s) -> Seq(S)] :
            /\ \A i \in 1..Len(s) : f[i] = IF i = 1 THEN s[i] ELSE f[i - 1] \o s[i]
            /\ FlattenSeq(s) = f[Len(s)]
      BY <1>4, FlattenFunction
    <2>. DEFINE N == {n \in Nat : n \in 1..Len(s) => f[n] = g[n]}
    <2>2. 0 \in N
      OBVIOUS
    <2>3. ASSUME NEW n \in Nat, n \in N  PROVE n + 1 \in N
      <3>1. SUFFICES ASSUME n + 1 \in 1..Len(s)  PROVE f[n + 1] = g[n + 1]
        OBVIOUS
      <3>2. n + 1 \in 1..Len(t) /\ t[n + 1] = s[n + 1] /\ (n + 1) - 1 = n
        BY <1>1, <3>1
      <3>3. CASE n = 0
        <4>1. n + 1 = 1
          BY <3>3
        <4>2. f[n + 1] = s[n + 1]
          BY <2>1, <3>1, <4>1
        <4>3. g[n + 1] = t[n + 1]
          BY <1>2, <3>2, <4>1
        <4>. QED  BY <3>2, <4>2, <4>3
      <3>4. CASE n # 0
        <4>1. f[n] = g[n] /\ n + 1 # 1
          BY <2>3, <3>1, <3>4
        <4>2. f[n + 1] = f[n] \o s[n + 1]
          BY <2>1, <3>1, <3>2, <4>1
        <4>3. g[n + 1] = g[n] \o t[n + 1]
          BY <1>2, <3>2, <4>1
        <4>. QED  BY <3>2, <4>1, <4>2, <4>3
      <3>. QED  BY <3>3, <3>4
    <2>. HIDE DEF N
    <2>4. Nat \subseteq N
      BY <2>2, <2>3, NatSetInduction
    <2>5. Len(s) \in Nat /\ Len(s) \in 1..Len(s)
      BY <1>4
    <2>6. f[Len(s)] = g[Len(s)]
      BY <2>4, <2>5 DEF N
    <2>7. /\ Len(s) + 1 \in 1..Len(t) /\ Len(s) + 1 # 1
          /\ (Len(s) + 1) - 1 = Len(s)
      BY <1>1, <2>5
    <2>8. g[Len(s) + 1] = g[Len(s)] \o e
      BY <1>1, <1>2, <2>7
    <2>. QED  BY <1>1, <1>2, <2>1, <2>6, <2>8 DEF t
  <1>. QED  BY <1>3, <1>4

LEMMA FlattenSingle ==
    ASSUME NEW S, NEW e \in Seq(S)
    PROVE  FlattenSeq(<<e>>) = e
  <1>1. << >> \in Seq(Seq(S)) /\ Append(<< >>, e) = <<e>> /\ << >> \o e = e
    OBVIOUS
  <1>. QED  BY <1>1, FlattenAppend, FlattenEmpty

\* Flattened in two parts.
LEMMA FlattenConcat ==
    ASSUME NEW S, NEW s \in Seq(Seq(S)), NEW t \in Seq(Seq(S))
    PROVE  FlattenSeq(s \o t) = FlattenSeq(s) \o FlattenSeq(t)
  <1>. DEFINE T == {u \in Seq(Seq(S)) :
                      FlattenSeq(s \o u) = FlattenSeq(s) \o FlattenSeq(u)}
  <1>1. << >> \in T
    <2>1. << >> \in Seq(Seq(S)) /\ s \o << >> = s
      OBVIOUS
    <2>2. FlattenSeq(s) \o << >> = FlattenSeq(s)
      BY FlattenType
    <2>. QED  BY <2>1, <2>2, FlattenEmpty
  <1>2. ASSUME NEW u \in Seq(Seq(S)), NEW x \in Seq(S), u \in T
        PROVE  Append(u, x) \in T
    <2>1. /\ s \o Append(u, x) = Append(s \o u, x)
          /\ s \o u \in Seq(Seq(S)) /\ Append(u, x) \in Seq(Seq(S))
      OBVIOUS
    <2>2. FlattenSeq(Append(s \o u, x)) = FlattenSeq(s \o u) \o x
      BY <2>1, FlattenAppend
    <2>3. FlattenSeq(Append(u, x)) = FlattenSeq(u) \o x
      BY FlattenAppend
    <2>4. (FlattenSeq(s) \o FlattenSeq(u)) \o x
            = FlattenSeq(s) \o (FlattenSeq(u) \o x)
      <3>1. FlattenSeq(s) \in Seq(S) /\ FlattenSeq(u) \in Seq(S)
        BY FlattenType
      <3>2. \A a, b, c \in Seq(S) : (a \o b) \o c = a \o (b \o c)
        BY SMTT(30)
      <3>. QED  BY <3>1, <3>2, Zenon
    <2>. QED  BY <1>2, <2>1, <2>2, <2>3, <2>4
  <1>. HIDE DEF T
  <1>3. Seq(Seq(S)) \subseteq T
    BY <1>1, <1>2, AppendInduction
  <1>. QED  BY <1>3 DEF T

\* One sequence more in front.
LEMMA FlattenCons ==
    ASSUME NEW S, NEW s \in Seq(Seq(S)), NEW e \in Seq(S)
    PROVE  FlattenSeq(<<e>> \o s) = e \o FlattenSeq(s)
  <1>1. <<e>> \in Seq(Seq(S))
    OBVIOUS
  <1>2. FlattenSeq(<<e>> \o s) = FlattenSeq(<<e>>) \o FlattenSeq(s)
    BY <1>1, FlattenConcat, Zenon
  <1>. QED  BY <1>2, FlattenSingle

-----------------------------------------------------------------------------
(* Sums.                                                                    *)

\* The fold takes the indices from the highest down.
LEMMA MaxOfSome ==
    ASSUME NEW n \in Nat, NEW s \in SUBSET (1..n), s # {}
    PROVE  Max(s) \in s /\ \A x \in s : Max(s) >= x
  <1>. DEFINE P(t) == \E x \in t : \A y \in t : x >= y
              N == {k \in Nat : \A t \in SUBSET (1..k) : t # {} => P(t)}
  <1>1. 0 \in N
    <2>1. 1..0 = {}
      OBVIOUS
    <2>. HIDE DEF P
    <2>. QED  BY <2>1
  <1>2. ASSUME NEW k \in Nat, k \in N  PROVE k + 1 \in N
    <2>1. SUFFICES ASSUME NEW t \in SUBSET (1..(k + 1)), t # {}  PROVE P(t)
      OBVIOUS
    <2>2. CASE k + 1 \in t
      <3>1. \A y \in t : k + 1 >= y
        OBVIOUS
      <3>. QED  BY <2>2, <3>1
    <2>3. CASE k + 1 \notin t
      <3>1. t \in SUBSET (1..k)
        BY <2>3
      <3>. QED  BY <1>2, <2>1, <3>1
    <2>. QED  BY <2>2, <2>3
  <1>3. n \in N
    <2>. HIDE DEF N
    <2>. QED  BY <1>1, <1>2, NatSetInduction
  <1>4. P(s)
    BY <1>3
  <1>. QED  BY <1>4, Zenon DEF Max

\* The function by which the sum is defined.
SumBody(f, s) ==
    [t \in SUBSET DOMAIN s |->
       IF t = {} THEN 0 ELSE f[t \ {Max(t)}] + s[Max(t)]]

\* The sum is a fold of the community modules.
LEMMA SumUnfolded ==
    ASSUME NEW s
    PROVE  Sum(s) = (CHOOSE f : f = SumBody(f, s))[DOMAIN s]
  BY Zenon DEF Sum, FoldLeft, MapThenFoldSet, SumBody

\* What that recursion comes to: the numbers are added one by one.
LEMMA SumIterates ==
    ASSUME NEW s \in Seq(Int)
    PROVE  \E f \in [SUBSET (1..Len(s)) -> Int] :
             /\ f[{}] = 0
             /\ \A i \in 1..Len(s) : f[1..i] = f[1..(i - 1)] + s[i]
             /\ Sum(s) = f[1..Len(s)]
  <1>. DEFINE n == Len(s)
              S == SUBSET (1..n)
              below == [t \in S |-> IF t = {} THEN {} ELSE {t \ {Max(t)}}]
              D == [p \in [S -> Int] \X S |->
                      IF p[2] = {} THEN 0
                      ELSE p[1][p[2] \ {Max(p[2])}] + s[Max(p[2])]]
  <1>1. n \in Nat /\ DOMAIN s = 1..n /\ \A i \in 1..n : s[i] \in Int
    OBVIOUS
  <1>. HIDE DEF n
  <1>2. \A t \in S : t # {} => Max(t) \in t /\ t \ {Max(t)} \in S /\ s[Max(t)] \in Int
    BY <1>1, MaxOfSome
  <1>3. Grounded(S, below)
    <2>1. below \in [S -> SUBSET S]
      BY <1>2
    <2>2. ASSUME NEW T \in SUBSET S, T # {}
          PROVE  \E t \in T : below[t] \cap T = {}
      <3>. DEFINE Q == \E t \in T : below[t] \cap T = {}
                  N == {k \in Nat : (\E t \in T : t \subseteq 1..k) => Q}
      <3>1. 0 \in N
        <4>1. ASSUME NEW t \in T, t \subseteq 1..0  PROVE Q
          <5>1. t = {} /\ t \in S
            BY <4>1
          <5>2. below[t] = {}
            BY <5>1
          <5>. QED  BY <5>2
        <4>. HIDE DEF Q
        <4>. QED  BY <4>1
      <3>2. ASSUME NEW k \in Nat, k \in N  PROVE k + 1 \in N
        <4>1. ASSUME NEW t \in T, t \subseteq 1..(k + 1)  PROVE Q
          <5>1. CASE below[t] \cap T = {}
            BY <5>1
          <5>2. CASE below[t] \cap T # {}
            <6>1. t # {} /\ below[t] = {t \ {Max(t)}} /\ t \ {Max(t)} \in T
              BY <5>2
            <6>2. t \in SUBSET (1..(k + 1)) /\ k + 1 \in Nat
              BY <4>1
            <6>3. Max(t) \in t /\ \A x \in t : Max(t) >= x
              BY <6>1, <6>2, MaxOfSome
            <6>4. t \ {Max(t)} \subseteq 1..k
              <7>. DEFINE m == Max(t)
              <7>1. m \in 1..(k + 1) /\ \A x \in t : m >= x
                BY <6>2, <6>3
              <7>. HIDE DEF m
              <7>2. ASSUME NEW x \in t \ {m}  PROVE x \in 1..k
                BY <6>2, <7>1
              <7>. QED  BY <7>2 DEF m
            <6>. HIDE DEF Q, below
            <6>. QED  BY <3>2, <6>1, <6>4
          <5>. QED  BY <5>1, <5>2
        <4>. HIDE DEF Q
        <4>. QED  BY <4>1
      <3>3. n \in N
        <4>. HIDE DEF N
        <4>. QED  BY <1>1, <3>1, <3>2, NatSetInduction
      <3>4. \E t \in T : t \subseteq 1..n
        BY <2>2
      <3>. HIDE DEF Q
      <3>5. Q
        BY <3>3, <3>4
      <3>. QED  BY <3>5 DEF Q
    <2>. HIDE DEF below
    <2>. QED  BY <2>1, <2>2 DEF Grounded
  <1>4. Recursive(D, S, Int, below)
    <2>1. ASSUME NEW f \in [S -> Int], NEW t \in S
          PROVE  t # {} => D[<<f, t>>] = f[t \ {Max(t)}] + s[Max(t)]
      OBVIOUS
    <2>2. \A f \in [S -> Int] : D[<<f, {}>>] = 0
      OBVIOUS
    <2>3. D = [p \in [S -> Int] \X S |-> D[p]]
      OBVIOUS
    <2>4. \A t \in S : t # {} => below[t] = {t \ {Max(t)}}
      OBVIOUS
    <2>. HIDE DEF D, below, S
    <2>5. D \in [[S -> Int] \X S -> Int]
      <3>1. ASSUME NEW f \in [S -> Int], NEW t \in S  PROVE D[<<f, t>>] \in Int
        <4>1. CASE t = {}
          BY <2>2, <4>1
        <4>2. CASE t # {}
          <5>1. f[t \ {Max(t)}] \in Int /\ s[Max(t)] \in Int
            BY <1>2, <4>2
          <5>2. D[<<f, t>>] = f[t \ {Max(t)}] + s[Max(t)]
            BY <2>1, <4>2
          <5>. QED  BY <5>1, <5>2
        <4>. QED  BY <4>1, <4>2
      <3>2. \A p \in [S -> Int] \X S : D[p] \in Int
        BY <3>1
      <3>. QED  BY <2>3, <3>2
    <2>6. ASSUME NEW f \in [S -> Int], NEW h \in [S -> Int], NEW t \in S,
                 \A u \in below[t] : f[u] = h[u]
          PROVE  D[<<f, t>>] = D[<<h, t>>]
      <3>1. CASE t = {}
        BY <2>2, <3>1
      <3>2. CASE t # {}
        <4>1. f[t \ {Max(t)}] = h[t \ {Max(t)}]
          BY <2>4, <2>6, <3>2
        <4>. QED  BY <2>1, <3>2, <4>1
      <3>. QED  BY <3>1, <3>2
    <2>. QED  BY <2>5, <2>6 DEF Recursive
  <1>5. \E f \in [S -> Int] : Solves(f, D, S)
    <2>1. Int # {}
      OBVIOUS
    <2>. HIDE DEF D, below, S
    <2>. QED  BY <1>3, <1>4, <2>1, RecursionSolved
  <1>6. \E f : f = SumBody(f, s)
    <2>1. PICK f \in [S -> Int] : \A t \in S : f[t] = D[<<f, t>>]
      BY <1>5 DEF Solves
    <2>2. \A t \in S : f[t] = IF t = {} THEN 0 ELSE f[t \ {Max(t)}] + s[Max(t)]
      BY <2>1
    <2>3. f = [t \in S |-> f[t]]
      BY <2>1
    <2>4. f = SumBody(f, s)
      BY <1>1, <2>2, <2>3 DEF SumBody
    <2>. QED  BY <2>4
  <1>. DEFINE g == CHOOSE f : f = SumBody(f, s)
  <1>7. g = SumBody(g, s)
    BY <1>6
  <1>8. Sum(s) = g[1..n]
    BY <1>1, SumUnfolded
  <1>. HIDE DEF g
  <1>9. \A t \in S : t # {} => g[t] = g[t \ {Max(t)}] + s[Max(t)]
    BY <1>1, <1>7 DEF SumBody
  <1>10. g[{}] = 0
    BY <1>1, <1>7 DEF SumBody
  <1>11. \A t \in S : g[t] \in Int
    <2>. DEFINE T == {t \in S : g[t] \notin Int}
    <2>1. SUFFICES ASSUME T # {}  PROVE FALSE
      OBVIOUS
    <2>2. T \in SUBSET S
      OBVIOUS
    <2>. HIDE DEF T
    <2>3. PICK t \in T : below[t] \cap T = {}
      BY <1>3, <2>1, <2>2 DEF Grounded
    <2>4. t \in S /\ g[t] \notin Int
      BY DEF T
    <2>5. t # {}
      <3>1. SUFFICES ASSUME t = {}  PROVE FALSE
        OBVIOUS
      <3>2. g[t] = 0
        BY <1>10, <3>1, Zenon
      <3>. QED  BY <2>4, <3>2
    <2>6. below[t] = {t \ {Max(t)}}
      BY <2>4, <2>5
    <2>. HIDE DEF below, S
    <2>7. t \ {Max(t)} \in S /\ s[Max(t)] \in Int
      BY <1>2, <2>4, <2>5
    <2>8. g[t \ {Max(t)}] \in Int
      BY <2>3, <2>6, <2>7 DEF T
    <2>9. g[t] = g[t \ {Max(t)}] + s[Max(t)]
      BY <1>9, <2>4, <2>5
    <2>. QED  BY <2>4, <2>7, <2>8, <2>9
  <1>12. g \in [S -> Int]
    BY <1>1, <1>7, <1>11 DEF SumBody
  <1>13. ASSUME NEW i \in 1..n  PROVE g[1..i] = g[1..(i - 1)] + s[i]
    <2>1. 1..i \in S /\ i \in 1..i /\ i \in Nat
      BY <1>1
    <2>2. Max(1..i) \in 1..i /\ \A x \in 1..i : Max(1..i) >= x
      BY <2>1, MaxOfSome
    <2>3. Max(1..i) = i
      BY <2>1, <2>2
    <2>4. (1..i) \ {i} = 1..(i - 1)
      BY <2>1
    <2>. HIDE DEF S
    <2>. QED  BY <1>9, <2>1, <2>3, <2>4
  <1>. QED  BY <1>8, <1>12, <1>10, <1>13 DEF n

LEMMA SumEmpty == Sum(<< >>) = 0
  <1>1. << >> \in Seq(Int) /\ Len(<< >>) = 0 /\ 1..0 = {}
    OBVIOUS
  <1>2. PICK f : f[{}] = 0 /\ Sum(<< >>) = f[1..0]
    BY <1>1, SumIterates
  <1>. QED  BY <1>1, <1>2

LEMMA SumType ==
    ASSUME NEW s \in Seq(Int)
    PROVE  Sum(s) \in Int
  <1>1. PICK f \in [SUBSET (1..Len(s)) -> Int] : Sum(s) = f[1..Len(s)]
    BY SumIterates
  <1>. QED  BY <1>1

LEMMA SumAppend ==
    ASSUME NEW s \in Seq(Int), NEW x \in Int
    PROVE  Sum(Append(s, x)) = Sum(s) + x
  <1>. DEFINE t == Append(s, x)
  <1>1. /\ t \in Seq(Int) /\ Len(t) = Len(s) + 1 /\ Len(s) \in Nat
        /\ \A i \in 1..Len(s) : t[i] = s[i]
        /\ t[Len(s) + 1] = x
    OBVIOUS
  <1>. HIDE DEF t
  <1>2. PICK g \in [SUBSET (1..Len(t)) -> Int] :
          /\ g[{}] = 0
          /\ \A i \in 1..Len(t) : g[1..i] = g[1..(i - 1)] + t[i]
          /\ Sum(t) = g[1..Len(t)]
    BY <1>1, SumIterates
  <1>3. PICK f \in [SUBSET (1..Len(s)) -> Int] :
          /\ f[{}] = 0
          /\ \A i \in 1..Len(s) : f[1..i] = f[1..(i - 1)] + s[i]
          /\ Sum(s) = f[1..Len(s)]
    BY SumIterates
  <1>. DEFINE N == {n \in Nat : n <= Len(s) => f[1..n] = g[1..n]}
  <1>4. 0 \in N
    <2>1. 1..0 = {}
      OBVIOUS
    <2>. QED  BY <1>2, <1>3, <2>1
  <1>5. ASSUME NEW n \in Nat, n \in N  PROVE n + 1 \in N
    <2>1. SUFFICES ASSUME n + 1 <= Len(s)  PROVE f[1..(n + 1)] = g[1..(n + 1)]
      OBVIOUS
    <2>2. /\ n + 1 \in 1..Len(s) /\ n + 1 \in 1..Len(t)
          /\ (n + 1) - 1 = n /\ n <= Len(s)
      BY <1>1, <2>1
    <2>3. f[1..(n + 1)] = f[1..n] + s[n + 1]
      BY <1>3, <2>2
    <2>4. g[1..(n + 1)] = g[1..n] + t[n + 1]
      BY <1>2, <2>2
    <2>. QED  BY <1>1, <1>5, <2>2, <2>3, <2>4
  <1>6. Len(s) \in N
    <2>. HIDE DEF N
    <2>. QED  BY <1>1, <1>4, <1>5, NatSetInduction
  <1>7. f[1..Len(s)] = g[1..Len(s)]
    BY <1>1, <1>6
  <1>8. Len(s) + 1 \in 1..Len(t) /\ (Len(s) + 1) - 1 = Len(s)
    BY <1>1
  <1>9. g[1..(Len(s) + 1)] = g[1..Len(s)] + x
    BY <1>1, <1>2, <1>8
  <1>. QED  BY <1>1, <1>2, <1>3, <1>7, <1>9 DEF t

LEMMA SumConcat ==
    ASSUME NEW s \in Seq(Int), NEW t \in Seq(Int)
    PROVE  Sum(s \o t) = Sum(s) + Sum(t)
  <1>. DEFINE T == {u \in Seq(Int) : Sum(s \o u) = Sum(s) + Sum(u)}
  <1>1. << >> \in T
    <2>1. << >> \in Seq(Int) /\ s \o << >> = s
      OBVIOUS
    <2>. QED  BY <2>1, SumEmpty, SumType
  <1>2. ASSUME NEW u \in Seq(Int), NEW x \in Int, u \in T
        PROVE  Append(u, x) \in T
    <2>1. /\ s \o Append(u, x) = Append(s \o u, x)
          /\ s \o u \in Seq(Int) /\ Append(u, x) \in Seq(Int)
      OBVIOUS
    <2>2. Sum(Append(s \o u, x)) = Sum(s \o u) + x
      BY <2>1, SumAppend
    <2>3. Sum(Append(u, x)) = Sum(u) + x
      BY SumAppend
    <2>4. Sum(s \o Append(u, x)) = Sum(s) + Sum(Append(u, x))
      <3>1. Sum(s) \in Int /\ Sum(u) \in Int
        BY SumType
      <3>. HIDE DEF T
      <3>2. Sum(s \o u) = Sum(s) + Sum(u)
        BY <1>2 DEF T
      <3>. QED  BY <2>1, <2>2, <2>3, <3>1, <3>2
    <2>. QED  BY <2>1, <2>4
  <1>. HIDE DEF T
  <1>3. Seq(Int) \subseteq T
    BY <1>1, <1>2, AppendInduction
  <1>. QED  BY <1>3 DEF T

-----------------------------------------------------------------------------
(* Lists are finite trees.                                                  *)

ListLine == Item \cup Groep \cup Other

LEMMA ListsType == Lists \subseteq Seq(ListLine)
  <1>1. << >> \in Seq(ListLine)
    OBVIOUS
  <1>. QED  BY <1>1, FactuurregelsAssumption, Zenon DEF ListLine

LEMMA LineKinds ==
    ASSUME NEW r \in ListLine
    PROVE  /\ r.type = "item" => r \in Item
           /\ r.type = "groep" => r.regels \in Lists /\ r.korting \in 0..100
  BY DEF ListLine, Item, Groep, Other

\* Induction over the trees that lists are.
LEMMA ListInduction ==
    ASSUME NEW G,
           \A list \in Lists :
             (\A i \in DOMAIN list : list[i].type = "groep" => list[i].regels \in G)
               => list \in G
    PROVE  Lists \subseteq G
  <1>. DEFINE some == Lists \ G
  <1>1. SUFFICES ASSUME some # {}  PROVE FALSE
    OBVIOUS
  <1>2. some \in SUBSET Lists
    OBVIOUS
  <1>3. PICK list \in some : \A i \in DOMAIN list :
          list[i].type = "groep" => list[i].regels \notin some
    <2>. HIDE DEF some
    <2>. QED  BY <1>1, <1>2, FlatRegelsAssumption
  <1>4. list \in Lists /\ list \in Seq(ListLine) /\ list \notin G
    BY ListsType
  <1>5. \A i \in DOMAIN list : list[i].type = "groep" => list[i].regels \in Lists
    BY <1>4, LineKinds
  <1>. QED  BY <1>3, <1>4, <1>5

\* The lists of the groups of a list.
BelowList ==
    [list \in Lists |->
       {l \in Lists : \E i \in DOMAIN list :
          list[i].type = "groep" /\ l = list[i].regels}]

LEMMA ListsGrounded == Grounded(Lists, BelowList)
  <1>1. BelowList \in [Lists -> SUBSET Lists]
    BY DEF BelowList
  <1>2. ASSUME NEW some \in SUBSET Lists, some # {}
        PROVE  \E list \in some : BelowList[list] \cap some = {}
    <2>1. PICK list \in some : \A i \in DOMAIN list :
            list[i].type = "groep" => list[i].regels \notin some
      BY <1>2, FlatRegelsAssumption
    <2>2. \A l \in BelowList[list] : \E i \in DOMAIN list :
            list[i].type = "groep" /\ l = list[i].regels
      BY DEF BelowList
    <2>3. ASSUME NEW l \in BelowList[list], l \in some  PROVE FALSE
      BY <2>1, <2>2, <2>3
    <2>. QED  BY <2>3
  <1>. QED  BY <1>1, <1>2 DEF Grounded

-----------------------------------------------------------------------------
(* The items of a list: Flat.                                               *)

Leaf == [item : Item, factor : Fraction]

\* The items of each line of a list, if g is Flat.
PartsBy(g, list, factor) == [i \in DOMAIN list |-> ItemsOf(g, list[i], factor)]

LEMMA ItemsOfType ==
    ASSUME NEW g \in [Lists -> [Fraction -> Seq(Leaf)]], NEW r \in ListLine,
           NEW factor \in Fraction
    PROVE  ItemsOf(g, r, factor) \in Seq(Leaf)
  <1>1. << >> \in Seq(Leaf)
    OBVIOUS
  <1>2. CASE r.type = "item"
    <2>1. [item |-> r, factor |-> factor] \in Leaf
      BY <1>2, LineKinds DEF Leaf
    <2>. QED  BY <1>2, <2>1, Single DEF ItemsOf
  <1>3. CASE r.type = "groep"
    <2>1. r.regels \in Lists /\ Reduce(factor, r.korting) \in Fraction
      BY <1>3, LineKinds, ReduceType
    <2>2. g[r.regels][Reduce(factor, r.korting)] \in Seq(Leaf)
      BY <2>1
    <2>. QED  BY <1>3, <2>2 DEF ItemsOf
  <1>4. CASE r.type # "item" /\ r.type # "groep"
    BY <1>1, <1>4 DEF ItemsOf
  <1>. QED  BY <1>2, <1>3, <1>4

LEMMA MapType ==
    ASSUME NEW S, NEW s \in Seq(S), NEW t, DOMAIN t = DOMAIN s,
           t = [i \in DOMAIN s |-> t[i]],
           NEW R, \A i \in DOMAIN s : t[i] \in R
    PROVE  t \in Seq(R) /\ Len(t) = Len(s)
  OBVIOUS

LEMMA PartsByType ==
    ASSUME NEW g \in [Lists -> [Fraction -> Seq(Leaf)]],
           NEW list \in Seq(ListLine), NEW factor \in Fraction
    PROVE  /\ PartsBy(g, list, factor) \in Seq(Seq(Leaf))
           /\ Len(PartsBy(g, list, factor)) = Len(list)
  <1>. DEFINE parts == PartsBy(g, list, factor)
  <1>1. parts = [i \in DOMAIN list |-> parts[i]] /\ DOMAIN parts = DOMAIN list
    BY DEF PartsBy
  <1>2. \A i \in DOMAIN list : list[i] \in ListLine
    BY Elements
  <1>3. \A i \in DOMAIN list : parts[i] \in Seq(Leaf)
    BY <1>2, ItemsOfType DEF PartsBy
  <1>. HIDE DEF parts
  <1>4. parts \in Seq(Seq(Leaf)) /\ Len(parts) = Len(list)
    BY <1>1, <1>3, MapType
  <1>. QED  BY <1>4 DEF parts

FlatBody(g) ==
    [list \in Lists |->
       [factor \in Fraction |-> FlattenSeq(PartsBy(g, list, factor))]]

\* TLA+ says of Flat that it is some solution of its equation...
LEMMA FlatUnfolded == Flat = CHOOSE g : g = FlatBody(g)
  BY Zenon DEF Flat, FlatBody, PartsBy

\* ... and there is one, as lists are finite trees.
LEMMA FlatSolved ==
    /\ Flat \in [Lists -> [Fraction -> Seq(Leaf)]]
    /\ \A list \in Lists, factor \in Fraction :
         Flat[list][factor] = FlattenSeq(PartsBy(Flat, list, factor))
  <1>. DEFINE A == [Fraction -> Seq(Leaf)]
              G == [Lists -> A]
              row(g, list) == [factor \in Fraction |->
                                 FlattenSeq(PartsBy(g, list, factor))]
              D == [p \in G \X Lists |-> row(p[1], p[2])]
  <1>1. ASSUME NEW g \in G, NEW list \in Lists  PROVE row(g, list) \in A
    <2>1. ASSUME NEW factor \in Fraction
          PROVE  FlattenSeq(PartsBy(g, list, factor)) \in Seq(Leaf)
      <3>1. PartsBy(g, list, factor) \in Seq(Seq(Leaf))
        BY ListsType, PartsByType
      <3>. QED  BY <3>1, FlattenType
    <2>. QED  BY <2>1
  <1>2. ASSUME NEW g, NEW h, NEW list \in Lists,
               \A l \in BelowList[list] : g[l] = h[l]
        PROVE  row(g, list) = row(h, list)
    <2>1. ASSUME NEW factor \in Fraction
          PROVE  PartsBy(g, list, factor) = PartsBy(h, list, factor)
      <3>1. ASSUME NEW i \in DOMAIN list
            PROVE  ItemsOf(g, list[i], factor) = ItemsOf(h, list[i], factor)
        <4>1. list[i] \in ListLine
          BY ListsType, Elements
        <4>2. CASE list[i].type = "groep"
          <5>1. list[i].regels \in BelowList[list]
            BY <4>1, <4>2, LineKinds DEF BelowList
          <5>. QED  BY <1>2, <5>1 DEF ItemsOf
        <4>3. CASE list[i].type # "groep"
          BY <4>3 DEF ItemsOf
        <4>. QED  BY <4>2, <4>3
      <3>. QED  BY <3>1 DEF PartsBy
    <2>. QED  BY <2>1
  <1>3. \A g \in G, list \in Lists : D[<<g, list>>] = row(g, list)
    OBVIOUS
  <1>4. D = [p \in G \X Lists |-> D[p]]
    OBVIOUS
  <1>. HIDE DEF D, row
  <1>5. D \in [G \X Lists -> A]
    <2>1. \A p \in G \X Lists : D[p] \in A
      BY <1>1, <1>3
    <2>. HIDE DEF G, A
    <2>. QED  BY <1>4, <2>1
  <1>6. Recursive(D, Lists, A, BelowList)
    <2>. HIDE DEF A
    <2>. QED  BY <1>2, <1>3, <1>5 DEF Recursive
  <1>7. A # {}
    <2>1. [factor \in Fraction |-> << >>] \in A
      OBVIOUS
    <2>. QED  BY <2>1
  <1>8. PICK g \in G : Solves(g, D, Lists)
    <2>. HIDE DEF A
    <2>. QED  BY <1>6, <1>7, ListsGrounded, RecursionSolved
  <1>9. g = FlatBody(g)
    <2>1. \A list \in Lists : g[list] = row(g, list)
      BY <1>3, <1>8 DEF Solves
    <2>. QED  BY <2>1 DEF FlatBody, row
  <1>10. Flat = FlatBody(Flat)
    <2>. DEFINE h == CHOOSE f : f = FlatBody(f)
    <2>1. \E f : f = FlatBody(f)
      BY <1>9
    <2>2. h = FlatBody(h)
      BY <2>1
    <2>3. Flat = h
      BY FlatUnfolded
    <2>. HIDE DEF h
    <2>. QED  BY <2>2, <2>3
  <1>11. ASSUME NEW list \in Lists
         PROVE  Flat[list] = row(Flat, list)
    BY <1>10 DEF FlatBody, row
  <1>12. \A list \in Lists, factor \in Fraction :
           Flat[list][factor] = FlattenSeq(PartsBy(Flat, list, factor))
    BY <1>11 DEF row
  <1>13. Flat \in G
    <2>1. Flat = [list \in Lists |-> Flat[list]]
      BY <1>10 DEF FlatBody
    <2>. DEFINE T == {list \in Lists : Flat[list] \in A}
    <2>2. ASSUME NEW list \in Lists,
                 \A i \in DOMAIN list :
                   list[i].type = "groep" => list[i].regels \in T
          PROVE  list \in T
      <3>1. ASSUME NEW l \in BelowList[list]  PROVE Flat[l] \in A
        BY <2>2, <3>1 DEF BelowList
      <3>. DEFINE h == [l \in Lists |-> IF l \in BelowList[list] THEN Flat[l]
                                        ELSE g[l]]
      <3>2. h \in G /\ \A l \in BelowList[list] : h[l] = Flat[l]
        BY <1>8, <3>1 DEF BelowList
      <3>. HIDE DEF h
      <3>3. row(h, list) = row(Flat, list)
        BY <1>2, <3>2
      <3>4. Flat[list] \in A
        <4>. HIDE DEF G, A
        <4>. QED  BY <1>1, <1>11, <3>2, <3>3
      <3>. QED  BY <3>4
    <2>. HIDE DEF T
    <2>3. Lists \subseteq T
      BY <2>2, ListInduction
    <2>4. \A list \in Lists : Flat[list] \in A
      BY <2>3 DEF T
    <2>. HIDE DEF A
    <2>. QED  BY <2>1, <2>4
  <1>. QED  BY <1>12, <1>13

-----------------------------------------------------------------------------
(* The value of a list: Total.                                              *)

\* The value of each line of a list, if g is Total.
ValuesBy(g, list, scale) == [i \in DOMAIN list |-> ValueOf(g, list[i], scale)]

LEMMA DivisionType == ASSUME NEW n \in Nat PROVE n \div 100 \in Nat
  OBVIOUS

LEMMA ValueOfType ==
    ASSUME NEW g \in [Lists -> [Nat -> Int]], NEW r \in ListLine, NEW scale \in Nat
    PROVE  ValueOf(g, r, scale) \in Int
  <1>. DEFINE part == scale \div 100
  <1>1. part \in Nat
    BY DivisionType
  <1>. HIDE DEF part
  <1>2. CASE r.type = "item"
    <2>1. r.aantal \in Int /\ r.bedrag \in Int /\ r.korting \in Int
      BY <1>2, LineKinds DEF Item
    <2>2. r.aantal * r.bedrag \in Int /\ 100 - r.korting \in Int
      BY <2>1
    <2>3. r.aantal * r.bedrag * (100 - r.korting) \in Int
      BY <2>2
    <2>4. r.aantal * r.bedrag * (100 - r.korting) * part \in Int
      BY <1>1, <2>3
    <2>. QED  BY <1>2, <2>4 DEF ValueOf, part
  <1>3. CASE r.type = "groep"
    <2>1. r.regels \in Lists /\ 100 - r.korting \in Int
      BY <1>3, LineKinds
    <2>2. g[r.regels][part] \in Int
      BY <1>1, <2>1
    <2>3. (100 - r.korting) * g[r.regels][part] \in Int
      BY <2>1, <2>2
    <2>. QED  BY <1>3, <2>3 DEF ValueOf, part
  <1>4. CASE r.type # "item" /\ r.type # "groep"
    BY <1>4 DEF ValueOf
  <1>. QED  BY <1>2, <1>3, <1>4

LEMMA ValuesByType ==
    ASSUME NEW g \in [Lists -> [Nat -> Int]],
           NEW list \in Seq(ListLine), NEW scale \in Nat
    PROVE  ValuesBy(g, list, scale) \in Seq(Int)
  <1>. DEFINE values == ValuesBy(g, list, scale)
  <1>1. values = [i \in DOMAIN list |-> values[i]] /\ DOMAIN values = DOMAIN list
    BY DEF ValuesBy
  <1>2. \A i \in DOMAIN list : list[i] \in ListLine
    BY Elements
  <1>3. \A i \in DOMAIN list : values[i] \in Int
    BY <1>2, ValueOfType DEF ValuesBy
  <1>. HIDE DEF values
  <1>4. values \in Seq(Int)
    BY <1>1, <1>3, MapType
  <1>. QED  BY <1>4 DEF values

TotalBody(g) ==
    [list \in Lists |-> [scale \in Nat |-> Sum(ValuesBy(g, list, scale))]]

\* Total is a solution of its equation, like Flat.
LEMMA TotalUnfolded == Total = CHOOSE g : g = TotalBody(g)
  BY Zenon DEF Total, TotalBody, ValuesBy

LEMMA TotalSolved ==
    /\ Total \in [Lists -> [Nat -> Int]]
    /\ \A list \in Lists, scale \in Nat :
         Total[list][scale] = Sum(ValuesBy(Total, list, scale))
  <1>. DEFINE A == [Nat -> Int]
              G == [Lists -> A]
              row(g, list) == [scale \in Nat |-> Sum(ValuesBy(g, list, scale))]
              D == [p \in G \X Lists |-> row(p[1], p[2])]
  <1>1. ASSUME NEW g \in G, NEW list \in Lists  PROVE row(g, list) \in A
    <2>1. ASSUME NEW scale \in Nat
          PROVE  Sum(ValuesBy(g, list, scale)) \in Int
      <3>1. ValuesBy(g, list, scale) \in Seq(Int)
        BY ListsType, ValuesByType
      <3>. QED  BY <3>1, SumType
    <2>. QED  BY <2>1
  <1>2. ASSUME NEW g, NEW h, NEW list \in Lists,
               \A l \in BelowList[list] : g[l] = h[l]
        PROVE  row(g, list) = row(h, list)
    <2>1. ASSUME NEW scale \in Nat
          PROVE  ValuesBy(g, list, scale) = ValuesBy(h, list, scale)
      <3>1. ASSUME NEW i \in DOMAIN list
            PROVE  ValueOf(g, list[i], scale) = ValueOf(h, list[i], scale)
        <4>1. list[i] \in ListLine
          BY ListsType, Elements
        <4>2. CASE list[i].type = "groep"
          <5>1. list[i].regels \in BelowList[list]
            BY <4>1, <4>2, LineKinds DEF BelowList
          <5>. QED  BY <1>2, <5>1 DEF ValueOf
        <4>3. CASE list[i].type # "groep"
          BY <4>3 DEF ValueOf
        <4>. QED  BY <4>2, <4>3
      <3>. QED  BY <3>1 DEF ValuesBy
    <2>. QED  BY <2>1
  <1>3. \A g \in G, list \in Lists : D[<<g, list>>] = row(g, list)
    OBVIOUS
  <1>4. D = [p \in G \X Lists |-> D[p]]
    OBVIOUS
  <1>. HIDE DEF D, row
  <1>5. D \in [G \X Lists -> A]
    <2>1. \A p \in G \X Lists : D[p] \in A
      BY <1>1, <1>3
    <2>. HIDE DEF G, A
    <2>. QED  BY <1>4, <2>1
  <1>6. Recursive(D, Lists, A, BelowList)
    <2>. HIDE DEF A
    <2>. QED  BY <1>2, <1>3, <1>5 DEF Recursive
  <1>7. A # {}
    <2>1. [scale \in Nat |-> 0] \in A
      OBVIOUS
    <2>. QED  BY <2>1
  <1>8. PICK g \in G : Solves(g, D, Lists)
    <2>. HIDE DEF A
    <2>. QED  BY <1>6, <1>7, ListsGrounded, RecursionSolved
  <1>9. g = TotalBody(g)
    <2>1. \A list \in Lists : g[list] = row(g, list)
      BY <1>3, <1>8 DEF Solves
    <2>. QED  BY <2>1 DEF TotalBody, row
  <1>10. Total = TotalBody(Total)
    <2>. DEFINE h == CHOOSE f : f = TotalBody(f)
    <2>1. \E f : f = TotalBody(f)
      BY <1>9
    <2>2. h = TotalBody(h)
      BY <2>1
    <2>3. Total = h
      BY TotalUnfolded
    <2>. HIDE DEF h
    <2>. QED  BY <2>2, <2>3
  <1>11. ASSUME NEW list \in Lists
         PROVE  Total[list] = row(Total, list)
    BY <1>10 DEF TotalBody, row
  <1>12. \A list \in Lists, scale \in Nat :
           Total[list][scale] = Sum(ValuesBy(Total, list, scale))
    BY <1>11 DEF row
  <1>13. Total \in G
    <2>1. Total = [list \in Lists |-> Total[list]]
      BY <1>10 DEF TotalBody
    <2>. DEFINE T == {list \in Lists : Total[list] \in A}
    <2>2. ASSUME NEW list \in Lists,
                 \A i \in DOMAIN list :
                   list[i].type = "groep" => list[i].regels \in T
          PROVE  list \in T
      <3>1. ASSUME NEW l \in BelowList[list]  PROVE Total[l] \in A
        BY <2>2, <3>1 DEF BelowList
      <3>. DEFINE h == [l \in Lists |-> IF l \in BelowList[list] THEN Total[l]
                                        ELSE g[l]]
      <3>2. h \in G /\ \A l \in BelowList[list] : h[l] = Total[l]
        BY <1>8, <3>1 DEF BelowList
      <3>. HIDE DEF h
      <3>3. row(h, list) = row(Total, list)
        BY <1>2, <3>2
      <3>4. Total[list] \in A
        <4>. HIDE DEF G, A
        <4>. QED  BY <1>1, <1>11, <3>2, <3>3
      <3>. QED  BY <3>4
    <2>. HIDE DEF T
    <2>3. Lists \subseteq T
      BY <2>2, ListInduction
    <2>4. \A list \in Lists : Total[list] \in A
      BY <2>3 DEF T
    <2>. HIDE DEF A
    <2>. QED  BY <2>1, <2>4
  <1>. QED  BY <1>12, <1>13

-----------------------------------------------------------------------------
(* Sequences, element by element.                                           *)

\* A function on each element of a sequence.
Mapped(F, s) == [i \in DOMAIN s |-> F[s[i]]]

LEMMA MappedType ==
    ASSUME NEW S, NEW R, NEW F \in [S -> R], NEW s \in Seq(S)
    PROVE  Mapped(F, s) \in Seq(R) /\ Len(Mapped(F, s)) = Len(s)
  BY DEF Mapped

LEMMA MappedEmpty == ASSUME NEW F PROVE Mapped(F, << >>) = << >>
  BY DEF Mapped

LEMMA MappedAppend ==
    ASSUME NEW S, NEW F, NEW s \in Seq(S), NEW x \in S
    PROVE  Mapped(F, Append(s, x)) = Append(Mapped(F, s), F[x])
  BY DEF Mapped

LEMMA MappedConcat ==
    ASSUME NEW S, NEW F, NEW s \in Seq(S), NEW t \in Seq(S)
    PROVE  Mapped(F, s \o t) = Mapped(F, s) \o Mapped(F, t)
  <1>. DEFINE R == {F[x] : x \in S}
  <1>1. Mapped(F, s) \in Seq(R) /\ Len(Mapped(F, s)) = Len(s)
        /\ \A i \in 1..Len(s) : Mapped(F, s)[i] = F[s[i]]
    BY DEF Mapped
  <1>2. Mapped(F, t) \in Seq(R) /\ Len(Mapped(F, t)) = Len(t)
        /\ \A i \in 1..Len(t) : Mapped(F, t)[i] = F[t[i]]
    BY DEF Mapped
  <1>3. s \o t \in Seq(S) /\ Len(s \o t) = Len(s) + Len(t)
        /\ Len(s) \in Nat /\ Len(t) \in Nat
        /\ \A i \in 1..(Len(s) + Len(t)) :
             (s \o t)[i] = IF i <= Len(s) THEN s[i] ELSE t[i - Len(s)]
    OBVIOUS
  <1>. DEFINE l == Mapped(F, s \o t)
              r == Mapped(F, s) \o Mapped(F, t)
  <1>4. l \in Seq(R) /\ Len(l) = Len(s) + Len(t)
        /\ \A i \in 1..(Len(s) + Len(t)) : l[i] = F[(s \o t)[i]]
    <2>1. \A u \in Seq(S) : Mapped(F, u) \in Seq(R) /\ Len(Mapped(F, u)) = Len(u)
        /\ \A i \in 1..Len(u) : Mapped(F, u)[i] = F[u[i]]
      BY DEF Mapped
    <2>. QED  BY <1>3, <2>1
  <1>. HIDE DEF R
  <1>5. r \in Seq(R) /\ Len(r) = Len(s) + Len(t)
        /\ \A i \in 1..(Len(s) + Len(t)) :
             r[i] = IF i <= Len(s) THEN Mapped(F, s)[i] ELSE Mapped(F, t)[i - Len(s)]
    BY <1>1, <1>2, <1>3
  <1>6. ASSUME NEW i \in 1..(Len(s) + Len(t))  PROVE l[i] = r[i]
    <2>. HIDE DEF l, r
    <2>1. CASE i <= Len(s)
      <3>1. i \in 1..Len(s)
        BY <1>3, <2>1
      <3>2. l[i] = F[s[i]]
        BY <1>3, <1>4, <2>1
      <3>3. r[i] = Mapped(F, s)[i]
        BY <1>5, <2>1
      <3>. QED  BY <1>1, <3>1, <3>2, <3>3
    <2>2. CASE ~(i <= Len(s))
      <3>1. i - Len(s) \in 1..Len(t)
        BY <1>3, <2>2
      <3>2. l[i] = F[t[i - Len(s)]]
        BY <1>3, <1>4, <2>2
      <3>3. r[i] = Mapped(F, t)[i - Len(s)]
        BY <1>5, <2>2
      <3>. QED  BY <1>2, <3>1, <3>2, <3>3
    <2>. QED  BY <2>1, <2>2
  <1>. HIDE DEF l, r
  <1>7. \A a, b : a \in Seq(R) /\ b \in Seq(R) /\ Len(a) = Len(b)
                 /\ (\A i \in 1..Len(a) : a[i] = b[i]) => a = b
    OBVIOUS
  <1>8. l = r
    BY <1>3, <1>4, <1>5, <1>6, <1>7
  <1>. QED  BY <1>8, Zenon DEF l, r

LEMMA SeqOfSubset ==
    ASSUME NEW S, NEW s \in Seq(S), NEW R, \A i \in DOMAIN s : s[i] \in R
    PROVE  s \in Seq(R)
  OBVIOUS

-----------------------------------------------------------------------------
(* Division.                                                                *)

LEMMA DivisionUnique ==
    ASSUME NEW n \in Nat, NEW d \in Nat \ {0}, NEW q \in Nat,
           q * d <= n, n < (q + 1) * d
    PROVE  n \div d = q
  OBVIOUS

LEMMA DivisionRest ==
    ASSUME NEW n \in Nat, NEW d \in Nat \ {0}
    PROVE  /\ n \div d \in Nat
           /\ (n \div d) * d <= n /\ n < (n \div d + 1) * d
  OBVIOUS

\* Divided at once or in two steps: the same, rounded down.
LEMMA DivisionTwice ==
    ASSUME NEW n \in Nat, NEW d \in Nat \ {0}
    PROVE  n \div (d * 100) = (n \div d) \div 100
  <1>. DEFINE q == n \div d
              p == q \div 100
  <1>1. q \in Nat /\ q * d <= n /\ n < (q + 1) * d
    BY DivisionRest
  <1>. HIDE DEF q
  <1>2. p \in Nat /\ 100 * p <= q /\ q < 100 * p + 100
    BY <1>1
  <1>. HIDE DEF p
  <1>3. (100 * p) * d <= q * d
    BY <1>1, <1>2
  <1>4. (q + 1) * d <= (100 * p + 100) * d
    BY <1>1, <1>2
  <1>5. p * (d * 100) <= n /\ n < (p + 1) * (d * 100)
    BY <1>1, <1>2, <1>3, <1>4
  <1>6. d * 100 \in Nat \ {0}
    OBVIOUS
  <1>7. n \div (d * 100) = p
    BY <1>2, <1>5, <1>6, DivisionUnique
  <1>. QED  BY <1>7 DEF p, q

\* What is less than a tenth stays so in another unit.
LEMMA TinyProduct ==
    ASSUME NEW m \in Int, NEW d \in Nat \ {0}, 10 * m < d, -10 * m < d,
           NEW n \in Nat
    PROVE  10 * (m * (n \div d)) <= n /\ -10 * (m * (n \div d)) <= n
  <1>. DEFINE q == n \div d
  <1>1. q \in Nat /\ q * d <= n
    BY DivisionRest
  <1>. HIDE DEF q
  <1>2. (10 * m) * q <= d * q
    BY <1>1
  <1>3. (-10 * m) * q <= d * q
    BY <1>1
  <1>4. 10 * (m * q) <= n /\ -10 * (m * q) <= n
    BY <1>1, <1>2, <1>3
  <1>. QED  BY <1>4 DEF q

-----------------------------------------------------------------------------
(* What items are worth.                                                    *)

LEMMA AmountOfType ==
    ASSUME NEW leaf \in Leaf
    PROVE  AmountOf(leaf) \in Fraction /\ leaf.item \in Item /\ leaf.factor \in Fraction
  BY AmountType DEF AmountOf, Leaf

LEMMA ScaledType ==
    ASSUME NEW a \in Fraction
    PROVE  Scaled(a) \in Int
  <1>1. a.num \in Int /\ Scale \div a.den \in Nat
    BY DivisionRest, FlatRegelsAssumption DEF Fraction
  <1>. HIDE DEF Fraction
  <1>. QED  BY <1>1 DEF Scaled

\* What a leaf is worth, and leaves.
Worth == [leaf \in Leaf |-> Scaled(AmountOf(leaf))]

WorthOf(leaves) == Sum(Mapped(Worth, leaves))

LEMMA WorthType == Worth \in [Leaf -> Int]
  BY AmountOfType, ScaledType DEF Worth

LEMMA WorthOfType ==
    ASSUME NEW leaves \in Seq(Leaf)
    PROVE  WorthOf(leaves) \in Int
  BY WorthType, MappedType, SumType DEF WorthOf

LEMMA WorthOfEmpty == WorthOf(<< >>) = 0
  BY MappedEmpty, SumEmpty DEF WorthOf

LEMMA WorthOfAppend ==
    ASSUME NEW leaves \in Seq(Leaf), NEW leaf \in Leaf
    PROVE  WorthOf(Append(leaves, leaf)) = WorthOf(leaves) + Worth[leaf]
  <1>1. Mapped(Worth, leaves) \in Seq(Int) /\ Worth[leaf] \in Int
    BY WorthType, MappedType
  <1>2. Mapped(Worth, Append(leaves, leaf)) = Append(Mapped(Worth, leaves), Worth[leaf])
    BY MappedAppend
  <1>3. Sum(Append(Mapped(Worth, leaves), Worth[leaf]))
          = Sum(Mapped(Worth, leaves)) + Worth[leaf]
    BY <1>1, SumAppend
  <1>. QED  BY <1>2, <1>3, Zenon DEF WorthOf

LEMMA WorthOfConcat ==
    ASSUME NEW s \in Seq(Leaf), NEW t \in Seq(Leaf)
    PROVE  WorthOf(s \o t) = WorthOf(s) + WorthOf(t)
  <1>1. Mapped(Worth, s) \in Seq(Int) /\ Mapped(Worth, t) \in Seq(Int)
    BY WorthType, MappedType
  <1>2. Mapped(Worth, s \o t) = Mapped(Worth, s) \o Mapped(Worth, t)
    BY MappedConcat
  <1>3. Sum(Mapped(Worth, s) \o Mapped(Worth, t))
          = Sum(Mapped(Worth, s)) + Sum(Mapped(Worth, t))
    BY <1>1, SumConcat
  <1>. QED  BY <1>2, <1>3, Zenon DEF WorthOf

LEMMA Ring ==
    ASSUME NEW a \in Int, NEW b \in Int, NEW c \in Int, NEW n \in Int, NEW x \in Int
    PROVE  /\ a * b * (n * c) * x = n * (a * b * c * x)
           /\ (n * c) * x = n * (c * x)
           /\ n * (a + b) = n * a + n * b
  OBVIOUS

\* An item is worth its value, less its own discount and those around it.
LEMMA ItemWorth ==
    ASSUME NEW item \in Item, NEW factor \in Fraction
    PROVE  WorthOf(<<[item |-> item, factor |-> factor]>>)
             = factor.num * (item.aantal * item.bedrag * (100 - item.korting)
                               * ((Scale \div factor.den) \div 100))
  <1>. DEFINE leaf == [item |-> item, factor |-> factor]
              x == (Scale \div factor.den) \div 100
  <1>1. leaf \in Leaf /\ leaf.item = item /\ leaf.factor = factor
    BY DEF Leaf
  <1>2. WorthOf(<<leaf>>) = Scaled(Amount(item, factor))
    <2>1. << >> \in Seq(Leaf) /\ Append(<< >>, leaf) = <<leaf>>
      OBVIOUS
    <2>. HIDE DEF leaf
    <2>2. WorthOf(<<leaf>>) = WorthOf(<< >>) + Worth[leaf]
      BY <1>1, <2>1, WorthOfAppend
    <2>3. Worth[leaf] = Scaled(AmountOf(leaf)) /\ Worth[leaf] \in Int
      BY <1>1, WorthType DEF Worth
    <2>. QED  BY <1>1, <2>2, <2>3, WorthOfEmpty DEF AmountOf
  <1>. HIDE DEF leaf
  <1>3. /\ factor.num \in Int /\ factor.den \in Nat \ {0}
        /\ item.aantal \in Int /\ item.bedrag \in Int /\ 100 - item.korting \in Int
    BY DEF Fraction, Item
  <1>4. Scale \div (factor.den * 100) = x /\ x \in Int
    <2>1. Scale \in Nat
      BY FlatRegelsAssumption
    <2>2. Scale \div (factor.den * 100) = (Scale \div factor.den) \div 100
      BY <1>3, <2>1, DivisionTwice
    <2>3. Scale \div factor.den \in Nat
      BY <1>3, <2>1, DivisionRest
    <2>4. (Scale \div factor.den) \div 100 \in Nat
      BY <2>3, DivisionType
    <2>. QED  BY <2>2, <2>4
  <1>. HIDE DEF x
  <1>5. Scaled(Amount(item, factor))
          = item.aantal * item.bedrag * (factor.num * (100 - item.korting)) * x
    BY <1>4 DEF Scaled, Amount, Reduce
  <1>6. item.aantal * item.bedrag * (factor.num * (100 - item.korting)) * x
          = factor.num * (item.aantal * item.bedrag * (100 - item.korting) * x)
    BY <1>3, <1>4, Ring
  <1>. QED  BY <1>2, <1>5, <1>6 DEF leaf, x

\* The reduction factor that convertFactuurregels hands down (synctool.go:278)
\* does what the groups say: the items of a list, each with all discounts
\* around it, are worth what the list is worth from the inside out.
THEOREM FlatWorth ==
    ASSUME NEW list \in Lists, NEW factor \in Fraction
    PROVE  WorthOf(Flat[list][factor])
             = factor.num * Total[list][Scale \div factor.den]
  <1>. DEFINE Right(l, f) ==
                WorthOf(Flat[l][f]) = f.num * Total[l][Scale \div f.den]
              G == {l \in Lists : \A f \in Fraction : Right(l, f)}
  <1>1. ASSUME NEW l \in Lists, NEW f \in Fraction,
               \A i \in DOMAIN l : l[i].type = "groep" => l[i].regels \in G
        PROVE  Right(l, f)
    <2>. DEFINE scale == Scale \div f.den
                Parts == [r \in ListLine |-> ItemsOf(Flat, r, f)]
                Values == [r \in ListLine |-> ValueOf(Total, r, scale)]
                R == {r \in ListLine : WorthOf(Parts[r]) = f.num * Values[r]}
                T == {s \in Seq(R) : WorthOf(FlattenSeq(Mapped(Parts, s)))
                                       = f.num * Sum(Mapped(Values, s))}
    <2>1. scale \in Nat /\ f.num \in Int /\ f.den \in Nat \ {0}
      BY DivisionRest, FlatRegelsAssumption DEF Fraction
    <2>2. Parts \in [ListLine -> Seq(Leaf)] /\ Values \in [ListLine -> Int]
      <3>. HIDE DEF scale
      <3>. QED  BY <2>1, FlatSolved, TotalSolved, ItemsOfType, ValueOfType
    <2>3. ASSUME NEW i \in DOMAIN l
          PROVE  l[i] \in R
      <3>. DEFINE r == l[i]
      <3>1. r \in ListLine
        BY ListsType, Elements
      <3>2. CASE r.type = "item"
        <4>1. /\ r \in Item
              /\ Parts[r] = <<[item |-> r, factor |-> f]>>
              /\ Values[r] = r.aantal * r.bedrag * (100 - r.korting) * (scale \div 100)
          BY <3>1, <3>2, LineKinds DEF ItemsOf, ValueOf
        <4>. HIDE DEF Parts, Values, r
        <4>2. WorthOf(Parts[r]) = f.num * Values[r]
          BY <4>1, ItemWorth
        <4>. QED  BY <3>1, <4>2 DEF r
      <3>3. CASE r.type = "groep"
        <4>. DEFINE g == Reduce(f, r.korting)
        <4>1. /\ r.regels \in Lists /\ r.korting \in 0..100 /\ r.regels \in G
              /\ Parts[r] = Flat[r.regels][g]
              /\ Values[r] = (100 - r.korting) * Total[r.regels][scale \div 100]
          BY <1>1, <3>1, <3>3, LineKinds DEF ItemsOf, ValueOf
        <4>2. /\ g \in Fraction /\ g.num = f.num * (100 - r.korting)
              /\ g.den = f.den * 100
          BY <4>1, ReduceType DEF Reduce
        <4>3. Scale \div g.den = scale \div 100 /\ scale \div 100 \in Nat
          BY <2>1, <4>2, DivisionTwice, DivisionType, FlatRegelsAssumption
        <4>. HIDE DEF Parts, Values, g, r, scale
        <4>4. WorthOf(Parts[r])
                = (f.num * (100 - r.korting)) * Total[r.regels][scale \div 100]
          BY <4>1, <4>2, <4>3
        <4>5. Total[r.regels][scale \div 100] \in Int /\ 100 - r.korting \in Int
          BY <4>1, <4>3, TotalSolved
        <4>6. WorthOf(Parts[r]) = f.num * Values[r]
          BY <2>1, <4>1, <4>4, <4>5, Ring
        <4>. QED  BY <3>1, <4>6 DEF r
      <3>4. CASE r.type # "item" /\ r.type # "groep"
        <4>1. Parts[r] = << >> /\ Values[r] = 0
          BY <3>1, <3>4 DEF ItemsOf, ValueOf
        <4>2. f.num * 0 = 0
          BY <2>1
        <4>. HIDE DEF Parts, Values, r
        <4>3. WorthOf(Parts[r]) = f.num * Values[r]
          BY <4>1, <4>2, WorthOfEmpty
        <4>. QED  BY <3>1, <4>3 DEF r
      <3>. QED  BY <3>2, <3>3, <3>4
    <2>4. l \in Seq(R)
      <3>. HIDE DEF R
      <3>. QED  BY <2>3, ListsType, SeqOfSubset
    <2>5. /\ Parts \in [ListLine -> Seq(Leaf)] /\ R \subseteq ListLine
          /\ \A r \in R : /\ Parts[r] \in Seq(Leaf) /\ Values[r] \in Int
                          /\ WorthOf(Parts[r]) = f.num * Values[r]
      <3>. HIDE DEF Parts, Values
      <3>. QED  BY <2>2
    <2>. HIDE DEF R, Parts, Values
    <2>6. \A s \in Seq(R) : /\ Mapped(Parts, s) \in Seq(Seq(Leaf))
                            /\ Mapped(Values, s) \in Seq(Int)
      <3>1. \A s \in Seq(R) : s \in Seq(ListLine)
        BY <2>5
      <3>. QED  BY <2>2, <3>1, MappedType
    <2>7. << >> \in T
      <3>1. << >> \in Seq(R) /\ f.num * 0 = 0
        BY <2>1
      <3>. QED  BY <3>1, MappedEmpty, FlattenEmpty, WorthOfEmpty, SumEmpty
    <2>8. ASSUME NEW s \in Seq(R), NEW r \in R, s \in T
          PROVE  Append(s, r) \in T
      <3>. DEFINE parts == Mapped(Parts, s)
                  values == Mapped(Values, s)
      <3>1. Append(s, r) \in Seq(R)
        OBVIOUS
      <3>2. /\ Mapped(Parts, Append(s, r)) = Append(parts, Parts[r])
            /\ Mapped(Values, Append(s, r)) = Append(values, Values[r])
        BY MappedAppend
      <3>3. parts \in Seq(Seq(Leaf)) /\ values \in Seq(Int)
        BY <2>6
      <3>4. WorthOf(FlattenSeq(parts)) = f.num * Sum(values)
        BY <2>8
      <3>. HIDE DEF parts, values, T
      <3>5. FlattenSeq(Append(parts, Parts[r])) = FlattenSeq(parts) \o Parts[r]
        BY <2>5, <3>3, FlattenAppend
      <3>6. WorthOf(FlattenSeq(parts) \o Parts[r])
              = WorthOf(FlattenSeq(parts)) + WorthOf(Parts[r])
        BY <2>5, <3>3, FlattenType, WorthOfConcat
      <3>7. Sum(Append(values, Values[r])) = Sum(values) + Values[r]
        BY <2>5, <3>3, SumAppend
      <3>8. f.num * (Sum(values) + Values[r]) = f.num * Sum(values) + f.num * Values[r]
        <4>1. Sum(values) \in Int /\ Values[r] \in Int
          BY <2>5, <3>3, SumType
        <4>. QED  BY <2>1, <4>1, Ring
      <3>9. WorthOf(FlattenSeq(Mapped(Parts, Append(s, r))))
              = f.num * Sum(Mapped(Values, Append(s, r)))
        BY <2>5, <3>2, <3>4, <3>5, <3>6, <3>7, <3>8
      <3>. QED  BY <3>1, <3>9 DEF T
    <2>9. l \in T
      <3>. HIDE DEF T
      <3>. QED  BY <2>4, <2>7, <2>8, AppendInduction
    <2>10. /\ Flat[l][f] = FlattenSeq(Mapped(Parts, l))
           /\ Total[l][scale] = Sum(Mapped(Values, l))
      <3>1. \A i \in DOMAIN l : l[i] \in ListLine
        BY ListsType, Elements
      <3>2. PartsBy(Flat, l, f) = Mapped(Parts, l)
        BY <3>1 DEF PartsBy, Mapped, Parts
      <3>3. ValuesBy(Total, l, scale) = Mapped(Values, l)
        BY <3>1 DEF ValuesBy, Mapped, Values
      <3>. HIDE DEF scale
      <3>. QED  BY <2>1, <3>2, <3>3, FlatSolved, TotalSolved
    <2>. QED  BY <2>9, <2>10
  <1>. HIDE DEF Right
  <1>2. Lists \subseteq G
    <2>1. ASSUME NEW l \in Lists,
                 \A i \in DOMAIN l : l[i].type = "groep" => l[i].regels \in G
          PROVE  l \in G
      BY <1>1, <2>1
    <2>. HIDE DEF G
    <2>. QED  BY <2>1, ListInduction
  <1>3. Right(list, factor)
    BY <1>2
  <1>. QED  BY <1>3 DEF Right

-----------------------------------------------------------------------------
(* The lines of some items.                                                *)

LineSet == {Line(leaf.item, AmountOf(leaf)) : leaf \in Leaf}

\* What an item becomes, as a function.
Made == [leaf \in Leaf |-> LineOf(leaf)]

LEMMA LineOfType ==
    ASSUME NEW leaf \in Leaf
    PROVE  /\ LineOf(leaf) \in Seq(LineSet) /\ Made[leaf] = LineOf(leaf)
           /\ Tiny(AmountOf(leaf)) => LineOf(leaf) = << >>
           /\ ~Tiny(AmountOf(leaf)) =>
                LineOf(leaf) = <<Line(leaf.item, AmountOf(leaf))>>
  <1>1. Line(leaf.item, AmountOf(leaf)) \in LineSet
    BY DEF LineSet
  <1>2. << >> \in Seq(LineSet)
    OBVIOUS
  <1>3. <<Line(leaf.item, AmountOf(leaf))>> \in Seq(LineSet)
    BY <1>1, Single
  <1>4. Made[leaf] = LineOf(leaf)
    BY Zenon DEF Made
  <1>5. Tiny(AmountOf(leaf)) => LineOf(leaf) = << >>
    BY Zenon DEF LineOf
  <1>6. ~Tiny(AmountOf(leaf)) =>
          LineOf(leaf) = <<Line(leaf.item, AmountOf(leaf))>>
    BY Zenon DEF LineOf
  <1>. QED  BY <1>2, <1>3, <1>4, <1>5, <1>6, Zenon

LEMMA MadeType == Made \in [Leaf -> Seq(LineSet)]
  <1>1. \A leaf \in Leaf : LineOf(leaf) \in Seq(LineSet)
    BY LineOfType
  <1>. QED  BY <1>1 DEF Made

\* The lines of some items are a flattened sequence.
LEMMA LinesOfMade ==
    ASSUME NEW leaves \in Seq(Leaf)
    PROVE  LinesOf(leaves) = FlattenSeq(Mapped(Made, leaves))
  <1>1. \A i \in DOMAIN leaves : Made[leaves[i]] = LineOf(leaves[i])
    BY LineOfType, Elements
  <1>2. [i \in DOMAIN leaves |-> LineOf(leaves[i])] = Mapped(Made, leaves)
    BY <1>1 DEF Mapped
  <1>. QED  BY <1>2, Zenon DEF LinesOf

LEMMA LinesOfType ==
    ASSUME NEW leaves \in Seq(Leaf)
    PROVE  LinesOf(leaves) \in Seq(LineSet)
  <1>1. Mapped(Made, leaves) \in Seq(Seq(LineSet))
    BY MadeType, MappedType
  <1>2. FlattenSeq(Mapped(Made, leaves)) \in Seq(LineSet)
    BY <1>1, FlattenType
  <1>. QED  BY <1>2, LinesOfMade, Zenon

LEMMA LinesOfEmpty == LinesOf(<< >>) = << >>
  <1>1. << >> \in Seq(Leaf)
    OBVIOUS
  <1>2. LinesOf(<< >>) = FlattenSeq(Mapped(Made, << >>))
    BY <1>1, LinesOfMade, Zenon
  <1>. QED  BY <1>2, MappedEmpty, FlattenEmpty, Zenon

\* One item more is its line more, if it has one.
LEMMA LinesOfAppend ==
    ASSUME NEW leaves \in Seq(Leaf), NEW leaf \in Leaf
    PROVE  LinesOf(Append(leaves, leaf)) = LinesOf(leaves) \o LineOf(leaf)
  <1>1. Mapped(Made, leaves) \in Seq(Seq(LineSet))
    BY MadeType, MappedType
  <1>2. Mapped(Made, Append(leaves, leaf)) = Append(Mapped(Made, leaves), LineOf(leaf))
    BY MappedAppend, LineOfType
  <1>3. FlattenSeq(Append(Mapped(Made, leaves), LineOf(leaf)))
          = FlattenSeq(Mapped(Made, leaves)) \o LineOf(leaf)
    BY <1>1, LineOfType, FlattenAppend
  <1>4. Append(leaves, leaf) \in Seq(Leaf)
    OBVIOUS
  <1>5. LinesOf(Append(leaves, leaf)) = FlattenSeq(Mapped(Made, Append(leaves, leaf)))
    BY <1>4, LinesOfMade
  <1>. QED  BY <1>2, <1>3, <1>5, LinesOfMade, Zenon

-----------------------------------------------------------------------------
(* What the lines are worth: what the items are, less those of no value.   *)

LineWorth == [line \in LineSet |-> Scaled(line.amount)]

LinesWorth(lines) == Sum(Mapped(LineWorth, lines))

LEMMA LineWorthType ==
    /\ LineWorth \in [LineSet -> Int]
    /\ \A leaf \in Leaf :
         LineWorth[Line(leaf.item, AmountOf(leaf))] = Worth[leaf]
  <1>1. ASSUME NEW leaf \in Leaf
        PROVE  /\ Line(leaf.item, AmountOf(leaf)) \in LineSet
               /\ Line(leaf.item, AmountOf(leaf)).amount = AmountOf(leaf)
               /\ Scaled(AmountOf(leaf)) \in Int
    BY AmountOfType, ScaledType DEF LineSet, Line
  <1>2. ASSUME NEW line \in LineSet  PROVE Scaled(line.amount) \in Int
    BY <1>1 DEF LineSet
  <1>3. LineWorth \in [LineSet -> Int]
    BY <1>2 DEF LineWorth
  <1>4. ASSUME NEW leaf \in Leaf
        PROVE  LineWorth[Line(leaf.item, AmountOf(leaf))] = Worth[leaf]
    BY <1>1 DEF LineWorth, Worth
  <1>. QED  BY <1>3, <1>4

LEMMA LinesWorthType ==
    ASSUME NEW lines \in Seq(LineSet)
    PROVE  LinesWorth(lines) \in Int
  <1>1. Mapped(LineWorth, lines) \in Seq(Int)
    BY LineWorthType, MappedType
  <1>. QED  BY <1>1, SumType DEF LinesWorth

\* One line more.
LEMMA LinesWorthOne ==
    ASSUME NEW lines \in Seq(LineSet), NEW leaf \in Leaf
    PROVE  LinesWorth(lines \o <<Line(leaf.item, AmountOf(leaf))>>)
             = LinesWorth(lines) + Worth[leaf]
  <1>. DEFINE line == Line(leaf.item, AmountOf(leaf))
  <1>1. line \in LineSet /\ LineWorth[line] = Worth[leaf]
    BY LineWorthType DEF LineSet
  <1>2. Worth[leaf] \in Int
    BY WorthType
  <1>. HIDE DEF line
  <1>3. lines \o <<line>> = Append(lines, line)
    BY <1>1
  <1>4. Mapped(LineWorth, Append(lines, line))
          = Append(Mapped(LineWorth, lines), Worth[leaf])
    BY <1>1, MappedAppend
  <1>5. Mapped(LineWorth, lines) \in Seq(Int)
    BY LineWorthType, MappedType
  <1>6. Sum(Append(Mapped(LineWorth, lines), Worth[leaf]))
          = Sum(Mapped(LineWorth, lines)) + Worth[leaf]
    BY <1>2, <1>5, SumAppend
  <1>7. LinesWorth(lines \o <<line>>) = LinesWorth(lines) + Worth[leaf]
    BY <1>3, <1>4, <1>6, Zenon DEF LinesWorth
  <1>. QED  BY <1>7 DEF line

\* What is left out is less than a tenth of a cent.
LEMMA TinyWorth ==
    ASSUME NEW leaf \in Leaf, Tiny(AmountOf(leaf))
    PROVE  10 * Worth[leaf] <= Scale /\ -10 * Worth[leaf] <= Scale
  <1>. DEFINE a == AmountOf(leaf)
  <1>1. a.num \in Int /\ a.den \in Nat \ {0} /\ Scale \in Nat
    BY AmountOfType, FlatRegelsAssumption DEF Fraction
  <1>2. 10 * a.num < a.den /\ -10 * a.num < a.den
    BY DEF Tiny
  <1>3. Worth[leaf] = a.num * (Scale \div a.den)
    BY DEF Worth, Scaled
  <1>. HIDE DEF a
  <1>. QED  BY <1>1, <1>2, <1>3, TinyProduct

\* How far the lines of some items may be from what the items are worth.
Near(leaves) ==
    LET lines == LinesOf(leaves)
        off == LinesWorth(lines) - WorthOf(leaves)
        left == Len(leaves) - Len(lines)
    IN  left \in Nat /\ 10 * off <= left * Scale /\ -10 * off <= left * Scale

\* Item by item: a line is worth its item, or both sides may differ by as
\* much as a tenth of a cent more.
LEMMA LinesNear ==
    ASSUME NEW leaves \in Seq(Leaf)
    PROVE  Near(leaves)
  <1>. DEFINE T == {s \in Seq(Leaf) : Near(s)}
  <1>1. << >> \in T
    <2>1. << >> \in Seq(Leaf) /\ Len(<< >>) = 0
      OBVIOUS
    <2>2. LinesWorth(<< >>) = 0
      BY MappedEmpty, SumEmpty DEF LinesWorth
    <2>3. Scale \in Nat
      BY FlatRegelsAssumption
    <2>4. Near(<< >>)
      BY <2>1, <2>2, <2>3, LinesOfEmpty, WorthOfEmpty DEF Near
    <2>. QED  BY <2>1, <2>4
  <1>2. ASSUME NEW s \in Seq(Leaf), NEW leaf \in Leaf, s \in T
        PROVE  Append(s, leaf) \in T
    <2>. DEFINE t == Append(s, leaf)
                lines == LinesOf(s)
                w == Worth[leaf]
                a == LinesWorth(lines)
                b == WorthOf(s)
                n == Len(s)
                m == Len(lines)
    <2>1. t \in Seq(Leaf) /\ Len(t) = n + 1 /\ n \in Nat
      OBVIOUS
    <2>2. WorthOf(t) = b + w /\ b \in Int /\ w \in Int
      BY WorthOfAppend, WorthOfType, WorthType
    <2>3. lines \in Seq(LineSet) /\ m \in Nat /\ a \in Int
      BY LinesOfType, LinesWorthType
    <2>4. LinesOf(t) = lines \o LineOf(leaf)
      BY LinesOfAppend
    <2>5. n - m \in Nat /\ 10 * (a - b) <= (n - m) * Scale
          /\ -10 * (a - b) <= (n - m) * Scale
      BY <1>2 DEF Near
    <2>6. Scale \in Nat
      BY FlatRegelsAssumption
    <2>7. CASE Tiny(AmountOf(leaf))
      <3>1. LinesOf(t) = lines
        BY <2>3, <2>4, <2>7, LineOfType
      <3>2. 10 * w <= Scale /\ -10 * w <= Scale
        BY <2>7, TinyWorth
      <3>. HIDE DEF t, w, n, m, a, b
      <3>3. n + 1 - m \in Nat /\ 10 * (a - (b + w)) <= (n + 1 - m) * Scale
            /\ -10 * (a - (b + w)) <= (n + 1 - m) * Scale
        <4>1. (n + 1 - m) * Scale = (n - m) * Scale + Scale
          BY <2>1, <2>3, <2>6
        <4>. HIDE DEF lines
        <4>. DEFINE p == (n - m) * Scale
        <4>2. p \in Int
          BY <2>1, <2>3, <2>6
        <4>3. 10 * (a - b) <= p /\ -10 * (a - b) <= p
          BY <2>5
        <4>4. (n + 1 - m) * Scale = p + Scale
          BY <4>1
        <4>. HIDE DEF p
        <4>5. 10 * (a - (b + w)) <= p + Scale /\ -10 * (a - (b + w)) <= p + Scale
          BY <2>2, <2>3, <2>6, <3>2, <4>2, <4>3
        <4>6. n + 1 - m \in Nat
          BY <2>1, <2>3, <2>5
        <4>. QED  BY <4>4, <4>5, <4>6
      <3>4. LinesWorth(LinesOf(t)) = a /\ Len(LinesOf(t)) = m
        BY <3>1 DEF a, m
      <3>5. Near(t)
        BY <2>1, <2>2, <3>3, <3>4 DEF Near
      <3>. QED  BY <2>1, <3>5 DEF t
    <2>8. CASE ~Tiny(AmountOf(leaf))
      <3>. DEFINE line == Line(leaf.item, AmountOf(leaf))
      <3>1. LinesOf(t) = lines \o <<line>>
        BY <2>4, <2>8, LineOfType
      <3>2. LinesWorth(lines \o <<line>>) = a + w
        BY <2>3, LinesWorthOne
      <3>3. Len(lines \o <<line>>) = m + 1
        <4>. HIDE DEF line, lines
        <4>. QED  BY <2>3
      <3>. HIDE DEF t, w, n, m, a, b, line, lines
      <3>4. (n + 1) - (m + 1) = n - m /\ (a + w) - (b + w) = a - b
        BY <2>1, <2>2, <2>3
      <3>5. LinesWorth(LinesOf(t)) - WorthOf(t) = a - b
            /\ Len(t) - Len(LinesOf(t)) = n - m
        BY <2>1, <2>2, <3>1, <3>2, <3>3, <3>4
      <3>6. Near(t)
        BY <2>5, <3>5 DEF Near
      <3>. QED  BY <2>1, <3>6 DEF t
    <2>. QED  BY <2>7, <2>8
  <1>. HIDE DEF T
  <1>3. leaves \in T
    BY <1>1, <1>2, AppendInduction
  <1>. QED  BY <1>3 DEF T

-----------------------------------------------------------------------------
(* What a stack of calls has made and has still to do.                     *)

\* Lines and frames, whatever the VAT codes are.
AnyLine == [amount : Fraction, quantity : Int, btw : Int, code : Code]

AnyFrame ==
    [regels : Lists, i : Nat \ {0}, factor : Fraction, out : Seq(AnyLine)]

\* The items of the lines of a list from the i-th.
RestOf(list, factor, i) == FlattenSeq(SubSeq(PartsBy(Flat, list, factor), i, Len(list)))

\* What a call has made, and what it goes on with when a group returns.
Out == [fr \in AnyFrame |-> fr.out]
After == [fr \in AnyFrame |-> RestOf(fr.regels, fr.factor, fr.i + 1)]

\* What all calls of a stack have made, outermost first.
OutOf(stack) == FlattenSeq(Reverse(Mapped(Out, stack)))

\* What is left to callers.
Callers(stack) == FlattenSeq(Mapped(After, stack))

\* All that is left: of the innermost call, and of those around it.
Ahead(stack) ==
    RestOf(Head(stack).regels, Head(stack).factor, Head(stack).i)
      \o Callers(Tail(stack))

LEMMA AnyLinesJoined ==
    \A s, t, u \in Seq(AnyLine) : (s \o t) \o u = s \o (t \o u)
  BY Associated

LEMMA LeavesJoined ==
    \A s, t, u \in Seq(Leaf) : (s \o t) \o u = s \o (t \o u)
  BY Associated

LEMMA AnyGrown ==
    ASSUME NEW fr \in AnyFrame, NEW out \in Seq(AnyLine)
    PROVE  [fr EXCEPT !.i = @ + 1, !.out = out] \in AnyFrame
  <1>1. fr.i + 1 \in Nat \ {0}
    BY DEF AnyFrame
  <1>2. ASSUME NEW i \in Nat \ {0}
        PROVE  [fr EXCEPT !.i = i, !.out = out] \in AnyFrame
    BY DEF AnyFrame
  <1>. QED  BY <1>1, <1>2

LEMMA AnyFrames ==
    ASSUME NEW vat \in VATCodes
    PROVE  /\ FrameWith(vat) \subseteq AnyFrame
           /\ \A s \in Seq(FrameWith(vat)) : s \in Seq(AnyFrame)
  <1>1. LineWith(vat) \subseteq AnyLine
    BY DEF LineWith, AnyLine
  <1>2. \A s \in Seq(LineWith(vat)) : s \in Seq(AnyLine)
    <2>. HIDE DEF LineWith, AnyLine
    <2>. QED  BY <1>1
  <1>3. FrameWith(vat) \subseteq AnyFrame
    <2>. HIDE DEF LineWith, AnyLine
    <2>. QED  BY <1>2 DEF FrameWith, AnyFrame
  <1>. HIDE DEF FrameWith, AnyFrame
  <1>. QED  BY <1>3

LEMMA ListSeq ==
    ASSUME NEW list \in Lists
    PROVE  list \in Seq(ListLine) /\ Len(list) \in Nat
  <1>1. list \in Seq(ListLine)
    BY ListsType
  <1>. QED  BY <1>1

LEMMA FlatParts ==
    ASSUME NEW list \in Lists, NEW factor \in Fraction
    PROVE  /\ PartsBy(Flat, list, factor) \in Seq(Seq(Leaf))
           /\ Len(PartsBy(Flat, list, factor)) = Len(list)
           /\ \A i \in 1..Len(list) :
                PartsBy(Flat, list, factor)[i] = ItemsOf(Flat, list[i], factor)
  <1>1. list \in Seq(ListLine) /\ DOMAIN list = 1..Len(list)
    BY ListSeq
  <1>2. \A i \in 1..Len(list) :
          PartsBy(Flat, list, factor)[i] = ItemsOf(Flat, list[i], factor)
    BY <1>1 DEF PartsBy
  <1>. QED  BY <1>1, <1>2, FlatSolved, PartsByType

LEMMA RestOfSeq ==
    ASSUME NEW S, NEW s \in Seq(S), NEW n \in Nat, n = Len(s)
    PROVE  /\ SubSeq(s, 1, n) = s
           /\ SubSeq(s, n + 1, n) = << >>
           /\ \A i \in 1..n : /\ SubSeq(s, i + 1, n) \in Seq(S)
                              /\ s[i] \in S
                              /\ SubSeq(s, i, n) = <<s[i]>> \o SubSeq(s, i + 1, n)
  OBVIOUS

\* From the first line it is all of the list, past the last one nothing, and
\* in between the items of a line and the rest.
LEMMA RestOfType ==
    ASSUME NEW list \in Lists, NEW factor \in Fraction
    PROVE  /\ RestOf(list, factor, 1) = Flat[list][factor]
           /\ RestOf(list, factor, Len(list) + 1) = << >>
           /\ \A i \in 1..Len(list) :
                /\ RestOf(list, factor, i + 1) \in Seq(Leaf)
                /\ ItemsOf(Flat, list[i], factor) \in Seq(Leaf)
                /\ RestOf(list, factor, i)
                     = ItemsOf(Flat, list[i], factor) \o RestOf(list, factor, i + 1)
  <1>. DEFINE parts == PartsBy(Flat, list, factor)
              n == Len(list)
              S == Seq(Leaf)
  <1>1. parts \in Seq(S) /\ n = Len(parts) /\ n \in Nat
    BY FlatParts, ListSeq
  <1>2. \A i \in 1..n : parts[i] = ItemsOf(Flat, list[i], factor)
    BY FlatParts
  <1>3. \A i : RestOf(list, factor, i) = FlattenSeq(SubSeq(parts, i, n))
    BY Zenon DEF RestOf
  <1>4. Flat[list][factor] = FlattenSeq(parts)
    BY FlatSolved
  <1>. HIDE DEF parts, n
  <1>5. RestOf(list, factor, 1) = Flat[list][factor]
    BY <1>1, <1>3, <1>4, RestOfSeq
  <1>6. RestOf(list, factor, n + 1) = << >>
    <2>1. SubSeq(parts, n + 1, n) = << >>
      BY <1>1, RestOfSeq
    <2>. QED  BY <1>3, <2>1, FlattenEmpty, Zenon
  <1>7. ASSUME NEW i \in 1..n
        PROVE  /\ RestOf(list, factor, i + 1) \in S
               /\ parts[i] \in S
               /\ RestOf(list, factor, i) = parts[i] \o RestOf(list, factor, i + 1)
    <2>. DEFINE rest == SubSeq(parts, i + 1, n)
    <2>1. /\ rest \in Seq(S) /\ parts[i] \in S
          /\ SubSeq(parts, i, n) = <<parts[i]>> \o rest
      <3>. HIDE DEF S
      <3>. QED  BY <1>1, RestOfSeq
    <2>2. FlattenSeq(rest) \in S
      BY <2>1, FlattenType
    <2>3. FlattenSeq(<<parts[i]>> \o rest) = parts[i] \o FlattenSeq(rest)
      BY <2>1, FlattenCons
    <2>. HIDE DEF S
    <2>. QED  BY <1>3, <2>1, <2>2, <2>3, Zenon
  <1>8. ASSUME NEW i \in 1..n
        PROVE  /\ RestOf(list, factor, i + 1) \in Seq(Leaf)
               /\ ItemsOf(Flat, list[i], factor) \in Seq(Leaf)
               /\ RestOf(list, factor, i)
                    = ItemsOf(Flat, list[i], factor) \o RestOf(list, factor, i + 1)
    BY <1>2, <1>7, Zenon
  <1>. QED  BY <1>5, <1>6, <1>8, Zenon DEF n

-----------------------------------------------------------------------------
(* Stacks with a call in front.                                            *)

LEMMA MappedCons ==
    ASSUME NEW S, NEW F, NEW s \in Seq(S), NEW x \in S
    PROVE  Mapped(F, <<x>> \o s) = <<F[x]>> \o Mapped(F, s)
  BY DEF Mapped

LEMMA ReverseCons ==
    ASSUME NEW S, NEW s \in Seq(S), NEW x \in S
    PROVE  Reverse(<<x>> \o s) = Append(Reverse(s), x) /\ Reverse(s) \in Seq(S)
  BY DEF Reverse

LEMMA OutOfCons ==
    ASSUME NEW fr \in AnyFrame, NEW s \in Seq(AnyFrame)
    PROVE  /\ OutOf(s) \in Seq(AnyLine) /\ fr.out \in Seq(AnyLine)
           /\ OutOf(<<fr>> \o s) = OutOf(s) \o fr.out
  <1>. DEFINE S == Seq(AnyLine)
              outs == Mapped(Out, s)
  <1>1. Out \in [AnyFrame -> S] /\ Out[fr] = fr.out /\ fr.out \in S
    BY DEF Out, AnyFrame
  <1>2. outs \in Seq(S)
    BY <1>1, MappedType
  <1>3. Mapped(Out, <<fr>> \o s) = <<fr.out>> \o outs
    <2>1. Mapped(Out, <<fr>> \o s) = <<Out[fr]>> \o Mapped(Out, s)
      BY MappedCons
    <2>. QED  BY <1>1, <2>1, Zenon
  <1>. HIDE DEF outs
  <1>4. Reverse(<<fr.out>> \o outs) = Append(Reverse(outs), fr.out)
        /\ Reverse(outs) \in Seq(S)
    <2>. HIDE DEF S
    <2>. QED  BY <1>1, <1>2, ReverseCons
  <1>5. FlattenSeq(Append(Reverse(outs), fr.out)) = FlattenSeq(Reverse(outs)) \o fr.out
    BY <1>1, <1>4, FlattenAppend
  <1>6. FlattenSeq(Reverse(outs)) \in S
    BY <1>4, FlattenType
  <1>7. OutOf(s) = FlattenSeq(Reverse(outs))
    BY Zenon DEF OutOf, outs
  <1>8. OutOf(<<fr>> \o s) = FlattenSeq(Reverse(Mapped(Out, <<fr>> \o s)))
    BY Zenon DEF OutOf
  <1>9. OutOf(<<fr>> \o s) = OutOf(s) \o fr.out
    BY <1>3, <1>4, <1>5, <1>7, <1>8
  <1>. QED  BY <1>1, <1>6, <1>7, <1>9

LEMMA OutOfEmpty == OutOf(<< >>) = << >>
  <1>1. Mapped(Out, << >>) = << >>
    BY MappedEmpty
  <1>2. Reverse(<< >>) = << >>
    BY DEF Reverse
  <1>. QED  BY <1>1, <1>2, FlattenEmpty, Zenon DEF OutOf

LEMMA CallersEmpty == Callers(<< >>) = << >>
  BY MappedEmpty, FlattenEmpty, Zenon DEF Callers

\* A call that is at a line of its list.
AtLine(fr) == fr.i \in 1..Len(fr.regels)

LEMMA AfterType ==
    ASSUME NEW fr \in AnyFrame, AtLine(fr)
    PROVE  /\ After[fr] = RestOf(fr.regels, fr.factor, fr.i + 1)
           /\ After[fr] \in Seq(Leaf)
  <1>1. After[fr] = RestOf(fr.regels, fr.factor, fr.i + 1)
    BY Zenon DEF After
  <1>2. fr.regels \in Lists /\ fr.factor \in Fraction
    BY DEF AnyFrame
  <1>3. RestOf(fr.regels, fr.factor, fr.i + 1) \in Seq(Leaf)
    BY <1>2, RestOfType DEF AtLine
  <1>. QED  BY <1>1, <1>3

LEMMA AfterMapped ==
    ASSUME NEW s \in Seq(AnyFrame), \A k \in DOMAIN s : AtLine(s[k])
    PROVE  Mapped(After, s) \in Seq(Seq(Leaf))
  <1>. DEFINE t == Mapped(After, s)
  <1>1. DOMAIN t = DOMAIN s /\ t = [k \in DOMAIN s |-> t[k]]
    BY DEF Mapped
  <1>2. ASSUME NEW k \in DOMAIN s  PROVE t[k] \in Seq(Leaf)
    <2>1. t[k] = After[s[k]]
      BY DEF Mapped
    <2>2. s[k] \in AnyFrame /\ AtLine(s[k])
      BY Elements
    <2>. HIDE DEF t
    <2>. QED  BY <2>1, <2>2, AfterType
  <1>. HIDE DEF t
  <1>3. t \in Seq(Seq(Leaf))
    BY <1>1, <1>2, MapType
  <1>. QED  BY <1>3 DEF t

LEMMA CallersType ==
    ASSUME NEW s \in Seq(AnyFrame), \A k \in DOMAIN s : AtLine(s[k])
    PROVE  Callers(s) \in Seq(Leaf)
  BY AfterMapped, FlattenType DEF Callers

LEMMA CallersCons ==
    ASSUME NEW fr \in AnyFrame, AtLine(fr),
           NEW s \in Seq(AnyFrame), \A k \in DOMAIN s : AtLine(s[k])
    PROVE  Callers(<<fr>> \o s)
             = RestOf(fr.regels, fr.factor, fr.i + 1) \o Callers(s)
  <1>1. Mapped(After, <<fr>> \o s) = <<After[fr]>> \o Mapped(After, s)
    BY MappedCons
  <1>2. FlattenSeq(<<After[fr]>> \o Mapped(After, s))
          = After[fr] \o FlattenSeq(Mapped(After, s))
    BY AfterType, AfterMapped, FlattenCons
  <1>3. After[fr] = RestOf(fr.regels, fr.factor, fr.i + 1)
    BY AfterType
  <1>. QED  BY <1>1, <1>2, <1>3, Zenon DEF Callers

LEMMA AheadCons ==
    ASSUME NEW S, NEW fr \in S, NEW s \in Seq(S)
    PROVE  Ahead(<<fr>> \o s) = RestOf(fr.regels, fr.factor, fr.i) \o Callers(s)
  <1>1. Head(<<fr>> \o s) = fr /\ Tail(<<fr>> \o s) = s
    OBVIOUS
  <1>. QED  BY <1>1, Zenon DEF Ahead

-----------------------------------------------------------------------------
(* The steps of the walk.                                                  *)

\* The calls around the innermost one are at a line, and the stack is a call
\* in front of them.
LEMMA StackOfCalls ==
    ASSUME VATInv, CallsInv, run.pc = "convert"
    PROVE  /\ run.vatcodes \in VATCodes
           /\ Top \in AnyFrame /\ Tail(run.stack) \in Seq(AnyFrame)
           /\ \A k \in DOMAIN Tail(run.stack) : AtLine(Tail(run.stack)[k])
           /\ run.stack = <<Top>> \o Tail(run.stack)
           /\ Ahead(run.stack) = RestOf(Top.regels, Top.factor, Top.i)
                                   \o Callers(Tail(run.stack))
           /\ Callers(Tail(run.stack)) \in Seq(Leaf)
           /\ OutOf(run.stack) = OutOf(Tail(run.stack)) \o Top.out
  <1>1. /\ run.vatcodes \in VATCodes
        /\ run.stack \in Seq(FrameWith(run.vatcodes)) /\ run.stack # << >>
    BY DEF VATInv, RunWith
  <1>2. Top \in AnyFrame /\ Tail(run.stack) \in Seq(AnyFrame)
    BY <1>1, TopType, AnyFrames
  <1>3. ASSUME NEW k \in DOMAIN Tail(run.stack)
        PROVE  AtLine(Tail(run.stack)[k])
    <2>. DEFINE fr == Tail(run.stack)[k]
    <2>1. fr \in AnyFrame
      BY <1>2, Elements
    <2>2. fr.i \in Nat \ {0}
      BY <2>1 DEF AnyFrame
    <2>3. fr.i <= Len(fr.regels) /\ Len(fr.regels) \in Nat
      BY CallersAtLine
    <2>. HIDE DEF fr
    <2>. QED  BY <2>2, <2>3 DEF AtLine, fr
  <1>4. run.stack = <<Top>> \o Tail(run.stack)
    <2>1. \A S : \A s \in Seq(S) : s # << >> => s = <<Head(s)>> \o Tail(s)
      OBVIOUS
    <2>. QED  BY <1>1, <2>1 DEF Top
  <1>5. Ahead(run.stack) = RestOf(Top.regels, Top.factor, Top.i)
                             \o Callers(Tail(run.stack))
    BY Zenon DEF Ahead, Top
  <1>6. Callers(Tail(run.stack)) \in Seq(Leaf)
    BY <1>2, <1>3, CallersType
  <1>7. OutOf(<<Top>> \o Tail(run.stack)) = OutOf(Tail(run.stack)) \o Top.out
    BY <1>2, OutOfCons
  <1>8. OutOf(run.stack) = OutOf(Tail(run.stack)) \o Top.out
    BY <1>4, <1>7, Zenon
  <1>. QED  BY <1>1, <1>2, <1>3, <1>4, <1>5, <1>6, <1>8

LEMMA LineAhead ==
    ASSUME VATInv, CallsInv, AtRegel
    PROVE  /\ Top.regels \in Lists /\ Top.factor \in Fraction
           /\ ItemsOf(Flat, Regel, Top.factor) \in Seq(Leaf)
           /\ RestOf(Top.regels, Top.factor, Top.i + 1) \in Seq(Leaf)
           /\ RestOf(Top.regels, Top.factor, Top.i)
                = ItemsOf(Flat, Regel, Top.factor)
                    \o RestOf(Top.regels, Top.factor, Top.i + 1)
           /\ AtLine(Top)
  <1>1. run.pc = "convert" /\ Top.i <= Len(Top.regels)
    BY DEF AtRegel
  <1>2. Top \in AnyFrame
    BY <1>1, StackOfCalls
  <1>3. Top.regels \in Lists /\ Top.factor \in Fraction /\ Top.i \in Nat \ {0}
    BY <1>2 DEF AnyFrame
  <1>4. Len(Top.regels) \in Nat
    BY <1>3, ListSeq
  <1>5. Top.i \in 1..Len(Top.regels)
    BY <1>1, <1>3, <1>4
  <1>. QED  BY <1>3, <1>5, RestOfType DEF AtLine, Regel

\* The innermost call goes on to the next line.
LEMMA AdvanceWalk ==
    ASSUME VATInv, CallsInv, AtRegel, NEW lines \in Seq(LineWith(run.vatcodes))
    PROVE  /\ Ahead(run.stack)
                = ItemsOf(Flat, Regel, Top.factor) \o Ahead(Advance(lines))
           /\ Ahead(Advance(lines)) \in Seq(Leaf)
           /\ OutOf(Advance(lines)) = OutOf(run.stack) \o lines
  <1>. DEFINE fr == [Top EXCEPT !.i = @ + 1, !.out = @ \o lines]
              rest == Tail(run.stack)
              items == ItemsOf(Flat, Regel, Top.factor)
              after == RestOf(Top.regels, Top.factor, Top.i + 1)
  <1>1. run.pc = "convert"
    BY DEF AtRegel
  <1>2. Top \in FrameWith(run.vatcodes)
    BY <1>1, TopType
  <1>3. fr \in FrameWith(run.vatcodes)
    BY <1>2, Grown
  <1>4. /\ fr.i = Top.i + 1 /\ fr.regels = Top.regels
        /\ fr.factor = Top.factor /\ fr.out = Top.out \o lines
    BY <1>2 DEF FrameWith
  <1>5. Advance(lines) = <<fr>> \o rest
    BY DEF Advance
  <1>6. rest \in Seq(AnyFrame) /\ Callers(rest) \in Seq(Leaf)
    BY <1>1, StackOfCalls
  <1>7. fr \in AnyFrame
    BY <1>1, <1>3, StackOfCalls, AnyFrames
  <1>. HIDE DEF fr, rest
  <1>8. Ahead(Advance(lines)) = after \o Callers(rest)
    BY <1>4, <1>5, <1>6, <1>7, AheadCons
  <1>9. /\ items \in Seq(Leaf) /\ after \in Seq(Leaf)
        /\ Ahead(run.stack) = (items \o after) \o Callers(rest)
    BY <1>1, LineAhead, StackOfCalls DEF rest
  <1>. HIDE DEF items, after
  <1>10. (items \o after) \o Callers(rest) = items \o (after \o Callers(rest))
    BY <1>6, <1>9, LeavesJoined
  <1>11. after \o Callers(rest) \in Seq(Leaf)
    BY <1>6, <1>9, Joined
  <1>12. OutOf(Advance(lines)) = OutOf(rest) \o (Top.out \o lines)
    BY <1>4, <1>5, <1>6, <1>7, OutOfCons
  <1>13. OutOf(run.stack) = OutOf(rest) \o Top.out
    BY <1>1, StackOfCalls DEF rest
  <1>14. lines \in Seq(AnyLine)
    <2>1. LineWith(run.vatcodes) \subseteq AnyLine
      BY DEF LineWith, AnyLine
    <2>. HIDE DEF LineWith, AnyLine
    <2>. QED  BY <2>1
  <1>15. OutOf(rest) \in Seq(AnyLine) /\ Top.out \in Seq(AnyLine)
    BY <1>1, <1>6, StackOfCalls, OutOfCons
  <1>16. (OutOf(rest) \o Top.out) \o lines = OutOf(rest) \o (Top.out \o lines)
    BY <1>14, <1>15, AnyLinesJoined
  <1>17. Ahead(run.stack) = items \o Ahead(Advance(lines))
    BY <1>8, <1>9, <1>10
  <1>. QED  BY <1>8, <1>11, <1>12, <1>13, <1>16, <1>17 DEF items

\* A group is walked where it stands.
LEMMA GroupWalk ==
    ASSUME VATInv, CallsInv, ConvertGroep,
           NEW stack,
           stack = <<Frame(Regel.regels, Reduce(Top.factor, Regel.korting))>>
                     \o run.stack
    PROVE  Ahead(stack) = Ahead(run.stack) /\ OutOf(stack) = OutOf(run.stack)
  <1>. DEFINE fr == Frame(Regel.regels, Reduce(Top.factor, Regel.korting))
              items == ItemsOf(Flat, Regel, Top.factor)
              after == RestOf(Top.regels, Top.factor, Top.i + 1)
              rest == Callers(Tail(run.stack))
  <1>1. AtRegel /\ run.pc = "convert" /\ Regel.type = "groep"
    BY DEF ConvertGroep, AtRegel
  <1>2. Regel.regels \in Lists /\ Regel.korting \in 0..100
    BY <1>1, RegelType, LineKinds DEF ListLine
  <1>3. Reduce(Top.factor, Regel.korting) \in Fraction
    BY <1>1, <1>2, LineAhead, ReduceType
  <1>4. /\ fr \in AnyFrame /\ fr.out = << >> /\ fr.i = 1
        /\ fr.regels = Regel.regels
        /\ fr.factor = Reduce(Top.factor, Regel.korting)
    <2>1. << >> \in Seq(AnyLine)
      OBVIOUS
    <2>. QED  BY <1>2, <1>3, <2>1 DEF Frame, AnyFrame
  <1>5. items = Flat[Regel.regels][Reduce(Top.factor, Regel.korting)]
    BY <1>1 DEF ItemsOf
  <1>6. RestOf(fr.regels, fr.factor, fr.i) = items
    BY <1>2, <1>3, <1>4, <1>5, RestOfType
  <1>7. run.stack \in Seq(AnyFrame)
    BY <1>1, StackOfCalls, Push
  <1>8. stack = <<fr>> \o run.stack
    OBVIOUS
  <1>9. /\ items \in Seq(Leaf) /\ after \in Seq(Leaf) /\ rest \in Seq(Leaf)
        /\ Ahead(run.stack) = (items \o after) \o rest
    BY <1>1, LineAhead, StackOfCalls
  <1>10. Callers(<<Top>> \o Tail(run.stack)) = after \o rest
    BY <1>1, LineAhead, StackOfCalls, CallersCons
  <1>11. Callers(run.stack) = after \o rest
    BY <1>1, <1>10, StackOfCalls
  <1>. HIDE DEF fr, items, after, rest
  <1>12. Ahead(stack) = items \o (after \o rest)
    BY <1>4, <1>6, <1>7, <1>8, <1>11, AheadCons
  <1>13. (items \o after) \o rest = items \o (after \o rest)
    BY <1>9, LeavesJoined, Zenon
  <1>14. OutOf(stack) = OutOf(run.stack) \o << >> /\ OutOf(run.stack) \in Seq(AnyLine)
    BY <1>4, <1>7, <1>8, OutOfCons
  <1>15. OutOf(run.stack) \o << >> = OutOf(run.stack)
    BY <1>14, ConcatEmptySeq
  <1>. QED  BY <1>9, <1>12, <1>13, <1>14, <1>15

\* Past the end of its list a call leaves nothing undone.
LEMMA PastEnd ==
    ASSUME VATInv, CallsInv, run.pc = "convert", Top.i > Len(Top.regels)
    PROVE  /\ Ahead(run.stack) = Callers(Tail(run.stack))
           /\ OutOf(run.stack) = OutOf(Tail(run.stack)) \o Top.out
  <1>1. Top.regels \in Lists /\ Top.factor \in Fraction /\ Top.i \in Nat \ {0}
    BY StackOfCalls DEF AnyFrame
  <1>2. Len(Top.regels) \in Nat
    BY <1>1, ListSeq
  <1>3. Top.i <= Len(Top.regels) + 1
    <2>1. run.stack[1] = Top /\ run.stack # << >>
      BY CallersAtLine DEF VATInv
    <2>2. run.stack \in Seq(FrameWith(run.vatcodes))
      BY DEF VATInv, RunWith
    <2>3. 1 \in DOMAIN run.stack
      BY <2>1, <2>2, FirstElement
    <2>. QED  BY <2>1, <2>3 DEF CallsInv, Nested
  <1>4. Top.i = Len(Top.regels) + 1
    BY <1>1, <1>2, <1>3
  <1>5. RestOf(Top.regels, Top.factor, Top.i) = << >>
    BY <1>1, <1>4, RestOfType
  <1>6. Callers(Tail(run.stack)) \in Seq(Leaf)
    BY StackOfCalls
  <1>7. << >> \o Callers(Tail(run.stack)) = Callers(Tail(run.stack))
    BY <1>6, ConcatEmptySeq
  <1>. QED  BY <1>5, <1>7, StackOfCalls

\* A group that returns.
LEMMA ReturnWalk ==
    ASSUME VATInv, CallsInv, run.pc = "convert", Top.i > Len(Top.regels),
           Tail(run.stack) # << >>, NEW stack,
           stack = <<[Head(Tail(run.stack)) EXCEPT !.i = @ + 1,
                                                   !.out = @ \o Top.out]>>
                     \o Tail(Tail(run.stack))
    PROVE  Ahead(stack) = Ahead(run.stack) /\ OutOf(stack) = OutOf(run.stack)
  <1>. DEFINE rest == Tail(run.stack)
              caller == Head(rest)
              tl == Tail(rest)
              fr == [caller EXCEPT !.i = @ + 1, !.out = @ \o Top.out]
  <1>1. /\ rest \in Seq(AnyFrame) /\ Top \in AnyFrame
        /\ \A k \in DOMAIN rest : AtLine(rest[k])
    BY StackOfCalls
  <1>2. caller \in AnyFrame /\ tl \in Seq(AnyFrame) /\ rest # << >>
    BY <1>1, HeadTail
  <1>3. caller = rest[1] /\ 1 \in DOMAIN rest
    BY <1>1, <1>2, FirstElement
  <1>4. \A k \in DOMAIN tl : k + 1 \in DOMAIN rest /\ tl[k] = rest[k + 1]
    BY <1>1, <1>2, TailElements
  <1>5. rest = <<caller>> \o tl
    <2>1. \A S : \A s \in Seq(S) : s # << >> => s = <<Head(s)>> \o Tail(s)
      OBVIOUS
    <2>. QED  BY <1>1, <1>2, <2>1
  <1>6. /\ fr.i = caller.i + 1 /\ fr.regels = caller.regels
        /\ fr.factor = caller.factor /\ fr.out = caller.out \o Top.out
    BY <1>2 DEF AnyFrame
  <1>7. stack = <<fr>> \o tl
    OBVIOUS
  <1>8. Ahead(run.stack) = Callers(rest) /\ OutOf(run.stack) = OutOf(rest) \o Top.out
    BY PastEnd
  <1>9. fr \in AnyFrame
    <2>1. caller.out \in Seq(AnyLine) /\ Top.out \in Seq(AnyLine)
      BY <1>1, <1>2 DEF AnyFrame
    <2>. DEFINE out == caller.out \o Top.out
    <2>2. out \in Seq(AnyLine)
      BY <2>1, Joined
    <2>3. fr = [caller EXCEPT !.i = @ + 1, !.out = out]
      OBVIOUS
    <2>. HIDE DEF out, caller, fr
    <2>. QED  BY <1>2, <2>2, <2>3, AnyGrown
  <1>. HIDE DEF rest, caller, tl, fr
  <1>10. AtLine(caller) /\ \A k \in DOMAIN tl : AtLine(tl[k])
    BY <1>1, <1>3, <1>4
  <1>11. Callers(rest)
           = RestOf(caller.regels, caller.factor, caller.i + 1) \o Callers(tl)
    BY <1>2, <1>5, <1>10, CallersCons
  <1>12. Ahead(stack)
           = RestOf(caller.regels, caller.factor, caller.i + 1) \o Callers(tl)
    BY <1>2, <1>6, <1>7, <1>9, AheadCons
  <1>13. OutOf(rest) = OutOf(tl) \o caller.out
    BY <1>2, <1>5, OutOfCons
  <1>14. OutOf(stack) = OutOf(tl) \o (caller.out \o Top.out)
    BY <1>2, <1>6, <1>7, <1>9, OutOfCons
  <1>15. /\ OutOf(tl) \in Seq(AnyLine) /\ caller.out \in Seq(AnyLine)
         /\ Top.out \in Seq(AnyLine)
    BY <1>1, <1>2, OutOfCons
  <1>16. (OutOf(tl) \o caller.out) \o Top.out = OutOf(tl) \o (caller.out \o Top.out)
    BY <1>15, AnyLinesJoined
  <1>. QED  BY <1>8, <1>11, <1>12, <1>13, <1>14, <1>16

-----------------------------------------------------------------------------
(* The walk.                                                               *)

\* The items that were looked up are a first part of those of the invoice,
\* what the calls have still to do is the rest, and the lines are theirs.
Walked(done) ==
    /\ Len(done) = run.seen
    /\ Leaves = done \o Ahead(run.stack)
    /\ OutOf(run.stack) = LinesOf(done)

\* The inductive invariant.
WalkInv ==
    /\ run.pc = "idle" => run.factuur = None
    /\ run.pc = "convert" =>
         /\ run.factuur \in Factuur /\ run.result.error = None
         /\ \E done \in Seq(Leaf) : Walked(done)
    /\ run.pc = "converted" /\ run.factuur # None /\ run.result.error = None =>
         /\ run.factuur \in Factuur
         /\ run.seen = Len(Leaves) /\ run.result.lines = LinesOf(Leaves)

\* The codes are read once: what an item becomes does not change.
LEMMA SameLines ==
    ASSUME run'.vatcodes = run.vatcodes, NEW leaves
    PROVE  LinesOf(leaves)' = LinesOf(leaves)
  BY DEF LinesOf, LineOf, Line

\* A step that keeps what was walked and what is ahead together.
LEMMA WalkGoesOn ==
    ASSUME VATInv, WalkInv, run.pc = "convert",
           NEW before \in Seq(Leaf), Walked(before),
           NEW stack, NEW done \in Seq(Leaf),
           run' = [run EXCEPT !.stack = stack, !.seen = Len(done)],
           before \o Ahead(run.stack) = done \o Ahead(stack),
           OutOf(stack) = LinesOf(done)
    PROVE  WalkInv'
  <1>1. run \in RunWith(run.vatcodes)
    BY DEF VATInv
  <1>2. /\ run'.vatcodes = run.vatcodes /\ run'.stack = stack
        /\ run'.seen = Len(done) /\ run'.pc = "convert"
        /\ run'.factuur = run.factuur /\ run'.result = run.result
    BY <1>1 DEF RunWith
  <1>3. LinesOf(done)' = LinesOf(done)
    BY <1>2, SameLines
  <1>4. Leaves' = Leaves
    BY <1>2 DEF Leaves
  <1>5. Leaves = before \o Ahead(run.stack)
    BY DEF Walked
  <1>6. Walked(done)'
    BY <1>2, <1>3, <1>4, <1>5 DEF Walked
  <1>7. run.factuur \in Factuur /\ run.result.error = None
    BY DEF WalkInv
  <1>. QED  BY <1>2, <1>6, <1>7 DEF WalkInv

LEMMA WalkFails ==
    ASSUME VATInv, NEW error \in {"item", "gl", "vat"}, NEW btw, Fail(error, btw)
    PROVE  WalkInv'
  <1>1. run \in RunWith(run.vatcodes)
    BY DEF VATInv
  <1>2. run'.pc = "converted" /\ run'.result.error = error
    BY <1>1 DEF Fail, RunWith, NoResult
  <1>. QED  BY <1>2, FactuurregelsAssumption DEF WalkInv

LEMMA ConvertFactuurWalk ==
    ASSUME VATInv, NEW f \in Factuur, ConvertFactuur(f)
    PROVE  WalkInv'
  <1>. DEFINE fr == Frame(Regels[f], One)
  <1>1. run \in RunWith(run.vatcodes)
    BY DEF VATInv
  <1>2. /\ run'.pc = "convert" /\ run'.factuur = f /\ run'.seen = 0
        /\ run'.stack = <<fr>> /\ run'.result = NoResult
    BY <1>1 DEF ConvertFactuur, RunWith
  <1>3. Regels[f] \in Lists /\ One \in Fraction
    BY FactuurregelsAssumption DEF One, Fraction
  <1>4. /\ fr \in AnyFrame /\ fr.out = << >> /\ fr.i = 1
        /\ fr.regels = Regels[f] /\ fr.factor = One
    <2>1. << >> \in Seq(AnyLine)
      OBVIOUS
    <2>. QED  BY <1>3, <2>1 DEF Frame, AnyFrame
  <1>. HIDE DEF fr
  <1>5. /\ << >> \in Seq(AnyFrame) /\ << >> \in Seq(Leaf) /\ Len(<< >>) = 0
        /\ <<fr>> = <<fr>> \o << >>
    BY <1>4
  <1>. DEFINE all == Flat[Regels[f]][One]
  <1>6. all \in Seq(Leaf)
    BY <1>3, FlatSolved
  <1>. HIDE DEF all
  <1>7. Ahead(<<fr>>) = all \o << >>
    <2>1. Ahead(<<fr>> \o << >>) = RestOf(fr.regels, fr.factor, fr.i) \o Callers(<< >>)
      BY <1>4, <1>5, AheadCons
    <2>2. RestOf(Regels[f], One, 1) = all
      BY <1>3, RestOfType DEF all
    <2>. QED  BY <1>4, <1>5, <2>1, <2>2, CallersEmpty
  <1>8. << >> \o Ahead(<<fr>>) = all
    BY <1>6, <1>7, ConcatEmptySeq
  <1>9. OutOf(<<fr>>) = << >>
    <2>1. OutOf(<<fr>> \o << >>) = OutOf(<< >>) \o fr.out
      BY <1>4, <1>5, OutOfCons
    <2>2. << >> \o << >> = << >>
      OBVIOUS
    <2>. QED  BY <1>4, <1>5, <2>1, <2>2, OutOfEmpty
  <1>10. Leaves' = all
    BY <1>2 DEF Leaves, all
  <1>11. LinesOf(<< >>)' = << >>
    <2>1. run'.vatcodes = run.vatcodes
      BY <1>1 DEF ConvertFactuur, RunWith
    <2>. QED  BY <2>1, SameLines, LinesOfEmpty
  <1>12. Walked(<< >>)'
    BY <1>2, <1>5, <1>8, <1>9, <1>10, <1>11 DEF Walked
  <1>13. run'.result.error = None
    BY <1>2 DEF NoResult
  <1>. QED  BY <1>2, <1>5, <1>12, <1>13 DEF WalkInv

LEMMA ConvertItemWalk ==
    ASSUME VATInv, CallsInv, WalkInv, NEW reply, ConvertItem(reply)
    PROVE  WalkInv'
  <1>. DEFINE a == Amount(Regel, Top.factor)
              leaf == [item |-> Regel, factor |-> Top.factor]
  <1>1. run.pc = "convert" /\ AtRegel /\ Regel.type = "item"
    BY DEF ConvertItem, AtRegel
  <1>2. Regel \in Item
    BY <1>1, RegelType DEF Item, Groep, Other
  <1>3. Top.factor \in Fraction
    BY <1>1, LineAhead
  <1>4. /\ leaf \in Leaf /\ leaf.item = Regel /\ leaf.factor = Top.factor
        /\ AmountOf(leaf) = a
    BY <1>2, <1>3 DEF Leaf, AmountOf
  <1>5. ItemsOf(Flat, Regel, Top.factor) = <<leaf>>
    BY <1>1 DEF ItemsOf
  <1>6. run \in RunWith(run.vatcodes)
    BY DEF VATInv
  <1>. HIDE DEF a, leaf
  <1>7. ASSUME NEW lines \in Seq(LineWith(run.vatcodes)), lines = LineOf(leaf),
               run' = [run EXCEPT !.stack = Advance(lines), !.seen = @ + 1]
        PROVE  WalkInv'
    <2>1. PICK before \in Seq(Leaf) : Walked(before)
      BY <1>1 DEF WalkInv
    <2>. DEFINE done == Append(before, leaf)
                stack == Advance(lines)
    <2>2. done \in Seq(Leaf) /\ Len(done) = Len(before) + 1
          /\ done = before \o <<leaf>>
      BY <1>4
    <2>3. LinesOf(done) = LinesOf(before) \o lines
      BY <1>4, <1>7, LinesOfAppend
    <2>4. /\ Ahead(run.stack) = <<leaf>> \o Ahead(stack)
          /\ Ahead(stack) \in Seq(Leaf)
          /\ OutOf(stack) = OutOf(run.stack) \o lines
      BY <1>1, <1>5, AdvanceWalk
    <2>5. run.seen + 1 = Len(done)
      BY <2>1, <2>2 DEF Walked
    <2>6. run' = [run EXCEPT !.stack = stack, !.seen = Len(done)]
      BY <1>6, <1>7, <2>5 DEF RunWith
    <2>. HIDE DEF done, stack
    <2>7. before \o Ahead(run.stack) = done \o Ahead(stack)
      <3>1. <<leaf>> \in Seq(Leaf)
        BY <1>4, Single
      <3>2. (before \o <<leaf>>) \o Ahead(stack) = before \o (<<leaf>> \o Ahead(stack))
        BY <2>4, <3>1, Associated
      <3>. QED  BY <2>2, <2>4, <3>2
    <2>8. OutOf(stack) = LinesOf(done)
      BY <2>1, <2>3, <2>4 DEF Walked
    <2>. QED  BY <1>1, <2>1, <2>2, <2>6, <2>7, <2>8, WalkGoesOn
  <1>8. CASE Fail("item", None) \/ Fail("gl", None) \/ Fail("vat", Regel.btw)
    BY <1>8, WalkFails
  <1>9. CASE /\ Tiny(a)
             /\ run' = [run EXCEPT !.stack = Advance(<< >>), !.seen = @ + 1]
    <2>1. << >> \in Seq(LineWith(run.vatcodes))
      OBVIOUS
    <2>2. LineOf(leaf) = << >>
      BY <1>4, <1>9, LineOfType
    <2>. QED  BY <1>7, <1>9, <2>1, <2>2
  <1>10. CASE /\ ~Tiny(a) /\ Regel.btw \in DOMAIN run.vatcodes
              /\ run' = [run EXCEPT !.stack = Advance(<<Line(Regel, a)>>),
                                    !.seen = @ + 1]
    <2>1. a \in Fraction
      BY <1>4, AmountOfType
    <2>2. <<Line(Regel, a)>> \in Seq(LineWith(run.vatcodes))
      BY <1>2, <1>10, <2>1, LineType, Single
    <2>3. LineOf(leaf) = <<Line(Regel, a)>>
      BY <1>4, <1>10, LineOfType
    <2>. QED  BY <1>7, <1>10, <2>2, <2>3
  <1>. QED  BY <1>8, <1>9, <1>10 DEF ConvertItem, a

LEMMA PassOverWalk ==
    ASSUME VATInv, CallsInv, WalkInv, PassOver
    PROVE  WalkInv'
  <1>1. /\ run.pc = "convert" /\ AtRegel
        /\ Regel.type # "item" /\ Regel.type # "groep"
        /\ run' = [run EXCEPT !.stack = Advance(<< >>)]
    BY DEF PassOver, AtRegel
  <1>2. PICK before \in Seq(Leaf) : Walked(before)
    BY <1>1 DEF WalkInv
  <1>. DEFINE stack == Advance(<< >>)
  <1>3. << >> \in Seq(LineWith(run.vatcodes))
    OBVIOUS
  <1>4. ItemsOf(Flat, Regel, Top.factor) = << >>
    BY <1>1 DEF ItemsOf
  <1>5. /\ Ahead(run.stack) = << >> \o Ahead(stack) /\ Ahead(stack) \in Seq(Leaf)
        /\ OutOf(stack) = OutOf(run.stack) \o << >>
    BY <1>1, <1>3, <1>4, AdvanceWalk
  <1>6. run' = [run EXCEPT !.stack = stack, !.seen = Len(before)]
    BY <1>1, <1>2 DEF VATInv, RunWith, Walked
  <1>. HIDE DEF stack
  <1>7. Ahead(run.stack) = Ahead(stack)
    BY <1>5, ConcatEmptySeq
  <1>8. OutOf(run.stack) = LinesOf(before) /\ LinesOf(before) \in Seq(LineSet)
    BY <1>2, LinesOfType DEF Walked
  <1>9. OutOf(stack) = LinesOf(before)
    BY <1>5, <1>8, ConcatEmptySeq
  <1>. QED  BY <1>1, <1>2, <1>6, <1>7, <1>9, WalkGoesOn

LEMMA ConvertGroepWalk ==
    ASSUME VATInv, CallsInv, WalkInv, ConvertGroep
    PROVE  WalkInv'
  <1>. DEFINE stack ==
                <<Frame(Regel.regels, Reduce(Top.factor, Regel.korting))>>
                  \o run.stack
  <1>1. run.pc = "convert" /\ run' = [run EXCEPT !.stack = stack]
    BY DEF ConvertGroep, AtRegel, VATInv, RunWith
  <1>2. Ahead(stack) = Ahead(run.stack) /\ OutOf(stack) = OutOf(run.stack)
    BY GroupWalk
  <1>3. PICK before \in Seq(Leaf) : Walked(before)
    BY <1>1 DEF WalkInv
  <1>. HIDE DEF stack
  <1>4. run' = [run EXCEPT !.stack = stack, !.seen = Len(before)]
    BY <1>1, <1>3 DEF VATInv, RunWith, Walked
  <1>5. OutOf(run.stack) = LinesOf(before)
    BY <1>3 DEF Walked
  <1>. QED  BY <1>1, <1>2, <1>3, <1>4, <1>5, WalkGoesOn

LEMMA ReturnWalks ==
    ASSUME VATInv, CallsInv, WalkInv, Return
    PROVE  WalkInv'
  <1>. DEFINE rest == Tail(run.stack)
  <1>1. /\ run.pc = "convert" /\ Top.i > Len(Top.regels)
        /\ run \in RunWith(run.vatcodes)
    BY DEF Return, VATInv
  <1>2. PICK before \in Seq(Leaf) : Walked(before)
    BY <1>1 DEF WalkInv
  <1>3. CASE rest = << >>
    <2>1. run' = [run EXCEPT !.pc = "converted", !.stack = << >>,
                             !.result.lines = Top.out]
      BY <1>3 DEF Return
    <2>2. /\ run'.pc = "converted" /\ run'.vatcodes = run.vatcodes
          /\ run'.factuur = run.factuur /\ run'.seen = run.seen
          /\ run'.result.lines = Top.out
      BY <1>1, <2>1 DEF RunWith, ResultWith
    <2>3. Ahead(run.stack) = << >>
      BY <1>1, <1>3, PastEnd, CallersEmpty
    <2>4. Leaves = before
      <3>1. before \o << >> = before
        BY ConcatEmptySeq
      <3>. QED  BY <1>2, <2>3, <3>1 DEF Walked
    <2>5. OutOf(run.stack) = Top.out
      <3>1. OutOf(run.stack) = OutOf(rest) \o Top.out
        BY <1>1, PastEnd
      <3>2. Top.out \in Seq(AnyLine)
        BY <1>1, StackOfCalls DEF AnyFrame
      <3>3. << >> \o Top.out = Top.out
        BY <3>2, ConcatEmptySeq
      <3>. QED  BY <1>3, <3>1, <3>3, OutOfEmpty
    <2>6. Leaves' = Leaves
      BY <2>2 DEF Leaves
    <2>7. LinesOf(before)' = LinesOf(before)
      BY <2>2, SameLines
    <2>8. run.factuur \in Factuur
      BY <1>1 DEF WalkInv
    <2>9. run.seen = Len(before) /\ Top.out = LinesOf(before)
      BY <1>2, <2>5 DEF Walked
    <2>10. LinesOf(Leaves)' = LinesOf(before)'
      BY <2>4, <2>6
    <2>. QED  BY <2>2, <2>4, <2>6, <2>7, <2>8, <2>9, <2>10 DEF WalkInv
  <1>4. CASE rest # << >>
    <2>. DEFINE stack == <<[Head(rest) EXCEPT !.i = @ + 1, !.out = @ \o Top.out]>>
                           \o Tail(rest)
    <2>1. run' = [run EXCEPT !.stack = stack]
      BY <1>4 DEF Return
    <2>2. Ahead(stack) = Ahead(run.stack) /\ OutOf(stack) = OutOf(run.stack)
      BY <1>1, <1>4, ReturnWalk
    <2>. HIDE DEF stack
    <2>3. run' = [run EXCEPT !.stack = stack, !.seen = Len(before)]
      BY <1>1, <1>2, <2>1 DEF RunWith, Walked
    <2>4. OutOf(run.stack) = LinesOf(before)
      BY <1>2 DEF Walked
    <2>. QED  BY <1>1, <1>2, <2>2, <2>3, <2>4, WalkGoesOn
  <1>. QED  BY <1>3, <1>4

LEMMA WalkInit == Init => WalkInv
  BY DEF Init, WalkInv, Idle

LEMMA WalkNext == VATInv /\ CallsInv /\ WalkInv /\ [Next]_vars => WalkInv'
  <1>. SUFFICES ASSUME VATInv, CallsInv, WalkInv, [Next]_vars  PROVE WalkInv'
    OBVIOUS
  <1>1. CASE GetRecrasVATCodes \/ FinishBedrijf
    <2>1. run'.factuur = None /\ run'.pc # "convert"
      <3>1. CASE GetRecrasVATCodes
        <4>1. PICK m \in VATCodeLists :
                run' = [Idle EXCEPT !.pc = "converted", !.vatcodes = m,
                                    !.read = codes, !.ready = (page = "ok")]
          BY <3>1 DEF GetRecrasVATCodes
        <4>. QED  BY <4>1 DEF Idle
      <3>2. CASE FinishBedrijf
        BY <3>2 DEF FinishBedrijf, Idle
      <3>. QED  BY <1>1, <3>1, <3>2
    <2>. QED  BY <2>1 DEF WalkInv
  <1>2. ASSUME run' = run  PROVE WalkInv'
    <2>1. \A done : LinesOf(done)' = LinesOf(done)
      BY <1>2, SameLines
    <2>2. Leaves' = Leaves
      BY <1>2 DEF Leaves
    <2>3. ASSUME NEW done, Walked(done)  PROVE Walked(done)'
      <3>1. LinesOf(done)' = LinesOf(done)
        BY <2>1
      <3>. QED  BY <1>2, <2>2, <2>3, <3>1 DEF Walked
    <2>4. LinesOf(Leaves)' = LinesOf(Leaves)
      BY <1>2 DEF LinesOf, LineOf, Line, Leaves
    <2>. QED  BY <1>2, <2>2, <2>3, <2>4 DEF WalkInv
  <1>3. CASE GetStatus \/ UNCHANGED vars
    BY <1>2, <1>3 DEF GetStatus, vars
  <1>4. ASSUME NEW c \in Code, NEW d \in Description \cup {None}, Describe(c, d)
        PROVE  WalkInv'
    BY <1>2, <1>4 DEF Describe
  <1>. QED
    BY <1>1, <1>3, <1>4, ConvertFactuurWalk, ConvertItemWalk, ConvertGroepWalk,
       PassOverWalk, ReturnWalks DEF Next

-----------------------------------------------------------------------------
(* The properties.                                                         *)

\* The three invariants together: the walk needs the types, and calls that
\* are at a line.
THEOREM WalkInvariant == Spec => [](VATInv /\ CallsInv /\ WalkInv)
  <1>1. Init => VATInv /\ CallsInv /\ WalkInv
    BY InitInv, CallsInit, WalkInit
  <1>2. VATInv /\ CallsInv /\ WalkInv /\ [Next]_vars
          => (VATInv /\ CallsInv /\ WalkInv)'
    BY NextInv, CallsNext, WalkNext
  <1>. QED  BY <1>1, <1>2, PTL DEF Spec

\* convertFactuurregels is a walk along the items of the invoice, for lists
\* of any length and groups of any depth: at any time the lines that its calls
\* hold are those of the items looked up, in their order, and none is lost when
\* a call returns.
THEOREM WalkIsFlatCorrect == Spec => []WalkIsFlat
  <1>1. VATInv /\ CallsInv /\ WalkInv => WalkIsFlat
    <2>. SUFFICES ASSUME VATInv, CallsInv, WalkInv,
                         run.factuur # None, run.result.error = None
                  PROVE  /\ run.seen <= Len(Leaves)
                         /\ LinesSoFar = LinesOf(SubSeq(Leaves, 1, run.seen))
                         /\ run.pc = "converted" => run.seen = Len(Leaves)
      BY DEF WalkIsFlat
    <2>1. run.pc \in {"idle", "converted", "convert"}
      BY DEF VATInv, RunWith
    <2>2. CASE run.pc = "convert"
      <3>1. PICK done \in Seq(Leaf) : Walked(done)
        BY <2>2 DEF WalkInv
      <3>. DEFINE ahead == Ahead(run.stack)
      <3>2. ahead \in Seq(Leaf)
        <4>1. /\ ahead = RestOf(Top.regels, Top.factor, Top.i)
                           \o Callers(Tail(run.stack))
              /\ Callers(Tail(run.stack)) \in Seq(Leaf)
          BY <2>2, StackOfCalls
        <4>2. CASE Top.i <= Len(Top.regels)
          <5>1. AtRegel
            BY <2>2, <4>2 DEF AtRegel
          <5>2. << >> \in Seq(LineWith(run.vatcodes))
            OBVIOUS
          <5>3. /\ ahead = ItemsOf(Flat, Regel, Top.factor) \o Ahead(Advance(<< >>))
                /\ Ahead(Advance(<< >>)) \in Seq(Leaf)
            BY <5>1, <5>2, AdvanceWalk
          <5>4. ItemsOf(Flat, Regel, Top.factor) \in Seq(Leaf)
            BY <5>1, LineAhead
          <5>. HIDE DEF ahead
          <5>. QED  BY <5>3, <5>4, Joined
        <4>3. CASE ~(Top.i <= Len(Top.regels))
          <5>1. Top.regels \in Lists /\ Top.i \in Nat
            BY <2>2, StackOfCalls DEF AnyFrame
          <5>2. Len(Top.regels) \in Nat
            BY <5>1, ListSeq
          <5>3. Top.i > Len(Top.regels)
            BY <4>3, <5>1, <5>2
          <5>. QED  BY <2>2, <4>1, <5>3, PastEnd
        <4>. QED  BY <4>2, <4>3
      <3>3. Leaves = done \o ahead /\ Len(done) = run.seen
            /\ OutOf(run.stack) = LinesOf(done)
        BY <3>1 DEF Walked
      <3>. HIDE DEF ahead
      <3>4. /\ Len(done) <= Len(done \o ahead)
            /\ SubSeq(done \o ahead, 1, Len(done)) = done
        BY <3>2
      <3>5. LinesSoFar = OutOf(run.stack)
        <4>1. run.stack \in Seq(AnyFrame)
          BY <2>2, StackOfCalls, Push
        <4>2. \A k \in DOMAIN run.stack : Out[run.stack[k]] = run.stack[k].out
          BY <4>1, Elements DEF Out
        <4>3. Mapped(Out, run.stack) = [k \in DOMAIN run.stack |-> run.stack[k].out]
          BY <4>2 DEF Mapped
        <4>. QED  BY <2>2, <4>3, Zenon DEF LinesSoFar, OutOf
      <3>. QED  BY <2>2, <3>3, <3>4, <3>5
    <2>3. CASE run.pc = "converted"
      <3>1. /\ run.factuur \in Factuur
            /\ run.seen = Len(Leaves) /\ run.result.lines = LinesOf(Leaves)
        BY <2>3 DEF WalkInv
      <3>2. Leaves \in Seq(Leaf)
        <4>1. Regels[run.factuur] \in Lists /\ One \in Fraction
          BY <3>1, FactuurregelsAssumption DEF One, Fraction
        <4>. QED  BY <4>1, FlatSolved DEF Leaves
      <3>3. SubSeq(Leaves, 1, Len(Leaves)) = Leaves /\ Len(Leaves) <= Len(Leaves)
        BY <3>2
      <3>. QED  BY <2>3, <3>1, <3>3 DEF LinesSoFar
    <2>. QED  BY <2>1, <2>2, <2>3 DEF WalkInv
  <1>. QED  BY <1>1, WalkInvariant, PTL

\* What is booked of an invoice is what it says, but for the lines without
\* value: the discounts that are multiplied on the way down come to the same
\* as those that are taken off on the way up, at any depth.
THEOREM AmountsAddUpCorrect == Spec => []AmountsAddUp
  <1>1. WalkInv => AmountsAddUp
    <2>. SUFFICES ASSUME WalkInv, run.factuur # None, run.pc = "converted",
                         run.result.error = None
                  PROVE  AmountsAddUp
      BY DEF AmountsAddUp
    <2>. DEFINE list == Regels[run.factuur]
                lines == run.result.lines
    <2>1. run.factuur \in Factuur /\ lines = LinesOf(Leaves)
      BY DEF WalkInv
    <2>2. list \in Lists /\ One \in Fraction /\ One.num = 1 /\ One.den = 1
      BY <2>1, FactuurregelsAssumption DEF One, Fraction
    <2>3. Leaves \in Seq(Leaf) /\ Leaves = Flat[list][One]
      BY <2>2, FlatSolved DEF Leaves
    <2>4. WorthOf(Leaves) = 1 * Total[list][Scale \div 1]
      BY <2>2, <2>3, FlatWorth
    <2>5. Scale \div 1 = Scale /\ Scale \in Nat
      BY FlatRegelsAssumption
    <2>6. Total[list][Scale] \in Int
      BY <2>2, <2>5, TotalSolved
    <2>7. WorthOf(Leaves) = Total[list][Scale]
      BY <2>4, <2>5, <2>6
    <2>8. LinesWorth(lines) = Sum([i \in DOMAIN lines |-> Scaled(lines[i].amount)])
      <3>1. lines \in Seq(LineSet)
        BY <2>1, <2>3, LinesOfType
      <3>2. \A i \in DOMAIN lines : LineWorth[lines[i]] = Scaled(lines[i].amount)
        <4>. HIDE DEF lines
        <4>. QED  BY <3>1, Elements DEF LineWorth
      <3>3. Mapped(LineWorth, lines) = [i \in DOMAIN lines |-> Scaled(lines[i].amount)]
        BY <3>2 DEF Mapped
      <3>. QED  BY <3>3, Zenon DEF LinesWorth
    <2>9. Near(Leaves)
      BY <2>3, LinesNear
    <2>. QED  BY <2>1, <2>7, <2>8, <2>9, Zenon DEF AmountsAddUp, Near
  <1>. QED  BY <1>1, WalkInvariant, PTL

=============================================================================
