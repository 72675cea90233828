--------------------------- MODULE SyncTool_proof ----------------------------
(***************************************************************************)
(* Proofs about SyncTool, for every value of its constants.                *)
(***************************************************************************)
EXTENDS SyncTool, TLAPS

-----------------------------------------------------------------------------
(* The local state of a run.                                               *)

FactuurPC == {"regel", "klant", "saveklant", "refind",
              "doctype", "document", "pdf", "save"}

BedrijfPC == FactuurPC \cup {"payment", "vat", "producten", "product",
                             "saveitem", "factuur"}

\* What the variables in scope at s.pc say of each other.
BedrijfScope(s) ==
    s.pc \in BedrijfPC =>
      /\ s.bedrijf \in Bedrijf
      /\ s.division \in Division
      /\ s.division = DivisionOf[s.bedrijf]

ProductScope(s) == s.pc = "saveitem" => s.product \in Product

FactuurScope(s) ==
    /\ s.pc \in FactuurPC \cup {"factuur"} =>
         \A f \in s.facturen : f \in sent /\ BedrijfOf[f] = s.bedrijf
    /\ s.pc \in FactuurPC => s.factuur \in s.facturen

LinesScope(s) ==
    /\ s.pc \notin FactuurPC => s.lines = {}
    /\ s.pc = "regel" =>
         /\ s.regel \in 1 .. Len(Regels[s.factuur]) + 1
         /\ s.lines = {i \in LinesOfValue(s.factuur) : i < s.regel}
    /\ s.pc \in FactuurPC \ {"regel"} =>
         /\ s.lines = LinesOfValue(s.factuur)
         /\ s.lines # {}

CustScope(s) ==
    /\ s.cust # None => s.pc \in FactuurPC /\ s.cust = KlantOf[s.factuur]
    /\ s.pc = "pdf" => s.cust # None
    /\ s.doc # None => s.pc = "save" /\ s.cust # None
                         /\ s.doc = <<s.factuur, s.cust>>

Scope(s) ==
    /\ s \in Local
    /\ BedrijfScope(s)
    /\ ProductScope(s)
    /\ FactuurScope(s)
    /\ LinesScope(s)
    /\ CustScope(s)

ScopeInv ==
    /\ ExactTypeOK
    /\ sent \subseteq Factuur
    /\ sync \in [Client -> Local]
    /\ \A c \in Client : Scope(sync[c])

-----------------------------------------------------------------------------
(* Leaving an iteration keeps the local state in order.                    *)

LEMMA ReportedLocal ==
    ASSUME NEW s \in Local,
           NEW kind \in {"run", "bedrijf", "product", "factuur"},
           NEW x \in Bedrijf \cup Product \cup Factuur \cup {None}
    PROVE  /\ Reported(s, kind, x) \in Local
           /\ Reported(s, kind, x) =
                [s EXCEPT !.report = s.report \cup {<<kind, x>>}]
<1>1. <<kind, x>> \in Message BY DEF Message
<1>2. s.report \cup {<<kind, x>>} \in SUBSET Message BY <1>1 DEF Local
<1> QED BY <1>2 DEF Reported, Local

LEMMA ReportedScope ==
    ASSUME NEW s, Scope(s),
           NEW kind \in {"run", "bedrijf", "product", "factuur"},
           NEW x \in Bedrijf \cup Product \cup Factuur \cup {None}
    PROVE  /\ Scope(Reported(s, kind, x))
           /\ Reported(s, kind, x).pc = s.pc
           /\ Reported(s, kind, x).factuur = s.factuur
           /\ Reported(s, kind, x).cust = s.cust
<1>1. s \in Local BY DEF Scope
<1> DEFINE r == Reported(s, kind, x)
<1>2. r \in Local BY <1>1, ReportedLocal
<1>3. /\ r.pc = s.pc /\ r.division = s.division /\ r.bedrijf = s.bedrijf
      /\ r.product = s.product /\ r.facturen = s.facturen
      /\ r.factuur = s.factuur /\ r.regel = s.regel /\ r.lines = s.lines
      /\ r.cust = s.cust /\ r.doc = s.doc /\ r.lines = s.lines
  BY <1>1, ReportedLocal DEF Local
<1> HIDE DEF r
<1>4. BedrijfScope(r) /\ ProductScope(r) /\ FactuurScope(r)
  BY <1>3 DEF Scope, BedrijfScope, ProductScope, FactuurScope
<1>5. LinesScope(r) BY <1>3 DEF Scope, LinesScope
<1>6. CustScope(r) BY <1>3 DEF Scope, CustScope
<1>7. Scope(r) BY <1>2, <1>4, <1>5, <1>6 DEF Scope
<1> QED BY <1>3, <1>7 DEF r

LEMMA NextBedrijfScope ==
    ASSUME NEW s \in Local, s.cust = None, s.doc = None, s.lines = {}
    PROVE  Scope(NextBedrijf(s))
<1> DEFINE r == NextBedrijf(s)
<1>1. /\ r \in Local
      /\ r.pc = "bedrijf"
      /\ r.cust = s.cust /\ r.doc = s.doc /\ r.lines = s.lines
  BY DEF NextBedrijf, Local, PC
<1> HIDE DEF r
<1>2. Scope(r)
  BY <1>1 DEF Scope, BedrijfScope, ProductScope, FactuurScope, LinesScope,
              CustScope, BedrijfPC, FactuurPC
<1> QED BY <1>2 DEF r

LEMMA NextProductScope ==
    ASSUME NEW s, Scope(s), s.pc \in {"product", "saveitem"}
    PROVE  Scope(NextProduct(s))
<1>1. s \in Local /\ s.cust = None /\ s.doc = None /\ s.lines = {}
  BY DEF Scope, CustScope, LinesScope, FactuurPC
<1> DEFINE r == NextProduct(s)
<1>2. /\ r \in Local
      /\ r.pc = "product" /\ r.bedrijf = s.bedrijf /\ r.division = s.division
      /\ r.cust = s.cust /\ r.doc = s.doc /\ r.lines = s.lines
  BY <1>1 DEF NextProduct, Local, PC
<1> HIDE DEF r
<1>3. BedrijfScope(r) BY <1>2 DEF Scope, BedrijfScope, BedrijfPC
<1>4. Scope(r)
  BY <1>1, <1>2, <1>3 DEF Scope, ProductScope, FactuurScope, LinesScope,
                          CustScope, FactuurPC
<1> QED BY <1>4 DEF r

LEMMA NextFactuurScope ==
    ASSUME NEW s, Scope(s), s.pc \in FactuurPC \cup {"factuur"}
    PROVE  Scope(NextFactuur(s))
<1>1. s \in Local BY DEF Scope
<1> DEFINE r == NextFactuur(s)
<1>2. /\ r \in Local
      /\ r.pc = "factuur" /\ r.bedrijf = s.bedrijf /\ r.division = s.division
      /\ r.facturen = s.facturen \ {s.factuur}
      /\ r.cust = None /\ r.doc = None /\ r.lines = {}
  BY <1>1 DEF NextFactuur, Local, PC
<1> HIDE DEF r
<1>3. BedrijfScope(r) BY <1>2 DEF Scope, BedrijfScope, BedrijfPC
<1>4. FactuurScope(r) BY <1>2 DEF Scope, FactuurScope, FactuurPC
<1>5. Scope(r)
  BY <1>1, <1>2, <1>3, <1>4 DEF Scope, ProductScope, LinesScope,
                                CustScope, FactuurPC
<1> QED BY <1>5 DEF r

LEMMA FailScope ==
    ASSUME NEW s, Scope(s)
    PROVE  /\ s.pc \notin FactuurPC => Scope(FailBedrijf(s))
           /\ s.pc \in {"product", "saveitem"} => Scope(FailProduct(s))
           /\ s.pc \in FactuurPC \cup {"factuur"} => Scope(FailFactuur(s))
<1>1. s \in Local /\ s.bedrijf \in Bedrijf \cup {None}
      /\ s.product \in Product \cup {None} /\ s.factuur \in Factuur \cup {None}
  BY DEF Scope, Local
<1>2. ASSUME s.pc \notin FactuurPC PROVE Scope(FailBedrijf(s))
  <2> DEFINE r == Reported(s, "bedrijf", s.bedrijf)
  <2>1. Scope(r) /\ r.pc = s.pc BY <1>1, ReportedScope
  <2> HIDE DEF r
  <2>2. r \in Local /\ r.cust = None /\ r.doc = None /\ r.lines = {}
    BY <1>2, <2>1 DEF Scope, CustScope, LinesScope
  <2>3. Scope(NextBedrijf(r)) BY <2>2, NextBedrijfScope
  <2> QED BY <2>3 DEF FailBedrijf, r
<1>3. ASSUME s.pc \in {"product", "saveitem"} PROVE Scope(FailProduct(s))
  <2> DEFINE r == Reported(s, "product", s.product)
  <2>1. Scope(r) /\ r.pc = s.pc BY <1>1, ReportedScope
  <2> HIDE DEF r
  <2>2. Scope(NextProduct(r)) BY <1>3, <2>1, NextProductScope
  <2> QED BY <2>2 DEF FailProduct, r
<1>4. ASSUME s.pc \in FactuurPC \cup {"factuur"} PROVE Scope(FailFactuur(s))
  <2> DEFINE r == Reported(s, "factuur", s.factuur)
  <2>1. Scope(r) /\ r.pc = s.pc BY <1>1, ReportedScope
  <2> HIDE DEF r
  <2>2. Scope(NextFactuur(r)) BY <1>4, <2>1, NextFactuurScope
  <2> QED BY <2>2 DEF FailFactuur, r
<1> QED BY <1>2, <1>3, <1>4

-----------------------------------------------------------------------------
(* One step of a run keeps its local state in order.                       *)

LEMMA ScopeOutsideFactuur ==
    ASSUME NEW s \in Local, s.cust = None, s.doc = None, s.lines = {},
           s.pc \notin FactuurPC \cup {"factuur", "saveitem"},
           s.pc \in BedrijfPC => BedrijfScope(s)
    PROVE  Scope(s)
  BY DEF Scope, BedrijfScope, ProductScope, FactuurScope, LinesScope, CustScope,
         FactuurPC

LEMMA OutsideFactuur ==
    ASSUME NEW s, Scope(s), s.pc \notin FactuurPC
    PROVE  s \in Local /\ s.cust = None /\ s.doc = None /\ s.lines = {}
  BY DEF Scope, CustScope, LinesScope

LEMMA StartScope ==
    ASSUME ScopeInv, NEW c \in Client, SyncRecras(c)
    PROVE  \E s : Become(c, s) /\ Scope(s)
<1> DEFINE s == [Idle EXCEPT !.pc = "me", !.due = sent]
<1>1. s \in Local BY DEF Idle, Local, PC, ScopeInv
<1>2. s.pc = "me" /\ s.cust = None /\ s.doc = None /\ s.lines = {} BY DEF Idle
<1>3. Become(c, s) BY DEF SyncRecras
<1> HIDE DEF s
<1>4. Scope(s) BY <1>1, <1>2, ScopeOutsideFactuur DEF FactuurPC, BedrijfPC
<1> QED BY <1>3, <1>4

LEMMA SyncScope ==
    ASSUME ScopeInv, NEW c \in Client,
           \/ GetDefaultDivision(c)
           \/ GetBedrijven(c)
           \/ \E b \in Bedrijf : SetDivision(c, b)
           \/ Finish(c)
    PROVE  \E s : Become(c, s) /\ Scope(s)
<1>1. Scope(sync[c]) BY DEF ScopeInv
<1>2. CASE GetDefaultDivision(c)
  <2>1. PICK d \in {DefaultDivision, None} :
          Become(c, [sync[c] EXCEPT !.pc = "bedrijven", !.division = d])
    BY <1>2 DEF GetDefaultDivision
  <2> DEFINE s == [sync[c] EXCEPT !.pc = "bedrijven", !.division = d]
  <2>2. /\ sync[c] \in Local
        /\ sync[c].cust = None /\ sync[c].doc = None /\ sync[c].lines = {}
    BY <1>1, <1>2, OutsideFactuur DEF GetDefaultDivision, At, FactuurPC
  <2>3. /\ s \in Local
        /\ s.pc = "bedrijven" /\ s.cust = None /\ s.doc = None /\ s.lines = {}
    BY <2>2, RecrasAssumption DEF Local, PC
  <2>4. Become(c, s) BY <2>1
  <2> HIDE DEF s
  <2>5. Scope(s) BY <2>3, ScopeOutsideFactuur DEF FactuurPC, BedrijfPC
  <2> QED BY <2>4, <2>5
<1>3. CASE GetBedrijven(c)
  <2> DEFINE s == [sync[c] EXCEPT !.pc = "bedrijf"]
             t == Reported(s, "run", None)
  <2>1. /\ sync[c] \in Local
        /\ sync[c].cust = None /\ sync[c].doc = None /\ sync[c].lines = {}
    BY <1>1, <1>3, OutsideFactuur DEF GetBedrijven, At, FactuurPC
  <2>2. /\ s \in Local /\ s.pc = "bedrijf"
        /\ s.cust = None /\ s.doc = None /\ s.lines = {}
    BY <2>1 DEF Local, PC
  <2>3. PICK u \in {s, t}, bs \in SUBSET Bedrijf :
          Become(c, [u EXCEPT !.bedrijven = bs])
    BY <1>3 DEF GetBedrijven
  <2> HIDE DEF s
  <2>4. Scope(s) BY <2>2, ScopeOutsideFactuur DEF FactuurPC, BedrijfPC
  <2>5. t.pc = "bedrijf" /\ Scope(t) BY <2>2, <2>4, ReportedScope
  <2> HIDE DEF t
  <2>6. /\ u.pc = "bedrijf" /\ u \in Local
        /\ u.cust = None /\ u.doc = None /\ u.lines = {}
    BY <2>2, <2>3, <2>4, <2>5, OutsideFactuur DEF FactuurPC
  <2> DEFINE v == [u EXCEPT !.bedrijven = bs]
  <2>7. /\ v \in Local
        /\ v.pc = "bedrijf" /\ v.cust = None /\ v.doc = None /\ v.lines = {}
    BY <2>6 DEF Local
  <2>8. Become(c, v) BY <2>3
  <2> HIDE DEF v
  <2>9. Scope(v) BY <2>7, ScopeOutsideFactuur DEF FactuurPC, BedrijfPC
  <2> QED BY <2>8, <2>9
<1>4. ASSUME NEW b \in Bedrijf, SetDivision(c, b)
      PROVE  \E s : Become(c, s) /\ Scope(s)
  <2> DEFINE s == [sync[c] EXCEPT !.bedrijf = b]
             t == [s EXCEPT !.pc = "payment", !.division = DivisionOf[b]]
  <2>1. /\ sync[c] \in Local
        /\ sync[c].cust = None /\ sync[c].doc = None /\ sync[c].lines = {}
        /\ sync[c].pc = "bedrijf"
    BY <1>1, <1>4, OutsideFactuur DEF SetDivision, At, FactuurPC
  <2>2. /\ s \in Local /\ s.bedrijf = b
        /\ s.pc = "bedrijf" /\ s.cust = None /\ s.doc = None /\ s.lines = {}
    BY <2>1 DEF Local
  <2>3. \/ DivisionOf[b] # None /\ Become(c, t)
        \/ Become(c, FailBedrijf(s))
    BY <1>4 DEF SetDivision
  <2> HIDE DEF s
  <2>4. ASSUME DivisionOf[b] # None PROVE Scope(t)
    <3>1. DivisionOf[b] \in Division BY <2>4, RecrasAssumption
    <3>2. /\ t \in Local /\ t.bedrijf = b /\ t.division = DivisionOf[b]
          /\ t.pc = "payment" /\ t.cust = None /\ t.doc = None /\ t.lines = {}
      BY <2>2, <3>1 DEF Local, PC
    <3> HIDE DEF t
    <3>3. BedrijfScope(t) BY <3>1, <3>2 DEF BedrijfScope
    <3> QED BY <3>2, <3>3, ScopeOutsideFactuur DEF FactuurPC
  <2>5. Scope(FailBedrijf(s))
    <3>1. Scope(s) BY <2>2, ScopeOutsideFactuur DEF FactuurPC, BedrijfPC
    <3> QED BY <2>2, <3>1, FailScope DEF FactuurPC
  <2> QED BY <2>3, <2>4, <2>5
<1>5. CASE Finish(c)
  <2>1. /\ Idle \in Local /\ Idle.pc = "idle"
        /\ Idle.cust = None /\ Idle.doc = None /\ Idle.lines = {}
    BY DEF Idle, Local, PC
  <2>2. Scope(Idle)
    BY <2>1, ScopeOutsideFactuur DEF FactuurPC, BedrijfPC
  <2> QED BY <1>5, <2>2 DEF Finish
<1> QED BY <1>2, <1>3, <1>4, <1>5

LEMMA BedrijfStepScope ==
    ASSUME ScopeInv, NEW c \in Client,
           \/ FindPaymentCondition(c)
           \/ GetRecrasVATCodes(c)
           \/ GetAllProducten(c)
           \/ \E p \in Product : SyncProduct(c, p)
           \/ SaveItem(c)
           \/ GetFacturen(c)
           \/ FinishBedrijf(c)
    PROVE  \E s : Become(c, s) /\ Scope(s)
<1> DEFINE s == sync[c]
<1>1. Scope(s) BY DEF ScopeInv
<1>2. ASSUME s.pc \in {"payment", "vat", "producten", "product", "saveitem"}
      PROVE  /\ s \in Local /\ s.cust = None /\ s.doc = None /\ s.lines = {}
             /\ BedrijfScope(s)
             /\ Scope(FailBedrijf(s))
  BY <1>1, <1>2, OutsideFactuur, FailScope DEF Scope, FactuurPC
<1>3. CASE FindPaymentCondition(c)
  <2>1. s.pc = "payment" BY <1>3 DEF FindPaymentCondition, At
  <2> DEFINE t == [s EXCEPT !.pc = "vat"]
  <2>2. Become(c, t) \/ Become(c, FailBedrijf(s))
    BY <1>3 DEF FindPaymentCondition
  <2>3. /\ t \in Local /\ t.bedrijf = s.bedrijf /\ t.division = s.division
        /\ t.pc = "vat" /\ t.cust = None /\ t.doc = None /\ t.lines = {}
    BY <1>2, <2>1 DEF Local, PC
  <2> HIDE DEF t
  <2>4. BedrijfScope(t) BY <1>2, <2>1, <2>3 DEF BedrijfScope, BedrijfPC
  <2>5. Scope(t) BY <2>3, <2>4, ScopeOutsideFactuur DEF FactuurPC
  <2> QED BY <1>2, <2>1, <2>2, <2>5
<1>4. CASE GetRecrasVATCodes(c)
  <2>1. s.pc = "vat" BY <1>4 DEF GetRecrasVATCodes, At
  <2> DEFINE t == [s EXCEPT !.pc = "producten", !.btw = setup[s.division].btw]
  <2>2. Become(c, t) \/ Become(c, FailBedrijf(s))
    BY <1>4 DEF GetRecrasVATCodes
  <2>3. setup[s.division].btw \in SUBSET BTW
    <3>1. s.division \in Division
      BY <1>2, <2>1 DEF BedrijfScope, BedrijfPC
    <3> HIDE DEF s
    <3> QED BY <3>1 DEF ScopeInv, ExactTypeOK
  <2>4. /\ t \in Local /\ t.bedrijf = s.bedrijf /\ t.division = s.division
        /\ t.pc = "producten" /\ t.cust = None /\ t.doc = None /\ t.lines = {}
    BY <1>2, <2>1, <2>3 DEF Local, PC
  <2> HIDE DEF t
  <2>5. BedrijfScope(t) BY <1>2, <2>1, <2>4 DEF BedrijfScope, BedrijfPC
  <2>6. Scope(t) BY <2>4, <2>5, ScopeOutsideFactuur DEF FactuurPC
  <2> QED BY <1>2, <2>1, <2>2, <2>6
<1>5. CASE GetAllProducten(c)
  <2>1. s.pc = "producten" BY <1>5 DEF GetAllProducten, At
  <2> DEFINE t == [s EXCEPT !.pc = "product", !.producten = Product]
  <2>2. Become(c, t) \/ Become(c, FailBedrijf(s))
    BY <1>5 DEF GetAllProducten
  <2>3. /\ t \in Local /\ t.bedrijf = s.bedrijf /\ t.division = s.division
        /\ t.pc = "product" /\ t.cust = None /\ t.doc = None /\ t.lines = {}
    BY <1>2, <2>1 DEF Local, PC
  <2> HIDE DEF t
  <2>4. BedrijfScope(t) BY <1>2, <2>1, <2>3 DEF BedrijfScope, BedrijfPC
  <2>5. Scope(t) BY <2>3, <2>4, ScopeOutsideFactuur DEF FactuurPC
  <2> QED BY <1>2, <2>1, <2>2, <2>5
<1>6. ASSUME NEW p \in Product, SyncProduct(c, p)
      PROVE  \E t : Become(c, t) /\ Scope(t)
  <2>1. s.pc = "product" BY <1>6 DEF SyncProduct, At
  <2> DEFINE t == [s EXCEPT !.product = p]
             u == [t EXCEPT !.pc = "saveitem"]
  <2>2. \/ Become(c, NextProduct(t))
        \/ Become(c, u)
        \/ Become(c, FailProduct(t))
    <3>1. PICK r \in ItemReplies(t.division, p) :
            Become(c, CASE r \in GL -> NextProduct(t)
                        [] r = "notfound" -> u
                        [] r = "error" -> FailProduct(t))
      BY <1>6 DEF SyncProduct
    <3>2. r \in {"ready", "bare", "notfound", "error"}
      BY <3>1 DEF ItemReplies, Faults, GL
    <3> QED BY <3>1, <3>2 DEF GL
  <2>3. /\ t \in Local /\ t.bedrijf = s.bedrijf /\ t.division = s.division
        /\ t.pc = "product" /\ t.cust = None /\ t.doc = None /\ t.lines = {}
        /\ t.product = p
    BY <1>2, <2>1 DEF Local
  <2>4. /\ u \in Local /\ u.bedrijf = s.bedrijf /\ u.division = s.division
        /\ u.pc = "saveitem" /\ u.cust = None /\ u.doc = None /\ u.lines = {}
        /\ u.product = p
    BY <2>3 DEF Local, PC
  <2> HIDE DEF t, u
  <2>5. Scope(t)
    <3>1. BedrijfScope(t) BY <1>2, <2>1, <2>3 DEF BedrijfScope, BedrijfPC
    <3> QED BY <2>3, <3>1, ScopeOutsideFactuur DEF FactuurPC
  <2>6. Scope(u)
    <3>1. BedrijfScope(u) BY <1>2, <2>1, <2>4 DEF BedrijfScope, BedrijfPC
    <3> QED BY <2>4, <3>1 DEF Scope, ProductScope, FactuurScope, LinesScope,
                              CustScope, FactuurPC
  <2> QED BY <2>2, <2>3, <2>5, <2>6, NextProductScope, FailScope
<1>7. CASE SaveItem(c)
  <2>1. s.pc = "saveitem" BY <1>7 DEF SaveItem, At
  <2>2. Become(c, NextProduct(s)) \/ Become(c, FailProduct(s))
    BY <1>7 DEF SaveItem
  <2> HIDE DEF s
  <2> QED BY <1>1, <2>1, <2>2, NextProductScope, FailScope
<1>8. CASE GetFacturen(c)
  <2>1. s.pc = "product" BY <1>8 DEF GetFacturen, At
  <2> DEFINE fs == {f \in sent : BedrijfOf[f] = s.bedrijf}
             t == [s EXCEPT !.pc = "factuur", !.facturen = fs]
  <2>2. Become(c, t) \/ Become(c, FailBedrijf(s))
    BY <1>8 DEF GetFacturen
  <2>3. fs \in SUBSET Factuur BY DEF ScopeInv
  <2>4. /\ t \in Local /\ t.bedrijf = s.bedrijf /\ t.division = s.division
        /\ t.pc = "factuur" /\ t.cust = None /\ t.doc = None /\ t.lines = {}
        /\ t.facturen = fs
    BY <1>2, <2>1, <2>3 DEF Local, PC
  <2> HIDE DEF t
  <2>5. BedrijfScope(t) BY <1>2, <2>1, <2>4 DEF BedrijfScope, BedrijfPC
  <2>6. Scope(t)
    BY <2>4, <2>5 DEF Scope, ProductScope, FactuurScope, LinesScope,
                      CustScope, FactuurPC
  <2> QED BY <1>2, <2>1, <2>2, <2>6
<1>9. CASE FinishBedrijf(c)
  <2>1. s.pc = "factuur" /\ Become(c, NextBedrijf(s))
    BY <1>9 DEF FinishBedrijf, At
  <2> HIDE DEF s
  <2>2. s \in Local /\ s.cust = None /\ s.doc = None /\ s.lines = {}
    BY <1>1, <2>1, OutsideFactuur DEF FactuurPC
  <2> QED BY <2>1, <2>2, NextBedrijfScope
<1> QED BY <1>3, <1>4, <1>5, <1>6, <1>7, <1>8, <1>9

LEMMA ScopeInFactuur ==
    ASSUME NEW s, Scope(s), s.pc \in FactuurPC \cup {"factuur"},
           NEW t \in Local, t.pc \in FactuurPC,
           t.bedrijf = s.bedrijf, t.division = s.division,
           t.facturen = s.facturen, t.factuur \in s.facturen,
           LinesScope(t), CustScope(t)
    PROVE  Scope(t)
  BY DEF Scope, BedrijfScope, ProductScope, FactuurScope, BedrijfPC, FactuurPC

\* Once the lines are converted, only pc, cust and doc still change.
Converted(s) ==
    /\ s.pc \in FactuurPC
    /\ s.lines = LinesOfValue(s.factuur)
    /\ s.lines # {}

Moved(s, label, cust, doc) ==
    [s EXCEPT !.pc = label, !.cust = cust, !.doc = doc]

LEMMA ConvertedLines ==
    ASSUME NEW s, Scope(s), s.pc \in FactuurPC, s.lines # {},
           s.pc = "regel" => s.regel > Len(Regels[s.factuur])
    PROVE  Converted(s)
<1>1. s.factuur \in Factuur BY DEF Scope, Local, FactuurScope
<1>2. Regels[s.factuur] \in Seq(Regel) BY <1>1, RecrasAssumption
<1>3. LinesOfValue(s.factuur) \subseteq 1 .. Len(Regels[s.factuur])
  BY <1>2 DEF LinesOfValue
<1>4. ASSUME s.pc = "regel" PROVE s.lines = LinesOfValue(s.factuur)
  <2>1. /\ s.lines = {i \in LinesOfValue(s.factuur) : i < s.regel}
        /\ s.regel \in Nat
    BY <1>2, <1>4 DEF Scope, LinesScope, Local
  <2>2. Len(Regels[s.factuur]) \in Nat BY <1>2
  <2>3. \A i \in LinesOfValue(s.factuur) : i < s.regel
    BY <1>3, <1>4, <2>1, <2>2
  <2> QED BY <2>1, <2>3
<1> QED BY <1>4 DEF Scope, LinesScope, Converted

LEMMA MovedScope ==
    ASSUME NEW s, Scope(s), Converted(s),
           NEW label \in FactuurPC \ {"regel"},
           NEW cust \in {None, KlantOf[s.factuur]},
           NEW doc \in {None, <<s.factuur, cust>>},
           label = "pdf" => cust # None,
           doc # None => label = "save" /\ cust # None
    PROVE  Scope(Moved(s, label, cust, doc))
<1>1. s \in Local /\ s.factuur \in Factuur /\ s.factuur \in s.facturen
  BY DEF Scope, FactuurScope, Local, Converted
<1>2. KlantOf[s.factuur] \in Klant BY <1>1, RecrasAssumption
<1>3. cust \in Klant \cup {None} BY <1>2
<1>4. doc \in Document \cup {None} BY <1>1, <1>3 DEF Document
<1>5. label \in PC BY DEF FactuurPC, PC
<1> DEFINE t == Moved(s, label, cust, doc)
<1>6. /\ t \in Local /\ t.pc = label
      /\ t.bedrijf = s.bedrijf /\ t.division = s.division
      /\ t.facturen = s.facturen /\ t.factuur = s.factuur
      /\ t.regel = s.regel /\ t.lines = s.lines
      /\ t.cust = cust /\ t.doc = doc
  BY <1>1, <1>3, <1>4, <1>5 DEF Local, Moved
<1> HIDE DEF t
<1>7. LinesScope(t) BY <1>6 DEF LinesScope, Converted
<1>8. CustScope(t) BY <1>6 DEF CustScope
<1>9. Scope(t) BY <1>1, <1>6, <1>7, <1>8, ScopeInFactuur DEF Converted
<1> QED BY <1>9 DEF t

LEMMA MovedPCScope ==
    ASSUME NEW s, Scope(s), Converted(s), s.doc = None,
           NEW label \in FactuurPC \ {"regel"},
           label = "pdf" => s.cust # None
    PROVE  Scope([s EXCEPT !.pc = label])
<1>1. s \in Local /\ s.cust \in {None, KlantOf[s.factuur]}
  BY DEF Scope, CustScope
<1>2. [s EXCEPT !.pc = label] = Moved(s, label, s.cust, None)
  BY <1>1 DEF Moved, Local
<1>3. Scope(Moved(s, label, s.cust, None)) BY <1>1, MovedScope
<1> QED BY <1>2, <1>3

LEMMA MovedCustScope ==
    ASSUME NEW s, Scope(s), Converted(s), s.doc = None,
           NEW cust \in {None, KlantOf[s.factuur]}
    PROVE  Scope([s EXCEPT !.pc = "doctype", !.cust = cust])
<1>1. s \in Local BY DEF Scope
<1>2. [s EXCEPT !.pc = "doctype", !.cust = cust]
        = Moved(s, "doctype", cust, None)
  BY <1>1 DEF Moved, Local
<1>3. Scope(Moved(s, "doctype", cust, None)) BY MovedScope DEF FactuurPC
<1> QED BY <1>2, <1>3

LEMMA MovedDocScope ==
    ASSUME NEW s, Scope(s), Converted(s), s.cust # None
    PROVE  Scope([s EXCEPT !.pc = "save", !.doc = <<s.factuur, s.cust>>])
<1> DEFINE doc == <<s.factuur, s.cust>>
<1>1. s \in Local /\ s.cust \in {None, KlantOf[s.factuur]}
  BY DEF Scope, CustScope
<1>2. [s EXCEPT !.pc = "save", !.doc = doc] = Moved(s, "save", s.cust, doc)
  BY <1>1 DEF Moved, Local
<1>3. Scope(Moved(s, "save", s.cust, doc)) BY <1>1, MovedScope DEF FactuurPC
<1> QED BY <1>2, <1>3

LEMMA FindSalesEntryScope ==
    ASSUME ScopeInv, NEW c \in Client, NEW f \in Factuur, FindSalesEntry(c, f)
    PROVE  \E s : Become(c, s) /\ Scope(s)
<1> DEFINE s == [sync[c] EXCEPT !.factuur = f]
           t == [s EXCEPT !.pc = "regel", !.regel = 1]
<1>1. /\ Scope(sync[c]) /\ sync[c].pc = "factuur" /\ f \in sync[c].facturen
      /\ sync[c] \in Local
      /\ sync[c].cust = None /\ sync[c].doc = None /\ sync[c].lines = {}
  BY OutsideFactuur DEF ScopeInv, FindSalesEntry, At, FactuurPC
<1>2. PICK r \in SalesEntryReplies(s.division, f) :
        Become(c, CASE r = "found" -> NextFactuur(s)
                    [] r = "notfound" -> t
                    [] r = "error" -> FailFactuur(s))
  BY DEF FindSalesEntry
<1>3. r \in {"found", "notfound", "error"}
  BY <1>2 DEF SalesEntryReplies, Found, Faults
<1>4. /\ s \in Local /\ s.factuur = f /\ s.pc = "factuur"
      /\ s.bedrijf = sync[c].bedrijf /\ s.division = sync[c].division
      /\ s.facturen = sync[c].facturen
      /\ s.cust = None /\ s.doc = None /\ s.lines = {}
  BY <1>1 DEF Local
<1>5. /\ t \in Local /\ t.factuur = f /\ t.pc = "regel"
      /\ t.bedrijf = s.bedrijf /\ t.division = s.division
      /\ t.facturen = s.facturen /\ t.regel = 1
      /\ t.cust = None /\ t.doc = None /\ t.lines = {}
  BY <1>4 DEF Local, PC
<1> HIDE DEF s, t
<1>6. Scope(s)
  BY <1>1, <1>4 DEF Scope, BedrijfScope, ProductScope, FactuurScope, LinesScope,
                    CustScope, FactuurPC
<1>7. Scope(t)
  <2>1. LinesScope(t)
    <3>1. Regels[f] \in Seq(Regel) BY RecrasAssumption
    <3>2. LinesOfValue(f) \subseteq 1 .. Len(Regels[f])
      BY <3>1 DEF LinesOfValue
    <3>3. 1 \in 1 .. Len(Regels[f]) + 1 BY <3>1
    <3> QED BY <1>5, <3>2, <3>3 DEF LinesScope, FactuurPC
  <2>2. CustScope(t) BY <1>5 DEF CustScope
  <2> QED BY <1>1, <1>4, <1>5, <1>6, <2>1, <2>2, ScopeInFactuur DEF FactuurPC
<1> QED BY <1>2, <1>3, <1>4, <1>6, <1>7, NextFactuurScope, FailScope

LEMMA ConvertRegelScope ==
    ASSUME ScopeInv, NEW c \in Client, ConvertRegel(c)
    PROVE  \E s : Become(c, s) /\ Scope(s)
<1> DEFINE s    == sync[c]
           line == Regels[s.factuur][s.regel]
           next == [s EXCEPT !.regel = s.regel + 1]
           more == [next EXCEPT !.lines = next.lines \cup {s.regel}]
<1>1. /\ Scope(s) /\ s \in Local /\ s.pc = "regel"
      /\ s.regel <= Len(Regels[s.factuur])
  BY DEF ScopeInv, Scope, ConvertRegel, At
<1>2. \/ Become(c, FailFactuur(s))
      \/ line.nul /\ Become(c, next)
      \/ ~line.nul /\ Become(c, more)
  BY DEF ConvertRegel
<1>3. /\ s.factuur \in s.facturen /\ s.factuur \in Factuur
      /\ s.regel \in 1 .. Len(Regels[s.factuur]) + 1
      /\ s.lines = {i \in LinesOfValue(s.factuur) : i < s.regel}
  BY <1>1 DEF Scope, Local, FactuurScope, LinesScope, FactuurPC
<1>4. CustScope(s) BY <1>1 DEF Scope
<1>5. /\ next \in Local /\ next.pc = "regel" /\ next.regel = s.regel + 1
      /\ next.bedrijf = s.bedrijf /\ next.division = s.division
      /\ next.facturen = s.facturen /\ next.factuur = s.factuur
      /\ next.cust = s.cust /\ next.doc = s.doc /\ next.lines = s.lines
  BY <1>1, <1>3 DEF Local
<1> HIDE DEF s, next
<1>6. /\ more \in Local /\ more.pc = "regel" /\ more.regel = s.regel + 1
      /\ more.bedrijf = s.bedrijf /\ more.division = s.division
      /\ more.facturen = s.facturen /\ more.factuur = s.factuur
      /\ more.cust = s.cust /\ more.doc = s.doc
      /\ more.lines = s.lines \cup {s.regel}
  BY <1>3, <1>5 DEF Local
<1> HIDE DEF more
<1>7. Regels[s.factuur] \in Seq(Regel) BY <1>3, RecrasAssumption
<1>8. /\ s.regel \in 1 .. Len(Regels[s.factuur])
      /\ s.regel + 1 \in 1 .. Len(Regels[s.factuur]) + 1
      /\ LinesOfValue(s.factuur) =
           {i \in 1 .. Len(Regels[s.factuur]) : ~Regels[s.factuur][i].nul}
  BY <1>1, <1>3, <1>7 DEF LinesOfValue
<1>9. ASSUME line.nul PROVE Scope(next)
  <2>1. s.lines = {i \in LinesOfValue(s.factuur) : i < s.regel + 1}
    BY <1>3, <1>8, <1>9
  <2>2. LinesScope(next) BY <1>5, <1>8, <2>1 DEF LinesScope, FactuurPC
  <2>3. CustScope(next) BY <1>1, <1>4, <1>5 DEF CustScope, FactuurPC
  <2> QED BY <1>1, <1>3, <1>5, <2>2, <2>3, ScopeInFactuur DEF FactuurPC
<1>10. ASSUME ~line.nul PROVE Scope(more)
  <2>1. s.lines \cup {s.regel} =
          {i \in LinesOfValue(s.factuur) : i < s.regel + 1}
    BY <1>3, <1>8, <1>10
  <2>2. LinesScope(more) BY <1>6, <1>8, <2>1 DEF LinesScope, FactuurPC
  <2>3. CustScope(more) BY <1>1, <1>4, <1>6 DEF CustScope, FactuurPC
  <2> QED BY <1>1, <1>3, <1>6, <2>2, <2>3, ScopeInFactuur DEF FactuurPC
<1> QED BY <1>1, <1>2, <1>9, <1>10, FailScope DEF FactuurPC


LEMMA FactuurStepScope ==
    ASSUME ScopeInv, NEW c \in Client,
           \/ SkipWithoutLines(c)
           \/ FindAccount(c) \/ SyncKlant(c)
           \/ SaveAccount(c) \/ RefindAccount(c)
           \/ FindDocumentType(c) \/ SaveDocument(c) \/ AttachPDF(c)
           \/ SaveSalesEntry(c)
    PROVE  \E s : Become(c, s) /\ Scope(s)
<1> DEFINE s == sync[c]
           k == KlantOf[s.factuur]
<1>1. /\ Scope(s) /\ s \in Local /\ s.pc \in FactuurPC
      /\ CustScope(s) /\ LinesScope(s)
  BY DEF ScopeInv, Scope, FactuurPC, At, LinesConverted, SkipWithoutLines,
         FindAccount, SyncKlant, SaveAccount, RefindAccount, FindDocumentType,
         SaveDocument, AttachPDF, SaveSalesEntry
<1>2. Scope(FailFactuur(s)) /\ Scope(NextFactuur(s))
  BY <1>1, FailScope, NextFactuurScope
<1>3. CASE SkipWithoutLines(c)
  BY <1>2, <1>3 DEF SkipWithoutLines
<1>4. CASE FindAccount(c)
  <2>1. Converted(s) /\ s.doc = None
    BY <1>1, <1>4, ConvertedLines DEF FindAccount, LinesConverted, At, CustScope
  <2> DEFINE t == [s EXCEPT !.pc = "doctype", !.cust = k]
             u == [s EXCEPT !.pc = "klant"]
  <2>2. Become(c, t) \/ Become(c, u) \/ Become(c, FailFactuur(s))
    <3>1. PICK r \in AccountReplies(s.division, k) :
            Become(c, CASE r = "found" -> t
                        [] r = "notfound" -> u
                        [] r = "error" -> FailFactuur(s))
      BY <1>4 DEF FindAccount, Klantvan
    <3>2. r \in {"found", "notfound", "error"}
      BY <3>1 DEF AccountReplies, Found, Faults
    <3> QED BY <3>1, <3>2
  <2>3. Scope(t) BY <1>1, <2>1, MovedCustScope
  <2>4. Scope(u) BY <1>1, <2>1, MovedPCScope DEF FactuurPC
  <2> QED BY <1>2, <2>2, <2>3, <2>4
<1>5. CASE SyncKlant(c)
  <2>1. Converted(s) /\ s.doc = None
    BY <1>1, <1>5 DEF SyncKlant, At, LinesScope, CustScope, Converted
  <2>2. PICK label \in {"saveklant", "refind"} :
          Become(c, [s EXCEPT !.pc = label])
    BY <1>5 DEF SyncKlant
  <2>3. Scope([s EXCEPT !.pc = label])
    BY <1>1, <2>1, MovedPCScope DEF FactuurPC
  <2> QED BY <2>2, <2>3
<1>6. CASE SaveAccount(c)
  <2>1. Converted(s) /\ s.doc = None
    BY <1>1, <1>6 DEF SaveAccount, At, LinesScope, CustScope, Converted
  <2>2. Become(c, [s EXCEPT !.pc = "refind"]) \/ Become(c, FailFactuur(s))
    BY <1>6 DEF SaveAccount
  <2>3. Scope([s EXCEPT !.pc = "refind"])
    BY <1>1, <2>1, MovedPCScope DEF FactuurPC
  <2> QED BY <1>2, <2>2, <2>3
<1>7. CASE RefindAccount(c)
  <2>1. Converted(s) /\ s.doc = None
    BY <1>1, <1>7 DEF RefindAccount, At, LinesScope, CustScope, Converted
  <2>2. PICK cust \in {None, k} :
          Become(c, [s EXCEPT !.pc = "doctype", !.cust = cust])
    BY <1>7 DEF RefindAccount, Klantvan
  <2>3. Scope([s EXCEPT !.pc = "doctype", !.cust = cust])
    BY <1>1, <2>1, MovedCustScope
  <2> QED BY <2>2, <2>3
<1>8. CASE FindDocumentType(c)
  <2>1. Converted(s) /\ s.doc = None
    BY <1>1, <1>8 DEF FindDocumentType, At, LinesScope, CustScope, Converted
  <2>2. PICK label \in {"document", "save"} :
          Become(c, [s EXCEPT !.pc = label])
    BY <1>8 DEF FindDocumentType
  <2>3. Scope([s EXCEPT !.pc = label])
    BY <1>1, <2>1, MovedPCScope DEF FactuurPC
  <2> QED BY <2>2, <2>3
<1>9. CASE SaveDocument(c)
  <2>1. Converted(s) /\ s.doc = None
    BY <1>1, <1>9 DEF SaveDocument, At, LinesScope, CustScope, Converted
  <2>2. PICK label \in {"pdf", "save"} :
          /\ Become(c, [s EXCEPT !.pc = label])
          /\ label = "pdf" => s.cust # None
    BY <1>9 DEF SaveDocument
  <2>3. Scope([s EXCEPT !.pc = label])
    BY <1>1, <2>1, <2>2, MovedPCScope DEF FactuurPC
  <2> QED BY <2>2, <2>3
<1>10. CASE AttachPDF(c)
  <2>1. Converted(s) /\ s.doc = None /\ s.cust # None
    BY <1>1, <1>10 DEF AttachPDF, At, LinesScope, CustScope, Converted
  <2> DEFINE t == [s EXCEPT !.pc = "save"]
             u == [s EXCEPT !.pc = "save", !.doc = <<s.factuur, s.cust>>]
  <2>2. Become(c, t) \/ Become(c, u)
    <3>1. t.factuur = s.factuur /\ t.cust = s.cust BY <1>1 DEF Local
    <3>2. \/ Become(c, [t EXCEPT !.doc = <<t.factuur, t.cust>>])
          \/ Become(c, t)
      BY <1>10 DEF AttachPDF
    <3> QED BY <3>1, <3>2
  <2>3. Scope(t) BY <1>1, <2>1, MovedPCScope DEF FactuurPC
  <2>4. Scope(u) BY <1>1, <2>1, MovedDocScope
  <2> QED BY <2>2, <2>3, <2>4
<1>11. CASE SaveSalesEntry(c)
  BY <1>2, <1>11 DEF SaveSalesEntry
<1> QED BY <1>3, <1>4, <1>5, <1>6, <1>7, <1>8, <1>9, <1>10, <1>11

-----------------------------------------------------------------------------
(* The store keeps its type, and type correctness.                         *)

LEMMA EntryType ==
    ASSUME ScopeInv, NEW c \in Client, At(c, "save"), sync[c].cust # None
    PROVE  Entry(c) \in SalesEntry
<1> DEFINE s == sync[c]
<1>1. Scope(s) /\ s \in Local /\ s.pc = "save" BY DEF ScopeInv, Scope, At
<1>2. s.factuur \in Factuur
  BY <1>1 DEF Scope, FactuurScope, FactuurPC, Local
<1>3. /\ s.cust \in Klant /\ s.lines \in SUBSET Nat
      /\ s.doc \in Document \cup {None}
  BY <1>1 DEF Local
<1> HIDE DEF s
<1> QED BY <1>2, <1>3 DEF Entry, SalesEntry, s

LEMMA ItemsType ==
    ASSUME ExactTypeOK, NEW d \in Division, NEW p \in Product,
           NEW g \in GL, NEW n \in Nat
    PROVE  [items EXCEPT ![d][p][g] = n]
             \in [Division -> [Product -> [GL -> Nat]]]
<1>1. items[d][p] \in [GL -> Nat] /\ items[d] \in [Product -> [GL -> Nat]]
  BY DEF ExactTypeOK
<1>2. [items[d][p] EXCEPT ![g] = n] \in [GL -> Nat] BY <1>1
<1>3. [items[d] EXCEPT ![p] = [items[d][p] EXCEPT ![g] = n]]
        \in [Product -> [GL -> Nat]]
  BY <1>1, <1>2
<1> QED BY <1>3 DEF ExactTypeOK

LEMMA StepStoreType ==
    ASSUME ScopeInv, NEW c \in Client, SyncRecras(c) \/ Step(c)
    PROVE  ExactTypeOK' /\ sent' = sent
<1> DEFINE s == sync[c]
<1>1. /\ ExactTypeOK /\ Scope(s) /\ s \in Local
  BY DEF ScopeInv
<1>2. CASE SaveItem(c)
  <2>1. s.division \in Division /\ s.product \in Product
    BY <1>1, <1>2 DEF SaveItem, At, Scope, BedrijfScope, ProductScope, BedrijfPC
  <2>2. /\ items' = items \/ \E g \in GL :
             items' = [items EXCEPT ![s.division][s.product][g] =
                         items[s.division][s.product][g] + 1]
        /\ UNCHANGED <<sent, accounts, documents, entries, setup, healthy>>
    BY <1>2 DEF SaveItem, AddItem
  <2> HIDE DEF s
  <2>3. \A g \in GL : items[s.division][s.product][g] + 1 \in Nat
    BY <1>1, <2>1 DEF ExactTypeOK
  <2>4. \A g \in GL :
          [items EXCEPT ![s.division][s.product][g] =
             items[s.division][s.product][g] + 1]
            \in [Division -> [Product -> [GL -> Nat]]]
    BY <1>1, <2>1, <2>3, ItemsType
  <2>5. items' \in [Division -> [Product -> [GL -> Nat]]]
    <3>1. CASE items' = items BY <1>1, <3>1 DEF ExactTypeOK
    <3>2. CASE items' # items
      <4>1. PICK g \in GL :
              items' = [items EXCEPT ![s.division][s.product][g] =
                          items[s.division][s.product][g] + 1]
        BY <2>2, <3>2
      <4> DEFINE new == [items EXCEPT ![s.division][s.product][g] =
                           items[s.division][s.product][g] + 1]
      <4>2. new \in [Division -> [Product -> [GL -> Nat]]] BY <2>4
      <4>3. items' = new BY <4>1
      <4> HIDE DEF new
      <4> QED BY <4>2, <4>3
    <3> QED BY <3>1, <3>2
  <2> QED BY <1>1, <2>2, <2>5 DEF ExactTypeOK
<1>3. CASE SaveAccount(c)
  <2>1. s.division \in Division /\ s.factuur \in Factuur
    BY <1>1, <1>3 DEF SaveAccount, At, Scope, BedrijfScope, FactuurScope,
                      BedrijfPC, FactuurPC, Local
  <2>2. /\ accounts' = accounts \/
             accounts' = [accounts EXCEPT ![s.division][Klantvan(s)] =
                            accounts[s.division][Klantvan(s)] + 1]
        /\ UNCHANGED <<sent, items, documents, entries, setup, healthy>>
    BY <1>3 DEF SaveAccount, AddAccount
  <2> HIDE DEF s
  <2>3. Klantvan(s) \in Klant BY <2>1, RecrasAssumption DEF Klantvan
  <2>4. accounts[s.division][Klantvan(s)] + 1 \in Nat
    BY <1>1, <2>1, <2>3 DEF ExactTypeOK
  <2>5. [accounts[s.division] EXCEPT ![Klantvan(s)] =
           accounts[s.division][Klantvan(s)] + 1] \in [Klant -> Nat]
    BY <1>1, <2>1, <2>3, <2>4 DEF ExactTypeOK
  <2>6. accounts' \in [Division -> [Klant -> Nat]]
    BY <1>1, <2>2, <2>5 DEF ExactTypeOK
  <2> QED BY <1>1, <2>2, <2>6 DEF ExactTypeOK
<1>4. CASE SaveDocument(c)
  <2>1. s.factuur \in Factuur /\ s.cust \in Klant \cup {None}
    BY <1>1, <1>4 DEF SaveDocument, At, Scope, FactuurScope, FactuurPC, Local
  <2>2. /\ documents' = documents \/
             /\ s.cust # None
             /\ documents' = [documents EXCEPT ![s.division] =
                                @ \cup {<<s.factuur, s.cust>>}]
        /\ UNCHANGED <<sent, accounts, items, entries, setup, healthy>>
    BY <1>4 DEF SaveDocument, AddDocument, Stored
  <2> HIDE DEF s
  <2> DEFINE doc == <<s.factuur, s.cust>>
  <2>3. ASSUME s.cust # None
        PROVE  [documents EXCEPT ![s.division] = @ \cup {doc}]
                 \in [Division -> SUBSET Document]
    <3>1. doc \in Document BY <2>1, <2>3 DEF Document
    <3> HIDE DEF doc
    <3> QED BY <1>1, <3>1 DEF ExactTypeOK
  <2>4. documents' \in [Division -> SUBSET Document]
    BY <1>1, <2>2, <2>3 DEF ExactTypeOK
  <2> QED BY <1>1, <2>2, <2>4 DEF ExactTypeOK
<1>5. CASE SaveSalesEntry(c)
  <2>1. /\ entries' = entries \/
             /\ s.cust # None
             /\ entries' = [entries EXCEPT ![s.division] =
                              Append(@, Entry(c))]
        /\ UNCHANGED <<sent, accounts, items, documents, setup, healthy>>
    BY <1>5 DEF SaveSalesEntry, SaveReplies, AddSalesEntry, Stored
  <2>2. At(c, "save") BY <1>5 DEF SaveSalesEntry
  <2>3. s.cust # None => Entry(c) \in SalesEntry BY <2>2, EntryType
  <2> HIDE DEF s
  <2>4. ASSUME s.cust # None
        PROVE  [entries EXCEPT ![s.division] = Append(@, Entry(c))]
                 \in [Division -> Seq(SalesEntry)]
    <3>1. \A d \in Division : Append(entries[d], Entry(c)) \in Seq(SalesEntry)
      BY <1>1, <2>3, <2>4 DEF ExactTypeOK
    <3> QED BY <1>1, <3>1 DEF ExactTypeOK
  <2>5. entries' \in [Division -> Seq(SalesEntry)]
    BY <1>1, <2>1, <2>4 DEF ExactTypeOK
  <2> QED BY <1>1, <2>1, <2>5 DEF ExactTypeOK
<1>6. ASSUME UNCHANGED <<sent, exactVars>> PROVE ExactTypeOK' /\ sent' = sent
  BY <1>1, <1>6 DEF ExactTypeOK, exactVars
<1> QED
  BY <1>2, <1>3, <1>4, <1>5, <1>6
  DEF SyncRecras, Step, GetDefaultDivision, GetBedrijven, SetDivision,
      FindPaymentCondition, GetRecrasVATCodes, GetAllProducten, SyncProduct,
      GetFacturen, FinishBedrijf, Finish, FindSalesEntry, ConvertRegel,
      SkipWithoutLines, FindAccount, SyncKlant, RefindAccount,
      FindDocumentType, AttachPDF

LEMMA StepScope ==
    ASSUME ScopeInv, NEW c \in Client, SyncRecras(c) \/ Step(c)
    PROVE  \E s : Become(c, s) /\ Scope(s)
  BY StartScope, SyncScope, BedrijfStepScope, FindSalesEntryScope,
     ConvertRegelScope, FactuurStepScope DEF Step

LEMMA EnvStoreType ==
    ASSUME ExactTypeOK, ExactEnv
    PROVE  ExactTypeOK'
<1>1. ASSUME NEW d \in Division, NEW p \in Product, SetGLRevenue(d, p)
      PROVE  ExactTypeOK'
  <2> DEFINE bare == items[d][p]["bare"] - 1
             taken == [items EXCEPT ![d][p]["bare"] = bare]
             ready == taken[d][p]["ready"] + 1
  <2>1. items' = [taken EXCEPT ![d][p]["ready"] = ready]
    BY <1>1 DEF SetGLRevenue
  <2>2. bare \in Nat BY <1>1 DEF ExactTypeOK, SetGLRevenue, GL
  <2>3. taken \in [Division -> [Product -> [GL -> Nat]]]
    BY <2>2, ItemsType DEF GL
  <2> HIDE DEF taken
  <2>4. ready \in Nat BY <2>3 DEF GL
  <2> HIDE DEF ready
  <2>5. items' \in [Division -> [Product -> [GL -> Nat]]]
    BY <2>1, <2>3, <2>4 DEF GL
  <2> QED BY <1>1, <2>5 DEF SetGLRevenue, ExactTypeOK
<1>2. ASSUME NEW d \in Division, AddPaymentCondition(d) PROVE ExactTypeOK'
  BY <1>2 DEF AddPaymentCondition, ExactTypeOK
<1>3. ASSUME NEW d \in Division, NEW b \in BTW, AddVATCode(d, b)
      PROVE  ExactTypeOK'
  BY <1>3 DEF AddVATCode, ExactTypeOK
<1>4. CASE Recover BY <1>4 DEF Recover, ExactTypeOK
<1> QED BY <1>1, <1>2, <1>3, <1>4 DEF ExactEnv

LEMMA ScopeInvInit == Init => ScopeInv
<1> SUFFICES ASSUME Init PROVE ScopeInv OBVIOUS
<1>1. /\ Idle \in Local /\ Idle.pc = "idle"
      /\ Idle.cust = None /\ Idle.doc = None /\ Idle.lines = {}
  BY DEF Idle, Local, PC
<1>2. Scope(Idle) BY <1>1, ScopeOutsideFactuur DEF FactuurPC, BedrijfPC
<1>3. ExactTypeOK
  <2>1. accounts \in [Division -> [Klant -> Nat]] BY DEF Init, ExactInit
  <2>2. items \in [Division -> [Product -> [GL -> Nat]]]
    BY DEF Init, ExactInit
  <2>3. documents \in [Division -> SUBSET Document] BY DEF Init, ExactInit
  <2>4. entries \in [Division -> Seq(SalesEntry)] BY DEF Init, ExactInit
  <2>5. setup \in [Division -> [payment : BOOLEAN, btw : SUBSET BTW]]
    <3>1. [payment : BOOLEAN, btw : {{}, BTW}]
            \subseteq [payment : BOOLEAN, btw : SUBSET BTW]
      OBVIOUS
    <3> QED BY <3>1 DEF Init, ExactInit
  <2> QED BY <2>1, <2>2, <2>3, <2>4, <2>5 DEF ExactTypeOK, Init, ExactInit
<1> QED BY <1>1, <1>2, <1>3 DEF Init, ScopeInv

LEMMA ScopeInvNext == ScopeInv /\ [Next]_vars => ScopeInv'
<1> SUFFICES ASSUME ScopeInv, [Next]_vars PROVE ScopeInv' OBVIOUS
<1>1. ASSUME NEW c \in Client, SyncRecras(c) \/ Step(c) PROVE ScopeInv'
  <2>1. ExactTypeOK' /\ sent' = sent BY <1>1, StepStoreType
  <2>2. PICK s : Become(c, s) /\ Scope(s) BY <1>1, StepScope
  <2>3. /\ sync' \in [Client -> Local]
        /\ \A o \in Client : Scope(sync'[o])
    BY <2>2 DEF Become, Scope, ScopeInv
  <2>4. \A o \in Client : Scope(sync[o])'
    BY <2>1, <2>3 DEF Scope, BedrijfScope, ProductScope, FactuurScope,
                      LinesScope, CustScope
  <2> QED BY <2>1, <2>3, <2>4 DEF ScopeInv
<1>2. ASSUME NEW f \in Factuur, Send(f) PROVE ScopeInv'
  <2>1. /\ sent' = sent \cup {f} /\ sync' = sync
        /\ UNCHANGED exactVars
    BY <1>2 DEF Send
  <2>2. \A o \in Client : Scope(sync[o])'
    BY <2>1 DEF ScopeInv, Scope, BedrijfScope, ProductScope, FactuurScope,
                LinesScope, CustScope
  <2>3. ExactTypeOK' BY <2>1 DEF ScopeInv, ExactTypeOK, exactVars
  <2> QED BY <2>1, <2>2, <2>3 DEF ScopeInv
<1>3. CASE Crash
  <2>1. /\ sent' = sent /\ sync' = [c \in Client |-> Idle]
        /\ UNCHANGED exactVars
    BY <1>3 DEF Crash
  <2>2. /\ Idle \in Local /\ Idle.pc = "idle"
        /\ Idle.cust = None /\ Idle.doc = None /\ Idle.lines = {}
    BY DEF Idle, Local, PC
  <2>3. Scope(Idle) BY <2>2, ScopeOutsideFactuur DEF FactuurPC, BedrijfPC
  <2>4. \A o \in Client : Scope(sync'[o]) BY <2>1, <2>3
  <2>5. \A o \in Client : Scope(sync[o])'
    BY <2>1, <2>4 DEF Scope, BedrijfScope, ProductScope, FactuurScope,
                      LinesScope, CustScope
  <2>6. ExactTypeOK' BY <2>1 DEF ScopeInv, ExactTypeOK, exactVars
  <2> QED BY <2>1, <2>2, <2>5, <2>6 DEF ScopeInv
<1>4. CASE ExactEnv /\ UNCHANGED <<sent, sync>>
  <2>1. ExactTypeOK' BY <1>4, EnvStoreType DEF ScopeInv
  <2>2. \A o \in Client : Scope(sync[o])'
    BY <1>4 DEF ScopeInv, Scope, BedrijfScope, ProductScope, FactuurScope,
                LinesScope, CustScope
  <2> QED BY <1>4, <2>1, <2>2 DEF ScopeInv
<1>5. CASE UNCHANGED vars
  <2>1. \A o \in Client : Scope(sync[o])'
    BY <1>5 DEF vars, ScopeInv, Scope, BedrijfScope, ProductScope,
                FactuurScope, LinesScope, CustScope
  <2>2. ExactTypeOK' BY <1>5 DEF vars, exactVars, ScopeInv, ExactTypeOK
  <2> QED BY <1>5, <2>1, <2>2 DEF ScopeInv, vars
<1> QED BY <1>1, <1>2, <1>3, <1>4, <1>5 DEF Next, Environment

\* The local variables of every run are in order in every reachable state.
THEOREM ScopeCorrect == Spec => []ScopeInv
  BY ScopeInvInit, ScopeInvNext, PTL DEF Spec

\* Type correctness, for any number of clients, divisions and invoices.
THEOREM TypeCorrect == Spec => []TypeOK
<1>1. ScopeInv => TypeOK BY DEF ScopeInv, TypeOK
<1> QED BY <1>1, ScopeCorrect, PTL

-----------------------------------------------------------------------------
(* At most one entry per client and invoice.                               *)
(*                                                                         *)
(* Between asking for the sales entry of an invoice and saving it, the     *)
(* client has not entered it: it asked, nobody else enters it in its name, *)
(* and all the entries of an invoice are in the division it asked.         *)

Placed ==
    \A d \in Division : \A i \in DOMAIN entries[d] :
      DivisionOf[BedrijfOf[entries[d][i].factuur]] = d

Fresh ==
    \A c \in Client :
      sync[c].pc \in FactuurPC => ~Ledger!EnteredBy(c, sync[c].factuur)

LedgerInv == Placed /\ Fresh /\ AtMostOncePerClient

\* What is in the ledger after an entry was added.
LEMMA AfterAppend ==
    ASSUME ExactTypeOK, NEW d \in Division, NEW e, AddSalesEntry(d, e)
    PROVE  \A x \in Division : \A i \in DOMAIN entries'[x] :
             \/ i \in DOMAIN entries[x] /\ entries'[x][i] = entries[x][i]
             \/ /\ x = d /\ i = Len(entries[d]) + 1
                /\ i \notin DOMAIN entries[d]
                /\ entries'[x][i] = e
<1>1. entries' = [entries EXCEPT ![d] = Append(entries[d], e)]
  BY DEF AddSalesEntry
<1> SUFFICES ASSUME NEW x \in Division, NEW i \in DOMAIN entries'[x]
             PROVE  \/ i \in DOMAIN entries[x] /\ entries'[x][i] = entries[x][i]
                    \/ /\ x = d /\ i = Len(entries[d]) + 1
                       /\ i \notin DOMAIN entries[d]
                       /\ entries'[x][i] = e
  OBVIOUS
<1>2. entries[d] \in Seq(SalesEntry) BY DEF ExactTypeOK
<1>3. CASE x # d BY <1>1, <1>3 DEF ExactTypeOK
<1>4. CASE x = d
  <2>1. entries'[d] = Append(entries[d], e) BY <1>1 DEF ExactTypeOK
  <2> DEFINE q == entries[d]
  <2>2. q \in Seq(SalesEntry) BY <1>2
  <2>3. i \in 1 .. Len(q) + 1 BY <1>2, <1>4, <2>1
  <2>4. entries'[x][i] = IF i = Len(q) + 1 THEN e ELSE q[i]
    BY <1>4, <2>1, <2>2, <2>3
  <2>5. DOMAIN q = 1 .. Len(q) /\ Len(q) \in Nat BY <2>2
  <2> QED BY <1>4, <2>3, <2>4, <2>5
<1> QED BY <1>3, <1>4

LEMMA EntriesUnchanged ==
    ASSUME ScopeInv, NEW c \in Client, SyncRecras(c) \/ Step(c)
    PROVE  \/ entries' = entries
           \/ /\ At(c, "save") /\ sync[c].cust # None
              /\ AddSalesEntry(sync[c].division, Entry(c))
              /\ sync'[c].pc = "factuur"
<1>1. CASE SaveSalesEntry(c)
  <2>1. \/ entries' = entries
        \/ /\ sync[c].cust # None
           /\ AddSalesEntry(sync[c].division, Entry(c))
    BY <1>1 DEF SaveSalesEntry, SaveReplies, Stored
  <2>2. \/ sync'[c] = NextFactuur(sync[c])
        \/ sync'[c] = FailFactuur(sync[c])
    BY <1>1 DEF SaveSalesEntry, Become, ScopeInv
  <2>3. At(c, "save") BY <1>1 DEF SaveSalesEntry
  <2>4. sync'[c].pc = "factuur"
    BY <2>2 DEF NextFactuur, FailFactuur, Reported, Local, ScopeInv
  <2> QED BY <2>1, <2>3, <2>4
<1> QED
  BY <1>1
  DEF SyncRecras, Step, GetDefaultDivision, GetBedrijven, SetDivision,
      FindPaymentCondition, GetRecrasVATCodes, GetAllProducten, SyncProduct,
      SaveItem, GetFacturen, FinishBedrijf, Finish, FindSalesEntry,
      ConvertRegel, SkipWithoutLines, FindAccount, SyncKlant, SaveAccount,
      RefindAccount, FindDocumentType, SaveDocument, AttachPDF, exactVars

LEMMA NextPC ==
    ASSUME NEW s \in Local
    PROVE  /\ NextBedrijf(s).pc = "bedrijf" /\ FailBedrijf(s).pc = "bedrijf"
           /\ NextProduct(s).pc = "product" /\ FailProduct(s).pc = "product"
           /\ NextFactuur(s).pc = "factuur" /\ FailFactuur(s).pc = "factuur"
  BY DEF NextBedrijf, FailBedrijf, NextProduct, FailProduct, NextFactuur,
         FailFactuur, Reported, Local

\* Where each step of a run leads.
LEMMA StepPC ==
    ASSUME ScopeInv, NEW c \in Client
    PROVE  /\ SyncRecras(c) => sync'[c].pc = "me"
           /\ GetDefaultDivision(c) => sync'[c].pc = "bedrijven"
           /\ GetBedrijven(c) => sync'[c].pc = "bedrijf"
           /\ \A b \in Bedrijf : SetDivision(c, b) =>
                sync'[c].pc \in {"payment", "bedrijf"}
           /\ FindPaymentCondition(c) => sync'[c].pc \in {"vat", "bedrijf"}
           /\ GetRecrasVATCodes(c) => sync'[c].pc \in {"producten", "bedrijf"}
           /\ GetAllProducten(c) => sync'[c].pc \in {"product", "bedrijf"}
           /\ \A p \in Product : SyncProduct(c, p) =>
                sync'[c].pc \in {"product", "saveitem"}
           /\ SaveItem(c) => sync'[c].pc = "product"
           /\ GetFacturen(c) => sync'[c].pc \in {"factuur", "bedrijf"}
           /\ FinishBedrijf(c) => sync'[c].pc = "bedrijf"
           /\ Finish(c) => sync'[c].pc = "idle"
           /\ \A f \in Factuur : FindSalesEntry(c, f) =>
                sync'[c].pc \in {"regel", "factuur"}
           /\ ConvertRegel(c) => sync'[c].pc \in {"regel", "factuur"}
           /\ SkipWithoutLines(c) => sync'[c].pc = "factuur"
           /\ FindAccount(c) => sync'[c].pc \in {"doctype", "klant", "factuur"}
           /\ SyncKlant(c) => sync'[c].pc \in {"saveklant", "refind"}
           /\ SaveAccount(c) => sync'[c].pc \in {"refind", "factuur"}
           /\ RefindAccount(c) => sync'[c].pc = "doctype"
           /\ FindDocumentType(c) => sync'[c].pc \in {"document", "save"}
           /\ SaveDocument(c) => sync'[c].pc \in {"pdf", "save"}
           /\ AttachPDF(c) => sync'[c].pc = "save"
           /\ SaveSalesEntry(c) => sync'[c].pc = "factuur"
<1> DEFINE s == sync[c]
<1>1. s \in Local /\ (\A t : Become(c, t) => sync'[c] = t)
  BY DEF ScopeInv, Become
<1>2. /\ NextBedrijf(s).pc = "bedrijf" /\ FailBedrijf(s).pc = "bedrijf"
      /\ NextProduct(s).pc = "product" /\ FailProduct(s).pc = "product"
      /\ NextFactuur(s).pc = "factuur" /\ FailFactuur(s).pc = "factuur"
  BY <1>1, NextPC
<1>3. /\ SyncRecras(c) => sync'[c].pc = "me"
      /\ Finish(c) => sync'[c].pc = "idle"
  <2> DEFINE t == [Idle EXCEPT !.pc = "me", !.due = sent]
  <2>1. Idle.pc = "idle" /\ t.pc = "me" BY DEF Idle
  <2>2. SyncRecras(c) => sync'[c] = t BY <1>1 DEF SyncRecras
  <2>3. Finish(c) => sync'[c] = Idle BY <1>1 DEF Finish
  <2> HIDE DEF t
  <2> QED BY <2>1, <2>2, <2>3
<1>4. /\ GetDefaultDivision(c) => sync'[c].pc = "bedrijven"
      /\ GetBedrijven(c) => sync'[c].pc = "bedrijf"
  BY <1>1 DEF GetDefaultDivision, GetBedrijven, Reported, Local
<1>5. ASSUME NEW b \in Bedrijf, SetDivision(c, b)
      PROVE  sync'[c].pc \in {"payment", "bedrijf"}
  <2> DEFINE t == [s EXCEPT !.bedrijf = b]
             u == [t EXCEPT !.pc = "payment", !.division = DivisionOf[b]]
  <2>1. t \in Local BY <1>1 DEF Local
  <2>2. u.pc = "payment" BY <2>1 DEF Local
  <2>3. Become(c, u) \/ Become(c, FailBedrijf(t)) BY <1>5 DEF SetDivision
  <2> HIDE DEF t, u
  <2> QED BY <1>1, <2>1, <2>2, <2>3, NextPC
<1>6. FindPaymentCondition(c) => sync'[c].pc \in {"vat", "bedrijf"}
  BY <1>1, <1>2 DEF FindPaymentCondition, Local
<1>7. GetRecrasVATCodes(c) => sync'[c].pc \in {"producten", "bedrijf"}
  BY <1>1, <1>2 DEF GetRecrasVATCodes, Local
<1>8. GetAllProducten(c) => sync'[c].pc \in {"product", "bedrijf"}
  BY <1>1, <1>2 DEF GetAllProducten, Local
<1>9. ASSUME NEW p \in Product, SyncProduct(c, p)
      PROVE  sync'[c].pc \in {"product", "saveitem"}
  <2> DEFINE t == [s EXCEPT !.product = p]
             u == [t EXCEPT !.pc = "saveitem"]
  <2>1. t \in Local BY <1>1 DEF Local
  <2>2. u.pc = "saveitem" BY <2>1 DEF Local
  <2>3. \/ Become(c, NextProduct(t)) \/ Become(c, u)
        \/ Become(c, FailProduct(t))
    <3>1. PICK r \in ItemReplies(t.division, p) :
            Become(c, CASE r \in GL -> NextProduct(t)
                        [] r = "notfound" -> u
                        [] r = "error" -> FailProduct(t))
      BY <1>9 DEF SyncProduct
    <3>2. r \in GL \cup {"notfound", "error"}
      BY <3>1 DEF ItemReplies, Faults
    <3> QED BY <3>1, <3>2 DEF GL
  <2> HIDE DEF t, u
  <2> QED BY <1>1, <2>1, <2>2, <2>3, NextPC
<1>10. /\ SaveItem(c) => sync'[c].pc = "product"
       /\ FinishBedrijf(c) => sync'[c].pc = "bedrijf"
       /\ SkipWithoutLines(c) => sync'[c].pc = "factuur"
       /\ SaveSalesEntry(c) => sync'[c].pc = "factuur"
  BY <1>1, <1>2 DEF SaveItem, FinishBedrijf, SkipWithoutLines, SaveSalesEntry
<1>11. GetFacturen(c) => sync'[c].pc \in {"factuur", "bedrijf"}
  BY <1>1, <1>2 DEF GetFacturen, Local
<1>12. ASSUME NEW f \in Factuur, FindSalesEntry(c, f)
       PROVE  sync'[c].pc \in {"regel", "factuur"}
  <2> DEFINE t == [s EXCEPT !.factuur = f]
             u == [t EXCEPT !.pc = "regel", !.regel = 1]
  <2>1. t \in Local BY <1>1 DEF Local
  <2>2. u.pc = "regel" BY <2>1 DEF Local
  <2>3. PICK r \in SalesEntryReplies(t.division, f) :
          Become(c, CASE r = "found" -> NextFactuur(t)
                      [] r = "notfound" -> u
                      [] r = "error" -> FailFactuur(t))
    BY <1>12 DEF FindSalesEntry
  <2>4. r \in {"found", "notfound", "error"}
    BY <2>3 DEF SalesEntryReplies, Found, Faults
  <2> HIDE DEF t, u
  <2> QED BY <1>1, <2>1, <2>2, <2>3, <2>4, NextPC
<1>13. ConvertRegel(c) => sync'[c].pc \in {"regel", "factuur"}
  <2> SUFFICES ASSUME ConvertRegel(c)
               PROVE  sync'[c].pc \in {"regel", "factuur"}
    OBVIOUS
  <2> DEFINE next == [s EXCEPT !.regel = s.regel + 1]
             more == [next EXCEPT !.lines = next.lines \cup {s.regel}]
  <2>1. \/ Become(c, FailFactuur(s)) \/ Become(c, next) \/ Become(c, more)
    BY DEF ConvertRegel
  <2>2. s.pc = "regel" BY DEF ConvertRegel, At
  <2>3. next.pc = "regel" /\ more.pc = "regel" BY <1>1, <2>2 DEF Local
  <2> QED BY <1>1, <1>2, <2>1, <2>3
<1>14. FindAccount(c) => sync'[c].pc \in {"doctype", "klant", "factuur"}
  <2> SUFFICES ASSUME FindAccount(c)
               PROVE  sync'[c].pc \in {"doctype", "klant", "factuur"}
    OBVIOUS
  <2> DEFINE t == [s EXCEPT !.pc = "doctype", !.cust = Klantvan(s)]
             u == [s EXCEPT !.pc = "klant"]
  <2>1. PICK r \in AccountReplies(s.division, Klantvan(s)) :
          Become(c, CASE r = "found" -> t
                      [] r = "notfound" -> u
                      [] r = "error" -> FailFactuur(s))
    BY DEF FindAccount
  <2>2. r \in {"found", "notfound", "error"}
    BY <2>1 DEF AccountReplies, Found, Faults
  <2>3. t.pc = "doctype" /\ u.pc = "klant" BY <1>1 DEF Local
  <2> QED BY <1>1, <1>2, <2>1, <2>2, <2>3
<1>15. /\ SyncKlant(c) => sync'[c].pc \in {"saveklant", "refind"}
       /\ SaveAccount(c) => sync'[c].pc \in {"refind", "factuur"}
       /\ RefindAccount(c) => sync'[c].pc = "doctype"
  BY <1>1, <1>2 DEF SyncKlant, SaveAccount, RefindAccount, Local
<1>16. /\ FindDocumentType(c) => sync'[c].pc \in {"document", "save"}
       /\ SaveDocument(c) => sync'[c].pc \in {"pdf", "save"}
       /\ AttachPDF(c) => sync'[c].pc = "save"
  BY <1>1 DEF FindDocumentType, SaveDocument, AttachPDF, Local
<1> QED
  BY <1>3, <1>4, <1>5, <1>6, <1>7, <1>8, <1>9, <1>10, <1>11, <1>12, <1>13,
     <1>14, <1>15, <1>16

\* The steps of syncFactuur between asking for the sales entry and saving it.
InvoiceStep(c) ==
    \/ ConvertRegel(c) \/ FindAccount(c) \/ SyncKlant(c) \/ SaveAccount(c)
    \/ RefindAccount(c) \/ FindDocumentType(c) \/ SaveDocument(c)
    \/ AttachPDF(c)

SameIteration(s, t) ==
    /\ t.division = s.division /\ t.due = s.due /\ t.report = s.report
    /\ t.bedrijven = s.bedrijven /\ t.bedrijf = s.bedrijf
    /\ t.facturen = s.facturen /\ t.factuur = s.factuur

\* They stay with the invoice, or give it up.
LEMMA InvoiceStays ==
    ASSUME ScopeInv, NEW c \in Client, InvoiceStep(c)
    PROVE  /\ sync[c].pc \in FactuurPC
           /\ entries' = entries /\ sent' = sent
           /\ \/ sync'[c] = FailFactuur(sync[c])
              \/ SameIteration(sync[c], sync'[c]) /\ sync'[c].pc \in FactuurPC
<1> DEFINE s == sync[c]
<1>1. s \in Local /\ (\A t : Become(c, t) => sync'[c] = t)
  BY DEF ScopeInv, Become
<1>2. /\ s.pc \in FactuurPC
      /\ entries' = entries /\ sent' = sent
  BY DEF InvoiceStep, ConvertRegel, FindAccount, LinesConverted, SyncKlant,
         SaveAccount, RefindAccount, FindDocumentType, SaveDocument, AttachPDF,
         At, FactuurPC, exactVars
<1>3. CASE ConvertRegel(c)
  <2> DEFINE next == [s EXCEPT !.regel = s.regel + 1]
             more == [next EXCEPT !.lines = next.lines \cup {s.regel}]
  <2>1. \/ Become(c, FailFactuur(s)) \/ Become(c, next) \/ Become(c, more)
    BY <1>3 DEF ConvertRegel
  <2>2. /\ SameIteration(s, next) /\ next.pc = s.pc
        /\ SameIteration(s, more) /\ more.pc = s.pc
    BY <1>1 DEF Local, SameIteration
  <2> QED BY <1>1, <1>2, <2>1, <2>2
<1>4. CASE FindAccount(c)
  <2> DEFINE t == [s EXCEPT !.pc = "doctype", !.cust = Klantvan(s)]
             u == [s EXCEPT !.pc = "klant"]
  <2>1. PICK r \in AccountReplies(s.division, Klantvan(s)) :
          Become(c, CASE r = "found" -> t
                      [] r = "notfound" -> u
                      [] r = "error" -> FailFactuur(s))
    BY <1>4 DEF FindAccount
  <2>2. r \in {"found", "notfound", "error"}
    BY <2>1 DEF AccountReplies, Found, Faults
  <2>3. /\ SameIteration(s, t) /\ t.pc \in FactuurPC
        /\ SameIteration(s, u) /\ u.pc \in FactuurPC
    BY <1>1 DEF Local, SameIteration, FactuurPC
  <2> QED BY <1>1, <1>2, <2>1, <2>2, <2>3
<1>5. CASE SyncKlant(c)
  BY <1>1, <1>2, <1>5 DEF SyncKlant, Local, SameIteration, FactuurPC
<1>6. CASE SaveAccount(c)
  BY <1>1, <1>2, <1>6 DEF SaveAccount, Local, SameIteration, FactuurPC
<1>7. CASE RefindAccount(c)
  BY <1>1, <1>2, <1>7 DEF RefindAccount, Local, SameIteration, FactuurPC
<1>8. CASE FindDocumentType(c)
  BY <1>1, <1>2, <1>8 DEF FindDocumentType, Local, SameIteration, FactuurPC
<1>9. CASE SaveDocument(c)
  BY <1>1, <1>2, <1>9 DEF SaveDocument, Local, SameIteration, FactuurPC
<1>10. CASE AttachPDF(c)
  BY <1>1, <1>2, <1>10 DEF AttachPDF, Local, SameIteration, FactuurPC
<1> QED BY <1>2, <1>3, <1>4, <1>5, <1>6, <1>7, <1>8, <1>9, <1>10 DEF InvoiceStep

\* Only these steps, and the answer that there is no sales entry, lead to a
\* place in between.
LEMMA IntoFactuur ==
    ASSUME ScopeInv, NEW c \in Client, SyncRecras(c) \/ Step(c),
           sync'[c].pc \in FactuurPC
    PROVE  InvoiceStep(c) \/ \E f \in Factuur : FindSalesEntry(c, f)
  BY StepPC DEF Step, InvoiceStep, FactuurPC

\* What FindSalesEntry does, by its reply.
LEMMA FindSalesEntryCases ==
    ASSUME ScopeInv, NEW c \in Client, NEW f \in Factuur, FindSalesEntry(c, f)
    PROVE  LET s == sync[c]
               t == [s EXCEPT !.factuur = f]
               u == [s EXCEPT !.factuur = f, !.pc = "regel", !.regel = 1]
           IN  /\ s.pc = "factuur" /\ f \in s.facturen
               /\ t \in Local /\ UNCHANGED <<sent, exactVars>>
               /\ \/ /\ "found" \in SalesEntryReplies(s.division, f)
                     /\ sync'[c] = NextFactuur(t)
                  \/ /\ "notfound" \in SalesEntryReplies(s.division, f)
                     /\ sync'[c] = u
                  \/ sync'[c] = FailFactuur(t)
<1> DEFINE s == sync[c]
           t == [s EXCEPT !.factuur = f]
           u == [t EXCEPT !.pc = "regel", !.regel = 1]
<1>1. s \in Local /\ (\A x : Become(c, x) => sync'[c] = x)
  BY DEF ScopeInv, Become
<1>2. t \in Local /\ t.division = s.division BY <1>1 DEF Local
<1>3. u = [s EXCEPT !.factuur = f, !.pc = "regel", !.regel = 1]
  BY <1>1 DEF Local
<1>4. /\ s.pc = "factuur" /\ f \in s.facturen
      /\ UNCHANGED <<sent, exactVars>>
  BY DEF FindSalesEntry, At
<1>5. PICK r \in SalesEntryReplies(t.division, f) :
        Become(c, CASE r = "found" -> NextFactuur(t)
                    [] r = "notfound" -> u
                    [] r = "error" -> FailFactuur(t))
  BY DEF FindSalesEntry
<1>6. r \in {"found", "notfound", "error"}
  BY <1>5 DEF SalesEntryReplies, Found, Faults
<1> HIDE DEF u
<1>7. \/ r = "found" /\ sync'[c] = NextFactuur(t)
      \/ r = "notfound" /\ sync'[c] = u
      \/ sync'[c] = FailFactuur(t)
  BY <1>1, <1>5, <1>6
<1> QED BY <1>2, <1>3, <1>4, <1>5, <1>7

\* A run is busy with an invoice because it was before, or has just asked for
\* its sales entry and got none.
LEMMA StepFactuur ==
    ASSUME ScopeInv, NEW c \in Client, SyncRecras(c) \/ Step(c),
           sync'[c].pc \in FactuurPC
    PROVE  \/ /\ sync[c].pc \in FactuurPC
              /\ sync'[c].factuur = sync[c].factuur
           \/ \E f \in sync[c].facturen :
                /\ sync[c].pc = "factuur"
                /\ sync'[c].factuur = f
                /\ "notfound" \in SalesEntryReplies(sync[c].division, f)
                /\ entries' = entries
<1> DEFINE s == sync[c]
<1>1. s \in Local BY DEF ScopeInv
<1>2. CASE InvoiceStep(c)
  <2>1. sync'[c] # FailFactuur(s) BY <1>1, NextPC DEF FactuurPC
  <2> QED BY <1>2, <2>1, InvoiceStays DEF SameIteration
<1>3. ASSUME NEW f \in Factuur, FindSalesEntry(c, f)
      PROVE  /\ f \in s.facturen /\ s.pc = "factuur"
             /\ sync'[c].factuur = f
             /\ "notfound" \in SalesEntryReplies(s.division, f)
             /\ entries' = entries
  <2> DEFINE t == [s EXCEPT !.factuur = f]
             u == [s EXCEPT !.factuur = f, !.pc = "regel", !.regel = 1]
  <2>1. t \in Local /\ u.factuur = f BY <1>1 DEF Local
  <2>2. sync'[c] # NextFactuur(t) /\ sync'[c] # FailFactuur(t)
    BY <2>1, NextPC DEF FactuurPC
  <2> QED BY <1>3, <2>1, <2>2, FindSalesEntryCases DEF exactVars
<1> QED BY <1>2, <1>3, IntoFactuur

LEMMA LedgerInvInit == Init => LedgerInv
  BY DEF Init, ExactInit, LedgerInv, Placed, Fresh, AtMostOncePerClient, Idle,
         FactuurPC

\* What an added entry says, and that it is the client's first for the invoice.
LEMMA AddedEntry ==
    ASSUME ScopeInv, LedgerInv, NEW c \in Client, At(c, "save"),
           sync[c].cust # None
    PROVE  LET s == sync[c]
               f == s.factuur
           IN  /\ f \in sent /\ f \in Factuur
               /\ s.division \in Division
               /\ DivisionOf[BedrijfOf[f]] = s.division
               /\ s.lines = LinesOfValue(f) /\ s.lines # {}
               /\ s.cust = KlantOf[f]
               /\ s.doc \in Document \cup {None}
               /\ ~Ledger!EnteredBy(c, f)
<1> DEFINE s == sync[c]
<1>1. Scope(s) /\ s \in Local /\ s.pc = "save" BY DEF ScopeInv, At
<1>2. ~Ledger!EnteredBy(c, s.factuur)
  BY <1>1 DEF LedgerInv, Fresh, FactuurPC
<1>3. s.doc \in Document \cup {None} /\ s.factuur \in Factuur
  BY <1>1 DEF Local, Scope, FactuurScope, FactuurPC
<1> QED
  BY <1>1, <1>2, <1>3 DEF Scope, BedrijfScope, FactuurScope, LinesScope,
                          CustScope, BedrijfPC, FactuurPC

LEMMA LedgerInvSame ==
    ASSUME LedgerInv, entries' = entries,
           \A o \in Client : sync'[o].pc \in FactuurPC =>
             ~Ledger!EnteredBy(o, sync'[o].factuur)
    PROVE  LedgerInv'
  BY DEF LedgerInv, Placed, Fresh, AtMostOncePerClient, Ledger!EnteredBy

LEMMA LedgerInvStep ==
    ASSUME ScopeInv, LedgerInv, NEW c \in Client, SyncRecras(c) \/ Step(c)
    PROVE  LedgerInv'
<1>0. \A o \in Client : o # c => sync'[o] = sync[o]
  <2>1. PICK s : Become(c, s) BY StepScope
  <2> QED BY <2>1 DEF Become, ScopeInv
<1>1. CASE entries' = entries
  <2>1. ASSUME sync'[c].pc \in FactuurPC
        PROVE  ~Ledger!EnteredBy(c, sync'[c].factuur)
    <3>1. CASE /\ sync[c].pc \in FactuurPC
               /\ sync'[c].factuur = sync[c].factuur
      BY <3>1 DEF LedgerInv, Fresh
    <3>2. ASSUME NEW f \in sync[c].facturen,
                 sync[c].pc = "factuur",
                 "notfound" \in SalesEntryReplies(sync[c].division, f)
          PROVE  ~Ledger!EnteredBy(c, f)
      <4> DEFINE d == sync[c].division
      <4>1. /\ f \in Factuur /\ d \in Division /\ d # None
            /\ DivisionOf[BedrijfOf[f]] = d
        BY <3>2, NoneAssumption
        DEF ScopeInv, Scope, BedrijfScope, FactuurScope, BedrijfPC
      <4>2. \A i \in DOMAIN entries[d] : entries[d][i].factuur # f
        BY <3>2, <4>1, ContainsAssumption
        DEF SalesEntryReplies, Found, Faults
      <4> QED BY <4>1, <4>2 DEF Ledger!EnteredBy, LedgerInv, Placed
    <3> QED BY <2>1, <3>1, <3>2, StepFactuur
  <2>2. \A o \in Client : sync'[o].pc \in FactuurPC =>
          ~Ledger!EnteredBy(o, sync'[o].factuur)
    BY <1>0, <2>1 DEF LedgerInv, Fresh
  <2> QED BY <1>1, <2>2, LedgerInvSame
<1>2. ASSUME At(c, "save"), sync[c].cust # None,
             AddSalesEntry(sync[c].division, Entry(c)),
             sync'[c].pc = "factuur"
      PROVE  LedgerInv'
  <2> DEFINE d == sync[c].division
             f == sync[c].factuur
             e == Entry(c)
  <2>1. /\ d \in Division /\ DivisionOf[BedrijfOf[f]] = d
        /\ ~Ledger!EnteredBy(c, f)
    BY <1>2, AddedEntry
  <2>2. e.factuur = f /\ e.client = c BY DEF Entry
  <2> HIDE DEF d, f, e
  <2>3. \A x \in Division : \A i \in DOMAIN entries'[x] :
          \/ i \in DOMAIN entries[x] /\ entries'[x][i] = entries[x][i]
          \/ /\ x = d /\ i = Len(entries[d]) + 1
             /\ i \notin DOMAIN entries[d]
             /\ entries'[x][i] = e
    BY <1>2, <2>1, AfterAppend DEF ScopeInv, d, e
  <2>4. \A x \in Division : \A i \in DOMAIN entries[x] :
          ~(entries[x][i].factuur = f /\ entries[x][i].client = c)
    BY <2>1 DEF Ledger!EnteredBy
  <2>5. Placed' BY <2>1, <2>2, <2>3 DEF LedgerInv, Placed
  <2>6. Fresh'
    <3> SUFFICES ASSUME NEW o \in Client, sync'[o].pc \in FactuurPC,
                        NEW x \in Division, NEW i \in DOMAIN entries'[x],
                        entries'[x][i].factuur = sync'[o].factuur,
                        entries'[x][i].client = o
                 PROVE  FALSE
      BY DEF Fresh, Ledger!EnteredBy
    <3>1. o # c BY <1>2 DEF FactuurPC
    <3>2. ~Ledger!EnteredBy(o, sync[o].factuur) /\ sync'[o] = sync[o]
      BY <1>0, <3>1 DEF LedgerInv, Fresh
    <3> QED BY <2>2, <2>3, <3>1, <3>2 DEF Ledger!EnteredBy
  <2>7. AtMostOncePerClient'
    <3> SUFFICES ASSUME NEW x \in Division, NEW y \in Division,
                        NEW i \in DOMAIN entries'[x],
                        NEW j \in DOMAIN entries'[y],
                        <<x, i>> # <<y, j>>,
                        entries'[x][i].factuur = entries'[y][j].factuur,
                        entries'[x][i].client = entries'[y][j].client
                 PROVE  FALSE
      BY DEF AtMostOncePerClient
    <3>1. CASE /\ i \in DOMAIN entries[x] /\ entries'[x][i] = entries[x][i]
               /\ j \in DOMAIN entries[y] /\ entries'[y][j] = entries[y][j]
      BY <3>1 DEF LedgerInv, AtMostOncePerClient
    <3> QED BY <2>2, <2>3, <2>4, <3>1
  <2> QED BY <2>5, <2>6, <2>7 DEF LedgerInv
<1> QED BY <1>1, <1>2, EntriesUnchanged

LEMMA LedgerInvNext == ScopeInv /\ LedgerInv /\ [Next]_vars => LedgerInv'
<1> SUFFICES ASSUME ScopeInv, LedgerInv, [Next]_vars PROVE LedgerInv'
  OBVIOUS
<1>1. ASSUME NEW c \in Client, SyncRecras(c) \/ Step(c) PROVE LedgerInv'
  BY <1>1, LedgerInvStep
<1>2. CASE Crash
  <2>1. \A o \in Client : sync'[o].pc = "idle" BY <1>2 DEF Crash, Idle
  <2>2. entries' = entries BY <1>2 DEF Crash, exactVars
  <2> QED BY <2>1, <2>2, LedgerInvSame DEF FactuurPC
<1>3. CASE UNCHANGED <<sync, entries>>
  BY <1>3, LedgerInvSame DEF LedgerInv, Fresh
<1>4. ASSUME NEW f \in Factuur, Send(f) PROVE UNCHANGED <<sync, entries>>
  BY <1>4 DEF Send, exactVars
<1>5. ASSUME ExactEnv, UNCHANGED <<sent, sync>>
      PROVE  UNCHANGED <<sync, entries>>
  BY <1>5 DEF ExactEnv, AddPaymentCondition, AddVATCode, SetGLRevenue, Recover
<1>6. ASSUME UNCHANGED vars PROVE UNCHANGED <<sync, entries>>
  BY <1>6 DEF vars, exactVars
<1> QED BY <1>1, <1>2, <1>3, <1>4, <1>5, <1>6 DEF Next, Environment

\* A client that is past FindSalesEntry has not entered the invoice yet, and
\* every entry is in the division of its company.
THEOREM LedgerInvariant == Spec => [](ScopeInv /\ LedgerInv)
<1>1. Init => ScopeInv /\ LedgerInv BY ScopeInvInit, LedgerInvInit
<1>2. ScopeInv /\ LedgerInv /\ [Next]_vars => (ScopeInv /\ LedgerInv)'
  BY ScopeInvNext, LedgerInvNext
<1> QED BY <1>1, <1>2, PTL DEF Spec

\* However many runs overlap, fail, are repeated or die, a client enters an
\* invoice at most once.
THEOREM AtMostOnce == Spec => []AtMostOncePerClient
<1>1. LedgerInv => AtMostOncePerClient BY DEF LedgerInv
<1> QED BY <1>1, LedgerInvariant, PTL

-----------------------------------------------------------------------------
(* The synchronisation implements SalesLedger.                             *)

LEMMA EnterStep ==
    ASSUME ScopeInv, LedgerInv, NEW c \in Client, At(c, "save"),
           sync[c].cust # None, sent' = sent,
           AddSalesEntry(sync[c].division, Entry(c))
    PROVE  \E f \in Factuur : Ledger!Enter(c, f)
<1> DEFINE s == sync[c]
           f == s.factuur
           dv == [g \in Factuur |-> DivisionOf[BedrijfOf[g]]]
           lv == [g \in Factuur |-> LinesOfValue(g)]
<1>1. /\ f \in sent /\ f \in Factuur
      /\ s.division \in Division
      /\ DivisionOf[BedrijfOf[f]] = s.division
      /\ s.lines = LinesOfValue(f) /\ s.lines # {}
      /\ s.cust = KlantOf[f]
      /\ s.doc \in Document \cup {None}
      /\ ~Ledger!EnteredBy(c, f)
  BY AddedEntry
<1>2. dv[f] = s.division /\ lv[f] = s.lines /\ dv[f] # None
  BY <1>1, NoneAssumption
<1>3. Entry(c) = [factuur |-> f, customer |-> KlantOf[f], lines |-> lv[f],
                  document |-> s.doc, client |-> c]
  BY <1>1, <1>2 DEF Entry
<1>4. entries' = [entries EXCEPT ![dv[f]] = Append(@, Entry(c))]
  BY <1>2 DEF AddSalesEntry
<1> QED BY <1>1, <1>2, <1>3, <1>4 DEF Ledger!Enter

LEMMA LedgerStep ==
    ScopeInv /\ LedgerInv /\ [Next]_vars => [Ledger!Next]_(Ledger!vars)
<1> SUFFICES ASSUME ScopeInv, LedgerInv, [Next]_vars
             PROVE  Ledger!Next \/ UNCHANGED <<sent, entries>>
  BY DEF Ledger!vars
<1>1. ASSUME NEW c \in Client, SyncRecras(c) \/ Step(c)
      PROVE  Ledger!Next \/ UNCHANGED <<sent, entries>>
  <2>1. sent' = sent BY <1>1, StepStoreType
  <2>2. \/ entries' = entries
        \/ /\ At(c, "save") /\ sync[c].cust # None
           /\ AddSalesEntry(sync[c].division, Entry(c))
    BY <1>1, EntriesUnchanged
  <2> QED BY <2>1, <2>2, EnterStep DEF Ledger!Next
<1>2. ASSUME NEW f \in Factuur, Send(f) PROVE Ledger!Next
  BY <1>2 DEF Send, exactVars, Ledger!Send, Ledger!Next
<1>3. CASE Crash BY <1>3 DEF Crash, exactVars
<1>4. CASE ExactEnv /\ UNCHANGED <<sent, sync>>
  BY <1>4 DEF ExactEnv, AddPaymentCondition, AddVATCode, SetGLRevenue, Recover
<1>5. CASE UNCHANGED vars BY <1>5 DEF vars, exactVars
<1> QED BY <1>1, <1>2, <1>3, <1>4, <1>5 DEF Next, Environment

\* Every behaviour of the synchronisation is one the bookkeeper was promised.
THEOREM ImplementsLedger == Spec => LedgerSpec
<1>1. Init => Ledger!Init BY DEF Init, ExactInit, Ledger!Init
<1> QED
  BY <1>1, LedgerStep, LedgerInvariant, PTL DEF Spec, LedgerSpec, Ledger!Spec

=============================================================================
