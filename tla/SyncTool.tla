------------------------------ MODULE SyncTool -------------------------------
(***************************************************************************)
(* synctool.Sync, as handlers.SyncRecras runs it: copy the sent invoices   *)
(* of one Recras instance to Exact Online.  Each running SyncRecras is a   *)
(* Client with local variables of its own; what the clients share is the   *)
(* store of ExactOnline.  Nothing in the program keeps two of them apart:  *)
(* the daily timer (cmd/koppeling) and GET /sync both just call SyncRecras.*)
(*                                                                         *)
(* Every HTTP request is one step, so the answer of a request may be stale *)
(* by the time a later step acts on it.  The loops over lists from Recras  *)
(* take their elements in any order.                                       *)
(***************************************************************************)
EXTENDS ExactOnline

CONSTANTS
    Timer,              \* the client of runTimedSync; the others serve GET /sync
    Bedrijf,            \* companies in Recras
    DivisionOf,         \* [Bedrijf -> Division \cup {None}], by VAT number
    DefaultDivision,    \* the division Exact Online calls current
    BedrijfOf, KlantOf, \* company and customer of an invoice
    Regels              \* the item lines of an invoice, in the order the
                        \* nested groups are walked; nul: amount below 1e-3

Regel == [product : Product, nul : BOOLEAN, btw : BTW]

ASSUME RecrasAssumption ==
    /\ Timer \in Client
    /\ None \notin Bedrijf
    /\ DivisionOf \in [Bedrijf -> Division \cup {None}]
    /\ DefaultDivision \in Division
    /\ BedrijfOf \in [Factuur -> Bedrijf]
    /\ KlantOf \in [Factuur -> Klant]
    /\ Regels \in [Factuur -> Seq(Regel)]

VARIABLES
    sent,   \* invoices Recras lists as verzonden, deels_betaald or betaald
    sync    \* sync[c]: the local variables of c's SyncRecras

vars == <<sent, sync, exactVars>>

-----------------------------------------------------------------------------
(* Local state.  `pc` names the next request, `division` is ecl.Division,  *)
(* `report` what went down errc, and `due` is history: the invoices that   *)
(* were sent when the run began.                                           *)

PC == {"idle", "me", "bedrijven", "bedrijf", "payment", "vat", "producten",
       "product", "saveitem", "factuur", "regel", "klant",
       "saveklant", "refind", "doctype", "document", "pdf", "save"}

Message == {"run", "bedrijf", "product", "factuur"}
             \X (Bedrijf \cup Product \cup Factuur \cup {None})

Local == [pc : PC, division : Division \cup {None},
          bedrijven : SUBSET Bedrijf, bedrijf : Bedrijf \cup {None},
          btw : SUBSET BTW,
          producten : SUBSET Product, product : Product \cup {None},
          facturen : SUBSET Factuur, factuur : Factuur \cup {None},
          regel : Nat, lines : SUBSET Nat,
          cust : Klant \cup {None}, doc : Document \cup {None},
          report : SUBSET Message, due : SUBSET Factuur]

Idle == [pc |-> "idle", division |-> None,
         bedrijven |-> {}, bedrijf |-> None, btw |-> {},
         producten |-> {}, product |-> None,
         facturen |-> {}, factuur |-> None,
         regel |-> 0, lines |-> {}, cust |-> None, doc |-> None,
         report |-> {}, due |-> {}]

At(c, label) == sync[c].pc = label

Become(c, s) == sync' = [sync EXCEPT ![c] = s]

Reported(s, kind, x) == [s EXCEPT !.report = @ \cup {<<kind, x>>}]

\* Mutants (see PROJECT.json): the same company over and over again, and an
\* invoice that inherits the document of the one before it.
NextBedrijfSame(s) ==
    [s EXCEPT !.pc = "bedrijf", !.bedrijf = None, !.btw = {},
              !.producten = {}, !.facturen = {}]

NextFactuurKeepsDocument(s) ==
    [s EXCEPT !.pc = "factuur", !.facturen = @ \ {s.factuur},
              !.factuur = None, !.regel = 0, !.lines = {}, !.cust = None]

\* On to the next iteration of a loop; its variables go out of scope.
NextBedrijf(s) ==
    [s EXCEPT !.pc = "bedrijf", !.bedrijven = @ \ {s.bedrijf},
              !.bedrijf = None, !.btw = {}, !.producten = {}, !.facturen = {}]

NextProduct(s) ==
    [s EXCEPT !.pc = "product", !.producten = @ \ {s.product},
              !.product = None]

NextFactuur(s) ==
    [s EXCEPT !.pc = "factuur", !.facturen = @ \ {s.factuur},
              !.factuur = None, !.regel = 0, !.lines = {},
              !.cust = None, !.doc = None]

\* Mutants: the first error ends the loop over companies, or over invoices.
FailBedrijfReturns(s) ==
    [NextBedrijf(Reported(s, "bedrijf", s.bedrijf)) EXCEPT !.bedrijven = {}]

FailFactuurReturns(s) ==
    [NextFactuur(Reported(s, "factuur", s.factuur)) EXCEPT !.facturen = {}]

\* An error returned by syncBedrijf, syncProduct, syncFactuur goes to errc.
FailBedrijf(s) == NextBedrijf(Reported(s, "bedrijf", s.bedrijf))
FailProduct(s) == NextProduct(Reported(s, "product", s.product))
FailFactuur(s) == NextFactuur(Reported(s, "factuur", s.factuur))

Klantvan(s) == KlantOf[s.factuur]

-----------------------------------------------------------------------------
(* handlers.SyncRecras and synctool.Sync.                                  *)

SyncRecras(c) ==
    /\ At(c, "idle")
    /\ Become(c, [Idle EXCEPT !.pc = "me", !.due = sent])
    /\ UNCHANGED <<sent, exactVars>>

\* A failure is only logged: the run goes on without a division.
GetDefaultDivision(c) ==
    /\ At(c, "me")
    /\ \E d \in {DefaultDivision} \cup (IF healthy THEN {} ELSE {None}) :
         Become(c, [sync[c] EXCEPT !.pc = "bedrijven", !.division = d])
    /\ UNCHANGED <<sent, exactVars>>

\* Sync reports an error but still walks the list it got, which is empty,
\* or complete when only the decoding of a field went wrong.
GetBedrijven(c) ==
    /\ At(c, "bedrijven")
    /\ LET s == [sync[c] EXCEPT !.pc = "bedrijf"]
       IN  \/ Become(c, [s EXCEPT !.bedrijven = Bedrijf])
           \/ /\ ~healthy
              /\ \E bs \in {{}, Bedrijf} :
                   Become(c, [Reported(s, "run", None) EXCEPT !.bedrijven = bs])
    /\ UNCHANGED <<sent, exactVars>>

\* The lookups of SetDivisionByVATNumber only read data that does not change.
SetDivision(c, b) ==
    /\ At(c, "bedrijf")
    /\ b \in sync[c].bedrijven
    /\ LET s == [sync[c] EXCEPT !.bedrijf = b]
       IN  \/ /\ s.division # None
              /\ DivisionOf[b] # None
              /\ Become(c, [s EXCEPT !.pc = "payment",
                                     !.division = DivisionOf[b]])
           \/ /\ s.division = None \/ DivisionOf[b] = None \/ ~healthy
              /\ Become(c, FailBedrijf(s))
    /\ UNCHANGED <<sent, exactVars>>

\* All companies done: the report is delivered and the token stored.
Finish(c) ==
    /\ At(c, "bedrijf")
    /\ sync[c].bedrijven = {}
    /\ Become(c, Idle)
    /\ UNCHANGED <<sent, exactVars>>

-----------------------------------------------------------------------------
(* syncBedrijf: payment condition, VAT codes, products, then invoices.     *)

FindPaymentCondition(c) ==
    /\ At(c, "payment")
    /\ LET s == sync[c]
       IN  \E r \in PaymentConditionReplies(s.division) :
             Become(c, IF r = "found" THEN [s EXCEPT !.pc = "vat"]
                                      ELSE FailBedrijf(s))
    /\ UNCHANGED <<sent, exactVars>>

GetRecrasVATCodes(c) ==
    /\ At(c, "vat")
    /\ LET s == sync[c]
       IN  \/ /\ s.division # None
              /\ Become(c, [s EXCEPT !.pc = "producten",
                                     !.btw = setup[s.division].btw])
           \/ /\ s.division = None \/ ~healthy
              /\ Become(c, FailBedrijf(s))
    /\ UNCHANGED <<sent, exactVars>>

GetAllProducten(c) ==
    /\ At(c, "producten")
    /\ LET s == sync[c]
       IN  \/ Become(c, [s EXCEPT !.pc = "product", !.producten = Product])
           \/ ~healthy /\ Become(c, FailBedrijf(s))
    /\ UNCHANGED <<sent, exactVars>>

\* Mutant: every error of the lookup counts as ErrItemNotFound.
SyncProductAnyError(c, p) ==
    /\ At(c, "product")
    /\ p \in sync[c].producten
    /\ LET s == [sync[c] EXCEPT !.product = p]
       IN  \E r \in ItemReplies(s.division, p) :
             Become(c, IF r \in GL THEN NextProduct(s)
                                   ELSE [s EXCEPT !.pc = "saveitem"])
    /\ UNCHANGED <<sent, exactVars>>

SyncProduct(c, p) ==
    /\ At(c, "product")
    /\ p \in sync[c].producten
    /\ LET s == [sync[c] EXCEPT !.product = p]
       IN  \E r \in ItemReplies(s.division, p) :
             Become(c, CASE r \in GL -> NextProduct(s)
                         [] r = "notfound" -> [s EXCEPT !.pc = "saveitem"]
                         [] r = "error" -> FailProduct(s))
    /\ UNCHANGED <<sent, exactVars>>

SaveItem(c) ==
    /\ At(c, "saveitem")
    /\ LET s == sync[c]
       IN  \E r \in PostReplies(s.division) :
             /\ IF r \in Stored THEN AddItem(s.division, s.product)
                                ELSE UNCHANGED items
             /\ Become(c, IF r = "created" THEN NextProduct(s)
                                           ELSE FailProduct(s))
    /\ UNCHANGED <<sent, accounts, documents, entries, setup, healthy>>

\* The invoices Recras lists for this company when it is asked.
GetFacturen(c) ==
    /\ At(c, "product")
    /\ sync[c].producten = {}
    /\ LET s == sync[c]
       IN  \/ Become(c, [s EXCEPT !.pc = "factuur",
                                  !.facturen = {f \in sent :
                                                  BedrijfOf[f] = s.bedrijf}])
           \/ ~healthy /\ Become(c, FailBedrijf(s))
    /\ UNCHANGED <<sent, exactVars>>

FinishBedrijf(c) ==
    /\ At(c, "factuur")
    /\ sync[c].facturen = {}
    /\ Become(c, NextBedrijf(sync[c]))
    /\ UNCHANGED <<sent, exactVars>>

-----------------------------------------------------------------------------
(* syncFactuur: skip what is there already, else convert the lines, find   *)
(* or make the account, upload the PDF and save the sales entry.           *)

\* Mutant: every error of the lookup counts as ErrSalesEntryNotFound.
FindSalesEntryAnyError(c, f) ==
    /\ At(c, "factuur")
    /\ f \in sync[c].facturen
    /\ LET s == [sync[c] EXCEPT !.factuur = f]
       IN  \E r \in SalesEntryReplies(s.division, f) :
             Become(c, IF r = "found" THEN NextFactuur(s)
                       ELSE [s EXCEPT !.pc = "regel", !.regel = 1])
    /\ UNCHANGED <<sent, exactVars>>

FindSalesEntry(c, f) ==
    /\ At(c, "factuur")
    /\ f \in sync[c].facturen
    /\ LET s == [sync[c] EXCEPT !.factuur = f]
       IN  \E r \in SalesEntryReplies(s.division, f) :
             Become(c, CASE r = "found" -> NextFactuur(s)
                         [] r = "notfound" ->
                              [s EXCEPT !.pc = "regel", !.regel = 1]
                         [] r = "error" -> FailFactuur(s))
    /\ UNCHANGED <<sent, exactVars>>

\* The item is looked up before the amount is looked at, so a line without
\* value still fails when its product is missing.
BadLine(s, line, reply) ==
    \/ reply \in {"notfound", "error"}
    \/ ~line.nul /\ (reply = "bare" \/ line.btw \notin s.btw)

\* Mutant: a line that cannot be converted is left out of the entry.
ConvertRegelContinues(c) ==
    /\ At(c, "regel")
    /\ sync[c].regel <= Len(Regels[sync[c].factuur])
    /\ LET s    == sync[c]
           line == Regels[s.factuur][s.regel]
           next == [s EXCEPT !.regel = @ + 1]
       IN  \E r \in ItemReplies(s.division, line.product) :
             Become(c, IF BadLine(s, line, r) \/ line.nul THEN next
                       ELSE [next EXCEPT !.lines = @ \cup {s.regel}])
    /\ UNCHANGED <<sent, exactVars>>

ConvertRegel(c) ==
    /\ At(c, "regel")
    /\ sync[c].regel <= Len(Regels[sync[c].factuur])
    /\ LET s    == sync[c]
           line == Regels[s.factuur][s.regel]
           next == [s EXCEPT !.regel = @ + 1]
       IN  \E r \in ItemReplies(s.division, line.product) :
             Become(c, IF BadLine(s, line, r) THEN FailFactuur(s)
                       ELSE IF line.nul THEN next
                       ELSE [next EXCEPT !.lines = @ \cup {s.regel}])
    /\ UNCHANGED <<sent, exactVars>>

LinesConverted(c) ==
    At(c, "regel") /\ sync[c].regel > Len(Regels[sync[c].factuur])

SkipWithoutLines(c) ==
    /\ LinesConverted(c)
    /\ sync[c].lines = {}
    /\ Become(c, FailFactuur(sync[c]))
    /\ UNCHANGED <<sent, exactVars>>

FindAccount(c) ==
    /\ LinesConverted(c)
    /\ sync[c].lines # {}
    /\ LET s == sync[c]
       IN  \E r \in AccountReplies(s.division, Klantvan(s)) :
             Become(c, CASE r = "found" ->
                              [s EXCEPT !.pc = "doctype", !.cust = Klantvan(s)]
                         [] r = "notfound" -> [s EXCEPT !.pc = "klant"]
                         [] r = "error" -> FailFactuur(s))
    /\ UNCHANGED <<sent, exactVars>>

\* syncKlant asks again, and takes an error for an answer.
SyncKlant(c) ==
    /\ At(c, "klant")
    /\ LET s == sync[c]
       IN  \E r \in AccountReplies(s.division, Klantvan(s)) :
             Become(c, [s EXCEPT !.pc = IF r = "notfound" THEN "saveklant"
                                                          ELSE "refind"])
    /\ UNCHANGED <<sent, exactVars>>

SaveAccount(c) ==
    /\ At(c, "saveklant")
    /\ LET s == sync[c]
       IN  \E r \in AccountPostReplies(s.division) :
             /\ IF r \in Stored THEN AddAccount(s.division, Klantvan(s))
                                ELSE UNCHANGED accounts
             /\ Become(c, IF r \in {"created", "refused"}
                          THEN [s EXCEPT !.pc = "refind"]
                          ELSE FailFactuur(s))
    /\ UNCHANGED <<sent, items, documents, entries, setup, healthy>>

\* Mutant: syncKlant again and again, until the account is found.
RefindAccountRetries(c) ==
    /\ At(c, "refind")
    /\ LET s == sync[c]
       IN  \E r \in AccountReplies(s.division, Klantvan(s)) :
             Become(c, IF r = "found"
                       THEN [s EXCEPT !.pc = "doctype", !.cust = Klantvan(s)]
                       ELSE [s EXCEPT !.pc = "klant"])
    /\ UNCHANGED <<sent, exactVars>>

\* cust, _ = FindAccountByRecrasID(...): without an account, go on with none.
RefindAccount(c) ==
    /\ At(c, "refind")
    /\ LET s == sync[c]
       IN  \E r \in AccountReplies(s.division, Klantvan(s)) :
             Become(c, [s EXCEPT !.pc = "doctype",
                                 !.cust = IF r = "found" THEN Klantvan(s)
                                                         ELSE None])
    /\ UNCHANGED <<sent, exactVars>>

-----------------------------------------------------------------------------
(* uploadFactuurPDF, whose errors are only logged, and SalesEntry.Save.    *)

FindDocumentType(c) ==
    /\ At(c, "doctype")
    /\ LET s == sync[c]
       IN  \E r \in DocumentTypeReplies(s.division) :
             Become(c, [s EXCEPT !.pc = IF r = "found" THEN "document"
                                                       ELSE "save"])
    /\ UNCHANGED <<sent, exactVars>>

SaveDocument(c) ==
    /\ At(c, "document")
    /\ LET s == sync[c]
       IN  \E r \in IF s.cust = None THEN {"error"}
                                     ELSE PostReplies(s.division) :
             /\ IF r \in Stored
                THEN AddDocument(s.division, <<s.factuur, s.cust>>)
                ELSE UNCHANGED documents
             /\ Become(c, [s EXCEPT !.pc = IF r = "created" THEN "pdf"
                                                            ELSE "save"])
    /\ UNCHANGED <<sent, accounts, items, entries, setup, healthy>>

\* The PDF from Recras; the error of DocumentAttachment.Save is dropped, so
\* it makes no difference to the sales entry whether the file is attached.
AttachPDF(c) ==
    /\ At(c, "pdf")
    /\ LET s == [sync[c] EXCEPT !.pc = "save"]
       IN  \/ Become(c, [s EXCEPT !.doc = <<s.factuur, s.cust>>])
           \/ ~healthy /\ Become(c, s)
    /\ UNCHANGED <<sent, exactVars>>

Entry(c) ==
    LET s == sync[c]
    IN  [factuur |-> s.factuur, customer |-> s.cust, lines |-> s.lines,
         document |-> s.doc, client |-> c]

\* Mutant: Save does not insist on a Customer.
SaveRepliesAnyCustomer(s) ==
    IF s.lines = {} THEN {"error"} ELSE PostReplies(s.division)

\* Lines and Customer are mandatory: without them nothing is sent.
SaveReplies(s) ==
    IF s.lines = {} \/ s.cust = None THEN {"error"} ELSE PostReplies(s.division)

SaveSalesEntry(c) ==
    /\ At(c, "save")
    /\ LET s == sync[c]
       IN  \E r \in SaveReplies(s) :
             /\ IF r \in Stored THEN AddSalesEntry(s.division, Entry(c))
                                ELSE UNCHANGED entries
             /\ Become(c, IF r = "created" THEN NextFactuur(s)
                                           ELSE FailFactuur(s))
    /\ UNCHANGED <<sent, accounts, items, documents, setup, healthy>>

-----------------------------------------------------------------------------
(* The rest of the world.                                                  *)

\* An invoice gets status verzonden in Recras.
Send(f) ==
    /\ f \notin sent
    /\ sent' = sent \cup {f}
    /\ UNCHANGED <<sync, exactVars>>

\* The process dies, and every run in it: one panic is enough.
Crash ==
    /\ ~healthy
    /\ \E c \in Client : ~At(c, "idle")
    /\ sync' = [c \in Client |-> Idle]
    /\ UNCHANGED <<sent, exactVars>>

Environment ==
    \/ \E f \in Factuur : Send(f)
    \/ Crash
    \/ ExactEnv /\ UNCHANGED <<sent, sync>>

-----------------------------------------------------------------------------
Init ==
    /\ ExactInit
    /\ sent = {}
    /\ sync = [c \in Client |-> Idle]

\* What a run does once it has started.
Step(c) ==
    \/ GetDefaultDivision(c) \/ GetBedrijven(c)
    \/ \E b \in Bedrijf : SetDivision(c, b)
    \/ FindPaymentCondition(c) \/ GetRecrasVATCodes(c) \/ GetAllProducten(c)
    \/ \E p \in Product : SyncProduct(c, p)
    \/ SaveItem(c) \/ GetFacturen(c) \/ FinishBedrijf(c) \/ Finish(c)
    \/ \E f \in Factuur : FindSalesEntry(c, f)
    \/ ConvertRegel(c) \/ SkipWithoutLines(c)
    \/ FindAccount(c) \/ SyncKlant(c) \/ SaveAccount(c) \/ RefindAccount(c)
    \/ FindDocumentType(c) \/ SaveDocument(c) \/ AttachPDF(c)
    \/ SaveSalesEntry(c)

Next ==
    \/ \E c \in Client : SyncRecras(c) \/ Step(c)
    \/ Environment

Spec == Init /\ [][Next]_vars

\* A request that never returns hangs its run (no client has a timeout), so
\* progress is only assumed once no request fails any more.  The timer comes
\* back every day; nobody has to ask for GET /sync.
Fairness ==
    /\ \A c \in Client : WF_vars(healthy /\ Step(c))
    /\ WF_vars(healthy /\ SyncRecras(Timer))

FairSpec == Spec /\ Fairness

-----------------------------------------------------------------------------
(* Properties.                                                             *)

\* Every variable of the store and of a run has its type.
TypeOK ==
    /\ ExactTypeOK
    /\ sent \subseteq Factuur
    /\ sync \in [Client -> Local]

\* The sales entries are a ledger that keeps the promises of SalesLedger:
\* whatever fails, synctool.go:146-207 only ever adds an entry that is
\* complete, for the right customer and in the right division.
LinesOfValue(f) == {i \in DOMAIN Regels[f] : ~Regels[f][i].nul}

Ledger == INSTANCE SalesLedger WITH
            DivisionFor <- [f \in Factuur |-> DivisionOf[BedrijfOf[f]]],
            LinesOf     <- [f \in Factuur |-> LinesOfValue(f)],
            Documents   <- Document \cup {None}

LedgerSpec == Ledger!Spec

Booked(f) ==
    LET d == DivisionOf[BedrijfOf[f]]
    IN  d # None /\ \E i \in DOMAIN entries[d] : entries[d][i].factuur = f

\* syncFactuur asks before it books (salesentries.go:84, synctool.go:147), and
\* a run, however often it fails, is repeated or dies, never books an invoice
\* that its own client booked before: two entries of an invoice are always
\* the work of two clients whose runs overlapped.
AtMostOncePerClient ==
    \A d, e \in Division :
      \A i \in DOMAIN entries[d], j \in DOMAIN entries[e] :
        /\ <<d, i>> # <<e, j>>
        /\ entries[d][i].factuur = entries[e][j].factuur
        => entries[d][i].client # entries[e][j].client

\* When a run is over, every invoice that was sent before it began is in the
\* books of its company, or its report (errc) says that the invoice, its
\* company or the whole run went wrong.
Accounted(s, f) ==
    \/ Booked(f)
    \/ <<"factuur", f>> \in s.report
    \/ <<"bedrijf", BedrijfOf[f]>> \in s.report
    \/ <<"run", None>> \in s.report

NoSilentLoss ==
    \A c \in Client :
      At(c, "bedrijf") /\ sync[c].bedrijven = {}
        => \A f \in sync[c].due : Accounted(sync[c], f)

\* What a sales entry refers to is in the same division: the account of its
\* customer, and the document that was uploaded for this very invoice.
EntriesResolve ==
    \A d \in Division : \A i \in DOMAIN entries[d] :
      LET e == entries[d][i]
      IN  /\ accounts[d][e.customer] > 0
          /\ e.document # None =>
               /\ e.document \in documents[d]
               /\ e.document = <<e.factuur, e.customer>>

\* Accounts and items are made once: after any number of runs, faults and
\* crashes there are no more of them than clients that can race to be first.
NoNeedlessMasterData ==
    \A d \in Division :
      /\ \A k \in Klant : accounts[d][k] <= Cardinality(Client)
      /\ \A p \in Product :
           items[d][p]["ready"] + items[d][p]["bare"] <= Cardinality(Client)

\* An invoice that syncFactuur skips because "SalesEntry exists"
\* (synctool.go:148-149) has a sales entry.
SkippedIsBooked ==
    [][\A c \in Client, f \in Factuur :
         FindSalesEntry(c, f) /\ At(c, "factuur")'
             /\ sync'[c].report = sync[c].report
           => Booked(f)]_vars

\* A run that has started comes to its end once requests do not fail.
RunsEnd ==
    \A c \in Client : <>healthy => []<>At(c, "idle")

\* What a run has still to go through: companies, products and invoices (all
\* of them as long as their list is not there yet), then the requests and
\* the lines of what it is at.
Place == [me |-> 1, bedrijven |-> 2, bedrijf |-> 3, payment |-> 4, vat |-> 5,
          producten |-> 6, product |-> 7, saveitem |-> 8, factuur |-> 9,
          regel |-> 10, klant |-> 11, saveklant |-> 12, refind |-> 13,
          doctype |-> 14, document |-> 15, pdf |-> 16, save |-> 17, idle |-> 18]

Upto(s, label) == Place[s.pc] <= Place[label]

BedrijvenLeft(s) == IF Upto(s, "bedrijven") THEN Bedrijf ELSE s.bedrijven
ProductenLeft(s) == IF Upto(s, "producten") THEN Product ELSE s.producten
FacturenLeft(s)  == IF Upto(s, "saveitem") THEN Factuur ELSE s.facturen

FewerRequests(t, s) == Place[s.pc] < Place[t.pc]

FewerRegels(t, s) ==
    /\ t.pc = "regel" /\ s.pc = "regel"
    /\ t.factuur = s.factuur
    /\ s.regel < t.regel /\ t.regel <= Len(Regels[s.factuur]) + 1

Fewer(T, S) == T \subseteq S /\ T # S

\* Less is left at t than at s: the lexicographic order, which is well
\* founded when the lists are finite.
Closer(t, s) ==
    \/ Fewer(BedrijvenLeft(t), BedrijvenLeft(s))
    \/ /\ BedrijvenLeft(t) = BedrijvenLeft(s)
       /\ \/ Fewer(ProductenLeft(t), ProductenLeft(s))
          \/ /\ ProductenLeft(t) = ProductenLeft(s)
             /\ \/ Fewer(FacturenLeft(t), FacturenLeft(s))
                \/ /\ FacturenLeft(t) = FacturenLeft(s)
                   /\ FewerRequests(t, s) \/ FewerRegels(t, s)

\* Whatever it is answered, with or without faults, every request of a run
\* leaves it less to do: no error, retry of a lookup or skipped company or
\* invoice (synctool.go:31-71, 79-122, 146-207) takes it back to work that it
\* has had before, so that no run goes on forever.
RunsProgress ==
    [][\A c \in Client : Step(c) => Closer(sync'[c], sync[c])]_vars

\* Everything an invoice needs is in place and stays there.
Ready(f) ==
    LET d == DivisionOf[BedrijfOf[f]]
    IN  /\ healthy
        /\ f \in sent
        /\ d # None
        /\ setup[d].payment
        /\ LinesOfValue(f) # {}
        /\ \A i \in DOMAIN Regels[f] :
             /\ Regels[f][i].btw \in setup[d].btw
             /\ items[d][Regels[f][i].product]["bare"] = 0

\* One company or invoice that cannot be copied does not keep the others
\* back: an invoice that stays ready is booked.
EventuallyBooked ==
    \A f \in Factuur : <>[]Ready(f) => <>Booked(f)

=============================================================================
