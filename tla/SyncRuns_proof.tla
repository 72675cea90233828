--------------------------- MODULE SyncRuns_proof ----------------------------
(***************************************************************************)
(* More proofs about SyncTool: what a sales entry refers to exists, no run *)
(* loses an invoice in silence, races make few duplicates, and no run goes *)
(* on forever.                                                             *)
(***************************************************************************)
EXTENDS SyncTool_proof, FiniteSetTheorems

-----------------------------------------------------------------------------
(* The program deletes nothing from Exact Online.                          *)

Grown ==
    /\ \A d \in Division, k \in Klant :
         accounts[d][k] > 0 => accounts'[d][k] > 0
    /\ \A d \in Division : documents[d] \subseteq documents'[d]
    /\ \A d \in Division : \A i \in DOMAIN entries[d] :
         i \in DOMAIN entries'[d] /\ entries'[d][i] = entries[d][i]

LEMMA EntriesGrow ==
    ASSUME ExactTypeOK, NEW d \in Division, NEW e \in SalesEntry,
           AddSalesEntry(d, e)
    PROVE  /\ \A x \in Division : \A i \in DOMAIN entries[x] :
                i \in DOMAIN entries'[x] /\ entries'[x][i] = entries[x][i]
           /\ \E i \in DOMAIN entries'[d] : entries'[d][i] = e
<1> DEFINE q == entries[d]
<1>1. q \in Seq(SalesEntry) /\ entries'[d] = Append(q, e)
  BY DEF ExactTypeOK, AddSalesEntry
<1>2. \A x \in Division : x # d => entries'[x] = entries[x]
  BY DEF ExactTypeOK, AddSalesEntry
<1> HIDE DEF q
<1>3. /\ DOMAIN Append(q, e) = 1 .. Len(q) + 1
      /\ DOMAIN q = 1 .. Len(q) /\ Len(q) \in Nat
      /\ \A i \in DOMAIN q : Append(q, e)[i] = q[i]
      /\ Append(q, e)[Len(q) + 1] = e
  BY <1>1
<1>4. \A i \in DOMAIN q : i \in DOMAIN Append(q, e) BY <1>3
<1>5. Len(q) + 1 \in DOMAIN Append(q, e) BY <1>3
<1> QED BY <1>1, <1>2, <1>3, <1>4, <1>5 DEF q

LEMMA AccountsGrow ==
    ASSUME ExactTypeOK, NEW d \in Division, NEW k \in Klant, AddAccount(d, k)
    PROVE  \A x \in Division, y \in Klant :
             accounts[x][y] > 0 => accounts'[x][y] > 0
<1>1. accounts' = [accounts EXCEPT ![d][k] = accounts[d][k] + 1]
  BY DEF AddAccount
<1>2. accounts[d][k] \in Nat BY DEF ExactTypeOK
<1>3. \A x \in Division, y \in Klant :
        accounts'[x][y] = IF x = d /\ y = k THEN accounts[d][k] + 1
                                            ELSE accounts[x][y]
  BY <1>1 DEF ExactTypeOK
<1>4. accounts[d][k] + 1 > 0 BY <1>2
<1> QED BY <1>3, <1>4

\* Which steps of a run write what.
LEMMA StepWrites ==
    ASSUME ScopeInv, NEW c \in Client, SyncRecras(c) \/ Step(c)
    PROVE  LET s == sync[c]
           IN  /\ \/ accounts' = accounts
                  \/ SaveAccount(c) /\ AddAccount(s.division, Klantvan(s))
               /\ \/ items' = items
                  \/ SaveItem(c) /\ AddItem(s.division, s.product)
               /\ \/ documents' = documents
                  \/ /\ SaveDocument(c)
                     /\ AddDocument(s.division, <<s.factuur, s.cust>>)
  BY DEF SyncRecras, Step, GetDefaultDivision, GetBedrijven, SetDivision,
      FindPaymentCondition, GetRecrasVATCodes, GetAllProducten, SyncProduct,
      SaveItem, GetFacturen, FinishBedrijf, Finish, FindSalesEntry,
      ConvertRegel, SkipWithoutLines, FindAccount, SyncKlant, SaveAccount,
      RefindAccount, FindDocumentType, SaveDocument, AttachPDF,
      SaveSalesEntry, exactVars

\* What the variables of a run hold while it is busy with an invoice.
LEMMA InvoiceScope ==
    ASSUME ScopeInv, NEW c \in Client, sync[c].pc \in FactuurPC
    PROVE  LET s == sync[c]
           IN  /\ s.division \in Division /\ s.division # None
               /\ s.bedrijf \in Bedrijf
               /\ s.factuur \in Factuur /\ s.factuur \in s.facturen
               /\ BedrijfOf[s.factuur] = s.bedrijf
               /\ DivisionOf[s.bedrijf] = s.division
               /\ Klantvan(s) \in Klant
  BY NoneAssumption, RecrasAssumption
  DEF ScopeInv, Scope, Local, BedrijfScope, FactuurScope, BedrijfPC, Klantvan

LEMMA StepGrows ==
    ASSUME ScopeInv, NEW c \in Client, SyncRecras(c) \/ Step(c)
    PROVE  Grown
<1> DEFINE s == sync[c]
<1>1. ExactTypeOK BY DEF ScopeInv
<1>2. \A d \in Division, k \in Klant :
        accounts[d][k] > 0 => accounts'[d][k] > 0
  <2>1. CASE accounts' = accounts BY <2>1
  <2>2. CASE SaveAccount(c) /\ AddAccount(s.division, Klantvan(s))
    <3>1. s.pc \in FactuurPC BY <2>2 DEF SaveAccount, At, FactuurPC
    <3>2. s.division \in Division /\ Klantvan(s) \in Klant
      BY <3>1, InvoiceScope
    <3> QED BY <1>1, <2>2, <3>2, AccountsGrow
  <2> QED BY <2>1, <2>2, StepWrites
<1>3. \A d \in Division : documents[d] \subseteq documents'[d]
  <2> DEFINE doc == <<s.factuur, s.cust>>
  <2>1. documents' = documents \/ AddDocument(s.division, doc) BY StepWrites
  <2> HIDE DEF s, doc
  <2>2. documents \in [Division -> SUBSET Document] BY <1>1 DEF ExactTypeOK
  <2>3. ASSUME AddDocument(s.division, doc), NEW d \in Division
        PROVE  documents[d] \subseteq documents'[d]
    BY <2>2, <2>3 DEF AddDocument
  <2> QED BY <2>1, <2>3
<1>4. \A d \in Division : \A i \in DOMAIN entries[d] :
        i \in DOMAIN entries'[d] /\ entries'[d][i] = entries[d][i]
  <2>1. CASE entries' = entries BY <2>1
  <2>2. CASE /\ At(c, "save") /\ s.cust # None
             /\ AddSalesEntry(s.division, Entry(c))
    <3>1. s.division \in Division BY <2>2, InvoiceScope DEF At, FactuurPC
    <3>2. Entry(c) \in SalesEntry BY <2>2, EntryType
    <3> QED BY <1>1, <2>2, <3>1, <3>2, EntriesGrow
  <2> QED BY <2>1, <2>2, EntriesUnchanged
<1> QED BY <1>2, <1>3, <1>4 DEF Grown

-----------------------------------------------------------------------------
(* What a sales entry refers to is there.                                  *)

\* A run knows the customer and the document it is going to refer to.
Resolves(s) ==
    /\ s.cust # None => accounts[s.division][s.cust] > 0
    /\ s.pc = "pdf" => <<s.factuur, s.cust>> \in documents[s.division]
    /\ s.doc # None => s.doc \in documents[s.division]

ResolveInv == EntriesResolve /\ \A c \in Client : Resolves(sync[c])

\* Nothing that was found goes away again.
LEMMA ResolvesStays ==
    ASSUME ScopeInv, Grown, NEW c \in Client, Resolves(sync[c]),
           sync'[c].division = sync[c].division,
           sync'[c].factuur = sync[c].factuur,
           sync'[c].cust = sync[c].cust, sync'[c].doc = sync[c].doc,
           sync'[c].pc = "pdf" => sync[c].pc = "pdf"
    PROVE  Resolves(sync[c])'
<1> DEFINE s == sync[c]
<1>1. s \in Local /\ Scope(s) BY DEF ScopeInv
<1>2. s.cust # None => s.division \in Division /\ s.cust \in Klant
  BY <1>1, InvoiceScope DEF Scope, CustScope, Local
<1>3. s.pc = "pdf" \/ s.doc # None => s.division \in Division
  BY <1>1, InvoiceScope DEF Scope, CustScope, FactuurPC
<1> HIDE DEF s
<1>4. s.cust # None => accounts'[s.division][s.cust] > 0
  BY <1>2 DEF Grown, Resolves, s
<1> QED BY <1>3, <1>4 DEF Grown, Resolves, s

LEMMA InvoiceResolves ==
    ASSUME ScopeInv, NEW c \in Client, InvoiceStep(c), Resolves(sync[c]), Grown,
           sync'[c].pc \in FactuurPC
    PROVE  Resolves(sync[c])'
<1> DEFINE s == sync[c]
           d == s.division
           k == Klantvan(s)
<1>1. s \in Local /\ Scope(s) /\ (\A t : Become(c, t) => sync'[c] = t)
  BY DEF ScopeInv, Become
<1>2. s.pc \in FactuurPC BY InvoiceStays
<1>3. d \in Division /\ d # None /\ k \in Klant BY <1>2, InvoiceScope
<1>4. sync'[c] # FailFactuur(s) BY <1>1, NextPC DEF FactuurPC
<1>5. s.pc # "save" => s.doc = None BY <1>1 DEF Scope, CustScope
<1>6. CASE ConvertRegel(c)
  <2> DEFINE next == [s EXCEPT !.regel = s.regel + 1]
             more == [next EXCEPT !.lines = next.lines \cup {s.regel}]
  <2>1. \/ Become(c, FailFactuur(s)) \/ Become(c, next) \/ Become(c, more)
    BY <1>6 DEF ConvertRegel
  <2>2. /\ next.division = d /\ next.factuur = s.factuur /\ next.pc = s.pc
        /\ next.cust = s.cust /\ next.doc = s.doc
        /\ more.division = d /\ more.factuur = s.factuur /\ more.pc = s.pc
        /\ more.cust = s.cust /\ more.doc = s.doc
    BY <1>1 DEF Local
  <2> HIDE DEF next, more
  <2> QED BY <1>1, <1>4, <2>1, <2>2, ResolvesStays
<1>7. ASSUME sync'[c] = [s EXCEPT !.pc = "doctype", !.cust = k],
             "found" \in AccountReplies(d, k), s.doc = None
      PROVE  Resolves(sync[c])'
  <2>1. accounts[d][k] > 0
    BY <1>3, <1>7 DEF AccountReplies, Found, Faults
  <2>2. accounts'[d][k] > 0 BY <1>3, <2>1 DEF Grown
  <2>3. /\ sync'[c].division = d /\ sync'[c].cust = k
        /\ sync'[c].pc = "doctype" /\ sync'[c].doc = None
    BY <1>1, <1>7 DEF Local
  <2> QED BY <2>2, <2>3 DEF Resolves
<1>8. CASE FindAccount(c)
  <2> DEFINE t == [s EXCEPT !.pc = "doctype", !.cust = k]
             u == [s EXCEPT !.pc = "klant"]
  <2>1. PICK r \in AccountReplies(d, k) :
          Become(c, CASE r = "found" -> t
                      [] r = "notfound" -> u
                      [] r = "error" -> FailFactuur(s))
    BY <1>8 DEF FindAccount
  <2>2. r \in {"found", "notfound", "error"}
    BY <2>1 DEF AccountReplies, Found, Faults
  <2>3. \/ r = "found" /\ sync'[c] = t
        \/ sync'[c] = u
    BY <1>1, <1>4, <2>1, <2>2
  <2>4. s.doc = None
    BY <1>5, <1>8 DEF FindAccount, LinesConverted, At
  <2>5. ASSUME sync'[c] = u PROVE Resolves(sync[c])'
    <3>1. /\ u.division = d /\ u.factuur = s.factuur /\ u.pc # "pdf"
          /\ u.cust = s.cust /\ u.doc = s.doc
      BY <1>1 DEF Local
    <3> HIDE DEF u
    <3> QED BY <2>5, <3>1, ResolvesStays
  <2> QED BY <1>7, <2>1, <2>3, <2>4, <2>5
<1>9. CASE RefindAccount(c)
  <2> DEFINE t == [s EXCEPT !.pc = "doctype", !.cust = k]
             u == [s EXCEPT !.pc = "doctype", !.cust = None]
  <2>1. PICK r \in AccountReplies(d, k) :
          Become(c, IF r = "found" THEN t ELSE u)
    BY <1>9 DEF RefindAccount
  <2>2. \/ r = "found" /\ sync'[c] = t
        \/ sync'[c] = u
    BY <1>1, <2>1
  <2>3. s.doc = None BY <1>5, <1>9 DEF RefindAccount, At
  <2>4. CASE r = "found" /\ sync'[c] = t BY <1>7, <2>1, <2>3, <2>4
  <2>5. CASE sync'[c] = u
    <3>1. u.cust = None /\ u.doc = None /\ u.pc # "pdf"
      BY <1>1, <2>3 DEF Local
    <3> HIDE DEF u
    <3> QED BY <2>5, <3>1 DEF Resolves
  <2> QED BY <2>2, <2>4, <2>5
<1>10. ASSUME NEW label \in PC, sync'[c] = [s EXCEPT !.pc = label],
              label = "pdf" => <<s.factuur, s.cust>> \in documents'[d]
       PROVE  Resolves(sync[c])'
  <2>1. /\ sync'[c].division = d /\ sync'[c].factuur = s.factuur
        /\ sync'[c].cust = s.cust /\ sync'[c].doc = s.doc
        /\ sync'[c].pc = label
    BY <1>1, <1>10 DEF Local
  <2>2. CASE label # "pdf" BY <2>1, <2>2, ResolvesStays
  <2>3. CASE label = "pdf"
    <3>1. s.cust # None => s.cust \in Klant BY <1>1 DEF Local
    <3>2. s.cust # None => accounts'[d][s.cust] > 0
      BY <1>3, <3>1 DEF Grown, Resolves
    <3>3. s.doc # None => s.doc \in documents'[d]
      BY <1>3 DEF Grown, Resolves
    <3> QED BY <1>10, <2>1, <2>3, <3>2, <3>3 DEF Resolves
  <2> QED BY <2>2, <2>3
<1>11. CASE SyncKlant(c)
  BY <1>1, <1>10, <1>11 DEF SyncKlant, PC
<1>12. CASE SaveAccount(c)
  BY <1>1, <1>4, <1>10, <1>12 DEF SaveAccount, PC
<1>13. CASE FindDocumentType(c)
  BY <1>1, <1>10, <1>13 DEF FindDocumentType, PC
<1>14. CASE SaveDocument(c)
  <2> DEFINE doc == <<s.factuur, s.cust>>
  <2>1. \/ sync'[c] = [s EXCEPT !.pc = "save"]
        \/ sync'[c] = [s EXCEPT !.pc = "pdf"] /\ AddDocument(d, doc)
    BY <1>1, <1>14 DEF SaveDocument, Stored
  <2>2. AddDocument(d, doc) => doc \in documents'[d]
    BY <1>3 DEF AddDocument, ScopeInv, ExactTypeOK
  <2> QED BY <1>10, <2>1, <2>2 DEF PC
<1>15. CASE AttachPDF(c)
  <2> DEFINE t == [s EXCEPT !.pc = "save"]
             u == [t EXCEPT !.doc = <<s.factuur, s.cust>>]
  <2>1. sync'[c] = u \/ sync'[c] = t BY <1>1, <1>15 DEF AttachPDF, Local
  <2>2. ASSUME sync'[c] = u PROVE Resolves(sync[c])'
    <3>1. s.pc = "pdf" BY <1>15 DEF AttachPDF, At
    <3>2. <<s.factuur, s.cust>> \in documents'[d]
      BY <1>3, <3>1 DEF Resolves, Grown
    <3>3. s.cust # None => s.cust \in Klant BY <1>1 DEF Local
    <3>4. s.cust # None => accounts'[d][s.cust] > 0
      BY <1>3, <3>3 DEF Grown, Resolves
    <3>5. /\ u.division = d /\ u.cust = s.cust /\ u.pc = "save"
          /\ u.doc = <<s.factuur, s.cust>>
      BY <1>1 DEF Local
    <3> QED BY <2>2, <3>2, <3>4, <3>5 DEF Resolves
  <2> QED BY <1>10, <2>1, <2>2 DEF PC
<1> QED
  BY <1>6, <1>8, <1>9, <1>11, <1>12, <1>13, <1>14, <1>15 DEF InvoiceStep

LEMMA StepResolves ==
    ASSUME ScopeInv, ScopeInv', NEW c \in Client, SyncRecras(c) \/ Step(c),
           Resolves(sync[c])
    PROVE  Resolves(sync[c])'
<1> DEFINE t == sync'[c]
<1>1. Grown BY StepGrows
<1>2. CASE t.pc \notin FactuurPC
  <2>1. CustScope(sync[c])' BY DEF ScopeInv, Scope
  <2>2. t.cust = None /\ t.doc = None /\ t.pc # "pdf"
    BY <1>2, <2>1 DEF CustScope, FactuurPC
  <2> QED BY <2>2 DEF Resolves
<1>3. CASE t.pc \in FactuurPC /\ InvoiceStep(c)
  BY <1>1, <1>3, InvoiceResolves
<1>4. ASSUME NEW f \in Factuur, FindSalesEntry(c, f), t.pc \in FactuurPC
      PROVE  Resolves(sync[c])'
  <2> DEFINE u == [sync[c] EXCEPT !.factuur = f]
             v == [sync[c] EXCEPT !.factuur = f, !.pc = "regel", !.regel = 1]
  <2>1. sync[c] \in Local /\ sync[c].cust = None /\ sync[c].doc = None
    BY <1>4 DEF FindSalesEntry, At, ScopeInv, Scope, CustScope, FactuurPC
  <2>2. u \in Local BY <2>1, <1>4 DEF Local
  <2>3. t = NextFactuur(u) \/ t = FailFactuur(u) \/ t = v
    BY <1>4, FindSalesEntryCases
  <2>4. t = v BY <1>4, <2>2, <2>3, NextPC DEF FactuurPC
  <2>5. v.cust = None /\ v.doc = None /\ v.pc = "regel" BY <2>1 DEF Local
  <2> HIDE DEF v
  <2> QED BY <2>4, <2>5 DEF Resolves
<1> QED BY <1>2, <1>3, <1>4, IntoFactuur

\* A new entry refers to what its run knows, the others to what is still there.
LEMMA EntriesResolveStep ==
    ASSUME ScopeInv, NEW c \in Client, SyncRecras(c) \/ Step(c),
           EntriesResolve, Resolves(sync[c])
    PROVE  EntriesResolve'
<1> DEFINE s == sync[c]
<1>1. Grown /\ ExactTypeOK BY StepGrows DEF ScopeInv
<1>2. ASSUME NEW x \in Division, NEW i \in DOMAIN entries[x]
      PROVE  LET e == entries[x][i]
             IN  /\ accounts'[x][e.customer] > 0
                 /\ e.document # None =>
                      /\ e.document \in documents'[x]
                      /\ e.document = <<e.factuur, e.customer>>
  <2>1. entries[x] \in Seq(SalesEntry) BY <1>1 DEF ExactTypeOK
  <2>2. entries[x][i] \in SalesEntry BY <2>1
  <2>3. entries[x][i].customer \in Klant BY <2>2 DEF SalesEntry
  <2> QED BY <1>1, <2>3 DEF EntriesResolve, Grown
<1>3. CASE entries' = entries BY <1>2, <1>3 DEF EntriesResolve
<1>4. CASE /\ At(c, "save") /\ s.cust # None
           /\ AddSalesEntry(s.division, Entry(c))
  <2> DEFINE d == s.division
             e == Entry(c)
  <2>1. d \in Division BY <1>4, InvoiceScope DEF At, FactuurPC
  <2>2. /\ e.customer = s.cust /\ e.document = s.doc
        /\ e.factuur = s.factuur
    BY DEF Entry
  <2>3. s.cust \in Klant /\ CustScope(s)
    BY <1>4 DEF ScopeInv, Scope, Local
  <2>4. accounts'[d][s.cust] > 0
    BY <1>1, <1>4, <2>1, <2>3 DEF Resolves, Grown
  <2>5. s.doc # None => /\ s.doc \in documents'[d]
                        /\ s.doc = <<s.factuur, s.cust>>
    BY <1>1, <2>1, <2>3 DEF Resolves, Grown, CustScope
  <2> HIDE DEF d, e
  <2>6. \A x \in Division : \A i \in DOMAIN entries'[x] :
          \/ i \in DOMAIN entries[x] /\ entries'[x][i] = entries[x][i]
          \/ x = d /\ entries'[x][i] = e
    BY <1>1, <1>4, <2>1, AfterAppend DEF d, e
  <2> SUFFICES ASSUME NEW x \in Division, NEW i \in DOMAIN entries'[x]
               PROVE  LET g == entries'[x][i]
                      IN  /\ accounts'[x][g.customer] > 0
                          /\ g.document # None =>
                               /\ g.document \in documents'[x]
                               /\ g.document = <<g.factuur, g.customer>>
    BY DEF EntriesResolve
  <2>7. CASE i \in DOMAIN entries[x] /\ entries'[x][i] = entries[x][i]
    BY <1>2, <2>7
  <2>8. CASE x = d /\ entries'[x][i] = e
    <3> HIDE DEF s
    <3> QED BY <2>2, <2>4, <2>5, <2>8
  <2> QED BY <2>6, <2>7, <2>8
<1> QED BY <1>3, <1>4, EntriesUnchanged

LEMMA ResolveInvInit == Init => ResolveInv
<1>1. Idle.cust = None /\ Idle.doc = None /\ Idle.pc # "pdf" BY DEF Idle
<1> QED
  BY <1>1 DEF Init, ExactInit, ResolveInv, EntriesResolve, Resolves

LEMMA ResolveInvNext ==
    ScopeInv /\ ScopeInv' /\ ResolveInv /\ [Next]_vars => ResolveInv'
<1> SUFFICES ASSUME ScopeInv, ScopeInv', ResolveInv, [Next]_vars
             PROVE  ResolveInv'
  OBVIOUS
<1>1. ASSUME NEW c \in Client, SyncRecras(c) \/ Step(c) PROVE ResolveInv'
  <2>1. EntriesResolve' BY <1>1, EntriesResolveStep DEF ResolveInv
  <2>2. Resolves(sync[c])' BY <1>1, StepResolves DEF ResolveInv
  <2>3. ASSUME NEW o \in Client, o # c PROVE Resolves(sync[o])'
    <3>1. sync'[o] = sync[o]
      <4>1. PICK t : Become(c, t) BY <1>1, StepScope
      <4> QED BY <2>3, <4>1 DEF Become, ScopeInv
    <3>2. Grown BY <1>1, StepGrows
    <3> QED BY <3>1, <3>2, ResolvesStays DEF ResolveInv
  <2> QED BY <2>1, <2>2, <2>3 DEF ResolveInv
<1>2. CASE Crash
  <2>1. /\ Idle.cust = None /\ Idle.doc = None /\ Idle.pc # "pdf"
        /\ \A o \in Client : sync'[o] = Idle
    BY <1>2 DEF Idle, Crash
  <2>2. UNCHANGED exactVars BY <1>2 DEF Crash
  <2> QED
    BY <2>1, <2>2 DEF ResolveInv, EntriesResolve, Resolves, exactVars
<1>3. CASE UNCHANGED <<sync, accounts, documents, entries>>
  BY <1>3 DEF ResolveInv, EntriesResolve, Resolves
<1>4. ASSUME NEW f \in Factuur, Send(f)
      PROVE  UNCHANGED <<sync, accounts, documents, entries>>
  BY <1>4 DEF Send, exactVars
<1>5. ASSUME ExactEnv, UNCHANGED <<sent, sync>>
      PROVE  UNCHANGED <<sync, accounts, documents, entries>>
  BY <1>5 DEF ExactEnv, AddPaymentCondition, AddVATCode, SetGLRevenue, Recover
<1>6. ASSUME UNCHANGED vars
      PROVE  UNCHANGED <<sync, accounts, documents, entries>>
  BY <1>6 DEF vars, exactVars
<1> QED BY <1>1, <1>2, <1>3, <1>4, <1>5, <1>6 DEF Next, Environment

\* Whatever fails, is repeated or dies, a sales entry refers to an account
\* and a document of its own division, and to no other invoice's document.
THEOREM EntriesResolveCorrect == Spec => []EntriesResolve
<1>1. Init => ScopeInv /\ ResolveInv BY ScopeInvInit, ResolveInvInit
<1>2. ScopeInv /\ ResolveInv /\ [Next]_vars => (ScopeInv /\ ResolveInv)'
  BY ScopeInvNext, ResolveInvNext
<1>3. ResolveInv => EntriesResolve BY DEF ResolveInv
<1> QED BY <1>1, <1>2, <1>3, PTL DEF Spec

-----------------------------------------------------------------------------
(* No run loses an invoice in silence.                                     *)
(*                                                                         *)
(* Every invoice that was sent when a run began is still to come in it, or *)
(* its report says what went wrong, or the lookup of its sales entry finds *)
(* something.                                                              *)

\* FindSalesEntry would find an entry, though it may be another invoice's.
Covered(f) ==
    LET d == DivisionOf[BedrijfOf[f]]
    IN  /\ d # None
        /\ \E i \in DOMAIN entries[d] :
             <<f, entries[d][i].factuur>> \in Contains

Complained(s, f) ==
    \/ <<"factuur", f>> \in s.report
    \/ <<"bedrijf", BedrijfOf[f]>> \in s.report
    \/ <<"run", None>> \in s.report

\* The run has yet to deal with f.
Pending(s, f) ==
    \/ s.pc \in {"me", "bedrijven"}
    \/ /\ s.pc \in BedrijfPC \cup {"bedrijf"}
       /\ BedrijfOf[f] \in s.bedrijven
       /\ s.pc \in FactuurPC \cup {"factuur"} /\ BedrijfOf[f] = s.bedrijf
            => f \in s.facturen

Follows(s) ==
    /\ s.due \subseteq sent
    /\ s.pc \in BedrijfPC => s.bedrijf \in s.bedrijven
    /\ \A f \in s.due : Covered(f) \/ Complained(s, f) \/ Pending(s, f)
    /\ \A f \in Factuur : <<"factuur", f>> \in s.report => ~Pending(s, f)

FollowInv == \A c \in Client : Follows(sync[c])

LEMMA CoveredStays ==
    ASSUME Grown, NEW f \in Factuur, Covered(f)
    PROVE  Covered(f)'
<1> DEFINE d == DivisionOf[BedrijfOf[f]]
<1>1. d \in Division BY RecrasAssumption DEF Covered
<1>2. PICK i \in DOMAIN entries[d] : <<f, entries[d][i].factuur>> \in Contains
  BY DEF Covered
<1>3. i \in DOMAIN entries'[d] /\ entries'[d][i] = entries[d][i]
  BY <1>1, <1>2 DEF Grown
<1> QED BY <1>2, <1>3 DEF Covered

LEMMA FollowsStays ==
    ASSUME ScopeInv, Grown, sent \subseteq sent', NEW c \in Client,
           sync'[c] = sync[c], Follows(sync[c])
    PROVE  Follows(sync[c])'
<1>1. sync[c].due \subseteq Factuur BY DEF ScopeInv, Local
<1>2. \A f \in sync[c].due : Covered(f) => Covered(f)' BY <1>1, CoveredStays
<1> QED BY <1>2 DEF Follows, Complained, Pending

\* An iteration that takes f off the list reports it or leaves it covered,
\* and nothing comes back on a list.
Onward(s, t) ==
    /\ t.due = s.due
    /\ s.report \subseteq t.report
    /\ t.pc \in BedrijfPC => t.bedrijf \in t.bedrijven
    /\ \A f \in s.due :
         Pending(s, f) => Covered(f)' \/ Complained(t, f) \/ Pending(t, f)
    /\ \A f \in Factuur :
         /\ Pending(t, f) => Pending(s, f)
         /\ <<"factuur", f>> \in t.report =>
              <<"factuur", f>> \in s.report \/ ~Pending(t, f)

LEMMA OnwardFollows ==
    ASSUME ScopeInv, Grown, sent \subseteq sent', NEW c \in Client,
           Follows(sync[c]), Onward(sync[c], sync'[c])
    PROVE  Follows(sync[c])'
<1> DEFINE s == sync[c]
           t == sync'[c]
<1>1. s.due \subseteq Factuur BY DEF ScopeInv, Local
<1>2. \A f \in s.due : Covered(f) => Covered(f)' BY <1>1, CoveredStays
<1>3. \A f \in s.due : Complained(s, f) => Complained(t, f)
  BY DEF Onward, Complained
<1>4. \A f \in t.due : Covered(f)' \/ Complained(t, f) \/ Pending(t, f)
  BY <1>2, <1>3 DEF Follows, Onward
<1>5. \A f \in Factuur : <<"factuur", f>> \in t.report => ~Pending(t, f)
  BY DEF Follows, Onward
<1>6. t.due \subseteq sent' BY DEF Follows, Onward
<1>7. t.pc \in BedrijfPC => t.bedrijf \in t.bedrijven BY DEF Onward
<1> QED BY <1>4, <1>5, <1>6, <1>7 DEF Follows, Complained, Pending

\* What ending an iteration does to the lists and the report.
LEMMA NextLists ==
    ASSUME NEW s \in Local
    PROVE  /\ NextBedrijf(s).bedrijven = s.bedrijven \ {s.bedrijf}
           /\ NextBedrijf(s).due = s.due /\ NextBedrijf(s).report = s.report
           /\ FailBedrijf(s).bedrijven = s.bedrijven \ {s.bedrijf}
           /\ FailBedrijf(s).due = s.due
           /\ FailBedrijf(s).report = s.report \cup {<<"bedrijf", s.bedrijf>>}
  BY DEF NextBedrijf, FailBedrijf, Reported, Local

LEMMA NextProductLists ==
    ASSUME NEW s \in Local,
           NEW t \in {NextProduct(s), FailProduct(s)}
    PROVE  /\ t.pc = "product"
           /\ t.bedrijven = s.bedrijven /\ t.bedrijf = s.bedrijf
           /\ t.due = s.due
           /\ t.report \in {s.report, s.report \cup {<<"product", s.product>>}}
<1>1. CASE t = NextProduct(s) BY <1>1 DEF NextProduct, Local
<1>2. CASE t = FailProduct(s)
  BY <1>2 DEF NextProduct, FailProduct, Reported, Local
<1> QED BY <1>1, <1>2

LEMMA NextFactuurLists ==
    ASSUME NEW s \in Local, NEW t \in {NextFactuur(s), FailFactuur(s)}
    PROVE  /\ t.pc = "factuur"
           /\ t.bedrijven = s.bedrijven /\ t.bedrijf = s.bedrijf
           /\ t.facturen = s.facturen \ {s.factuur}
           /\ t.due = s.due
           /\ t = NextFactuur(s) => t.report = s.report
           /\ t = FailFactuur(s) =>
                t.report = s.report \cup {<<"factuur", s.factuur>>}
<1>1. /\ NextFactuur(s).pc = "factuur"
      /\ NextFactuur(s).bedrijven = s.bedrijven
      /\ NextFactuur(s).bedrijf = s.bedrijf
      /\ NextFactuur(s).facturen = s.facturen \ {s.factuur}
      /\ NextFactuur(s).due = s.due
      /\ NextFactuur(s).report = s.report
  BY DEF NextFactuur, Local
<1>2. /\ FailFactuur(s).pc = "factuur"
      /\ FailFactuur(s).bedrijven = s.bedrijven
      /\ FailFactuur(s).bedrijf = s.bedrijf
      /\ FailFactuur(s).facturen = s.facturen \ {s.factuur}
      /\ FailFactuur(s).due = s.due
      /\ FailFactuur(s).report = s.report \cup {<<"factuur", s.factuur>>}
  BY DEF NextFactuur, FailFactuur, Reported, Local
<1> QED BY <1>1, <1>2

SetupPC == {"bedrijf", "payment", "vat", "producten", "product", "saveitem"}

LEMMA SetupPending ==
    ASSUME NEW s, s.pc \in SetupPC, NEW f
    PROVE  Pending(s, f) <=> BedrijfOf[f] \in s.bedrijven
  BY DEF Pending, SetupPC, BedrijfPC, FactuurPC

\* Steps that leave the list of companies alone.
LEMMA SetupOnward ==
    ASSUME NEW s, NEW t, s.pc \in SetupPC, t.pc \in SetupPC,
           t.due = s.due, t.bedrijven = s.bedrijven,
           t.report = s.report
             \/ \E p \in Product \cup {None} :
                  t.report = s.report \cup {<<"product", p>>},
           t.pc # "bedrijf" => t.bedrijf \in s.bedrijven
    PROVE  Onward(s, t)
<1>1. \A f : <<"factuur", f>> \in t.report => <<"factuur", f>> \in s.report
  OBVIOUS
<1>2. t.pc \in BedrijfPC => t.pc # "bedrijf" BY DEF BedrijfPC, FactuurPC
<1> QED BY <1>1, <1>2, SetupPending DEF Onward

LEMMA FailBedrijfOnward ==
    ASSUME NEW s \in Local, s.pc \in SetupPC, NEW b \in Bedrijf
    PROVE  Onward(s, FailBedrijf([s EXCEPT !.bedrijf = b]))
<1> DEFINE u == [s EXCEPT !.bedrijf = b]
           t == FailBedrijf(u)
<1>1. /\ u \in Local /\ u.bedrijf = b /\ u.bedrijven = s.bedrijven
      /\ u.due = s.due /\ u.report = s.report
  BY DEF Local
<1> HIDE DEF u
<1>2. /\ t.pc = "bedrijf" /\ t.bedrijven = s.bedrijven \ {b}
      /\ t.due = s.due /\ t.report = s.report \cup {<<"bedrijf", b>>}
  BY <1>1, NextPC, NextLists
<1> HIDE DEF t
<1>3. \A f \in s.due : Pending(s, f) => Complained(t, f) \/ Pending(t, f)
  BY <1>2, SetupPending DEF Complained, SetupPC
<1>4. \A f \in Factuur : Pending(t, f) => Pending(s, f)
  BY <1>2, SetupPending DEF SetupPC
<1>5. \A f \in Factuur :
        <<"factuur", f>> \in t.report => <<"factuur", f>> \in s.report
  BY <1>2
<1>6. Onward(s, t)
  BY <1>2, <1>3, <1>4, <1>5 DEF Onward, BedrijfPC, FactuurPC
<1> QED BY <1>6 DEF t, u

\* An iteration over invoices that ends with the entry there or a complaint.
LEMMA LeaveFactuurOnward ==
    ASSUME NEW s \in Local, s.pc \in FactuurPC \cup {"factuur"},
           s.bedrijf \in s.bedrijven,
           NEW f \in Factuur, BedrijfOf[f] = s.bedrijf,
           NEW u \in Local, u.factuur = f, u.bedrijven = s.bedrijven,
           u.bedrijf = s.bedrijf, u.facturen = s.facturen,
           u.due = s.due, u.report = s.report,
           NEW t, \/ t = NextFactuur(u) /\ Covered(f)'
                  \/ t = FailFactuur(u)
    PROVE  Onward(s, t)
<1>1. /\ t.pc = "factuur"
      /\ t.bedrijven = s.bedrijven /\ t.bedrijf = s.bedrijf
      /\ t.facturen = s.facturen \ {f} /\ t.due = s.due
      /\ \/ t.report = s.report /\ Covered(f)'
         \/ t.report = s.report \cup {<<"factuur", f>>}
  BY NextFactuurLists
<1>2. \A g : Pending(s, g) /\ g # f => Pending(t, g)
  BY <1>1 DEF Pending, BedrijfPC, FactuurPC
<1>3. Covered(f)' \/ Complained(t, f) BY <1>1 DEF Complained
<1>4. ~Pending(t, f) BY <1>1 DEF Pending, BedrijfPC, FactuurPC
<1>5. \A g : Pending(t, g) => Pending(s, g)
  BY <1>1 DEF Pending, BedrijfPC, FactuurPC
<1>6. \A g \in Factuur : g # f /\ <<"factuur", g>> \in t.report =>
                           <<"factuur", g>> \in s.report
  BY <1>1
<1> QED BY <1>1, <1>2, <1>3, <1>4, <1>5, <1>6 DEF Onward

LEMMA SameIterationOnward ==
    ASSUME NEW s, NEW t, SameIteration(s, t), s.bedrijf \in s.bedrijven,
           s.pc \in FactuurPC \cup {"factuur"}, t.pc \in FactuurPC
    PROVE  Onward(s, t)
<1>1. \A f : Pending(s, f) <=> Pending(t, f)
  BY DEF Pending, SameIteration, BedrijfPC, FactuurPC
<1> QED BY <1>1 DEF Onward, SameIteration

\* The steps before the first company.
LEMMA RunOnward ==
    ASSUME ScopeInv, NEW c \in Client, Follows(sync[c]),
           GetDefaultDivision(c) \/ GetBedrijven(c)
    PROVE  Onward(sync[c], sync'[c])
<1> DEFINE s == sync[c]
           t == sync'[c]
<1>1. s \in Local /\ s.due \subseteq Factuur
      /\ (\A x : Become(c, x) => sync'[c] = x)
  BY DEF ScopeInv, Become, Local
<1>2. s.pc \in {"me", "bedrijven"}
  BY DEF GetDefaultDivision, GetBedrijven, At
<1>3. \A f : Pending(s, f) BY <1>2 DEF Pending
<1>4. CASE GetDefaultDivision(c)
  <2>1. PICK d \in {DefaultDivision, None} :
          t = [s EXCEPT !.pc = "bedrijven", !.division = d]
    BY <1>1, <1>4 DEF GetDefaultDivision
  <2> HIDE DEF s, t
  <2>2. t.pc = "bedrijven" /\ t.due = s.due /\ t.report = s.report
    BY <1>1, <2>1 DEF Local
  <2>3. Onward(s, t)
    BY <1>3, <2>2 DEF Onward, Pending, BedrijfPC, FactuurPC
  <2> QED BY <2>3 DEF s, t
<1>5. CASE GetBedrijven(c)
  <2> DEFINE u == [s EXCEPT !.pc = "bedrijf"]
             v == Reported(u, "run", None)
  <2>1. \/ Become(c, [u EXCEPT !.bedrijven = Bedrijf])
        \/ \E bs \in {{}, Bedrijf} : Become(c, [v EXCEPT !.bedrijven = bs])
    BY <1>5 DEF GetBedrijven
  <2>2. \/ t = [u EXCEPT !.bedrijven = Bedrijf]
        \/ \E bs \in {{}, Bedrijf} : t = [v EXCEPT !.bedrijven = bs]
    BY <1>1, <2>1
  <2> HIDE DEF s, t
  <2>3. /\ t.pc = "bedrijf" /\ t.due = s.due
        /\ \/ t.bedrijven = Bedrijf /\ t.report = s.report
           \/ t.report = s.report \cup {<<"run", None>>}
    BY <1>1, <2>2 DEF Local, Reported
  <2>4. \A f \in s.due : Complained(t, f) \/ Pending(t, f)
    <3>1. \A f \in s.due : BedrijfOf[f] \in Bedrijf
      BY <1>1, RecrasAssumption
    <3> QED
      BY <2>3, <3>1 DEF Complained, Pending, BedrijfPC, FactuurPC
  <2>5. \A f : <<"factuur", f>> \in t.report => <<"factuur", f>> \in s.report
    BY <2>3
  <2>6. Onward(s, t)
    BY <1>3, <2>3, <2>4, <2>5 DEF Onward, BedrijfPC, FactuurPC
  <2> QED BY <2>6 DEF s, t
<1> QED BY <1>4, <1>5

\* The steps of syncBedrijf before the first invoice.
LEMMA SetupStepOnward ==
    ASSUME ScopeInv, NEW c \in Client, Follows(sync[c]),
           \/ \E b \in Bedrijf : SetDivision(c, b)
           \/ FindPaymentCondition(c)
           \/ GetRecrasVATCodes(c)
           \/ GetAllProducten(c)
           \/ \E p \in Product : SyncProduct(c, p)
           \/ SaveItem(c)
    PROVE  Onward(sync[c], sync'[c])
<1> DEFINE s == sync[c]
           t == sync'[c]
<1>1. /\ s \in Local /\ Scope(s) /\ (\A x : Become(c, x) => sync'[c] = x)
      /\ s.pc \in BedrijfPC =>
           s.bedrijf \in Bedrijf /\ s.bedrijf \in s.bedrijven
  BY DEF ScopeInv, Become, Scope, BedrijfScope, Follows
<1>2. s.pc \in BedrijfPC /\ s.pc \in SetupPC => Onward(s, FailBedrijf(s))
  <2>1. [s EXCEPT !.bedrijf = s.bedrijf] = s BY <1>1 DEF Local
  <2> QED BY <1>1, <2>1, FailBedrijfOnward
<1>3. ASSUME NEW u \in Local, s.pc \in SetupPC, s.pc \in BedrijfPC,
             u.bedrijven = s.bedrijven, u.bedrijf = s.bedrijf,
             u.due = s.due, u.report = s.report,
             \/ u.pc \in SetupPC \ {"bedrijf"} /\ t = u
             \/ t = NextProduct(u) \/ t = FailProduct(u)
      PROVE  Onward(s, t)
  <2>1. u.product \in Product \cup {None} BY <1>3 DEF Local
  <2>2. /\ t.pc \in SetupPC \ {"bedrijf"} /\ t.bedrijven = s.bedrijven
        /\ t.bedrijf = s.bedrijf /\ t.due = s.due
        /\ \/ t.report = s.report
           \/ t.report = s.report \cup {<<"product", u.product>>}
    BY <1>3, NextProductLists DEF SetupPC
  <2> HIDE DEF s, t
  <2> QED BY <1>1, <1>3, <2>1, <2>2, SetupOnward
<1>4. ASSUME NEW b \in Bedrijf, SetDivision(c, b) PROVE Onward(s, t)
  <2> DEFINE u == [s EXCEPT !.bedrijf = b]
             v == [u EXCEPT !.pc = "payment", !.division = DivisionOf[b]]
  <2>1. /\ s.pc = "bedrijf" /\ b \in s.bedrijven
        /\ Become(c, v) \/ Become(c, FailBedrijf(u))
    BY <1>4 DEF SetDivision, At
  <2>2. t = v \/ t = FailBedrijf(u) BY <1>1, <2>1
  <2>3. CASE t = FailBedrijf(u)
    BY <1>1, <2>1, <2>3, FailBedrijfOnward DEF SetupPC
  <2>4. CASE t = v
    <3>1. /\ v.pc = "payment" /\ v.bedrijf = b /\ v.bedrijven = s.bedrijven
          /\ v.due = s.due /\ v.report = s.report
      BY <1>1 DEF Local
    <3> HIDE DEF v
    <3> QED BY <2>1, <2>4, <3>1, SetupOnward DEF SetupPC
  <2> QED BY <2>2, <2>3, <2>4
<1>5. CASE FindPaymentCondition(c)
  <2> DEFINE u == [s EXCEPT !.pc = "vat"]
  <2>1. s.pc = "payment" BY <1>5 DEF FindPaymentCondition, At
  <2>2. t = u \/ t = FailBedrijf(s) BY <1>1, <1>5 DEF FindPaymentCondition
  <2>3. /\ u \in Local /\ u.pc = "vat"
        /\ u.bedrijven = s.bedrijven /\ u.bedrijf = s.bedrijf
        /\ u.due = s.due /\ u.report = s.report
    BY <1>1 DEF Local, PC
  <2> HIDE DEF u
  <2> QED BY <1>2, <1>3, <2>1, <2>2, <2>3 DEF SetupPC, BedrijfPC
<1>6. CASE GetRecrasVATCodes(c)
  <2> DEFINE btw == setup[s.division].btw
             u == [s EXCEPT !.pc = "producten", !.btw = btw]
  <2>1. s.pc = "vat" BY <1>6 DEF GetRecrasVATCodes, At
  <2>2. t = u \/ t = FailBedrijf(s) BY <1>1, <1>6 DEF GetRecrasVATCodes
  <2>3. btw \in SUBSET BTW
    <3>1. s.division \in Division
      BY <1>1, <2>1 DEF Scope, BedrijfScope, BedrijfPC
    <3> QED BY <3>1 DEF ScopeInv, ExactTypeOK
  <2> HIDE DEF btw
  <2>4. /\ u \in Local /\ u.pc = "producten"
        /\ u.bedrijven = s.bedrijven /\ u.bedrijf = s.bedrijf
        /\ u.due = s.due /\ u.report = s.report
    BY <1>1, <2>3 DEF Local, PC
  <2> HIDE DEF u
  <2> QED BY <1>2, <1>3, <2>1, <2>2, <2>4 DEF SetupPC, BedrijfPC
<1>7. CASE GetAllProducten(c)
  <2> DEFINE u == [s EXCEPT !.pc = "product", !.producten = Product]
  <2>1. s.pc = "producten" BY <1>7 DEF GetAllProducten, At
  <2>2. t = u \/ t = FailBedrijf(s) BY <1>1, <1>7 DEF GetAllProducten
  <2>3. /\ u \in Local /\ u.pc = "product"
        /\ u.bedrijven = s.bedrijven /\ u.bedrijf = s.bedrijf
        /\ u.due = s.due /\ u.report = s.report
    BY <1>1 DEF Local, PC
  <2> HIDE DEF u
  <2> QED BY <1>2, <1>3, <2>1, <2>2, <2>3 DEF SetupPC, BedrijfPC
<1>8. ASSUME NEW p \in Product, SyncProduct(c, p) PROVE Onward(s, t)
  <2> DEFINE u == [s EXCEPT !.product = p]
             v == [u EXCEPT !.pc = "saveitem"]
  <2>1. s.pc = "product" BY <1>8 DEF SyncProduct, At
  <2>2. t = NextProduct(u) \/ t = v \/ t = FailProduct(u)
    <3>1. PICK r \in ItemReplies(u.division, p) :
            Become(c, CASE r \in GL -> NextProduct(u)
                        [] r = "notfound" -> v
                        [] r = "error" -> FailProduct(u))
      BY <1>8 DEF SyncProduct
    <3>2. r \in GL \cup {"notfound", "error"}
      BY <3>1 DEF ItemReplies, Faults
    <3> HIDE DEF u, v
    <3> QED BY <1>1, <3>1, <3>2 DEF GL
  <2>3. /\ u \in Local /\ u.bedrijven = s.bedrijven /\ u.bedrijf = s.bedrijf
        /\ u.due = s.due /\ u.report = s.report
        /\ v \in Local /\ v.bedrijven = s.bedrijven /\ v.bedrijf = s.bedrijf
        /\ v.due = s.due /\ v.report = s.report /\ v.pc = "saveitem"
    BY <1>1 DEF Local, PC
  <2> HIDE DEF u, v
  <2> QED BY <1>3, <2>1, <2>2, <2>3 DEF SetupPC, BedrijfPC
<1>9. CASE SaveItem(c)
  <2>1. s.pc = "saveitem" BY <1>9 DEF SaveItem, At
  <2>2. t = NextProduct(s) \/ t = FailProduct(s) BY <1>1, <1>9 DEF SaveItem
  <2> QED BY <1>1, <1>3, <2>1, <2>2 DEF SetupPC, BedrijfPC
<1> QED BY <1>4, <1>5, <1>6, <1>7, <1>8, <1>9

\* The list of invoices is taken, and left when it is empty.
LEMMA ListOnward ==
    ASSUME ScopeInv, NEW c \in Client, Follows(sync[c]),
           GetFacturen(c) \/ FinishBedrijf(c)
    PROVE  Onward(sync[c], sync'[c])
<1> DEFINE s == sync[c]
           t == sync'[c]
<1>1. /\ s \in Local /\ s.due \subseteq Factuur
      /\ (\A x : Become(c, x) => sync'[c] = x)
      /\ s.pc \in BedrijfPC =>
           s.bedrijf \in Bedrijf /\ s.bedrijf \in s.bedrijven
      /\ s.due \subseteq sent
  BY DEF ScopeInv, Become, Local, Scope, BedrijfScope, Follows
<1>2. CASE GetFacturen(c)
  <2> DEFINE fs == {f \in sent : BedrijfOf[f] = s.bedrijf}
             u == [s EXCEPT !.pc = "factuur", !.facturen = fs]
  <2>1. s.pc = "product" /\ (t = u \/ t = FailBedrijf(s))
    BY <1>1, <1>2 DEF GetFacturen, At
  <2>2. ASSUME t = FailBedrijf(s) PROVE Onward(s, t)
    <3>1. [s EXCEPT !.bedrijf = s.bedrijf] = s BY <1>1 DEF Local
    <3> QED
      BY <1>1, <2>1, <2>2, <3>1, FailBedrijfOnward DEF SetupPC, BedrijfPC
  <2>3. ASSUME t = u PROVE Onward(s, t)
    <3>1. /\ u.pc = "factuur" /\ u.facturen = fs
          /\ u.bedrijven = s.bedrijven /\ u.bedrijf = s.bedrijf
          /\ u.due = s.due /\ u.report = s.report
      BY <1>1 DEF Local
    <3> HIDE DEF u
    <3>2. \A f : Pending(s, f) <=> BedrijfOf[f] \in s.bedrijven
      BY <2>1, SetupPending DEF SetupPC
    <3>3. \A f \in s.due : Pending(s, f) => Pending(t, f)
      BY <1>1, <2>3, <3>1, <3>2 DEF Pending, BedrijfPC
    <3>4. \A f : Pending(t, f) => Pending(s, f)
      BY <2>3, <3>1, <3>2 DEF Pending
    <3> QED BY <1>1, <2>1, <2>3, <3>1, <3>3, <3>4 DEF Onward, BedrijfPC
  <2> QED BY <2>1, <2>2, <2>3
<1>3. CASE FinishBedrijf(c)
  <2>1. s.pc = "factuur" /\ s.facturen = {} /\ t = NextBedrijf(s)
    BY <1>1, <1>3 DEF FinishBedrijf, At
  <2>2. /\ t.pc = "bedrijf" /\ t.bedrijven = s.bedrijven \ {s.bedrijf}
        /\ t.due = s.due /\ t.report = s.report
    BY <1>1, <2>1, NextPC, NextLists
  <2> HIDE DEF s, t
  <2>3. \A f : Pending(s, f) <=> Pending(t, f)
    BY <2>1, <2>2 DEF Pending, BedrijfPC, FactuurPC
  <2>4. Onward(s, t) BY <2>2, <2>3 DEF Onward, BedrijfPC, FactuurPC
  <2> QED BY <2>4 DEF s, t
<1> QED BY <1>2, <1>3

\* syncFactuur: skipped because something covers it, given up, or booked.
LEMMA FactuurOnward ==
    ASSUME ScopeInv, NEW c \in Client, Follows(sync[c]), Grown,
           \/ \E f \in Factuur : FindSalesEntry(c, f)
           \/ SkipWithoutLines(c)
           \/ InvoiceStep(c)
           \/ SaveSalesEntry(c)
    PROVE  Onward(sync[c], sync'[c])
<1> DEFINE s == sync[c]
           t == sync'[c]
<1>1. /\ s \in Local /\ Scope(s) /\ (\A x : Become(c, x) => sync'[c] = x)
      /\ s.pc \in BedrijfPC => s.bedrijf \in s.bedrijven
      /\ s.pc \in BedrijfPC => s.division \in Division
      /\ s.pc \in BedrijfPC => s.division = DivisionOf[s.bedrijf]
  BY DEF ScopeInv, Become, Scope, BedrijfScope, Follows
<1>2. s.pc \in FactuurPC =>
        /\ s.factuur \in Factuur /\ BedrijfOf[s.factuur] = s.bedrijf
        /\ s.division \in Division /\ s.division # None
  BY InvoiceScope
<1>3. ASSUME s.pc \in FactuurPC, t = FailFactuur(s) PROVE Onward(s, t)
  BY <1>1, <1>2, <1>3, LeaveFactuurOnward DEF BedrijfPC
<1>4. ASSUME NEW f \in Factuur, FindSalesEntry(c, f) PROVE Onward(s, t)
  <2> DEFINE u == [s EXCEPT !.factuur = f]
             v == [s EXCEPT !.factuur = f, !.pc = "regel", !.regel = 1]
  <2>1. /\ s.pc = "factuur" /\ f \in s.facturen /\ u \in Local
        /\ \/ /\ "found" \in SalesEntryReplies(s.division, f)
              /\ t = NextFactuur(u)
           \/ t = v
           \/ t = FailFactuur(u)
    BY <1>4, FindSalesEntryCases
  <2>2. BedrijfOf[f] = s.bedrijf BY <1>1, <2>1 DEF Scope, FactuurScope
  <2>3. s.division \in Division /\ s.division # None
    BY <1>1, <2>1, NoneAssumption DEF BedrijfPC
  <2>4. "found" \in SalesEntryReplies(s.division, f) => Covered(f)
    BY <1>1, <2>1, <2>2, <2>3
    DEF SalesEntryReplies, Found, Faults, Covered, BedrijfPC
  <2>5. /\ u.factuur = f /\ u.bedrijven = s.bedrijven
        /\ u.bedrijf = s.bedrijf /\ u.facturen = s.facturen
        /\ u.due = s.due /\ u.report = s.report
        /\ v.pc = "regel" /\ v.bedrijven = s.bedrijven
        /\ v.bedrijf = s.bedrijf /\ v.facturen = s.facturen
        /\ v.due = s.due /\ v.report = s.report
    BY <1>1 DEF Local
  <2> HIDE DEF u, v
  <2>6. CASE t = v
    <3>1. \A g : Pending(s, g) <=> Pending(v, g)
      BY <2>1, <2>5 DEF Pending, BedrijfPC, FactuurPC
    <3> QED BY <1>1, <2>1, <2>5, <2>6, <3>1 DEF Onward, BedrijfPC
  <2>7. Covered(f) => Covered(f)' BY CoveredStays
  <2> QED
    BY <1>1, <2>1, <2>2, <2>4, <2>5, <2>6, <2>7, LeaveFactuurOnward
    DEF BedrijfPC
<1>5. CASE SkipWithoutLines(c)
  BY <1>1, <1>3, <1>5 DEF SkipWithoutLines, LinesConverted, At, FactuurPC
<1>6. CASE InvoiceStep(c)
  <2>1. s.pc \in FactuurPC BY <1>6, InvoiceStays
  <2> QED
    BY <1>1, <1>3, <1>6, <2>1, InvoiceStays, SameIterationOnward DEF BedrijfPC
<1>7. CASE SaveSalesEntry(c)
  <2> DEFINE d == s.division
  <2>1. s.pc = "save" /\ s.pc \in FactuurPC
    BY <1>7 DEF SaveSalesEntry, At, FactuurPC
  <2>2. PICK f \in Factuur : f = s.factuur BY <1>2, <2>1
  <2>3. \/ t = FailFactuur(s)
        \/ /\ t = NextFactuur(s) /\ s.cust # None
           /\ AddSalesEntry(d, Entry(c))
    BY <1>1, <1>7 DEF SaveSalesEntry, SaveReplies, Stored
  <2>4. ASSUME s.cust # None, AddSalesEntry(d, Entry(c))
        PROVE  Covered(f)'
    <3>1. At(c, "save") BY <2>1 DEF At
    <3>2. Entry(c) \in SalesEntry BY <2>4, <3>1, EntryType
    <3>3. PICK i \in DOMAIN entries'[d] : entries'[d][i] = Entry(c)
      BY <1>2, <2>1, <2>4, <3>2, EntriesGrow DEF ScopeInv
    <3>4. Entry(c).factuur = f BY <2>2 DEF Entry
    <3>5. <<f, f>> \in Contains BY ContainsAssumption
    <3>6. DivisionOf[BedrijfOf[f]] = d /\ d # None
      BY <1>1, <1>2, <2>1, <2>2 DEF BedrijfPC
    <3> HIDE DEF d
    <3> QED BY <3>3, <3>4, <3>5, <3>6 DEF Covered
  <2>5. CASE t = FailFactuur(s) BY <1>3, <2>1, <2>5
  <2>6. CASE t = NextFactuur(s) /\ Covered(f)'
    BY <1>1, <1>2, <2>1, <2>2, <2>6, LeaveFactuurOnward DEF BedrijfPC
  <2> QED BY <2>3, <2>4, <2>5, <2>6
<1> QED BY <1>4, <1>5, <1>6, <1>7

LEMMA IdleFollows ==
    /\ Idle.pc = "idle" /\ Idle.due = {} /\ Idle.report = {}
    /\ Follows(Idle)
<1>1. Idle.pc = "idle" /\ Idle.due = {} /\ Idle.report = {} BY DEF Idle
<1> QED BY <1>1 DEF Follows, BedrijfPC, FactuurPC

LEMMA StepFollows ==
    ASSUME ScopeInv, NEW c \in Client, SyncRecras(c) \/ Step(c),
           Follows(sync[c])
    PROVE  Follows(sync[c])'
<1>1. Grown BY StepGrows
<1>2. sent' = sent BY StepStoreType
<1>3. \A x : Become(c, x) => sync'[c] = x BY DEF ScopeInv, Become
<1>4. CASE SyncRecras(c)
  <2> DEFINE t == [Idle EXCEPT !.pc = "me", !.due = sent]
  <2>1. sync'[c] = t BY <1>3, <1>4 DEF SyncRecras
  <2>2. t.pc = "me" /\ t.due = sent /\ t.report = {} BY DEF Idle
  <2> HIDE DEF t
  <2> QED
    BY <1>2, <2>1, <2>2 DEF Follows, Pending, BedrijfPC, FactuurPC
<1>5. CASE Finish(c)
  <2>1. sync'[c] = Idle BY <1>3, <1>5 DEF Finish
  <2> QED BY <2>1, IdleFollows DEF Follows, BedrijfPC, FactuurPC
<1>6. CASE Step(c) /\ ~Finish(c)
  <2>1. Onward(sync[c], sync'[c])
    BY <1>1, <1>6, RunOnward, SetupStepOnward, ListOnward, FactuurOnward
    DEF Step, InvoiceStep
  <2> QED BY <1>1, <1>2, <2>1, OnwardFollows
<1> QED BY <1>4, <1>5, <1>6

LEMMA FollowInvInit == Init => FollowInv
  BY IdleFollows DEF Init, FollowInv, Follows, BedrijfPC, FactuurPC

LEMMA FollowInvNext == ScopeInv /\ FollowInv /\ [Next]_vars => FollowInv'
<1> SUFFICES ASSUME ScopeInv, FollowInv, [Next]_vars PROVE FollowInv'
  OBVIOUS
<1>1. ASSUME NEW c \in Client, SyncRecras(c) \/ Step(c) PROVE FollowInv'
  <2>1. Follows(sync[c])' BY <1>1, StepFollows DEF FollowInv
  <2>2. ASSUME NEW o \in Client, o # c PROVE Follows(sync[o])'
    <3>1. PICK t : Become(c, t) BY <1>1, StepScope
    <3>2. sync'[o] = sync[o] BY <2>2, <3>1 DEF Become, ScopeInv
    <3>3. Grown /\ sent' = sent BY <1>1, StepGrows, StepStoreType
    <3> QED BY <3>2, <3>3, FollowsStays DEF FollowInv
  <2> QED BY <2>1, <2>2 DEF FollowInv
<1>2. CASE Crash
  <2>1. \A o \in Client : sync'[o] = Idle BY <1>2 DEF Crash
  <2> QED
    BY <2>1, IdleFollows DEF FollowInv, Follows, BedrijfPC, FactuurPC
<1>3. ASSUME sync' = sync, entries' = entries, sent \subseteq sent'
      PROVE  FollowInv'
  BY <1>3 DEF FollowInv, Follows, Covered, Complained, Pending
<1>4. ASSUME NEW f \in Factuur, Send(f)
      PROVE  sync' = sync /\ entries' = entries /\ sent \subseteq sent'
  BY <1>4 DEF Send, exactVars
<1>5. ASSUME ExactEnv, UNCHANGED <<sent, sync>>
      PROVE  sync' = sync /\ entries' = entries /\ sent \subseteq sent'
  BY <1>5 DEF ExactEnv, AddPaymentCondition, AddVATCode, SetGLRevenue, Recover
<1>6. ASSUME UNCHANGED vars
      PROVE  sync' = sync /\ entries' = entries /\ sent \subseteq sent'
  BY <1>6 DEF vars, exactVars
<1> QED BY <1>1, <1>2, <1>3, <1>4, <1>5, <1>6 DEF Next, Environment

\* Nothing is dropped on the way either: each invoice of a run is at every
\* moment found by its number, reported, or still to come.
THEOREM FollowInvariant == Spec => [](ScopeInv /\ FollowInv)
<1>1. Init => ScopeInv /\ FollowInv BY ScopeInvInit, FollowInvInit
<1>2. ScopeInv /\ FollowInv /\ [Next]_vars => (ScopeInv /\ FollowInv)'
  BY ScopeInvNext, FollowInvNext
<1> QED BY <1>1, <1>2, PTL DEF Spec

\* When a run is over, whatever failed on the way, every invoice that was sent
\* before it began is reported, or FindSalesEntry finds something for it.
NothingForgotten ==
    \A c \in Client :
      At(c, "bedrijf") /\ sync[c].bedrijven = {}
        => \A f \in sync[c].due : Covered(f) \/ Complained(sync[c], f)

THEOREM NothingForgottenCorrect == Spec => []NothingForgotten
<1>1. FollowInv => NothingForgotten
  BY DEF FollowInv, Follows, NothingForgotten, Pending, At, BedrijfPC, FactuurPC
<1> QED BY <1>1, FollowInvariant, PTL

\* An invoice number that is a substring of no other: all that is needed for
\* the lookup by substringof to find nothing but the invoice itself.
NumbersApart == \A f, g \in Factuur : <<f, g>> \in Contains => f = g

LEMMA CoveredIsBooked ==
    ASSUME ScopeInv, NumbersApart, NEW f \in Factuur, Covered(f)
    PROVE  Booked(f)
<1> DEFINE d == DivisionOf[BedrijfOf[f]]
<1>1. d \in Division /\ d # None BY RecrasAssumption DEF Covered
<1>2. PICK i \in DOMAIN entries[d] : <<f, entries[d][i].factuur>> \in Contains
  BY DEF Covered
<1>3. entries[d][i] \in SalesEntry
  <2>1. entries[d] \in Seq(SalesEntry) BY <1>1 DEF ScopeInv, ExactTypeOK
  <2> QED BY <1>2, <2>1
<1>4. entries[d][i].factuur = f
  BY <1>2, <1>3 DEF NumbersApart, SalesEntry
<1> QED BY <1>1, <1>2, <1>4 DEF Booked

\* Then every invoice of a run that is over is booked or reported.
THEOREM NoSilentLossCorrect ==
    ASSUME NumbersApart
    PROVE  Spec => []NoSilentLoss
<1>1. ScopeInv /\ FollowInv => NoSilentLoss
  <2> SUFFICES ASSUME ScopeInv, FollowInv, NEW c \in Client,
                      At(c, "bedrijf"), sync[c].bedrijven = {},
                      NEW f \in sync[c].due
               PROVE  Accounted(sync[c], f)
    BY DEF NoSilentLoss
  <2>1. f \in Factuur BY DEF ScopeInv, Local
  <2>2. ~Pending(sync[c], f) BY DEF Pending, At, BedrijfPC, FactuurPC
  <2>3. Covered(f) \/ Complained(sync[c], f)
    BY <2>2 DEF FollowInv, Follows
  <2> QED BY <2>1, <2>3, CoveredIsBooked DEF Accounted, Complained
<1> QED BY <1>1, FollowInvariant, PTL

\* And an invoice that is skipped because "SalesEntry exists" is booked.
THEOREM SkippedIsBookedCorrect ==
    ASSUME NumbersApart
    PROVE  Spec => SkippedIsBooked
<1> DEFINE Skipped == \A c \in Client, f \in Factuur :
                        FindSalesEntry(c, f) /\ At(c, "factuur")'
                            /\ sync'[c].report = sync[c].report
                          => Booked(f)
<1>1. ScopeInv /\ FollowInv => Skipped
  <2> SUFFICES ASSUME ScopeInv, FollowInv, NEW c \in Client,
                      NEW f \in Factuur, FindSalesEntry(c, f),
                      sync'[c].pc = "factuur",
                      sync'[c].report = sync[c].report
               PROVE  Booked(f)
    BY DEF At
  <2> DEFINE s == sync[c]
             u == [s EXCEPT !.factuur = f]
             v == [s EXCEPT !.factuur = f, !.pc = "regel", !.regel = 1]
  <2>1. /\ s \in Local /\ s.pc = "factuur" /\ f \in s.facturen
        /\ u \in Local
        /\ \/ /\ "found" \in SalesEntryReplies(s.division, f)
              /\ sync'[c] = NextFactuur(u)
           \/ sync'[c] = v
           \/ sync'[c] = FailFactuur(u)
    BY FindSalesEntryCases DEF ScopeInv
  <2>2. /\ BedrijfOf[f] = s.bedrijf /\ s.division \in Division
        /\ s.division = DivisionOf[s.bedrijf]
    BY <2>1 DEF ScopeInv, Scope, BedrijfScope, FactuurScope, BedrijfPC
  <2>3. v.pc = "regel" /\ u.report = s.report /\ u.factuur = f
    BY <2>1 DEF Local
  <2>4. sync'[c] # v BY <2>3
  <2>5. sync'[c] # FailFactuur(u)
    <3>1. Follows(s) BY DEF FollowInv
    <3>2. Pending(s, f)
      BY <2>1, <2>2, <3>1 DEF Follows, Pending, BedrijfPC
    <3>3. <<"factuur", f>> \notin s.report BY <3>1, <3>2 DEF Follows
    <3>4. FailFactuur(u).report = s.report \cup {<<"factuur", f>>}
      BY <2>1, <2>3, NextFactuurLists
    <3> HIDE DEF s, u
    <3>5. s.report # s.report \cup {<<"factuur", f>>} BY <3>3
    <3> QED BY <3>4, <3>5 DEF s
  <2>6. "found" \in SalesEntryReplies(s.division, f) BY <2>1, <2>4, <2>5
  <2>7. Covered(f)
    BY <2>2, <2>6, NoneAssumption
    DEF SalesEntryReplies, Found, Faults, Covered
  <2> QED BY <2>7, CoveredIsBooked
<1>2. Spec => [][Skipped]_vars BY <1>1, FollowInvariant, PTL
<1> QED BY <1>2 DEF SkippedIsBooked

-----------------------------------------------------------------------------
(* Accounts and items are made once, but for races to be first.            *)
(*                                                                         *)
(* An account is made by a client that found none: the ones there are and  *)
(* the clients that are about to make another are never more than clients. *)

\* The clients about to POST an account for k, or an item for p, in d.
Saving(d, k) ==
    {c \in Client : /\ sync[c].pc = "saveklant"
                    /\ sync[c].division = d
                    /\ KlantOf[sync[c].factuur] = k}

SavingItem(d, p) ==
    {c \in Client : /\ sync[c].pc = "saveitem"
                    /\ sync[c].division = d
                    /\ sync[c].product = p}

ItemsOf(d, p) == items[d][p]["ready"] + items[d][p]["bare"]

RaceInv ==
    \A d \in Division :
      /\ \A k \in Klant :
           accounts[d][k] + Cardinality(Saving(d, k)) <= Cardinality(Client)
      /\ \A p \in Product :
           ItemsOf(d, p) + Cardinality(SavingItem(d, p)) <= Cardinality(Client)

LEMMA ClientSubsets ==
    /\ Cardinality(Client) \in Nat
    /\ \A S, T \in SUBSET Client :
         /\ Cardinality(S) \in Nat
         /\ Cardinality(S) <= Cardinality(Client)
         /\ T \subseteq S => Cardinality(T) <= Cardinality(S)
         /\ \A c \in S : T \subseteq S \ {c} =>
                           Cardinality(T) + 1 <= Cardinality(S)
<1>1. Cardinality(Client) \in Nat BY ClientAssumption, FS_CardinalityType
<1>2. ASSUME NEW S \in SUBSET Client
      PROVE  /\ IsFiniteSet(S) /\ Cardinality(S) \in Nat
             /\ Cardinality(S) <= Cardinality(Client)
  BY ClientAssumption, FS_Subset, FS_CardinalityType
<1>3. ASSUME NEW S \in SUBSET Client, NEW T \in SUBSET S
      PROVE  Cardinality(T) <= Cardinality(S)
  BY <1>2, FS_Subset
<1>4. ASSUME NEW S \in SUBSET Client, NEW c \in S, NEW T \in SUBSET (S \ {c})
      PROVE  Cardinality(T) + 1 <= Cardinality(S)
  <2>1. Cardinality(S \ {c}) = Cardinality(S) - 1
    BY <1>2, FS_RemoveElement
  <2>2. Cardinality(T) <= Cardinality(S \ {c}) BY <1>3
  <2>3. Cardinality(T) \in Nat /\ Cardinality(S) \in Nat BY <1>2
  <2> QED BY <2>1, <2>2, <2>3
<1> QED BY <1>1, <1>2, <1>3, <1>4

\* n there are, S about to make one: somebody made one, or the first set out.
LEMMA Counted ==
    ASSUME NEW n \in Nat, NEW m \in Nat,
           NEW S \in SUBSET Client, NEW T \in SUBSET Client,
           n + Cardinality(S) <= Cardinality(Client),
           \/ m = n /\ T \subseteq S
           \/ m = n + 1 /\ \E c \in S : T \subseteq S \ {c}
           \/ m = 0
    PROVE  m + Cardinality(T) <= Cardinality(Client)
<1>1. /\ Cardinality(Client) \in Nat /\ Cardinality(S) \in Nat
      /\ Cardinality(T) \in Nat /\ Cardinality(T) <= Cardinality(Client)
  BY ClientSubsets
<1>2. T \subseteq S => Cardinality(T) <= Cardinality(S) BY ClientSubsets
<1>3. (\E c \in S : T \subseteq S \ {c}) =>
        Cardinality(T) + 1 <= Cardinality(S)
  BY ClientSubsets
<1> QED BY <1>1, <1>2, <1>3

\* A client sets out to make an account, or an item, when it found none.
LEMMA ToSaveKlant ==
    ASSUME ScopeInv, NEW c \in Client, SyncRecras(c) \/ Step(c),
           sync'[c].pc = "saveklant"
    PROVE  LET t == sync'[c]
           IN  /\ accounts[t.division][KlantOf[t.factuur]] = 0
               /\ accounts' = accounts
<1> DEFINE s == sync[c]
<1>1. SyncKlant(c) BY StepPC DEF Step
<1>2. s \in Local /\ s.pc = "klant" BY <1>1 DEF SyncKlant, At, ScopeInv
<1>3. s.division \in Division /\ Klantvan(s) \in Klant /\ s.division # None
  BY <1>2, InvoiceScope DEF FactuurPC
<1>4. PICK r \in AccountReplies(s.division, Klantvan(s)) :
        sync'[c] = [s EXCEPT !.pc = IF r = "notfound" THEN "saveklant"
                                                      ELSE "refind"]
  BY <1>1 DEF SyncKlant, Become, ScopeInv
<1>5. r = "notfound" BY <1>2, <1>4 DEF Local
<1>6. accounts[s.division][Klantvan(s)] \in Nat
  BY <1>3 DEF ScopeInv, ExactTypeOK
<1>7. ~(accounts[s.division][Klantvan(s)] > 0)
  BY <1>3, <1>4, <1>5 DEF AccountReplies, Found, Faults
<1>8. accounts[s.division][Klantvan(s)] = 0 BY <1>6, <1>7
<1>9. /\ sync'[c].division = s.division
      /\ sync'[c].factuur = s.factuur
  BY <1>2, <1>4 DEF Local
<1>10. accounts' = accounts BY <1>1 DEF SyncKlant, exactVars
<1> QED BY <1>8, <1>9, <1>10 DEF Klantvan

LEMMA ToSaveItem ==
    ASSUME ScopeInv, NEW c \in Client, SyncRecras(c) \/ Step(c),
           sync'[c].pc = "saveitem"
    PROVE  LET t == sync'[c]
           IN  ItemsOf(t.division, t.product) = 0 /\ items' = items
<1> DEFINE s == sync[c]
<1>1. PICK p \in Product : SyncProduct(c, p) BY StepPC DEF Step
<1> DEFINE u == [s EXCEPT !.product = p]
           v == [u EXCEPT !.pc = "saveitem"]
<1>2. s \in Local /\ s.pc = "product" BY <1>1 DEF SyncProduct, At, ScopeInv
<1>3. s.division \in Division /\ s.division # None
  BY <1>2, NoneAssumption DEF ScopeInv, Scope, BedrijfScope, BedrijfPC
<1>4. /\ u \in Local /\ u.division = s.division
      /\ v.division = s.division /\ v.product = p
  BY <1>2 DEF Local
<1>5. PICK r \in ItemReplies(u.division, p) :
        Become(c, CASE r \in GL -> NextProduct(u)
                    [] r = "notfound" -> v
                    [] r = "error" -> FailProduct(u))
  BY <1>1 DEF SyncProduct
<1>6. r \in GL \cup {"notfound", "error"} BY <1>5 DEF ItemReplies, Faults
<1> HIDE DEF u, v
<1>7. r = "notfound" /\ sync'[c] = v
  BY <1>4, <1>5, <1>6, NextPC DEF GL, Become, ScopeInv
<1>8. \A g \in GL : items[s.division][p][g] = 0
  BY <1>3, <1>4, <1>5, <1>7 DEF ItemReplies, Faults, GL
<1>9. ItemsOf(s.division, p) = 0 BY <1>8 DEF ItemsOf, GL
<1>10. items' = items BY <1>1 DEF SyncProduct, exactVars
<1> QED BY <1>4, <1>7, <1>9, <1>10

\* How many there are, and who is about to make one more, after a step.
LEMMA AccountsStep ==
    ASSUME ScopeInv, NEW c \in Client, SyncRecras(c) \/ Step(c),
           NEW d \in Division, NEW k \in Klant
    PROVE  \/ /\ accounts'[d][k] = accounts[d][k]
              /\ Saving(d, k)' \subseteq Saving(d, k)
           \/ /\ accounts'[d][k] = accounts[d][k] + 1
              /\ \E o \in Saving(d, k) :
                   Saving(d, k)' \subseteq Saving(d, k) \ {o}
           \/ accounts'[d][k] = 0
<1> DEFINE s == sync[c]
           t == sync'[c]
<1>1. \A o \in Client : o # c => sync'[o] = sync[o]
  <2>1. PICK x : Become(c, x) BY StepScope
  <2> QED BY <2>1 DEF Become, ScopeInv
<1>2. Saving(d, k)' \subseteq Saving(d, k) \cup {c} BY <1>1 DEF Saving
<1>3. CASE c \in Saving(d, k)'
  <2>1. t.pc = "saveklant" /\ t.division = d /\ KlantOf[t.factuur] = k
    BY <1>3 DEF Saving
  <2> QED BY <2>1, ToSaveKlant
<1>4. CASE c \notin Saving(d, k)'
  <2>1. Saving(d, k)' \subseteq Saving(d, k) \ {c} BY <1>2, <1>4
  <2>2. CASE accounts' = accounts BY <2>1, <2>2
  <2>3. CASE SaveAccount(c) /\ AddAccount(s.division, Klantvan(s))
    <3>1. s.pc = "saveklant" BY <2>3 DEF SaveAccount, At
    <3>2. s.division \in Division /\ Klantvan(s) \in Klant
      BY <3>1, InvoiceScope DEF FactuurPC
    <3>3. s.division = d /\ Klantvan(s) = k => c \in Saving(d, k)
      BY <3>1 DEF Saving, Klantvan
    <3> DEFINE e == s.division
               l == Klantvan(s)
    <3> HIDE DEF e, l
    <3>4. accounts' = [accounts EXCEPT ![e][l] = accounts[e][l] + 1]
      BY <2>3 DEF AddAccount, e, l
    <3>5. accounts'[d][k] = IF d = e /\ k = l THEN accounts[d][k] + 1
                                              ELSE accounts[d][k]
      BY <3>2, <3>4 DEF ScopeInv, ExactTypeOK, e, l
    <3> QED BY <2>1, <3>3, <3>5 DEF e, l
  <2> QED BY <2>2, <2>3, StepWrites
<1> QED BY <1>3, <1>4

LEMMA AddItemCounts ==
    ASSUME ExactTypeOK, NEW e \in Division, NEW q \in Product, AddItem(e, q),
           NEW d \in Division, NEW p \in Product
    PROVE  ItemsOf(d, p)' = IF d = e /\ p = q THEN ItemsOf(d, p) + 1
                                              ELSE ItemsOf(d, p)
<1>1. PICK g \in GL : items' = [items EXCEPT ![e][q][g] = items[e][q][g] + 1]
  BY DEF AddItem
<1>2. \A x \in GL : items[d][p][x] \in Nat BY DEF ExactTypeOK
<1>3. \A x \in GL :
        items'[d][p][x] = IF d = e /\ p = q /\ x = g THEN items[d][p][x] + 1
                                                     ELSE items[d][p][x]
  BY <1>1 DEF ExactTypeOK
<1>4. g = "ready" \/ g = "bare" BY DEF GL
<1> DEFINE a == items[d][p]["ready"]
           b == items[d][p]["bare"]
<1>5. a \in Nat /\ b \in Nat BY <1>2 DEF GL
<1>6. /\ items'[d][p]["ready"] = IF d = e /\ p = q /\ g = "ready" THEN a + 1
                                                                  ELSE a
      /\ items'[d][p]["bare"] = IF d = e /\ p = q /\ g = "bare" THEN b + 1
                                                                ELSE b
  BY <1>3 DEF GL
<1>7. ItemsOf(d, p) = a + b BY DEF ItemsOf
<1>8. ItemsOf(d, p)' = items'[d][p]["ready"] + items'[d][p]["bare"]
  BY DEF ItemsOf
<1> HIDE DEF a, b
<1> QED BY <1>4, <1>5, <1>6, <1>7, <1>8

LEMMA ItemsStep ==
    ASSUME ScopeInv, NEW c \in Client, SyncRecras(c) \/ Step(c),
           NEW d \in Division, NEW p \in Product
    PROVE  \/ /\ ItemsOf(d, p)' = ItemsOf(d, p)
              /\ SavingItem(d, p)' \subseteq SavingItem(d, p)
           \/ /\ ItemsOf(d, p)' = ItemsOf(d, p) + 1
              /\ \E o \in SavingItem(d, p) :
                   SavingItem(d, p)' \subseteq SavingItem(d, p) \ {o}
           \/ ItemsOf(d, p)' = 0
<1> DEFINE s == sync[c]
           t == sync'[c]
<1>1. \A o \in Client : o # c => sync'[o] = sync[o]
  <2>1. PICK x : Become(c, x) BY StepScope
  <2> QED BY <2>1 DEF Become, ScopeInv
<1>2. SavingItem(d, p)' \subseteq SavingItem(d, p) \cup {c}
  BY <1>1 DEF SavingItem
<1>3. CASE c \in SavingItem(d, p)'
  <2>1. t.pc = "saveitem" /\ t.division = d /\ t.product = p
    BY <1>3 DEF SavingItem
  <2>2. ItemsOf(d, p) = 0 /\ items' = items BY <2>1, ToSaveItem
  <2> QED BY <2>2 DEF ItemsOf
<1>4. CASE c \notin SavingItem(d, p)'
  <2>1. SavingItem(d, p)' \subseteq SavingItem(d, p) \ {c} BY <1>2, <1>4
  <2>2. CASE items' = items BY <2>1, <2>2 DEF ItemsOf
  <2>3. CASE SaveItem(c) /\ AddItem(s.division, s.product)
    <3>1. s.pc = "saveitem" BY <2>3 DEF SaveItem, At
    <3>2. s.division \in Division /\ s.product \in Product /\ ExactTypeOK
      BY <3>1 DEF ScopeInv, Scope, BedrijfScope, ProductScope, BedrijfPC
    <3>3. s.division = d /\ s.product = p => c \in SavingItem(d, p)
      BY <3>1 DEF SavingItem
    <3>4. ItemsOf(d, p)' = IF d = s.division /\ p = s.product
                           THEN ItemsOf(d, p) + 1 ELSE ItemsOf(d, p)
      BY <2>3, <3>2, AddItemCounts
    <3> QED BY <2>1, <3>3, <3>4
  <2> QED BY <2>2, <2>3, StepWrites
<1> QED BY <1>3, <1>4

LEMMA ItemsOfType ==
    ASSUME ExactTypeOK, NEW d \in Division, NEW p \in Product
    PROVE  accounts \in [Division -> [Klant -> Nat]] /\ ItemsOf(d, p) \in Nat
  BY DEF ExactTypeOK, ItemsOf, GL

LEMMA RaceInvInit == Init => RaceInv
<1> SUFFICES ASSUME Init PROVE RaceInv OBVIOUS
<1>1. \A d, x : Saving(d, x) = {} /\ SavingItem(d, x) = {}
  BY DEF Init, Idle, Saving, SavingItem
<1>2. \A d \in Division :
        /\ \A k \in Klant : accounts[d][k] = 0
        /\ \A p \in Product : ItemsOf(d, p) = 0
  BY DEF Init, ExactInit, ItemsOf, GL
<1>3. Cardinality({}) = 0 BY FS_EmptySet
<1> QED BY <1>1, <1>2, <1>3, ClientSubsets DEF RaceInv

LEMMA RaceInvNext ==
    ScopeInv /\ ScopeInv' /\ RaceInv /\ [Next]_vars => RaceInv'
<1> SUFFICES ASSUME ScopeInv, ScopeInv', RaceInv, [Next]_vars,
                    NEW d \in Division
             PROVE  /\ \A k \in Klant :
                         accounts'[d][k] + Cardinality(Saving(d, k)')
                           <= Cardinality(Client)
                    /\ \A p \in Product :
                         ItemsOf(d, p)' + Cardinality(SavingItem(d, p)')
                           <= Cardinality(Client)
  BY DEF RaceInv
<1> DEFINE AccountKept(k) ==
             \/ /\ accounts'[d][k] = accounts[d][k]
                /\ Saving(d, k)' \subseteq Saving(d, k)
             \/ /\ accounts'[d][k] = accounts[d][k] + 1
                /\ \E o \in Saving(d, k) :
                     Saving(d, k)' \subseteq Saving(d, k) \ {o}
             \/ accounts'[d][k] = 0
           ItemKept(p) ==
             \/ /\ ItemsOf(d, p)' = ItemsOf(d, p)
                /\ SavingItem(d, p)' \subseteq SavingItem(d, p)
             \/ /\ ItemsOf(d, p)' = ItemsOf(d, p) + 1
                /\ \E o \in SavingItem(d, p) :
                     SavingItem(d, p)' \subseteq SavingItem(d, p) \ {o}
             \/ ItemsOf(d, p)' = 0
<1>1. ASSUME \A k \in Klant : AccountKept(k), \A p \in Product : ItemKept(p)
      PROVE  /\ \A k \in Klant :
                  accounts'[d][k] + Cardinality(Saving(d, k)')
                    <= Cardinality(Client)
             /\ \A p \in Product :
                  ItemsOf(d, p)' + Cardinality(SavingItem(d, p)')
                    <= Cardinality(Client)
  <2>1. ASSUME NEW k \in Klant
        PROVE  accounts'[d][k] + Cardinality(Saving(d, k)')
                 <= Cardinality(Client)
    <3>1. accounts[d][k] \in Nat /\ accounts'[d][k] \in Nat
      BY DEF ScopeInv, ExactTypeOK
    <3>2. /\ Saving(d, k) \in SUBSET Client
          /\ Saving(d, k)' \in SUBSET Client
      BY DEF Saving
    <3>3. accounts[d][k] + Cardinality(Saving(d, k)) <= Cardinality(Client)
      BY DEF RaceInv
    <3>4. AccountKept(k) BY <1>1
    <3> QED BY <3>1, <3>2, <3>3, <3>4, Counted
  <2>2. ASSUME NEW p \in Product
        PROVE  ItemsOf(d, p)' + Cardinality(SavingItem(d, p)')
                 <= Cardinality(Client)
    <3>1. ItemsOf(d, p) \in Nat BY ItemsOfType DEF ScopeInv
    <3>2. ItemsOf(d, p)' \in Nat
      BY DEF ScopeInv, ExactTypeOK, ItemsOf, GL
    <3>3. /\ SavingItem(d, p) \in SUBSET Client
          /\ SavingItem(d, p)' \in SUBSET Client
      BY DEF SavingItem
    <3>4. ItemsOf(d, p) + Cardinality(SavingItem(d, p)) <= Cardinality(Client)
      BY DEF RaceInv
    <3>5. ItemKept(p) BY <1>1
    <3> QED BY <3>1, <3>2, <3>3, <3>4, <3>5, Counted
  <2> QED BY <2>1, <2>2
<1>2. ASSUME NEW c \in Client, SyncRecras(c) \/ Step(c)
      PROVE  /\ \A k \in Klant : AccountKept(k)
             /\ \A p \in Product : ItemKept(p)
  BY <1>2, AccountsStep, ItemsStep
<1>3. ASSUME accounts' = accounts,
             \A p \in Product : ItemsOf(d, p)' = ItemsOf(d, p),
             \A c \in Client : sync'[c] \in {sync[c], Idle}
      PROVE  /\ \A k \in Klant : AccountKept(k)
             /\ \A p \in Product : ItemKept(p)
  <2>1. Idle.pc = "idle" BY DEF Idle
  <2>2. \A x : /\ Saving(d, x)' \subseteq Saving(d, x)
               /\ SavingItem(d, x)' \subseteq SavingItem(d, x)
    BY <1>3, <2>1 DEF Saving, SavingItem
  <2> QED BY <1>3, <2>2
<1>4. CASE Crash
  <2>1. accounts' = accounts /\ items' = items BY <1>4 DEF Crash, exactVars
  <2>2. \A c \in Client : sync'[c] = Idle BY <1>4 DEF Crash
  <2>3. \A p \in Product : ItemsOf(d, p)' = ItemsOf(d, p)
    BY <2>1 DEF ItemsOf
  <2> HIDE DEF AccountKept, ItemKept
  <2> QED BY <1>1, <1>3, <2>1, <2>2, <2>3
<1>5. ASSUME NEW f \in Factuur, Send(f)
      PROVE  sync' = sync /\ accounts' = accounts /\ items' = items
  BY <1>5 DEF Send, exactVars
<1>6. ASSUME NEW e \in Division, NEW q \in Product, SetGLRevenue(e, q),
             NEW p \in Product
      PROVE  accounts' = accounts /\ ItemsOf(d, p)' = ItemsOf(d, p)
  <2> DEFINE a == items[d][p]["ready"]
             b == items[d][p]["bare"]
  <2>1. items \in [Division -> [Product -> [GL -> Nat]]]
    BY DEF ScopeInv, ExactTypeOK
  <2>2. a \in Nat /\ b \in Nat BY <2>1 DEF GL
  <2>3. CASE d = e /\ p = q
    <3>1. items'[d][p]["ready"] = a + 1 /\ items'[d][p]["bare"] = b - 1
      BY <1>6, <2>1, <2>3 DEF SetGLRevenue, GL
    <3>2. ItemsOf(d, p) = a + b /\ ItemsOf(d, p)' = (a + 1) + (b - 1)
      BY <3>1 DEF ItemsOf
    <3>3. accounts' = accounts BY <1>6 DEF SetGLRevenue
    <3> HIDE DEF a, b
    <3> QED BY <2>2, <3>2, <3>3
  <2>4. CASE ~(d = e /\ p = q)
    <3>1. items'[d][p] = items[d][p] BY <1>6, <2>1, <2>4 DEF SetGLRevenue
    <3> QED BY <1>6, <3>1 DEF ItemsOf, SetGLRevenue
  <2> QED BY <2>3, <2>4
<1>7. CASE ExactEnv /\ UNCHANGED <<sent, sync>>
  <2>1. /\ accounts' = accounts
        /\ \A p \in Product : ItemsOf(d, p)' = ItemsOf(d, p)
    BY <1>6, <1>7
    DEF ExactEnv, AddPaymentCondition, AddVATCode, Recover, ItemsOf
  <2> HIDE DEF AccountKept, ItemKept
  <2> QED BY <1>1, <1>3, <1>7, <2>1
<1>8. CASE sync' = sync /\ accounts' = accounts /\ items' = items
  <2>1. \A p \in Product : ItemsOf(d, p)' = ItemsOf(d, p)
    BY <1>8 DEF ItemsOf
  <2> HIDE DEF AccountKept, ItemKept
  <2> QED BY <1>1, <1>3, <1>8, <2>1
<1>9. ASSUME UNCHANGED vars
      PROVE  sync' = sync /\ accounts' = accounts /\ items' = items
  BY <1>9 DEF vars, exactVars
<1> HIDE DEF AccountKept, ItemKept
<1> QED
  BY <1>1, <1>2, <1>4, <1>5, <1>7, <1>8, <1>9 DEF Next, Environment

\* However often runs fail, overlap, are repeated or die: of a customer's
\* account, or a product's item, there is at most one per client.
THEOREM NoNeedlessMasterDataCorrect == Spec => []NoNeedlessMasterData
<1>1. Init => ScopeInv /\ RaceInv BY ScopeInvInit, RaceInvInit
<1>2. ScopeInv /\ RaceInv /\ [Next]_vars => (ScopeInv /\ RaceInv)'
  BY ScopeInvNext, RaceInvNext
<1>3. ScopeInv /\ RaceInv => NoNeedlessMasterData
  <2> SUFFICES ASSUME ScopeInv, RaceInv, NEW d \in Division
               PROVE  /\ \A k \in Klant : accounts[d][k] <= Cardinality(Client)
                      /\ \A p \in Product :
                           ItemsOf(d, p) <= Cardinality(Client)
    BY DEF NoNeedlessMasterData, ItemsOf
  <2>1. /\ Cardinality(Client) \in Nat
        /\ \A S \in SUBSET Client : Cardinality(S) \in Nat
    BY ClientSubsets
  <2>2. ASSUME NEW k \in Klant PROVE accounts[d][k] <= Cardinality(Client)
    <3>1. accounts[d][k] \in Nat BY DEF ScopeInv, ExactTypeOK
    <3>2. Cardinality(Saving(d, k)) \in Nat BY <2>1 DEF Saving
    <3>3. accounts[d][k] + Cardinality(Saving(d, k)) <= Cardinality(Client)
      BY DEF RaceInv
    <3> QED BY <2>1, <3>1, <3>2, <3>3
  <2>3. ASSUME NEW p \in Product PROVE ItemsOf(d, p) <= Cardinality(Client)
    <3>1. ItemsOf(d, p) \in Nat BY ItemsOfType DEF ScopeInv
    <3>2. Cardinality(SavingItem(d, p)) \in Nat BY <2>1 DEF SavingItem
    <3>3. ItemsOf(d, p) + Cardinality(SavingItem(d, p)) <= Cardinality(Client)
      BY DEF RaceInv
    <3> QED BY <2>1, <3>1, <3>2, <3>3
  <2> QED BY <2>2, <2>3
<1> QED BY <1>1, <1>2, <1>3, PTL DEF Spec

-----------------------------------------------------------------------------
(* No run goes on forever: each request leaves it less to do.              *)
(*                                                                         *)
(* Place orders the labels; what is left is then one of three lists and    *)
(* the place, and every step makes the first of them that changes smaller. *)

StartPC == {"me", "bedrijven"}

ListPC == StartPC \cup {"bedrijf", "payment", "vat", "producten"}

LEMMA Lefts ==
    ASSUME NEW s, s.pc \in PC
    PROVE  /\ BedrijvenLeft(s) =
                IF s.pc \in StartPC THEN Bedrijf ELSE s.bedrijven
           /\ ProductenLeft(s) =
                IF s.pc \in ListPC THEN Product ELSE s.producten
           /\ FacturenLeft(s) =
                IF s.pc \in ListPC \cup {"product", "saveitem"}
                THEN Factuur ELSE s.facturen
  BY DEF PC, StartPC, ListPC, Place, Upto, BedrijvenLeft, ProductenLeft,
         FacturenLeft

\* The requests of an iteration, in the order of Place.
LEMMA Onwards ==
    ASSUME NEW s, NEW t,
           \/ s.pc = "me" /\ t.pc = "bedrijven"
           \/ s.pc = "bedrijven" /\ t.pc = "bedrijf"
           \/ s.pc = "bedrijf" /\ t.pc \in {"payment", "idle"}
           \/ s.pc = "payment" /\ t.pc = "vat"
           \/ s.pc = "vat" /\ t.pc = "producten"
           \/ s.pc = "producten" /\ t.pc = "product"
           \/ s.pc = "product" /\ t.pc \in {"saveitem", "factuur"}
           \/ s.pc = "factuur" /\ t.pc = "regel"
           \/ s.pc = "regel" /\ t.pc \in {"klant", "doctype"}
           \/ s.pc = "klant" /\ t.pc \in {"saveklant", "refind"}
           \/ s.pc = "saveklant" /\ t.pc = "refind"
           \/ s.pc = "refind" /\ t.pc = "doctype"
           \/ s.pc = "doctype" /\ t.pc \in {"document", "save"}
           \/ s.pc = "document" /\ t.pc \in {"pdf", "save"}
           \/ s.pc = "pdf" /\ t.pc = "save"
    PROVE  FewerRequests(t, s)
  BY DEF Place, FewerRequests

\* One company, product or invoice less.
LEMMA FewerBedrijven ==
    ASSUME NEW s, NEW t, s.pc \in PC \ StartPC, t.pc \in PC \ StartPC,
           NEW b \in s.bedrijven, t.bedrijven = s.bedrijven \ {b}
    PROVE  Closer(t, s)
<1>1. BedrijvenLeft(s) = s.bedrijven /\ BedrijvenLeft(t) = t.bedrijven
  BY Lefts
<1> QED BY <1>1 DEF Closer, Fewer

LEMMA FewerProducten ==
    ASSUME NEW s, NEW t, s.pc \in {"product", "saveitem"}, t.pc = "product",
           t.bedrijven = s.bedrijven,
           NEW p \in s.producten, t.producten = s.producten \ {p}
    PROVE  Closer(t, s)
<1>1. /\ s.pc \in PC /\ s.pc \notin ListPC /\ s.pc \notin StartPC
      /\ t.pc \in PC /\ t.pc \notin ListPC /\ t.pc \notin StartPC
  BY DEF PC, ListPC, StartPC
<1>2. /\ BedrijvenLeft(t) = BedrijvenLeft(s)
      /\ ProductenLeft(s) = s.producten /\ ProductenLeft(t) = t.producten
  BY <1>1, Lefts
<1> QED BY <1>2 DEF Closer, Fewer

LEMMA FewerFacturen ==
    ASSUME NEW s, NEW t, s.pc \in FactuurPC \cup {"factuur"},
           t.pc = "factuur",
           t.bedrijven = s.bedrijven, t.producten = s.producten,
           NEW f \in s.facturen, t.facturen = s.facturen \ {f}
    PROVE  Closer(t, s)
<1> DEFINE early == ListPC \cup {"product", "saveitem"}
<1>1. /\ s.pc \in PC /\ s.pc \notin early /\ s.pc \notin StartPC
      /\ t.pc \in PC /\ t.pc \notin early /\ t.pc \notin StartPC
  BY DEF PC, ListPC, StartPC, FactuurPC
<1>2. /\ BedrijvenLeft(t) = BedrijvenLeft(s)
      /\ ProductenLeft(t) = ProductenLeft(s)
      /\ FacturenLeft(s) = s.facturen /\ FacturenLeft(t) = t.facturen
  BY <1>1, Lefts
<1> QED BY <1>2 DEF Closer, Fewer

\* Ahead within an iteration over companies, products or invoices.
LEMMA SameLists ==
    ASSUME NEW s, NEW t,
           BedrijvenLeft(t) = BedrijvenLeft(s),
           ProductenLeft(t) = ProductenLeft(s),
           FacturenLeft(t) = FacturenLeft(s),
           FewerRequests(t, s) \/ FewerRegels(t, s)
    PROVE  Closer(t, s)
  BY DEF Closer

LEMMA SameFactuur ==
    ASSUME NEW s, NEW t, s.pc \in FactuurPC \cup {"factuur"},
           t.pc \in FactuurPC,
           t.bedrijven = s.bedrijven, t.producten = s.producten,
           t.facturen = s.facturen,
           FewerRequests(t, s) \/ FewerRegels(t, s)
    PROVE  Closer(t, s)
<1> DEFINE early == ListPC \cup {"product", "saveitem"}
<1>1. /\ s.pc \in PC /\ s.pc \notin early /\ s.pc \notin StartPC
      /\ t.pc \in PC /\ t.pc \notin early /\ t.pc \notin StartPC
  BY DEF PC, ListPC, StartPC, FactuurPC
<1>2. /\ BedrijvenLeft(t) = BedrijvenLeft(s)
      /\ ProductenLeft(t) = ProductenLeft(s)
      /\ FacturenLeft(t) = FacturenLeft(s)
  BY <1>1, Lefts
<1> QED BY <1>2, SameLists

\* The fields that leaving an iteration changes, and those it does not.
LEMMA LeaveLists ==
    ASSUME NEW s \in Local
    PROVE  /\ \A t \in {NextProduct(s), FailProduct(s)} :
                /\ t.pc = "product" /\ t.bedrijven = s.bedrijven
                /\ t.producten = s.producten \ {s.product}
           /\ \A t \in {NextFactuur(s), FailFactuur(s)} :
                /\ t.pc = "factuur" /\ t.bedrijven = s.bedrijven
                /\ t.producten = s.producten
                /\ t.facturen = s.facturen \ {s.factuur}
<1>1. /\ NextProduct(s).pc = "product"
      /\ NextProduct(s).bedrijven = s.bedrijven
      /\ NextProduct(s).producten = s.producten \ {s.product}
  BY DEF NextProduct, Local
<1>2. /\ FailProduct(s).pc = "product"
      /\ FailProduct(s).bedrijven = s.bedrijven
      /\ FailProduct(s).producten = s.producten \ {s.product}
  BY DEF NextProduct, FailProduct, Reported, Local
<1>3. /\ NextFactuur(s).pc = "factuur"
      /\ NextFactuur(s).bedrijven = s.bedrijven
      /\ NextFactuur(s).producten = s.producten
      /\ NextFactuur(s).facturen = s.facturen \ {s.factuur}
  BY DEF NextFactuur, Local
<1>4. /\ FailFactuur(s).pc = "factuur"
      /\ FailFactuur(s).bedrijven = s.bedrijven
      /\ FailFactuur(s).producten = s.producten
      /\ FailFactuur(s).facturen = s.facturen \ {s.factuur}
  BY DEF NextFactuur, FailFactuur, Reported, Local
<1> QED BY <1>1, <1>2, <1>3, <1>4

\* The company, product or invoice of an iteration is on its list.
OnList(s) ==
    /\ s.pc \in BedrijfPC => s.bedrijf \in s.bedrijven
    /\ s.pc = "saveitem" => s.product \in s.producten
    /\ s.pc \in FactuurPC => s.factuur \in s.facturen

LEMMA LeaveBedrijf ==
    ASSUME NEW s \in Local, s.pc \in PC \ StartPC, s.bedrijf \in s.bedrijven,
           NEW u \in Local, u.bedrijven = s.bedrijven, u.bedrijf \in s.bedrijven,
           NEW t \in {NextBedrijf(u), FailBedrijf(u)}
    PROVE  Closer(t, s)
<1>1. t.pc = "bedrijf" /\ t.bedrijven = s.bedrijven \ {u.bedrijf}
  BY NextPC, NextLists
<1>2. t.pc \in PC \ StartPC BY <1>1 DEF PC, StartPC
<1> QED BY <1>1, <1>2, FewerBedrijven

\* Before the first company, and after the last.
LEMMA RunCloser ==
    ASSUME ScopeInv, NEW c \in Client,
           GetDefaultDivision(c) \/ GetBedrijven(c) \/ Finish(c)
    PROVE  Closer(sync'[c], sync[c])
<1> DEFINE s == sync[c]
           t == sync'[c]
<1>1. s \in Local /\ (\A x : Become(c, x) => sync'[c] = x)
  BY DEF ScopeInv, Become
<1>2. CASE GetDefaultDivision(c)
  <2>1. PICK d \in {DefaultDivision, None} :
          t = [s EXCEPT !.pc = "bedrijven", !.division = d]
    BY <1>1, <1>2 DEF GetDefaultDivision
  <2>2. s.pc = "me" /\ t.pc = "bedrijven"
    BY <1>1, <1>2, <2>1 DEF GetDefaultDivision, At, Local
  <2> HIDE DEF s, t
  <2>3. /\ s.pc \in PC /\ s.pc \in StartPC /\ s.pc \in ListPC
        /\ t.pc \in PC /\ t.pc \in StartPC /\ t.pc \in ListPC
    BY <2>2 DEF PC, StartPC, ListPC
  <2>4. /\ BedrijvenLeft(t) = BedrijvenLeft(s)
        /\ ProductenLeft(t) = ProductenLeft(s)
        /\ FacturenLeft(t) = FacturenLeft(s)
    BY <2>3, Lefts
  <2>5. Closer(t, s) BY <2>2, <2>4, Onwards, SameLists
  <2> QED BY <2>5 DEF s, t
<1>3. CASE GetBedrijven(c)
  <2> DEFINE u == [s EXCEPT !.pc = "bedrijf"]
             v == Reported(u, "run", None)
  <2>1. \/ t = [u EXCEPT !.bedrijven = Bedrijf]
        \/ \E bs \in {{}, Bedrijf} : t = [v EXCEPT !.bedrijven = bs]
    BY <1>1, <1>3 DEF GetBedrijven
  <2>2. s.pc = "bedrijven" BY <1>3 DEF GetBedrijven, At
  <2> HIDE DEF s, t
  <2>3. t.pc = "bedrijf" /\ t.bedrijven \subseteq Bedrijf
    <3>1. CASE t = [u EXCEPT !.bedrijven = Bedrijf]
      BY <1>1, <3>1 DEF Local
    <3>2. ASSUME NEW bs \in {{}, Bedrijf}, t = [v EXCEPT !.bedrijven = bs]
          PROVE  t.pc = "bedrijf" /\ t.bedrijven \subseteq Bedrijf
      BY <1>1, <3>2 DEF Local, Reported
    <3> QED BY <2>1, <3>1, <3>2
  <2>4. /\ s.pc \in PC /\ s.pc \in StartPC /\ s.pc \in ListPC
        /\ t.pc \in PC /\ t.pc \notin StartPC /\ t.pc \in ListPC
    BY <2>2, <2>3 DEF PC, StartPC, ListPC
  <2>5. /\ BedrijvenLeft(s) = Bedrijf /\ BedrijvenLeft(t) = t.bedrijven
        /\ ProductenLeft(t) = ProductenLeft(s)
        /\ FacturenLeft(t) = FacturenLeft(s)
    BY <2>4, Lefts
  <2>6. FewerRequests(t, s) BY <2>2, <2>3, Onwards
  <2>7. Closer(t, s) BY <2>3, <2>5, <2>6 DEF Closer, Fewer
  <2> QED BY <2>7 DEF s, t
<1>4. CASE Finish(c)
  <2>1. s.pc = "bedrijf" /\ s.bedrijven = {} /\ t = Idle
    BY <1>1, <1>4 DEF Finish, At
  <2>2. /\ t.pc = "idle" /\ t.bedrijven = {} /\ t.producten = {}
        /\ t.facturen = {}
    BY <2>1 DEF Idle
  <2> HIDE DEF s, t
  <2>3. /\ s.pc \in PC /\ s.pc \notin StartPC /\ s.pc \in ListPC
        /\ t.pc \in PC /\ t.pc \notin StartPC
        /\ t.pc \notin ListPC \cup {"product", "saveitem"}
    BY <2>1, <2>2 DEF PC, StartPC, ListPC
  <2>4. /\ BedrijvenLeft(t) = BedrijvenLeft(s)
        /\ ProductenLeft(t) = {} /\ FacturenLeft(t) = {}
    BY <2>1, <2>2, <2>3, Lefts
  <2>5. FewerRequests(t, s) BY <2>1, <2>2, Onwards
  <2>6. Closer(t, s) BY <2>4, <2>5 DEF Closer, Fewer
  <2> QED BY <2>6 DEF s, t
<1> QED BY <1>2, <1>3, <1>4

\* The steps of syncBedrijf, but for its invoices.
LEMMA BedrijfCloser ==
    ASSUME ScopeInv, NEW c \in Client, OnList(sync[c]),
           \/ \E b \in Bedrijf : SetDivision(c, b)
           \/ FindPaymentCondition(c)
           \/ GetRecrasVATCodes(c)
           \/ GetAllProducten(c)
           \/ \E p \in Product : SyncProduct(c, p)
           \/ SaveItem(c)
           \/ GetFacturen(c)
           \/ FinishBedrijf(c)
    PROVE  Closer(sync'[c], sync[c])
<1> DEFINE s == sync[c]
           t == sync'[c]
<1>1. /\ s \in Local /\ s.pc \in PC /\ (\A x : Become(c, x) => sync'[c] = x)
      /\ OnList(s)
  BY DEF ScopeInv, Become, Local
<1>2. ASSUME s.pc \in BedrijfPC, t \in {NextBedrijf(s), FailBedrijf(s)}
      PROVE  Closer(t, s)
  <2>1. s.pc \in PC \ StartPC /\ s.bedrijf \in s.bedrijven
    BY <1>1, <1>2 DEF OnList, BedrijfPC, FactuurPC, StartPC
  <2> QED BY <1>1, <1>2, <2>1, LeaveBedrijf
\* On to the next request, before there is a list of products.
<1>3. ASSUME s.pc \in {"bedrijf", "payment", "vat", "producten"},
             t.pc \in {"payment", "vat", "producten", "product"},
             t.bedrijven = s.bedrijven,
             t.pc = "product" => t.producten = Product,
             FewerRequests(t, s)
      PROVE  Closer(t, s)
  <2> HIDE DEF s, t
  <2>1. /\ s.pc \in PC /\ s.pc \notin StartPC /\ s.pc \in ListPC
        /\ t.pc \in PC /\ t.pc \notin StartPC
        /\ t.pc \in ListPC \/ t.pc = "product"
        /\ t.pc \in ListPC \cup {"product", "saveitem"}
        /\ "product" \notin ListPC
    BY <1>3 DEF PC, StartPC, ListPC
  <2>2. /\ BedrijvenLeft(t) = BedrijvenLeft(s)
        /\ ProductenLeft(t) = ProductenLeft(s)
        /\ FacturenLeft(t) = FacturenLeft(s)
    BY <1>3, <2>1, Lefts
  <2> QED BY <1>3, <2>2, SameLists
<1>4. ASSUME NEW b \in Bedrijf, SetDivision(c, b) PROVE Closer(t, s)
  <2> DEFINE u == [s EXCEPT !.bedrijf = b]
             v == [u EXCEPT !.pc = "payment", !.division = DivisionOf[b]]
  <2>1. s.pc = "bedrijf" /\ b \in s.bedrijven /\ (t = v \/ t = FailBedrijf(u))
    BY <1>1, <1>4 DEF SetDivision, At
  <2>2. /\ u \in Local /\ u.bedrijf = b /\ u.bedrijven = s.bedrijven
        /\ v.pc = "payment" /\ v.bedrijven = s.bedrijven
    BY <1>1 DEF Local
  <2> HIDE DEF u, v
  <2>3. CASE t = v
    <3>1. FewerRequests(t, s) BY <2>1, <2>2, <2>3, Onwards
    <3> QED BY <1>3, <2>1, <2>2, <2>3, <3>1
  <2>4. CASE t = FailBedrijf(u)
    <3>1. s.pc \in PC \ StartPC BY <1>1, <2>1 DEF StartPC
    <3>2. t.pc = "bedrijf" /\ t.bedrijven = s.bedrijven \ {b}
      BY <2>2, <2>4, NextPC, NextLists
    <3>3. t.pc \in PC \ StartPC BY <3>2 DEF PC, StartPC
    <3> HIDE DEF s, t
    <3> QED BY <2>1, <3>1, <3>2, <3>3, FewerBedrijven
  <2> QED BY <2>1, <2>3, <2>4
<1>5. CASE FindPaymentCondition(c)
  <2> DEFINE u == [s EXCEPT !.pc = "vat"]
  <2>1. s.pc = "payment" BY <1>5 DEF FindPaymentCondition, At
  <2>2. t = u \/ t = FailBedrijf(s) BY <1>1, <1>5 DEF FindPaymentCondition
  <2>3. u.pc = "vat" /\ u.bedrijven = s.bedrijven BY <1>1 DEF Local
  <2> HIDE DEF u
  <2>4. CASE t = u
    <3>1. FewerRequests(t, s) BY <2>1, <2>3, <2>4, Onwards
    <3> QED BY <1>3, <2>1, <2>3, <2>4, <3>1
  <2> QED BY <1>2, <2>1, <2>2, <2>4 DEF BedrijfPC
<1>6. CASE GetRecrasVATCodes(c)
  <2> DEFINE u == [s EXCEPT !.pc = "producten",
                            !.btw = setup[s.division].btw]
  <2>1. s.pc = "vat" BY <1>6 DEF GetRecrasVATCodes, At
  <2>2. t = u \/ t = FailBedrijf(s) BY <1>1, <1>6 DEF GetRecrasVATCodes
  <2>3. u.pc = "producten" /\ u.bedrijven = s.bedrijven BY <1>1 DEF Local
  <2> HIDE DEF u
  <2>4. CASE t = u
    <3>1. FewerRequests(t, s) BY <2>1, <2>3, <2>4, Onwards
    <3> QED BY <1>3, <2>1, <2>3, <2>4, <3>1
  <2> QED BY <1>2, <2>1, <2>2, <2>4 DEF BedrijfPC
<1>7. CASE GetAllProducten(c)
  <2> DEFINE u == [s EXCEPT !.pc = "product", !.producten = Product]
  <2>1. s.pc = "producten" BY <1>7 DEF GetAllProducten, At
  <2>2. t = u \/ t = FailBedrijf(s) BY <1>1, <1>7 DEF GetAllProducten
  <2>3. u.pc = "product" /\ u.bedrijven = s.bedrijven /\ u.producten = Product
    BY <1>1 DEF Local
  <2> HIDE DEF u
  <2>4. CASE t = u
    <3>1. FewerRequests(t, s) BY <2>1, <2>3, <2>4, Onwards
    <3> QED BY <1>3, <2>1, <2>3, <2>4, <3>1
  <2> QED BY <1>2, <2>1, <2>2, <2>4 DEF BedrijfPC
<1>8. ASSUME NEW p \in Product, SyncProduct(c, p) PROVE Closer(t, s)
  <2> DEFINE u == [s EXCEPT !.product = p]
             v == [u EXCEPT !.pc = "saveitem"]
  <2>1. s.pc = "product" /\ p \in s.producten BY <1>8 DEF SyncProduct, At
  <2>2. t = NextProduct(u) \/ t = v \/ t = FailProduct(u)
    <3>1. PICK r \in ItemReplies(u.division, p) :
            Become(c, CASE r \in GL -> NextProduct(u)
                        [] r = "notfound" -> v
                        [] r = "error" -> FailProduct(u))
      BY <1>8 DEF SyncProduct
    <3>2. r \in GL \cup {"notfound", "error"}
      BY <3>1 DEF ItemReplies, Faults
    <3> HIDE DEF u, v
    <3> QED BY <1>1, <3>1, <3>2 DEF GL
  <2>3. /\ u \in Local /\ u.bedrijven = s.bedrijven
        /\ u.producten = s.producten /\ u.product = p
        /\ v.pc = "saveitem" /\ v.bedrijven = s.bedrijven
        /\ v.producten = s.producten
    BY <1>1 DEF Local
  <2> HIDE DEF u, v
  <2>4. CASE t = v
    <3>1. /\ s.pc \in PC /\ s.pc \notin StartPC /\ s.pc \notin ListPC
          /\ t.pc \in PC /\ t.pc \notin StartPC /\ t.pc \notin ListPC
          /\ s.pc \in ListPC \cup {"product", "saveitem"}
          /\ t.pc \in ListPC \cup {"product", "saveitem"}
      BY <2>1, <2>3, <2>4 DEF PC, StartPC, ListPC
    <3>2. FewerRequests(t, s) BY <2>1, <2>3, <2>4, Onwards
    <3> HIDE DEF s, t
    <3>3. /\ BedrijvenLeft(t) = BedrijvenLeft(s)
          /\ ProductenLeft(t) = ProductenLeft(s)
          /\ FacturenLeft(t) = FacturenLeft(s)
      BY <2>3, <2>4, <3>1, Lefts
    <3> QED BY <3>2, <3>3, SameLists
  <2>5. CASE t \in {NextProduct(u), FailProduct(u)}
    <3>1. /\ t.pc = "product" /\ t.bedrijven = s.bedrijven
          /\ t.producten = s.producten \ {p}
      BY <2>3, <2>5, LeaveLists
    <3> HIDE DEF s, t
    <3> QED BY <2>1, <3>1, FewerProducten
  <2> QED BY <2>2, <2>4, <2>5
<1>9. CASE SaveItem(c)
  <2>1. s.pc = "saveitem" BY <1>9 DEF SaveItem, At
  <2>2. t \in {NextProduct(s), FailProduct(s)} BY <1>1, <1>9 DEF SaveItem
  <2>3. s.product \in s.producten BY <1>1, <2>1 DEF OnList
  <2>4. /\ t.pc = "product" /\ t.bedrijven = s.bedrijven
        /\ t.producten = s.producten \ {s.product}
    BY <1>1, <2>2, LeaveLists
  <2> HIDE DEF s, t
  <2>5. Closer(t, s) BY <2>1, <2>3, <2>4, FewerProducten
  <2> QED BY <2>5 DEF s, t
<1>10. CASE GetFacturen(c)
  <2> DEFINE fs == {f \in sent : BedrijfOf[f] = s.bedrijf}
             u  == [s EXCEPT !.pc = "factuur", !.facturen = fs]
  <2>1. s.pc = "product" /\ s.producten = {} /\ (t = u \/ t = FailBedrijf(s))
    BY <1>1, <1>10 DEF GetFacturen, At
  <2>2. fs \subseteq Factuur BY DEF ScopeInv
  <2> HIDE DEF fs
  <2>3. /\ u.pc = "factuur" /\ u.bedrijven = s.bedrijven
        /\ u.producten = s.producten /\ u.facturen = fs
    BY <1>1 DEF Local
  <2> HIDE DEF u
  <2>4. CASE t = u
    <3>1. /\ s.pc \in PC /\ s.pc \notin StartPC /\ s.pc \notin ListPC
          /\ t.pc \in PC /\ t.pc \notin StartPC /\ t.pc \notin ListPC
          /\ s.pc \in ListPC \cup {"product", "saveitem"}
          /\ t.pc \notin ListPC \cup {"product", "saveitem"}
      BY <2>1, <2>3, <2>4 DEF PC, StartPC, ListPC
    <3>2. FewerRequests(t, s) BY <2>1, <2>3, <2>4, Onwards
    <3> HIDE DEF s, t
    <3>3. /\ BedrijvenLeft(t) = BedrijvenLeft(s)
          /\ ProductenLeft(t) = ProductenLeft(s)
          /\ FacturenLeft(t) = fs /\ FacturenLeft(s) = Factuur
      BY <2>3, <2>4, <3>1, Lefts
    <3>4. Closer(t, s) BY <2>2, <3>2, <3>3 DEF Closer, Fewer
    <3> QED BY <3>4 DEF s, t
  <2> QED BY <1>2, <2>1, <2>4 DEF BedrijfPC
<1>11. CASE FinishBedrijf(c)
  <2>1. s.pc = "factuur" /\ t = NextBedrijf(s)
    BY <1>1, <1>11 DEF FinishBedrijf, At
  <2> QED BY <1>2, <2>1 DEF BedrijfPC
<1> QED BY <1>4, <1>5, <1>6, <1>7, <1>8, <1>9, <1>10, <1>11

\* The requests of syncFactuur for one invoice: the next one, the next line,
\* or the end of it.
LEMMA InvoiceCloser ==
    ASSUME ScopeInv, NEW c \in Client,
           InvoiceStep(c) \/ SkipWithoutLines(c) \/ SaveSalesEntry(c)
    PROVE  Closer(sync'[c], sync[c])
<1> DEFINE s == sync[c]
           t == sync'[c]
<1>1. /\ s \in Local /\ Scope(s) /\ (\A x : Become(c, x) => sync'[c] = x)
      /\ s.pc \in FactuurPC => s.factuur \in s.facturen
  BY DEF ScopeInv, Become, Scope, FactuurScope
<1>2. ASSUME s.pc \in FactuurPC, t \in {NextFactuur(s), FailFactuur(s)}
      PROVE  Closer(t, s)
  <2>1. /\ t.pc = "factuur" /\ t.bedrijven = s.bedrijven
        /\ t.producten = s.producten
        /\ t.facturen = s.facturen \ {s.factuur}
    BY <1>1, <1>2, LeaveLists
  <2>2. s.factuur \in s.facturen BY <1>1, <1>2
  <2> HIDE DEF s, t
  <2> QED BY <1>2, <2>1, <2>2, FewerFacturen
<1>3. ASSUME s.pc \in FactuurPC, NEW label \in FactuurPC,
             t.pc = label, FewerRequests(t, s),
             t.bedrijven = s.bedrijven, t.producten = s.producten,
             t.facturen = s.facturen
      PROVE  Closer(t, s)
  BY <1>3, SameFactuur
<1>4. CASE ConvertRegel(c)
  <2> DEFINE next == [s EXCEPT !.regel = s.regel + 1]
             more == [next EXCEPT !.lines = next.lines \cup {s.regel}]
  <2>1. /\ s.pc = "regel" /\ s.regel <= Len(Regels[s.factuur])
        /\ t = FailFactuur(s) \/ t = next \/ t = more
    BY <1>1, <1>4 DEF ConvertRegel, At
  <2>2. s.factuur \in Factuur /\ s.regel \in Nat
    BY <1>1, <2>1 DEF Local, Scope, FactuurScope, LinesScope, FactuurPC
  <2>3. Len(Regels[s.factuur]) \in Nat BY <2>2, RecrasAssumption
  <2>4. ASSUME NEW u \in {next, more}
        PROVE  /\ u.pc = "regel" /\ u.regel = s.regel + 1
               /\ u.factuur = s.factuur /\ u.bedrijven = s.bedrijven
               /\ u.producten = s.producten /\ u.facturen = s.facturen
    <3>1. u = next \/ u = more OBVIOUS
    <3>2. /\ next.pc = "regel" /\ next.regel = s.regel + 1
          /\ next.factuur = s.factuur /\ next.bedrijven = s.bedrijven
          /\ next.producten = s.producten /\ next.facturen = s.facturen
      BY <1>1, <2>1 DEF Local
    <3>3. /\ more.pc = "regel" /\ more.regel = s.regel + 1
          /\ more.factuur = s.factuur /\ more.bedrijven = s.bedrijven
          /\ more.producten = s.producten /\ more.facturen = s.facturen
      BY <1>1, <2>1 DEF Local
    <3> HIDE DEF next, more
    <3> QED BY <3>1, <3>2, <3>3
  <2> HIDE DEF next, more
  <2>5. CASE t \in {next, more}
    <3>1. FewerRegels(t, s) BY <2>1, <2>2, <2>3, <2>4, <2>5 DEF FewerRegels
    <3>2. s.pc \in FactuurPC /\ t.pc \in FactuurPC
      BY <2>1, <2>4, <2>5 DEF FactuurPC
    <3> QED BY <2>4, <2>5, <3>1, <3>2, SameFactuur
  <2> QED BY <1>2, <2>1, <2>5 DEF FactuurPC
<1>5. CASE FindAccount(c)
  <2>1. /\ s.pc = "regel"
        /\ \/ t = [s EXCEPT !.pc = "doctype", !.cust = Klantvan(s)]
           \/ t = [s EXCEPT !.pc = "klant"]
           \/ t = FailFactuur(s)
    <3>1. s.pc = "regel" BY <1>5 DEF FindAccount, LinesConverted, At
    <3>2. PICK r \in AccountReplies(s.division, Klantvan(s)) :
            t = CASE r = "found" ->
                       [s EXCEPT !.pc = "doctype", !.cust = Klantvan(s)]
                  [] r = "notfound" -> [s EXCEPT !.pc = "klant"]
                  [] r = "error" -> FailFactuur(s)
      BY <1>1, <1>5 DEF FindAccount
    <3>3. r \in {"found", "notfound", "error"}
      BY <3>2 DEF AccountReplies, Found, Faults
    <3> HIDE DEF s, t
    <3> QED BY <3>1, <3>2, <3>3
  <2>2. \/ t = FailFactuur(s)
        \/ /\ t.pc \in {"doctype", "klant"} /\ t.bedrijven = s.bedrijven
           /\ t.producten = s.producten /\ t.facturen = s.facturen
    BY <1>1, <2>1 DEF Local
  <2> QED BY <1>2, <1>3, <2>1, <2>2, Onwards DEF FactuurPC
<1>6. CASE SyncKlant(c)
  <2>1. /\ s.pc = "klant"
        /\ \/ t = [s EXCEPT !.pc = "saveklant"]
           \/ t = [s EXCEPT !.pc = "refind"]
    BY <1>1, <1>6 DEF SyncKlant, At
  <2>2. /\ t.pc \in {"saveklant", "refind"} /\ t.bedrijven = s.bedrijven
        /\ t.producten = s.producten /\ t.facturen = s.facturen
    BY <1>1, <2>1 DEF Local
  <2> QED BY <1>3, <2>1, <2>2, Onwards DEF FactuurPC
<1>7. CASE SaveAccount(c)
  <2>1. /\ s.pc = "saveklant"
        /\ t = [s EXCEPT !.pc = "refind"] \/ t = FailFactuur(s)
    BY <1>1, <1>7 DEF SaveAccount, At
  <2>2. \/ t = FailFactuur(s)
        \/ /\ t.pc = "refind" /\ t.bedrijven = s.bedrijven
           /\ t.producten = s.producten /\ t.facturen = s.facturen
    BY <1>1, <2>1 DEF Local
  <2> QED BY <1>2, <1>3, <2>1, <2>2, Onwards DEF FactuurPC
<1>8. CASE RefindAccount(c)
  <2>1. /\ s.pc = "refind"
        /\ \E k : t = [s EXCEPT !.pc = "doctype", !.cust = k]
    BY <1>1, <1>8 DEF RefindAccount, At
  <2>2. /\ t.pc = "doctype" /\ t.bedrijven = s.bedrijven
        /\ t.producten = s.producten /\ t.facturen = s.facturen
    BY <1>1, <2>1 DEF Local
  <2> QED BY <1>3, <2>1, <2>2, Onwards DEF FactuurPC
<1>9. CASE FindDocumentType(c)
  <2>1. /\ s.pc = "doctype"
        /\ \/ t = [s EXCEPT !.pc = "document"]
           \/ t = [s EXCEPT !.pc = "save"]
    BY <1>1, <1>9 DEF FindDocumentType, At
  <2>2. /\ t.pc \in {"document", "save"} /\ t.bedrijven = s.bedrijven
        /\ t.producten = s.producten /\ t.facturen = s.facturen
    BY <1>1, <2>1 DEF Local
  <2> QED BY <1>3, <2>1, <2>2, Onwards DEF FactuurPC
<1>10. CASE SaveDocument(c)
  <2>1. /\ s.pc = "document"
        /\ t = [s EXCEPT !.pc = "pdf"] \/ t = [s EXCEPT !.pc = "save"]
    BY <1>1, <1>10 DEF SaveDocument, At
  <2>2. /\ t.pc \in {"pdf", "save"} /\ t.bedrijven = s.bedrijven
        /\ t.producten = s.producten /\ t.facturen = s.facturen
    BY <1>1, <2>1 DEF Local
  <2> QED BY <1>3, <2>1, <2>2, Onwards DEF FactuurPC
<1>11. CASE AttachPDF(c)
  <2> DEFINE u == [s EXCEPT !.pc = "save"]
             v == [u EXCEPT !.doc = <<u.factuur, u.cust>>]
  <2>1. s.pc = "pdf" /\ (t = u \/ t = v)
    BY <1>1, <1>11 DEF AttachPDF, At
  <2>2. /\ u.pc = "save" /\ u.bedrijven = s.bedrijven
        /\ u.producten = s.producten /\ u.facturen = s.facturen
        /\ v.pc = "save" /\ v.bedrijven = s.bedrijven
        /\ v.producten = s.producten /\ v.facturen = s.facturen
    BY <1>1 DEF Local
  <2> HIDE DEF u, v
  <2> QED BY <1>3, <2>1, <2>2, Onwards DEF FactuurPC
<1>12. CASE SkipWithoutLines(c)
  BY <1>1, <1>2, <1>12 DEF SkipWithoutLines, LinesConverted, At, FactuurPC
<1>13. CASE SaveSalesEntry(c)
  <2>1. s.pc = "save" /\ (t = NextFactuur(s) \/ t = FailFactuur(s))
    BY <1>1, <1>13 DEF SaveSalesEntry, At
  <2> QED BY <1>2, <2>1 DEF FactuurPC
<1> QED
  BY <1>4, <1>5, <1>6, <1>7, <1>8, <1>9, <1>10, <1>11, <1>12, <1>13
  DEF InvoiceStep

\* An invoice that is found is off the list, the others are begun.
LEMMA FindSalesEntryCloser ==
    ASSUME ScopeInv, NEW c \in Client, NEW f \in Factuur,
           FindSalesEntry(c, f)
    PROVE  Closer(sync'[c], sync[c])
<1> DEFINE s == sync[c]
           t == sync'[c]
           u == [s EXCEPT !.factuur = f]
           v == [s EXCEPT !.factuur = f, !.pc = "regel", !.regel = 1]
<1>1. /\ s \in Local /\ s.pc = "factuur" /\ f \in s.facturen /\ u \in Local
      /\ t = NextFactuur(u) \/ t = v \/ t = FailFactuur(u)
  BY FindSalesEntryCases DEF ScopeInv
<1>2. /\ u.factuur = f /\ u.bedrijven = s.bedrijven
      /\ u.producten = s.producten /\ u.facturen = s.facturen
      /\ v.pc = "regel" /\ v.bedrijven = s.bedrijven
      /\ v.producten = s.producten /\ v.facturen = s.facturen
  BY <1>1 DEF Local
<1> HIDE DEF u, v
<1>3. CASE t = v
  BY <1>1, <1>2, <1>3, Onwards, SameFactuur DEF FactuurPC
<1>4. CASE t \in {NextFactuur(u), FailFactuur(u)}
  <2>1. /\ t.pc = "factuur" /\ t.bedrijven = s.bedrijven
        /\ t.producten = s.producten /\ t.facturen = s.facturen \ {f}
    BY <1>1, <1>2, <1>4, LeaveLists
  <2> HIDE DEF s, t
  <2>2. Closer(t, s) BY <1>1, <2>1, FewerFacturen
  <2> QED BY <2>2 DEF s, t
<1> QED BY <1>1, <1>3, <1>4

\* Any request of a run leaves it less to do.
LEMMA StepCloser ==
    ASSUME ScopeInv, NEW c \in Client, OnList(sync[c]), Step(c)
    PROVE  Closer(sync'[c], sync[c])
  BY RunCloser, BedrijfCloser, InvoiceCloser, FindSalesEntryCloser
  DEF Step, InvoiceStep

\* Only SyncProduct begins to save an item, and it takes one off the list.
ProductOnList ==
    \A c \in Client :
      sync[c].pc = "saveitem" => sync[c].product \in sync[c].producten

LEMMA StepProductOnList ==
    ASSUME ScopeInv, NEW c \in Client, SyncRecras(c) \/ Step(c),
           sync'[c].pc = "saveitem"
    PROVE  sync'[c].product \in sync'[c].producten
<1>1. PICK p \in Product : SyncProduct(c, p) BY StepPC DEF Step
<1> DEFINE s == sync[c]
           u == [s EXCEPT !.product = p]
           v == [u EXCEPT !.pc = "saveitem"]
<1>2. s \in Local /\ (\A x : Become(c, x) => sync'[c] = x)
  BY DEF ScopeInv, Become
<1>3. u \in Local BY <1>2 DEF Local
<1>4. p \in s.producten BY <1>1 DEF SyncProduct
<1>5. v.product = p /\ v.producten = s.producten BY <1>2 DEF Local
<1>6. sync'[c] = NextProduct(u) \/ sync'[c] = v \/ sync'[c] = FailProduct(u)
  <2>1. PICK r \in ItemReplies(u.division, p) :
          Become(c, CASE r \in GL -> NextProduct(u)
                      [] r = "notfound" -> v
                      [] r = "error" -> FailProduct(u))
    BY <1>1 DEF SyncProduct
  <2>2. r \in GL \cup {"notfound", "error"}
    BY <2>1 DEF ItemReplies, Faults
  <2> HIDE DEF u, v
  <2> QED BY <1>2, <2>1, <2>2 DEF GL
<1> HIDE DEF s, u, v
<1>7. sync'[c] = v BY <1>3, <1>6, NextPC
<1> QED BY <1>4, <1>5, <1>7

LEMMA ProductOnListNext ==
    ScopeInv /\ ProductOnList /\ [Next]_vars => ProductOnList'
<1> SUFFICES ASSUME ScopeInv, ProductOnList, [Next]_vars
             PROVE  ProductOnList'
  OBVIOUS
<1>1. ASSUME NEW c \in Client, SyncRecras(c) \/ Step(c)
      PROVE  ProductOnList'
  <2>1. \A o \in Client : o # c => sync'[o] = sync[o]
    <3>1. PICK t : Become(c, t) BY <1>1, StepScope
    <3> QED BY <3>1 DEF Become, ScopeInv
  <2>2. sync'[c].pc = "saveitem" => sync'[c].product \in sync'[c].producten
    BY <1>1, StepProductOnList
  <2> QED BY <2>1, <2>2 DEF ProductOnList
<1>2. CASE Crash
  <2>1. \A o \in Client : sync'[o] = Idle BY <1>2 DEF Crash
  <2> QED BY <2>1, IdleFollows DEF ProductOnList
<1>3. CASE sync' = sync BY <1>3 DEF ProductOnList
<1>4. ASSUME NEW f \in Factuur, Send(f) PROVE sync' = sync
  BY <1>4 DEF Send
<1>5. CASE ExactEnv /\ UNCHANGED <<sent, sync>> BY <1>3, <1>5
<1>6. CASE UNCHANGED vars BY <1>3, <1>6 DEF vars
<1> QED BY <1>1, <1>2, <1>3, <1>4, <1>5, <1>6 DEF Next, Environment

\* No run takes up twice what it has had: for any number of clients, and of
\* companies, products, invoices and lines, whatever the replies, every
\* request makes what a run has left smaller (synctool.go:25-207).
THEOREM RunsProgressCorrect == Spec => RunsProgress
<1> DEFINE Progress ==
             \A c \in Client : Step(c) => Closer(sync'[c], sync[c])
<1>1. Init => ScopeInv /\ FollowInv /\ ProductOnList
  BY ScopeInvInit, FollowInvInit, IdleFollows DEF Init, ProductOnList
<1>2. ScopeInv /\ FollowInv /\ ProductOnList /\ [Next]_vars
        => (ScopeInv /\ FollowInv /\ ProductOnList)'
  BY ScopeInvNext, FollowInvNext, ProductOnListNext
<1>3. ScopeInv /\ FollowInv /\ ProductOnList => Progress
  <2> SUFFICES ASSUME ScopeInv, FollowInv, ProductOnList,
                      NEW c \in Client, Step(c)
               PROVE  Closer(sync'[c], sync[c])
    OBVIOUS
  <2>1. sync[c].pc \in FactuurPC => sync[c].factuur \in sync[c].facturen
    BY DEF ScopeInv, Scope, FactuurScope
  <2>2. OnList(sync[c])
    BY <2>1 DEF FollowInv, Follows, ProductOnList, OnList
  <2> QED BY <2>2, StepCloser
<1>4. Spec => [][Progress]_vars
  <2>1. ScopeInv /\ FollowInv /\ ProductOnList /\ [Next]_vars => [Progress]_vars
    BY <1>3
  <2> HIDE DEF Progress
  <2> QED BY <1>1, <1>2, <2>1, PTL DEF Spec
<1> QED BY <1>4 DEF RunsProgress

-----------------------------------------------------------------------------
(* Closer is well founded.                                                 *)
(*                                                                         *)
(* Of any runs one has least left: take those with the smallest list of    *)
(* companies, of these those with the smallest list of products, and so on *)
(* down to the places and the lines.                                       *)

\* The local states of a run that is at an invoice when it is at its lines.
Located == {s \in Local : s.pc = "regel" => s.factuur \in Factuur}

CloserOn == {ss \in Located \X Located : Closer(ss[1], ss[2])}

LEMMA LeastSet ==
    ASSUME NEW S, IsFiniteSet(S), NEW T \in SUBSET SUBSET S, T # {}
    PROVE  \E x \in T : \A y \in T : ~Fewer(y, x)
<1> DEFINE R == StrictSubsetOrdering(S)
<1>1. IsWellFoundedOn(R, SUBSET S)
  BY FS_StrictSubsetOrderingWellFounded, FS_FiniteSubsetsOfFinite
<1>2. \A x, y \in SUBSET S : <<y, x>> \in R <=> Fewer(y, x)
  BY DEF StrictSubsetOrdering, Fewer
<1> HIDE DEF R
<1>3. PICK x \in T : \A y \in T : ~(<<y, x>> \in R)
  BY <1>1, WFMin
<1> QED BY <1>2, <1>3

LEMMA LeastNumber ==
    ASSUME NEW T \in SUBSET Nat, T # {}
    PROVE  \E x \in T : \A y \in T : ~(y < x)
<1> DEFINE R == OpToRel(<, Nat)
<1>1. IsWellFoundedOn(R, Nat) BY NatLessThanWellFounded
<1>2. \A x, y \in Nat : <<y, x>> \in R <=> y < x BY DEF OpToRel
<1> HIDE DEF R
<1>3. PICK x \in T : \A y \in T : ~(<<y, x>> \in R) BY <1>1, WFMin
<1> QED BY <1>2, <1>3

\* Of some runs with the same lists, one has no request and no line less.
LEMMA LeastWork ==
    ASSUME NEW T \in SUBSET Located, T # {}
    PROVE  \E x \in T : \A y \in T : ~FewerRequests(y, x) /\ ~FewerRegels(y, x)
<1> DEFINE later(s) == 18 - Place[s.pc]
           Ns == {later(s) : s \in T}
<1>1. \A s \in T : /\ s \in Local /\ s.pc \in PC /\ later(s) \in Nat
                   /\ Place[s.pc] \in 1 .. 18
  <2>1. \A s \in T : s \in Local /\ s.pc \in PC BY DEF Located, Local
  <2>2. \A pc \in PC : Place[pc] \in 1 .. 18 BY DEF PC, Place
  <2> QED BY <2>1, <2>2
<1>2. PICK n \in Ns : \A m \in Ns : ~(m < n)
  <2>1. Ns \in SUBSET Nat /\ Ns # {} BY <1>1
  <2> QED BY <2>1, LeastNumber
<1>3. PICK a \in T : later(a) = n BY <1>2
<1>4. ASSUME NEW x \in T, NEW y \in T, later(x) = n
      PROVE  ~FewerRequests(y, x)
  <2>1. ~(later(y) < later(x)) BY <1>2, <1>4
  <2>2. Place[x.pc] \in Int /\ Place[y.pc] \in Int BY <1>1
  <2> QED BY <2>1, <2>2 DEF FewerRequests
<1>5. CASE a.pc # "regel"
  <2>1. \A y : ~FewerRegels(y, a) BY <1>5 DEF FewerRegels
  <2> QED BY <1>3, <1>4, <2>1
<1>6. CASE a.pc = "regel"
  <2> DEFINE L == Len(Regels[a.factuur])
             U == {s \in T : s.pc = "regel" /\ s.factuur = a.factuur}
             left(s) == IF s.regel <= L + 1 THEN L + 1 - s.regel ELSE 0
             Ls == {left(s) : s \in U}
  <2>1. L \in Nat
    <3>1. a.factuur \in Factuur BY <1>6 DEF Located
    <3> QED BY <3>1, RecrasAssumption
  <2>2. \A s \in U : s.regel \in Nat BY <1>1 DEF Local
  <2> HIDE DEF L
  <2>3. \A s \in U : left(s) \in Nat BY <2>1, <2>2
  <2>4. PICK k \in Ls : \A m \in Ls : ~(m < k)
    <3>1. a \in U BY <1>6
    <3> HIDE DEF U
    <3>2. Ls \in SUBSET Nat /\ Ls # {} BY <2>3, <3>1
    <3> QED BY <3>2, LeastNumber
  <2>5. PICK x \in U : left(x) = k BY <2>4
  <2>6. ASSUME NEW y \in T, FewerRegels(y, x) PROVE FALSE
    <3>1. /\ y \in U /\ x.regel < y.regel /\ y.regel <= L + 1
      BY <2>5, <2>6 DEF FewerRegels, L
    <3>2. left(y) < left(x) BY <2>1, <2>2, <2>5, <3>1
    <3>3. left(y) \in Ls BY <3>1
    <3> HIDE DEF left, Ls, U
    <3> QED BY <2>4, <2>5, <3>2, <3>3
  <2>7. later(x) = n BY <1>3, <1>6, <2>5
  <2>8. x \in T BY <2>5
  <2> QED BY <1>4, <2>6, <2>7, <2>8
<1> QED BY <1>5, <1>6

LEMMA LeftSubsets ==
    ASSUME NEW s \in Local
    PROVE  /\ BedrijvenLeft(s) \in SUBSET Bedrijf
           /\ ProductenLeft(s) \in SUBSET Product
           /\ FacturenLeft(s) \in SUBSET Factuur
  BY DEF Local, BedrijvenLeft, ProductenLeft, FacturenLeft

\* Of any runs one has the least left: what RunsProgress makes smaller with
\* every request cannot become smaller forever, so that a run is over after
\* finitely many, however they are answered.
THEOREM CloserWellFounded ==
    ASSUME IsFiniteSet(Bedrijf), IsFiniteSet(Product), IsFiniteSet(Factuur)
    PROVE  IsWellFoundedOn(CloserOn, Located)
<1>1. ASSUME NEW T \in SUBSET Located, T # {}
      PROVE  \E x \in T : \A y \in T : <<y, x>> \notin CloserOn
  <2>1. \A s \in T : /\ BedrijvenLeft(s) \in SUBSET Bedrijf
                     /\ ProductenLeft(s) \in SUBSET Product
                     /\ FacturenLeft(s) \in SUBSET Factuur
    BY <1>1, LeftSubsets DEF Located
  <2>2. PICK a \in T : \A y \in T : ~Fewer(BedrijvenLeft(y), BedrijvenLeft(a))
    <3> DEFINE Bs == {BedrijvenLeft(s) : s \in T}
    <3>1. Bs \in SUBSET SUBSET Bedrijf /\ Bs # {} BY <1>1, <2>1
    <3>2. PICK B \in Bs : \A C \in Bs : ~Fewer(C, B) BY <3>1, LeastSet
    <3> QED BY <3>2
  <2> DEFINE T1 == {s \in T : BedrijvenLeft(s) = BedrijvenLeft(a)}
  <2>3. PICK b \in T1 :
          \A y \in T1 : ~Fewer(ProductenLeft(y), ProductenLeft(b))
    <3> DEFINE Ps == {ProductenLeft(s) : s \in T1}
    <3>1. Ps \in SUBSET SUBSET Product /\ Ps # {} BY <2>1
    <3>2. PICK B \in Ps : \A C \in Ps : ~Fewer(C, B) BY <3>1, LeastSet
    <3> QED BY <3>2
  <2> DEFINE T2 == {s \in T1 : ProductenLeft(s) = ProductenLeft(b)}
  <2>4. PICK f \in T2 : \A y \in T2 : ~Fewer(FacturenLeft(y), FacturenLeft(f))
    <3> DEFINE Fs == {FacturenLeft(s) : s \in T2}
    <3>1. Fs \in SUBSET SUBSET Factuur /\ Fs # {} BY <2>1
    <3>2. PICK B \in Fs : \A C \in Fs : ~Fewer(C, B) BY <3>1, LeastSet
    <3> QED BY <3>2
  <2> DEFINE T3 == {s \in T2 : FacturenLeft(s) = FacturenLeft(f)}
  <2>5. PICK x \in T3 :
          \A y \in T3 : ~FewerRequests(y, x) /\ ~FewerRegels(y, x)
    <3>1. T3 \in SUBSET Located /\ T3 # {} BY <1>1
    <3> HIDE DEF T3
    <3> QED BY <3>1, LeastWork
  <2>6. ASSUME NEW y \in T, Closer(y, x) PROVE FALSE
    <3>1. ~Fewer(BedrijvenLeft(y), BedrijvenLeft(x)) BY <2>2, <2>5
    <3>2. y \in T1 BY <2>5, <2>6, <3>1 DEF Closer
    <3>3. ~Fewer(ProductenLeft(y), ProductenLeft(x)) BY <2>3, <2>5, <3>2
    <3>4. y \in T2 BY <2>5, <2>6, <3>1, <3>2, <3>3 DEF Closer
    <3>5. ~Fewer(FacturenLeft(y), FacturenLeft(x)) BY <2>4, <2>5, <3>4
    <3>6. y \in T3 BY <2>5, <2>6, <3>1, <3>3, <3>4, <3>5 DEF Closer
    <3> QED BY <2>5, <2>6, <3>1, <3>3, <3>5, <3>6 DEF Closer
  <2>7. x \in T BY <2>5
  <2>8. \A y \in T : <<y, x>> \notin CloserOn BY <2>6 DEF CloserOn
  <2> QED BY <2>7, <2>8
<1> HIDE DEF CloserOn
<1> QED BY <1>1, MinWF

\* The two together: every request goes down a well founded order.
THEOREM RunsDescend ==
    Spec => [][\A c \in Client : Step(c) => <<sync'[c], sync[c]>> \in CloserOn]_vars
<1> DEFINE Descends ==
             \A c \in Client : Step(c) => <<sync'[c], sync[c]>> \in CloserOn
           Progress ==
             \A c \in Client : Step(c) => Closer(sync'[c], sync[c])
<1>1. ScopeInv => \A c \in Client : sync[c] \in Located
  BY DEF ScopeInv, Scope, FactuurScope, FactuurPC, Local, Located
<1>2. (ScopeInv => \A c \in Client : sync[c] \in Located)'
  BY <1>1, PTL
<1>3. ScopeInv /\ ScopeInv' /\ [Progress]_vars => [Descends]_vars
  BY <1>1, <1>2 DEF CloserOn
<1>4. Spec => []ScopeInv BY ScopeCorrect
<1>5. Spec => [][Progress]_vars BY RunsProgressCorrect DEF RunsProgress
<1> HIDE DEF Descends, Progress
<1>6. Spec => [][Descends]_vars BY <1>3, <1>4, <1>5, PTL
<1> QED BY <1>6 DEF Descends

=============================================================================
