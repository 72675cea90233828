-------------------------- MODULE StatusPage_proof ---------------------------
(***************************************************************************)
(* Proofs about StatusPage, for any number of companies, divisions and     *)
(* percentages, and whatever divisions a division lists beside itself.     *)
(***************************************************************************)
EXTENDS StatusPage, TLAPS

Checking == {"group", "journal", "vat", "payment"}
Seeking  == {"system", "probe"} \cup Checking
Walking  == {"bedrijf"} \cup Seeking

\* What GetStatus has read and not assigned again, by where it is.
Scope ==
    /\ setup \in [Division -> Setup]
    /\ page \in Page
    /\ healthy \in BOOLEAN
    /\ page.pc \notin {"shown", "me"} => page.division \in Division
    /\ page.pc \in Walking => page.percentages \in {BTW, {Blank}}
    /\ IF page.pc \in Seeking THEN page.bedrijf \in page.todo
                              ELSE page.bedrijf = None

\* The companies that are still to come have no row yet; the one that is
\* being looked at has a row that says nothing.
Open ==
    /\ page.pc \in {"me", "bedrijven", "percentages"} =>
         page.rows = [b \in Bedrijf |-> Absent]
    /\ page.pc \in Walking =>
         \A b \in page.todo : /\ page.rows[b].kind = "absent"
                              /\ ~page.rows[b].everything
                              /\ b # page.bedrijf => ~page.rows[b].found
    /\ page.pc \in {"system", "probe"} => ~page.rows[page.bedrijf].found

\* Divisions that were asked in vain are none of the company's.
Search ==
    page.pc = "probe" => Divisions(VATOf[page.bedrijf]) \subseteq page.probe

\* What the checks have found in place still is, in the division they asked,
\* which is the company's if the search ended in it.
Checks ==
    page.pc \in Checking =>
      LET row == page.rows[page.bedrijf]
          d   == page.division
      IN  /\ row.found => d \in Divisions(VATOf[page.bedrijf])
          /\ page.pc # "group" /\ row.group => setup[d].group
          /\ page.pc \in {"vat", "payment"} /\ row.journal => setup[d].journal
          /\ page.pc = "payment" /\ row.vat => setup[d].btw = BTW

StatusInv ==
    Scope /\ Open /\ Search /\ Checks /\ ReadyIsTrue /\ ErrorIsTrue

-----------------------------------------------------------------------------
LEMMA AbsentType == /\ Absent \in Administration
                    /\ Absent.kind = "absent"
                    /\ ~Absent.everything /\ ~Absent.found
  BY DEF Absent, Administration

LEMMA InitStatus == Init => StatusInv
  <1>. SUFFICES ASSUME Init  PROVE StatusInv
    OBVIOUS
  <1>1. Scope
    BY AbsentType, StatusAssumption
       DEF Init, Scope, Setup, Page, Blanco, Walking, Seeking, Checking
  <1>2. Open /\ Search /\ Checks
    BY DEF Init, Open, Search, Checks, Blanco, Walking, Seeking, Checking
  <1>3. ReadyIsTrue /\ ErrorIsTrue
    BY AbsentType DEF Init, Blanco, ReadyIsTrue, ErrorIsTrue
  <1>. QED BY <1>1, <1>2, <1>3 DEF StatusInv

-----------------------------------------------------------------------------
(* The steps up to the loop over the companies.                            *)

\* A step that leaves the rows alone, or only begins to look at a company.
LEMMA SameRows ==
    ASSUME StatusInv, UNCHANGED <<setup, healthy>>, page'.rows = page.rows
    PROVE  ReadyIsTrue' /\ ErrorIsTrue'
  BY DEF StatusInv, ReadyIsTrue, ErrorIsTrue, Complete

LEMMA BeginStatus ==
    ASSUME StatusInv, GetStatus \/ GetDefaultDivision \/ GetBedrijven
                        \/ GetPercentages
    PROVE  StatusInv'
  <1>. USE DEF StatusInv, Walking, Seeking, Checking
  <1>1. CASE GetStatus
    <2>1. Scope'
      BY <1>1, AbsentType DEF Scope, GetStatus, Become, Page, Blanco
    <2>2. (Open /\ Search /\ Checks)'
      BY <1>1 DEF GetStatus, Become, Open, Search, Checks, Blanco
    <2>3. (ReadyIsTrue /\ ErrorIsTrue)'
      BY <1>1, AbsentType
      DEF GetStatus, Become, Blanco, ReadyIsTrue, ErrorIsTrue
    <2>. QED BY <2>1, <2>2, <2>3
  <1>2. CASE GetDefaultDivision
    <2>1. /\ page'.pc \in {"bedrijven", "shown"} /\ UNCHANGED <<setup, healthy>>
          /\ page' \in Page
          /\ page'.rows = page.rows /\ page'.bedrijf = page.bedrijf
          /\ page'.pc = "bedrijven" => page'.division \in Division
      <3>1. CASE Become([page EXCEPT !.pc = "bedrijven",
                                     !.division = DefaultDivision])
        BY <3>1, StatusAssumption DEF Scope, Page, Become
      <3>2. CASE Become([page EXCEPT !.pc = "shown", !.error = TRUE])
        BY <3>2 DEF Scope, Page, Become
      <3>. QED BY <1>2, <3>1, <3>2 DEF GetDefaultDivision
    <2>2. page.pc = "me"
      BY <1>2 DEF GetDefaultDivision
    <2>. QED BY <2>1, <2>2, SameRows DEF Scope, Open, Search, Checks
  <1>3. CASE GetBedrijven
    <2>1. /\ page'.pc \in {"percentages", "shown"}
          /\ UNCHANGED <<setup, healthy>>
          /\ page' \in Page
          /\ page'.rows = page.rows /\ page'.bedrijf = page.bedrijf
          /\ page'.division = page.division
      BY <1>3 DEF Scope, Page, GetBedrijven, Become
    <2>2. page.pc = "bedrijven"
      BY <1>3 DEF GetBedrijven
    <2>. QED BY <2>1, <2>2, SameRows DEF Scope, Open, Search, Checks
  <1>4. CASE GetPercentages
    <2>1. PICK ps \in {BTW, {Blank}} :
            Become([page EXCEPT !.pc = "bedrijf", !.percentages = ps])
      BY <1>4 DEF GetPercentages
    <2>2. /\ page'.pc = "bedrijf" /\ UNCHANGED <<setup, healthy>>
          /\ page' \in Page
          /\ page'.rows = page.rows /\ page'.bedrijf = page.bedrijf
          /\ page'.division = page.division /\ page'.percentages = ps
      BY <2>1 DEF Scope, Page, Become
    <2>3. /\ page.pc = "percentages" /\ page'.todo \subseteq Bedrijf
          /\ page.rows = [b \in Bedrijf |-> Absent]
      BY <1>4, <2>2 DEF GetPercentages, Open, Page
    <2>. QED BY <2>2, <2>3, SameRows, AbsentType DEF Scope, Open, Search, Checks
  <1>. QED BY <1>1, <1>2, <1>3, <1>4

-----------------------------------------------------------------------------
(* The search for the division of a company.                               *)

\* One row of the page changes.
LEMMA RowChange ==
    ASSUME NEW rows \in [Bedrijf -> Administration], NEW b \in Bedrijf,
           NEW row \in Administration
    PROVE  /\ [rows EXCEPT ![b] = row] \in [Bedrijf -> Administration]
           /\ [rows EXCEPT ![b] = row][b] = row
           /\ \A c \in Bedrijf \ {b} : [rows EXCEPT ![b] = row][c] = rows[c]
  OBVIOUS

\* What is written about one company is true if what it says is.
LEMMA RowTrue ==
    ASSUME StatusInv, UNCHANGED <<setup, healthy>>, NEW b \in Bedrijf,
           \A c \in Bedrijf \ {b} : page'.rows[c] = page.rows[c],
           page'.rows[b].everything /\ page'.rows[b].found
             => \E d \in Divisions(VATOf[b]) : Complete(d),
           page'.rows[b].kind = "error" => Divisions(VATOf[b]) = {}
    PROVE  (ReadyIsTrue /\ ErrorIsTrue)'
  <1>1. ASSUME NEW c \in Bedrijf, page'.rows[c].everything, page'.rows[c].found
        PROVE  \E d \in Divisions(VATOf[c]) : Complete(d)
    BY <1>1 DEF StatusInv, ReadyIsTrue
  <1>2. ASSUME NEW c \in Bedrijf, page'.rows[c].kind = "error"
        PROVE  Divisions(VATOf[c]) = {}
    BY <1>2 DEF StatusInv, ErrorIsTrue
  <1>3. ReadyIsTrue'
    BY <1>1 DEF ReadyIsTrue, Complete, Divisions
  <1>4. ErrorIsTrue'
    BY <1>2 DEF ErrorIsTrue, Divisions
  <1>. QED BY <1>3, <1>4

\* Of the companies in todo, only the one being looked at can have a row that
\* says something.
LEMMA Waiting ==
    ASSUME StatusInv, page.pc \in {"bedrijf", "system", "probe"},
           NEW b \in page.todo, page.pc # "bedrijf" => b = page.bedrijf
    PROVE  /\ b \in Bedrijf /\ page.todo \subseteq Bedrijf
           /\ ~page.rows[b].found
           /\ \A c \in page.todo : /\ page.rows[c].kind = "absent"
                                  /\ ~page.rows[c].everything
                                  /\ ~page.rows[c].found
  <1>1. page.todo \subseteq Bedrijf
    BY DEF StatusInv, Scope, Page
  <1>2. \A c \in page.todo : ~page.rows[c].found
    BY <1>1, StatusAssumption
       DEF StatusInv, Scope, Open, Walking, Seeking, Checking
  <1>. QED BY <1>1, <1>2 DEF StatusInv, Open, Walking, Seeking, Checking

\* The search ends in a division with the company's number.
LEMMA SearchHits ==
    ASSUME StatusInv, page.pc \in {"bedrijf", "system", "probe"},
           NEW b \in page.todo, page.pc # "bedrijf" => b = page.bedrijf,
           NEW d \in Divisions(VATOf[b]),
           page' = AfterLookup([page EXCEPT !.bedrijf = b], d),
           UNCHANGED <<setup, healthy>>
    PROVE  StatusInv'
  <1>. USE DEF StatusInv, Walking, Seeking, Checking
  <1>1. /\ d \in Division /\ b \in Bedrijf
        /\ page \in Page /\ page.rows[b] \in Administration
    BY DEF Divisions, Scope, Page
  <1>2. page' = [page EXCEPT !.bedrijf = b, !.pc = "group", !.division = d,
                   !.probe = {}, !.rows[b].found = TRUE]
    BY <1>1, StatusAssumption DEF AfterLookup, Page
  <1>. DEFINE row == [page.rows[b] EXCEPT !.found = TRUE]
  <1>3. /\ row \in Administration /\ row.found
        /\ row.kind = "absent" /\ ~row.everything
        /\ row.group = page.rows[b].group
    BY <1>1 DEF Administration, Open
  <1>4. page'.rows = [page.rows EXCEPT ![b] = row]
    BY <1>1, <1>2 DEF Page
  <1>. HIDE DEF row
  <1>5. /\ page.todo \subseteq Bedrijf
        /\ page.rows \in [Bedrijf -> Administration]
    BY <1>1 DEF Page
  <1>6. /\ page'.rows \in [Bedrijf -> Administration] /\ page'.rows[b] = row
        /\ \A c \in Bedrijf \ {b} : page'.rows[c] = page.rows[c]
    BY <1>1, <1>3, <1>4, <1>5, RowChange
  <1>7. /\ page'.pc = "group" /\ page'.bedrijf = b /\ page'.division = d
        /\ page'.todo = page.todo /\ page'.percentages = page.percentages
    BY <1>1, <1>2 DEF Page
  <1>8. page' \in Page
    BY <1>1, <1>2, <1>4, <1>6 DEF Page
  <1>9. Scope'
    BY <1>1, <1>7, <1>8 DEF Scope
  <1>10. Open'
    BY <1>3, <1>6, <1>7, Waiting DEF Open
  <1>11. (Search /\ Checks)'
    BY <1>1, <1>7 DEF Search, Checks, Divisions
  <1>12. (ReadyIsTrue /\ ErrorIsTrue)'
    BY <1>1, <1>3, <1>6, RowTrue
  <1>. QED BY <1>9, <1>10, <1>11, <1>12

\* The search is cut short by another error than ErrDivisionNotFound.
LEMMA SearchFails ==
    ASSUME StatusInv, page.pc \in {"bedrijf", "system", "probe"},
           NEW b \in page.todo, page.pc # "bedrijf" => b = page.bedrijf,
           page' = AfterLookup([page EXCEPT !.bedrijf = b], "error"),
           UNCHANGED <<setup, healthy>>
    PROVE  StatusInv'
  <1>. USE DEF StatusInv, Walking, Seeking, Checking
  <1>1. page \in Page /\ page.todo \subseteq Bedrijf
    BY DEF Scope, Page
  <1>2. page' = [page EXCEPT !.bedrijf = b, !.pc = "group", !.probe = {}]
    BY <1>1, StatusAssumption DEF AfterLookup, Page
  <1>3. /\ page'.pc = "group" /\ page'.bedrijf = b
        /\ page'.division = page.division
        /\ page'.todo = page.todo /\ page'.percentages = page.percentages
        /\ page'.rows = page.rows /\ page' \in Page
    BY <1>1, <1>2 DEF Page
  <1>4. Scope'
    BY <1>3 DEF Scope
  <1>5. Open'
    BY <1>3, Waiting DEF Open
  <1>6. (Search /\ Checks)'
    BY <1>3, Waiting DEF Search, Checks
  <1>. QED BY <1>3, <1>4, <1>5, <1>6, SameRows

LEMMA SearchStatus ==
    ASSUME StatusInv,
           \/ \E b \in Bedrijf : AskCurrentDivision(b)
           \/ GetSystemDivisions
           \/ \E d \in Division : AskDivision(d)
           \/ NoDivision
    PROVE  StatusInv'
  <1>. USE DEF StatusInv, Walking, Seeking, Checking
  <1>1. page \in Page /\ page.todo \subseteq Bedrijf
    BY DEF Scope, Page
  <1>2. page = [page EXCEPT !.bedrijf = page.bedrijf]
    BY <1>1 DEF Page
  <1>3. ASSUME NEW b \in Bedrijf, AskCurrentDivision(b)  PROVE StatusInv'
    <2>1. /\ page.pc = "bedrijf" /\ b \in page.todo
          /\ page.division \in Division
          /\ UNCHANGED <<setup, healthy>>
      BY <1>3 DEF AskCurrentDivision, Become, Scope
    <2>2. PICK r \in FindDivisionReplies(VATOf[b], page.division) :
            page' = IF r = "notfound"
                    THEN [page EXCEPT !.bedrijf = b, !.pc = "system"]
                    ELSE AfterLookup([page EXCEPT !.bedrijf = b], r)
      BY <1>1, <1>3 DEF AskCurrentDivision, Become, Page
    <2>3. CASE r = "notfound"
      <3>1. /\ page'.pc = "system" /\ page'.bedrijf = b
            /\ page'.division = page.division
            /\ page'.todo = page.todo /\ page'.percentages = page.percentages
            /\ page'.rows = page.rows /\ page' \in Page
        BY <1>1, <2>2, <2>3 DEF Page
      <3>2. Scope' /\ Search' /\ Checks'
        BY <2>1, <3>1 DEF Scope, Search, Checks
      <3>3. Open'
        BY <2>1, <3>1, Waiting DEF Open
      <3>. QED BY <2>1, <3>1, <3>2, <3>3, SameRows
    <2>4. CASE r = "error"
      BY <2>1, <2>2, <2>4, SearchFails
    <2>5. CASE r \in Divisions(VATOf[b]) /\ r # "notfound"
      BY <2>1, <2>2, <2>5, SearchHits
    <2>. QED BY <2>2, <2>3, <2>4, <2>5 DEF FindDivisionReplies
  <1>4. CASE GetSystemDivisions
    <2>1. /\ page.pc = "system" /\ page.bedrijf \in page.todo
          /\ UNCHANGED <<setup, healthy>>
      BY <1>4, StatusAssumption DEF GetSystemDivisions, Become, Scope
    <2>2. CASE Become([page EXCEPT !.pc = "probe", !.probe = Division])
      <3>1. /\ page'.pc = "probe" /\ page'.bedrijf = page.bedrijf
            /\ page'.division = page.division /\ page'.probe = Division
            /\ page'.todo = page.todo /\ page'.percentages = page.percentages
            /\ page'.rows = page.rows /\ page' \in Page
        BY <1>1, <2>2 DEF Page, Become
      <3>. QED BY <2>1, <3>1, SameRows
               DEF Scope, Open, Search, Checks, Divisions
    <2>3. CASE Become(AfterLookup(page, "error"))
      BY <1>2, <2>1, <2>3, SearchFails DEF Become
    <2>. QED BY <1>4, <2>2, <2>3 DEF GetSystemDivisions
  <1>5. ASSUME NEW d \in Division, AskDivision(d)  PROVE StatusInv'
    <2>1. /\ page.pc = "probe" /\ page.bedrijf \in page.todo
          /\ UNCHANGED <<setup, healthy>>
      BY <1>5, StatusAssumption DEF AskDivision, Become, Scope
    <2>2. PICK r \in FindDivisionReplies(VATOf[page.bedrijf], d) :
            page' = IF r = "notfound" THEN [page EXCEPT !.probe = @ \ {d}]
                                      ELSE AfterLookup(page, r)
      BY <1>5 DEF AskDivision, Become
    <2>3. CASE r = "notfound"
      <3>1. /\ page'.pc = "probe" /\ page'.bedrijf = page.bedrijf
            /\ page'.division = page.division /\ page'.probe = page.probe \ {d}
            /\ page'.todo = page.todo /\ page'.percentages = page.percentages
            /\ page'.rows = page.rows /\ page' \in Page
        BY <1>1, <2>1, <2>2, <2>3 DEF Page
      <3>2. Divisions(VATOf[page.bedrijf]) \cap Visible[d] = {}
        BY <2>2, <2>3, StatusAssumption DEF FindDivisionReplies, Divisions
      <3>3. d \notin Divisions(VATOf[page.bedrijf])
        BY <3>2, StatusAssumption
      <3>. QED BY <2>1, <3>1, <3>3, SameRows
               DEF Scope, Open, Search, Checks, Divisions
    <2>4. CASE r = "error"
      BY <1>2, <2>1, <2>2, <2>4, SearchFails
    <2>5. CASE r \in Divisions(VATOf[page.bedrijf]) /\ r # "notfound"
      BY <1>2, <2>1, <2>2, <2>5, SearchHits
    <2>. QED BY <2>2, <2>3, <2>4, <2>5 DEF FindDivisionReplies
  <1>6. CASE NoDivision
    <2>. DEFINE b == page.bedrijf
    <2>1. /\ page.pc = "probe" /\ page.probe = {} /\ b \in page.todo
          /\ UNCHANGED <<setup, healthy>>
          /\ page' = AfterLookup(page, "notfound")
      BY <1>6 DEF NoDivision, Become, Scope
    <2>2. Divisions(VATOf[b]) = {}
      BY <2>1 DEF Search
    <2>3. b \in Bedrijf /\ page.rows \in [Bedrijf -> Administration]
      BY <1>1, <2>1 DEF Page
    <2>4. page' = [page EXCEPT !.rows[b].kind = "error", !.pc = "bedrijf",
                     !.todo = @ \ {b}, !.bedrijf = None, !.probe = {}]
      BY <1>1, <2>1, StatusAssumption DEF AfterLookup, NextBedrijf, Page
    <2>. DEFINE row == [page.rows[b] EXCEPT !.kind = "error"]
    <2>5. row \in Administration /\ ~row.everything
      BY <2>1, <2>3 DEF Administration, Open
    <2>6. page'.rows = [page.rows EXCEPT ![b] = row]
      BY <1>1, <2>4 DEF Page
    <2>7. /\ page'.rows \in [Bedrijf -> Administration] /\ page'.rows[b] = row
          /\ \A c \in Bedrijf \ {b} : page'.rows[c] = page.rows[c]
      BY <2>3, <2>5, <2>6, RowChange
    <2>. HIDE DEF row
    <2>8. /\ page'.pc = "bedrijf" /\ page'.bedrijf = None
          /\ page'.division = page.division /\ page'.todo = page.todo \ {b}
          /\ page'.percentages = page.percentages
      BY <1>1, <2>4 DEF Page
    <2>9. page' \in Page
      BY <1>1, <2>4, <2>6, <2>7 DEF Page
    <2>10. Scope' /\ Search' /\ Checks'
      BY <2>1, <2>8, <2>9 DEF Scope, Search, Checks
    <2>11. Open'
      BY <1>1, <2>1, <2>7, <2>8 DEF Open
    <2>12. (ReadyIsTrue /\ ErrorIsTrue)'
      BY <2>1, <2>2, <2>3, <2>5, <2>7, RowTrue
    <2>. QED BY <2>10, <2>11, <2>12
  <1>. QED BY <1>3, <1>4, <1>5, <1>6

-----------------------------------------------------------------------------
(* The four checks, and the rest.                                          *)

\* One of the first three checks: what it writes into the row.
LEMMA CheckField ==
    ASSUME StatusInv, UNCHANGED <<setup, healthy>>, page.pc \in Checking,
           NEW pc \in {"journal", "vat", "payment"},
           NEW row \in Administration,
           row.kind = page.rows[page.bedrijf].kind,
           row.found = page.rows[page.bedrijf].found,
           row.everything = page.rows[page.bedrijf].everything,
           page' = [page EXCEPT !.pc = pc,
                      !.rows = [page.rows EXCEPT ![page.bedrijf] = row]],
           row.group => setup[page.division].group,
           pc \in {"vat", "payment"} /\ row.journal
             => setup[page.division].journal,
           pc = "payment" /\ row.vat => setup[page.division].btw = BTW
    PROVE  StatusInv'
  <1>. USE DEF StatusInv, Walking, Seeking, Checking
  <1>. DEFINE b == page.bedrijf
  <1>1. /\ page \in Page /\ b \in page.todo /\ page.todo \subseteq Bedrijf
        /\ page.rows \in [Bedrijf -> Administration] /\ b \in Bedrijf
    BY DEF Scope, Page
  <1>2. page'.rows = [page.rows EXCEPT ![b] = row]
    BY <1>1 DEF Page
  <1>3. /\ page'.rows \in [Bedrijf -> Administration] /\ page'.rows[b] = row
        /\ \A c \in Bedrijf \ {b} : page'.rows[c] = page.rows[c]
    BY <1>1, <1>2, RowChange
  <1>4. /\ page'.pc = pc /\ page'.bedrijf = b /\ page'.division = page.division
        /\ page'.todo = page.todo /\ page'.percentages = page.percentages
    BY <1>1 DEF Page
  <1>5. page' \in Page
    BY <1>1, <1>2, <1>3 DEF Page
  <1>6. Scope' /\ Search'
    BY <1>1, <1>4, <1>5 DEF Scope, Search
  <1>7. Open'
    BY <1>1, <1>3, <1>4 DEF Open
  <1>8. row.found => page.division \in Divisions(VATOf[b])
    BY DEF Checks
  <1>9. Checks'
    BY <1>3, <1>4, <1>8 DEF Checks, Divisions
  <1>10. row.kind # "error" /\ ~row.everything
    BY <1>1 DEF Open
  <1>11. (ReadyIsTrue /\ ErrorIsTrue)'
    BY <1>1, <1>3, <1>10, RowTrue
  <1>. QED BY <1>6, <1>7, <1>9, <1>11

LEMMA CheckStatus ==
    ASSUME StatusInv, \/ CheckItemGroup \/ CheckDefaultJournal
                      \/ CheckVATCodes \/ CheckPaymentCondition
    PROVE  StatusInv'
  <1>. USE DEF StatusInv, Walking, Seeking, Checking
  <1>. DEFINE b == page.bedrijf
              d == page.division
              old == page.rows[b]
  <1>1. page.pc \in Checking /\ UNCHANGED <<setup, healthy>>
    BY DEF CheckItemGroup, CheckDefaultJournal, CheckVATCodes,
           CheckPaymentCondition, Become
  <1>2. /\ page \in Page /\ page.todo \subseteq Bedrijf /\ b \in page.todo
        /\ b \in Bedrijf /\ page.rows \in [Bedrijf -> Administration]
        /\ old \in Administration
    BY <1>1 DEF Scope, Page
  <1>3. /\ d \in Division /\ setup[d] \in Setup
        /\ page.percentages \in {BTW, {Blank}}
    BY <1>1 DEF Scope
  <1>4. setup[d].group \in BOOLEAN /\ setup[d].journal \in BOOLEAN
        /\ setup[d].payment \in BOOLEAN /\ setup[d].btw \subseteq BTW
    BY <1>3 DEF Setup
  <1>5. CASE CheckItemGroup
    <2>1. PICK ok \in Replies(setup[d].group) :
            page' = [page EXCEPT !.pc = "journal", !.rows = Row("group", ok)]
      BY <1>5 DEF CheckItemGroup, Become
    <2>2. ok \in BOOLEAN /\ (ok => setup[d].group)
      BY <1>4, <2>1 DEF Replies
    <2>. DEFINE row == [old EXCEPT !.group = ok]
    <2>3. /\ row \in Administration /\ row.kind = old.kind
          /\ row.found = old.found /\ row.everything = old.everything
          /\ row.group = ok
      BY <1>2, <2>2 DEF Administration
    <2>4. Row("group", ok) = [page.rows EXCEPT ![b] = row]
      BY <1>2 DEF Row, Administration
    <2>. HIDE DEF row
    <2>. QED BY <1>1, <2>1, <2>2, <2>3, <2>4, CheckField
  <1>6. CASE CheckDefaultJournal
    <2>1. PICK ok \in Replies(setup[d].journal) :
            page' = [page EXCEPT !.pc = "vat", !.rows = Row("journal", ok)]
      BY <1>6 DEF CheckDefaultJournal, Become
    <2>2. ok \in BOOLEAN /\ (ok => setup[d].journal)
      BY <1>4, <2>1 DEF Replies
    <2>. DEFINE row == [old EXCEPT !.journal = ok]
    <2>3. /\ row \in Administration /\ row.kind = old.kind
          /\ row.found = old.found /\ row.everything = old.everything
          /\ row.group = old.group /\ row.journal = ok
      BY <1>2, <2>2 DEF Administration
    <2>4. Row("journal", ok) = [page.rows EXCEPT ![b] = row]
      BY <1>2 DEF Row, Administration
    <2>5. page.pc = "journal" /\ (old.group => setup[d].group)
      BY <1>6 DEF CheckDefaultJournal, Checks
    <2>. HIDE DEF row
    <2>. QED BY <1>1, <2>1, <2>2, <2>3, <2>4, <2>5, CheckField
  <1>7. CASE CheckVATCodes
    <2>1. PICK ok \in Replies(page.percentages \subseteq setup[d].btw) :
            page' = [page EXCEPT !.pc = "payment", !.rows = Row("vat", ok)]
      BY <1>7 DEF CheckVATCodes, Become
    <2>2. ok \in BOOLEAN /\ (ok => setup[d].btw = BTW)
      BY <1>3, <1>4, <2>1, StatusAssumption DEF Replies
    <2>. DEFINE row == [old EXCEPT !.vat = ok]
    <2>3. /\ row \in Administration /\ row.kind = old.kind
          /\ row.found = old.found /\ row.everything = old.everything
          /\ row.group = old.group /\ row.journal = old.journal /\ row.vat = ok
      BY <1>2, <2>2 DEF Administration
    <2>4. Row("vat", ok) = [page.rows EXCEPT ![b] = row]
      BY <1>2 DEF Row, Administration
    <2>5. /\ page.pc = "vat" /\ (old.group => setup[d].group)
          /\ old.journal => setup[d].journal
      BY <1>7 DEF CheckVATCodes, Checks
    <2>. HIDE DEF row
    <2>. QED BY <1>1, <2>1, <2>2, <2>3, <2>4, <2>5, CheckField
  <1>8. CASE CheckPaymentCondition
    <2>1. PICK ok \in Replies(setup[d].payment) :
            page' = NextBedrijf([page EXCEPT !.rows[b] =
                      [old EXCEPT !.kind = "checked", !.payment = ok,
                         !.everything = /\ old.group /\ old.journal
                                        /\ old.vat /\ ok]])
      BY <1>8 DEF CheckPaymentCondition, Become
    <2>2. ok \in BOOLEAN /\ (ok => setup[d].payment)
      BY <1>4, <2>1 DEF Replies
    <2>. DEFINE all == old.group /\ old.journal /\ old.vat /\ ok
                row == [old EXCEPT !.kind = "checked", !.payment = ok,
                          !.everything = all]
    <2>3. /\ row \in Administration /\ row.kind = "checked"
          /\ row.found = old.found /\ row.everything = all
      BY <1>2, <2>2 DEF Administration
    <2>4. page.pc = "payment"
      BY <1>8 DEF CheckPaymentCondition
    <2>5. all /\ old.found
            => d \in Divisions(VATOf[b]) /\ Complete(d)
      <3>1. SUFFICES ASSUME all, old.found
                     PROVE  d \in Divisions(VATOf[b]) /\ Complete(d)
        OBVIOUS
      <3>2. /\ d \in Divisions(VATOf[b]) /\ setup[d].group /\ setup[d].journal
            /\ setup[d].btw = BTW /\ setup[d].payment
        BY <2>2, <2>4, <3>1 DEF Checks
      <3>. QED BY <1>3, <1>4, <3>2 DEF Complete, Setup
    <2>6. page' = NextBedrijf([page EXCEPT !.rows[b] = row])
      BY <2>1
    <2>. HIDE DEF row
    <2>7. page' = [page EXCEPT !.rows[b] = row, !.pc = "bedrijf",
                     !.todo = @ \ {b}, !.bedrijf = None, !.probe = {}]
      BY <1>2, <2>6 DEF NextBedrijf, Page
    <2>8. page'.rows = [page.rows EXCEPT ![b] = row]
      BY <1>2, <2>7 DEF Page
    <2>9. /\ page'.rows \in [Bedrijf -> Administration] /\ page'.rows[b] = row
          /\ \A c \in Bedrijf \ {b} : page'.rows[c] = page.rows[c]
      BY <1>2, <2>3, <2>8, RowChange
    <2>10. /\ page'.pc = "bedrijf" /\ page'.bedrijf = None
           /\ page'.division = d /\ page'.todo = page.todo \ {b}
           /\ page'.percentages = page.percentages
      BY <1>2, <2>7 DEF Page
    <2>11. page' \in Page
      BY <1>2, <2>7, <2>8, <2>9 DEF Page
    <2>12. Scope' /\ Search' /\ Checks'
      BY <1>1, <1>3, <2>10, <2>11 DEF Scope, Search, Checks
    <2>13. Open'
      BY <1>1, <1>2, <2>9, <2>10 DEF Open
    <2>14. (ReadyIsTrue /\ ErrorIsTrue)'
      BY <1>1, <1>2, <2>3, <2>5, <2>9, RowTrue
    <2>. QED BY <2>12, <2>13, <2>14
  <1>. QED BY <1>5, <1>6, <1>7, <1>8

\* The accountant only adds, so what was complete stays so.
LEMMA PutInPlaceAdds ==
    ASSUME setup \in [Division -> Setup], NEW d \in Division, PutInPlace(d)
    PROVE  /\ setup' \in [Division -> Setup]
           /\ \A e \in Division :
                /\ setup[e].group => setup'[e].group
                /\ setup[e].journal => setup'[e].journal
                /\ setup[e].btw \subseteq setup'[e].btw
                /\ setup[e].payment => setup'[e].payment
  <1>1. ASSUME NEW x \in {"group", "journal", "payment"},
               setup' = [setup EXCEPT ![d][x] = TRUE]
        PROVE  /\ setup'[d] \in Setup
               /\ setup[d].group => setup'[d].group
               /\ setup[d].journal => setup'[d].journal
               /\ setup[d].btw = setup'[d].btw
               /\ setup[d].payment => setup'[d].payment
               /\ \A e \in Division \ {d} : setup'[e] = setup[e]
               /\ setup' = [setup EXCEPT ![d] = setup'[d]]
    <2>1. setup[d] \in Setup /\ setup'[d] = [setup[d] EXCEPT ![x] = TRUE]
      BY <1>1
    <2>. QED BY <1>1, <2>1 DEF Setup
  <1>2. ASSUME NEW b \in BTW, setup' = [setup EXCEPT ![d].btw = @ \cup {b}]
        PROVE  /\ setup'[d] \in Setup
               /\ setup[d].group = setup'[d].group
               /\ setup[d].journal = setup'[d].journal
               /\ setup[d].btw \subseteq setup'[d].btw
               /\ setup[d].payment = setup'[d].payment
               /\ \A e \in Division \ {d} : setup'[e] = setup[e]
               /\ setup' = [setup EXCEPT ![d] = setup'[d]]
    <2>1. /\ setup[d] \in Setup
          /\ setup'[d] = [setup[d] EXCEPT !.btw = @ \cup {b}]
      BY <1>2
    <2>. QED BY <1>2, <2>1 DEF Setup
  <1>3. CASE \E x \in {"group", "journal", "payment"} :
               setup' = [setup EXCEPT ![d][x] = TRUE]
    BY <1>1, <1>3
  <1>4. CASE \E b \in BTW : setup' = [setup EXCEPT ![d].btw = @ \cup {b}]
    BY <1>2, <1>4
  <1>. QED BY <1>3, <1>4 DEF PutInPlace

LEMMA CompleteStays ==
    ASSUME setup \in [Division -> Setup], NEW d \in Division, PutInPlace(d),
           NEW e \in Division, Complete(e)
    PROVE  Complete(e)'
  <1>1. /\ setup[e].group /\ setup[e].journal /\ setup[e].payment
        /\ setup[e].btw = BTW
    BY DEF Complete
  <1>2. /\ setup'[e] \in Setup
        /\ setup'[e].group /\ setup'[e].journal /\ setup'[e].payment
        /\ BTW \subseteq setup'[e].btw
    BY <1>1, PutInPlaceAdds
  <1>3. setup'[e].btw = BTW
    BY <1>2 DEF Setup
  <1>4. \A s \in Setup : s.group /\ s.journal /\ s.payment /\ s.btw = BTW
          => s = [group |-> TRUE, journal |-> TRUE, btw |-> BTW,
                  payment |-> TRUE]
    BY DEF Setup
  <1>. QED BY <1>2, <1>3, <1>4 DEF Complete

LEMMA OtherStatus ==
    ASSUME StatusInv, \/ Show \/ Recover \/ UNCHANGED vars
                      \/ \E d \in Division : PutInPlace(d)
    PROVE  StatusInv'
  <1>. USE DEF StatusInv, Walking, Seeking, Checking
  <1>1. CASE Show
    <2>1. /\ page'.pc = "shown" /\ UNCHANGED <<setup, healthy>>
          /\ page' \in Page
          /\ page'.rows = page.rows /\ page'.bedrijf = page.bedrijf
      BY <1>1 DEF Scope, Page, Show, Become
    <2>2. page.pc = "bedrijf"
      BY <1>1 DEF Show
    <2>. QED BY <2>1, <2>2, SameRows DEF Scope, Open, Search, Checks
  <1>2. CASE Recover \/ UNCHANGED vars
    <2>1. UNCHANGED <<setup, page>> /\ healthy' \in BOOLEAN
      BY <1>2 DEF Recover, vars, Scope
    <2>2. (ReadyIsTrue /\ ErrorIsTrue)'
      BY <2>1 DEF ReadyIsTrue, ErrorIsTrue, Complete
    <2>. QED BY <2>1, <2>2 DEF Scope, Open, Search, Checks
  <1>3. ASSUME NEW d \in Division, PutInPlace(d)  PROVE StatusInv'
    <2>1. UNCHANGED <<page, healthy>>
      BY <1>3 DEF PutInPlace
    <2>2. /\ setup' \in [Division -> Setup]
          /\ \A e \in Division :
               /\ setup[e].group => setup'[e].group
               /\ setup[e].journal => setup'[e].journal
               /\ setup[e].btw \subseteq setup'[e].btw
               /\ setup[e].payment => setup'[e].payment
      BY <1>3, PutInPlaceAdds DEF Scope
    <2>3. \A e \in Division : setup'[e] \in Setup /\ setup'[e].btw \subseteq BTW
      BY <2>2 DEF Setup
    <2>4. Scope' /\ Open' /\ Search'
      BY <2>1, <2>2 DEF Scope, Open, Search
    <2>5. page.pc \in Checking => page.division \in Division
      BY DEF Scope
    <2>6. Checks'
      BY <2>1, <2>2, <2>3, <2>5 DEF Checks, Divisions
    <2>7. ASSUME NEW e \in Division, Complete(e)  PROVE Complete(e)'
      BY <1>3, <2>7, CompleteStays DEF Scope
    <2>8. ReadyIsTrue'
      BY <2>1, <2>7 DEF ReadyIsTrue, Divisions
    <2>9. ErrorIsTrue'
      BY <2>1 DEF ErrorIsTrue, Divisions
    <2>. QED BY <2>4, <2>6, <2>8, <2>9
  <1>. QED BY <1>1, <1>2, <1>3

-----------------------------------------------------------------------------
\* What is read in one request and used in a later one stays true in between:
\* the rows, the search and the checks of GetStatus (manage.go:79).
THEOREM StatusInvariant == Spec => []StatusInv
  <1>1. StatusInv /\ [Next]_vars => StatusInv'
    BY BeginStatus, SearchStatus, CheckStatus, OtherStatus DEF Next
  <1>. QED BY InitStatus, <1>1, PTL DEF Spec

\* The variables of the page have their types, and the client stands on a
\* division whenever the page asks it something (manage.go:79).
THEOREM StatusTypeCorrect == Spec => []TypeOK
  <1>1. StatusInv => TypeOK
    BY DEF StatusInv, Scope, TypeOK, Walking, Seeking, Checking
  <1>. QED BY StatusInvariant, <1>1, PTL

\* "Everything OK" is said of a company that was found only when its division
\* has all four things, whatever fails and however the accountant's work
\* interleaves with the checks (manage.go:130).
THEOREM ReadyCorrect == Spec => []ReadyIsTrue
  <1>1. StatusInv => ReadyIsTrue
    BY DEF StatusInv
  <1>. QED BY StatusInvariant, <1>1, PTL

\* "Geen administratie in Exact Online" is said only of a company without a
\* division, whatever fails and in whatever division the search before it has
\* left the client (manage.go:113, division.go).
THEOREM ErrorCorrect == Spec => []ErrorIsTrue
  <1>1. StatusInv => ErrorIsTrue
    BY DEF StatusInv
  <1>. QED BY StatusInvariant, <1>1, PTL

-----------------------------------------------------------------------------
(* What is ready is shown.  A page that was asked for after the last       *)
(* failure finds the division of every ready company, and every check of   *)
(* it succeeds, because the accountant only adds.                          *)

Certain(b) ==
    /\ healthy
    /\ Divisions(VATOf[b]) # {}
    /\ \A d \in Divisions(VATOf[b]) : Complete(d)

Awaited(b) ==
    /\ page.pc \in Walking =>
         /\ page.percentages = BTW
         /\ b \in page.todo \/ page.rows[b].everything
    /\ page.pc = "percentages" => page.todo = Bedrijf
    /\ page.pc = "shown" => page.rows[b].everything

Passed(b) ==
    page.pc \in Checking /\ page.bedrijf = b =>
      /\ page.rows[b].found
      /\ page.pc # "group" => page.rows[b].group
      /\ page.pc \in {"vat", "payment"} => page.rows[b].journal
      /\ page.pc = "payment" => page.rows[b].vat

ReadyInv == \A b \in page.ready : Certain(b) /\ Awaited(b) /\ Passed(b)

LEMMA CertainStays ==
    ASSUME StatusInv, [Next]_vars, NEW b \in Bedrijf, Certain(b)
    PROVE  Certain(b)'
  <1>1. healthy' = healthy \/ healthy' = TRUE
    BY DEF Next, GetStatus, GetDefaultDivision, GetBedrijven, GetPercentages,
           AskCurrentDivision, GetSystemDivisions, AskDivision, NoDivision,
           CheckItemGroup, CheckDefaultJournal, CheckVATCodes,
           CheckPaymentCondition, Show, PutInPlace, Recover, vars, Become
  <1>2. setup' = setup \/ \E d \in Division : PutInPlace(d)
    BY DEF Next, GetStatus, GetDefaultDivision, GetBedrijven, GetPercentages,
           AskCurrentDivision, GetSystemDivisions, AskDivision, NoDivision,
           CheckItemGroup, CheckDefaultJournal, CheckVATCodes,
           CheckPaymentCondition, Show, Recover, vars, Become
  <1>3. setup \in [Division -> Setup]
    BY DEF StatusInv, Scope
  <1>4. ASSUME NEW e \in Division, Complete(e)  PROVE Complete(e)'
    BY <1>2, <1>3, <1>4, CompleteStays DEF Complete
  <1>5. Divisions(VATOf[b]) \subseteq Division
    BY DEF Divisions
  <1>. QED BY <1>1, <1>4, <1>5 DEF Certain, Divisions

LEMMA ReadyKept ==
    ASSUME StatusInv, ReadyInv, [Next]_vars, page'.ready = page.ready,
           \A b \in page.ready : Awaited(b)' /\ Passed(b)'
    PROVE  ReadyInv'
  <1>1. page.ready \subseteq Bedrijf
    BY DEF StatusInv, Scope, Page
  <1>. QED BY <1>1, CertainStays DEF ReadyInv

\* The steps up to the loop, and the end of it.
LEMMA BeginReady ==
    ASSUME StatusInv, ReadyInv, [Next]_vars,
           \/ GetStatus \/ GetDefaultDivision \/ GetBedrijven
           \/ GetPercentages \/ Show
    PROVE  ReadyInv'
  <1>. USE DEF Walking, Seeking, Checking
  <1>1. page \in Page
    BY DEF StatusInv, Scope
  <1>2. CASE GetStatus
    <2>1. /\ page'.pc = "me" /\ UNCHANGED <<setup, healthy>>
          /\ page'.ready = {b \in Bedrijf :
                              /\ healthy /\ Divisions(VATOf[b]) # {}
                              /\ \A d \in Divisions(VATOf[b]) : Complete(d)}
      BY <1>2 DEF GetStatus, Become, Blanco
    <2>2. \A b \in page'.ready : Certain(b)'
      BY <2>1 DEF Certain, Divisions, Complete
    <2>. QED BY <2>1, <2>2 DEF ReadyInv, Awaited, Passed
  <1>3. CASE GetDefaultDivision
    <2>1. /\ page'.ready = page.ready
          /\ page'.pc = "bedrijven" \/ (~healthy /\ page'.pc = "shown")
      BY <1>1, <1>3 DEF GetDefaultDivision, Become, Page
    <2>. QED BY <2>1, ReadyKept DEF ReadyInv, Certain, Awaited, Passed
  <1>4. CASE GetBedrijven
    <2>1. /\ page'.ready = page.ready
          /\ \/ page'.pc = "percentages" /\ page'.todo = Bedrijf
             \/ ~healthy /\ page'.pc = "shown"
      BY <1>1, <1>4 DEF GetBedrijven, Become, Page
    <2>. QED BY <2>1, ReadyKept DEF ReadyInv, Certain, Awaited, Passed
  <1>5. CASE GetPercentages
    <2>1. /\ page'.ready = page.ready /\ page'.pc = "bedrijf"
          /\ page'.todo = page.todo
          /\ healthy => page'.percentages = BTW
      BY <1>1, <1>5 DEF GetPercentages, Become, Page
    <2>2. page.ready \subseteq Bedrijf /\ page.pc = "percentages"
      BY <1>1, <1>5 DEF GetPercentages, Page
    <2>. QED BY <2>1, <2>2, ReadyKept DEF ReadyInv, Certain, Awaited, Passed
  <1>6. CASE Show
    <2>1. /\ page'.ready = page.ready /\ page'.pc = "shown"
          /\ page'.rows = page.rows
          /\ page.pc = "bedrijf" /\ page.todo = {}
      BY <1>1, <1>6 DEF Show, Become, Page
    <2>. QED BY <2>1, ReadyKept DEF ReadyInv, Awaited, Passed
  <1>. QED BY <1>2, <1>3, <1>4, <1>5, <1>6

\* The search for the division of a ready company succeeds.
LEMMA SearchReady ==
    ASSUME StatusInv, ReadyInv, [Next]_vars,
           \/ \E b \in Bedrijf : AskCurrentDivision(b)
           \/ GetSystemDivisions
           \/ \E d \in Division : AskDivision(d)
           \/ NoDivision
    PROVE  ReadyInv'
  <1>. USE DEF Walking, Seeking, Checking
  <1>1. /\ page \in Page /\ page.todo \subseteq Bedrijf
        /\ page.ready \subseteq Bedrijf
        /\ page.rows \in [Bedrijf -> Administration]
        /\ page.pc \in {"bedrijf", "system", "probe"}
    BY DEF StatusInv, Scope, Page, AskCurrentDivision, GetSystemDivisions,
           AskDivision, NoDivision
  <1>2. PICK c \in page.todo :
          /\ page.pc # "bedrijf" => c = page.bedrijf
          /\ \/ page' = [page EXCEPT !.bedrijf = c, !.pc = "system"]
             \/ page' = [page EXCEPT !.pc = "probe", !.probe = Division]
             \/ \E d \in page.probe : page' = [page EXCEPT !.probe = @ \ {d}]
             \/ \E d \in Division :
                  page' = AfterLookup([page EXCEPT !.bedrijf = c], d)
             \/ /\ ~healthy
                /\ page' = AfterLookup([page EXCEPT !.bedrijf = c], "error")
             \/ /\ Divisions(VATOf[c]) = {}
                /\ page' = AfterLookup([page EXCEPT !.bedrijf = c], "notfound")
    <2>1. ASSUME page.pc # "bedrijf"
          PROVE  /\ page.bedrijf \in page.todo
                 /\ page = [page EXCEPT !.bedrijf = page.bedrijf]
      BY <1>1, <2>1 DEF StatusInv, Scope, Page
    <2>2. ASSUME NEW b \in Bedrijf, AskCurrentDivision(b)
          PROVE  /\ b \in page.todo
                 /\ \/ page' = [page EXCEPT !.bedrijf = b, !.pc = "system"]
                    \/ \E d \in Division :
                         page' = AfterLookup([page EXCEPT !.bedrijf = b], d)
                    \/ /\ ~healthy
                       /\ page' = AfterLookup([page EXCEPT !.bedrijf = b],
                                              "error")
      <3>1. PICK r \in FindDivisionReplies(VATOf[b], page.division) :
              page' = IF r = "notfound"
                      THEN [page EXCEPT !.bedrijf = b, !.pc = "system"]
                      ELSE AfterLookup([page EXCEPT !.bedrijf = b], r)
        BY <1>1, <2>2 DEF AskCurrentDivision, Become, Page
      <3>2. r \in Division \/ r = "notfound" \/ (r = "error" /\ ~healthy)
        BY <3>1 DEF FindDivisionReplies, Divisions
      <3>. QED BY <2>2, <3>1, <3>2, StatusAssumption DEF AskCurrentDivision
    <2>3. CASE GetSystemDivisions
      BY <2>1, <2>3 DEF GetSystemDivisions, Become
    <2>4. ASSUME NEW d \in Division, AskDivision(d)
          PROVE  \/ page' = [page EXCEPT !.probe = @ \ {d}]
                 \/ \E e \in Division : page' = AfterLookup(page, e)
                 \/ ~healthy /\ page' = AfterLookup(page, "error")
      <3>1. PICK r \in FindDivisionReplies(VATOf[page.bedrijf], d) :
              page' = IF r = "notfound" THEN [page EXCEPT !.probe = @ \ {d}]
                                        ELSE AfterLookup(page, r)
        BY <2>4 DEF AskDivision, Become
      <3>2. r \in Division \/ r = "notfound" \/ (r = "error" /\ ~healthy)
        BY <3>1 DEF FindDivisionReplies, Divisions
      <3>. QED BY <3>1, <3>2, StatusAssumption
    <2>5. CASE NoDivision
      BY <2>1, <2>5 DEF NoDivision, Become, StatusInv, Search
    <2>6. ASSUME NEW d \in Division, AskDivision(d)
          PROVE  page.pc = "probe" /\ d \in page.probe
      BY <2>6 DEF AskDivision
    <2>. QED BY <2>1, <2>2, <2>3, <2>4, <2>5, <2>6
             DEF AskCurrentDivision
  <1>3. page'.ready = page.ready /\ page'.percentages = page.percentages
    <2>1. ASSUME NEW r \in Division \cup {"error", "notfound"},
                 page' = AfterLookup([page EXCEPT !.bedrijf = c], r)
          PROVE  /\ page'.ready = page.ready
                 /\ page'.percentages = page.percentages
      BY <1>1, <2>1, StatusAssumption DEF AfterLookup, NextBedrijf, Page
    <2>. QED BY <1>1, <1>2, <2>1 DEF Page
  <1>4. ASSUME NEW b \in page.ready
        PROVE  Awaited(b)' /\ Passed(b)'
    <2>1. /\ b \in Bedrijf /\ c \in Bedrijf /\ Certain(b)
          /\ page.percentages = BTW
          /\ b \in page.todo \/ page.rows[b].everything
      BY <1>1, <1>2 DEF ReadyInv, Awaited
    <2>2. CASE \/ page' = [page EXCEPT !.bedrijf = c, !.pc = "system"]
               \/ page' = [page EXCEPT !.pc = "probe", !.probe = Division]
               \/ \E d \in page.probe : page' = [page EXCEPT !.probe = @ \ {d}]
      <3>1. /\ page'.pc \in {"system", "probe", page.pc}
            /\ page'.todo = page.todo /\ page'.rows = page.rows
        BY <1>1, <2>2 DEF Page
      <3>. QED BY <1>1, <1>3, <2>1, <3>1 DEF Awaited, Passed
    <2>3. ASSUME NEW d \in Division,
                 page' = AfterLookup([page EXCEPT !.bedrijf = c], d)
          PROVE  Awaited(b)' /\ Passed(b)'
      <3>1. page' = [page EXCEPT !.bedrijf = c, !.pc = "group",
                       !.division = d, !.probe = {}, !.rows[c].found = TRUE]
        BY <1>1, <2>1, <2>3, StatusAssumption DEF AfterLookup, Page
      <3>2. /\ page'.pc = "group" /\ page'.bedrijf = c
            /\ page'.todo = page.todo
            /\ page'.rows = [page.rows EXCEPT ![c] =
                               [page.rows[c] EXCEPT !.found = TRUE]]
        BY <1>1, <2>1, <3>1 DEF Page
      <3>3. /\ page'.rows[c].found
            /\ page'.rows[c].everything = page.rows[c].everything
            /\ b # c => page'.rows[b] = page.rows[b]
        BY <1>1, <2>1, <3>2 DEF Administration
      <3>. QED BY <1>3, <2>1, <3>2, <3>3 DEF Awaited, Passed
    <2>4. CASE ~healthy
      BY <2>1, <2>4 DEF Certain
    <2>5. CASE /\ Divisions(VATOf[c]) = {}
               /\ page' = AfterLookup([page EXCEPT !.bedrijf = c], "notfound")
      <3>1. b # c
        BY <2>1, <2>5 DEF Certain
      <3>2. page' = [page EXCEPT !.bedrijf = None, !.pc = "bedrijf",
                       !.todo = page.todo \ {c}, !.probe = {},
                       !.rows[c].kind = "error"]
        BY <1>1, <2>1, <2>5, StatusAssumption
           DEF AfterLookup, NextBedrijf, Page
      <3>3. /\ page'.pc = "bedrijf" /\ page'.todo = page.todo \ {c}
            /\ page'.rows[b] = page.rows[b]
        BY <1>1, <2>1, <3>1, <3>2 DEF Page
      <3>. QED BY <1>3, <2>1, <3>1, <3>3 DEF Awaited, Passed
    <2>. QED BY <1>2, <2>2, <2>3, <2>4, <2>5
  <1>. QED BY <1>3, <1>4, ReadyKept

\* A check of a division that is complete succeeds when no request fails.
LEMMA CheckReady ==
    ASSUME StatusInv, ReadyInv, [Next]_vars,
           \/ CheckItemGroup \/ CheckDefaultJournal
           \/ CheckVATCodes \/ CheckPaymentCondition
    PROVE  ReadyInv'
  <1>. USE DEF Walking, Seeking, Checking
  <1>. DEFINE c == page.bedrijf
              old == page.rows[c]
              d == page.division
  <1>1. /\ page.pc \in Checking /\ page \in Page /\ c \in page.todo
        /\ page.todo \subseteq Bedrijf /\ c \in Bedrijf
        /\ old \in Administration
        /\ page.rows \in [Bedrijf -> Administration]
        /\ page.ready \subseteq Bedrijf
    BY DEF CheckItemGroup, CheckDefaultJournal, CheckVATCodes,
           CheckPaymentCondition, StatusInv, Scope, Page
  <1>2. ASSUME c \in page.ready
        PROVE  /\ healthy /\ old.found
               /\ setup[d].group /\ setup[d].journal /\ setup[d].payment
               /\ page.percentages \subseteq setup[d].btw
    <2>1. Certain(c) /\ old.found /\ page.percentages = BTW
      BY <1>1, <1>2 DEF ReadyInv, Awaited, Passed
    <2>2. Complete(d)
      BY <1>1, <2>1 DEF StatusInv, Checks, Certain
    <2>. QED BY <2>1, <2>2 DEF Complete, Certain
  <1>3. ASSUME NEW b \in page.ready
        PROVE  /\ b \in Bedrijf /\ page.percentages = BTW
               /\ b \in page.todo \/ page.rows[b].everything
    BY <1>1 DEF ReadyInv, Awaited
  \* The check writes its result and goes on to the next one.
  <1>4. ASSUME NEW row \in Administration,
               NEW pc \in {"journal", "vat", "payment"},
               page' = [page EXCEPT !.pc = pc,
                          !.rows = [page.rows EXCEPT ![c] = row]],
               row.everything = old.everything,
               c \in page.ready =>
                 /\ row.found /\ row.group
                 /\ pc \in {"vat", "payment"} => row.journal
                 /\ pc = "payment" => row.vat
        PROVE  ReadyInv'
    <2>1. /\ page'.pc = pc /\ page'.ready = page.ready /\ page'.bedrijf = c
          /\ page'.todo = page.todo /\ page'.percentages = page.percentages
          /\ page'.rows = [page.rows EXCEPT ![c] = row]
      BY <1>1, <1>4 DEF Page
    <2>2. /\ page'.rows[c] = row
          /\ \A b \in Bedrijf \ {c} : page'.rows[b] = page.rows[b]
      BY <1>1, <2>1, RowChange
    <2>3. \A b \in page.ready : Awaited(b)' /\ Passed(b)'
      BY <1>3, <1>4, <2>1, <2>2 DEF Awaited, Passed
    <2>. QED BY <2>1, <2>3, ReadyKept
  <1>5. CASE CheckItemGroup
    <2>1. PICK ok \in Replies(setup[d].group) :
            page' = [page EXCEPT !.pc = "journal", !.rows = Row("group", ok)]
      BY <1>5 DEF CheckItemGroup, Become
    <2>2. setup[d] \in Setup /\ ok \in BOOLEAN /\ (c \in page.ready => ok)
      BY <1>1, <1>2, <2>1 DEF Replies, StatusInv, Scope, Setup
    <2>. DEFINE row == [old EXCEPT !.group = ok]
    <2>3. /\ row \in Administration /\ row.everything = old.everything
          /\ row.found = old.found /\ row.group = ok
      BY <1>1, <2>2 DEF Administration
    <2>4. Row("group", ok) = [page.rows EXCEPT ![c] = row]
      BY <1>1 DEF Row, Administration
    <2>. HIDE DEF row
    <2>. QED BY <1>2, <1>4, <2>1, <2>2, <2>3, <2>4
  <1>6. CASE CheckDefaultJournal
    <2>1. PICK ok \in Replies(setup[d].journal) :
            page' = [page EXCEPT !.pc = "vat", !.rows = Row("journal", ok)]
      BY <1>6 DEF CheckDefaultJournal, Become
    <2>2. setup[d] \in Setup /\ ok \in BOOLEAN /\ (c \in page.ready => ok)
      BY <1>1, <1>2, <2>1 DEF Replies, StatusInv, Scope, Setup
    <2>. DEFINE row == [old EXCEPT !.journal = ok]
    <2>3. /\ row \in Administration /\ row.everything = old.everything
          /\ row.found = old.found /\ row.group = old.group
          /\ row.journal = ok
      BY <1>1, <2>2 DEF Administration
    <2>4. Row("journal", ok) = [page.rows EXCEPT ![c] = row]
      BY <1>1 DEF Row, Administration
    <2>5. c \in page.ready => old.group
      BY <1>1, <1>6 DEF CheckDefaultJournal, ReadyInv, Passed
    <2>. HIDE DEF row
    <2>. QED BY <1>2, <1>4, <2>1, <2>2, <2>3, <2>4, <2>5
  <1>7. CASE CheckVATCodes
    <2>1. PICK ok \in Replies(page.percentages \subseteq setup[d].btw) :
            page' = [page EXCEPT !.pc = "payment", !.rows = Row("vat", ok)]
      BY <1>7 DEF CheckVATCodes, Become
    <2>2. ok \in BOOLEAN /\ (c \in page.ready => ok)
      BY <1>1, <1>2, <2>1 DEF Replies
    <2>. DEFINE row == [old EXCEPT !.vat = ok]
    <2>3. /\ row \in Administration /\ row.everything = old.everything
          /\ row.found = old.found /\ row.group = old.group
          /\ row.journal = old.journal /\ row.vat = ok
      BY <1>1, <2>2 DEF Administration
    <2>4. Row("vat", ok) = [page.rows EXCEPT ![c] = row]
      BY <1>1 DEF Row, Administration
    <2>5. c \in page.ready => old.group /\ old.journal
      BY <1>1, <1>7 DEF CheckVATCodes, ReadyInv, Passed
    <2>. HIDE DEF row
    <2>. QED BY <1>2, <1>4, <2>1, <2>2, <2>3, <2>4, <2>5
  <1>8. CASE CheckPaymentCondition
    <2>1. PICK ok \in Replies(setup[d].payment) :
            page' = NextBedrijf([page EXCEPT !.rows[c] =
                      [old EXCEPT !.kind = "checked", !.payment = ok,
                         !.everything = /\ old.group /\ old.journal
                                        /\ old.vat /\ ok]])
      BY <1>8 DEF CheckPaymentCondition, Become
    <2>2. setup[d] \in Setup /\ ok \in BOOLEAN /\ (c \in page.ready => ok)
      BY <1>1, <1>2, <2>1 DEF Replies, StatusInv, Scope, Setup
    <2>. DEFINE all == old.group /\ old.journal /\ old.vat /\ ok
                row == [old EXCEPT !.kind = "checked", !.payment = ok,
                          !.everything = all]
    <2>3. row \in Administration /\ row.everything = all
      BY <1>1, <2>2 DEF Administration
    <2>4. c \in page.ready => all
      BY <1>1, <1>8, <2>2 DEF CheckPaymentCondition, ReadyInv, Passed
    <2>5. page' = NextBedrijf([page EXCEPT !.rows[c] = row])
      BY <2>1
    <2>. HIDE DEF row
    <2>6. /\ page'.pc = "bedrijf" /\ page'.ready = page.ready
          /\ page'.todo = page.todo \ {c}
          /\ page'.percentages = page.percentages
          /\ page'.rows = [page.rows EXCEPT ![c] = row]
      BY <1>1, <2>5 DEF NextBedrijf, Page
    <2>7. /\ page'.rows[c] = row
          /\ \A b \in Bedrijf \ {c} : page'.rows[b] = page.rows[b]
      BY <1>1, <2>3, <2>6, RowChange
    <2>8. \A b \in page.ready : Awaited(b)' /\ Passed(b)'
      BY <1>3, <2>3, <2>4, <2>6, <2>7 DEF Awaited, Passed
    <2>. QED BY <2>6, <2>8, ReadyKept
  <1>. QED BY <1>5, <1>6, <1>7, <1>8

\* A page that was asked for when a company was ready, on a day without
\* failures, shows that it is: neither the companies before it, which move the
\* client from division to division, nor the accountant keep it from being
\* found and from passing all four checks (manage.go:79-133).
THEOREM ReadyShown == Spec => []ReadyIsShown
  <1>1. Init => ReadyInv
    BY DEF Init, Blanco, ReadyInv
  <1>2. StatusInv /\ ReadyInv /\ [Next]_vars => ReadyInv'
    <2>. SUFFICES ASSUME StatusInv, ReadyInv, [Next]_vars  PROVE ReadyInv'
      OBVIOUS
    <2>1. CASE UNCHANGED page
      BY <2>1, ReadyKept DEF ReadyInv, Awaited, Passed
    <2>2. CASE \/ GetStatus \/ GetDefaultDivision \/ GetBedrijven
               \/ GetPercentages \/ Show
      BY <2>2, BeginReady
    <2>3. CASE \/ \E b \in Bedrijf : AskCurrentDivision(b)
               \/ GetSystemDivisions
               \/ \E d \in Division : AskDivision(d)
               \/ NoDivision
      BY <2>3, SearchReady
    <2>4. CASE \/ CheckItemGroup \/ CheckDefaultJournal
               \/ CheckVATCodes \/ CheckPaymentCondition
      BY <2>4, CheckReady
    <2>5. (\E d \in Division : PutInPlace(d)) \/ Recover \/ UNCHANGED vars
            => UNCHANGED page
      BY DEF PutInPlace, Recover, vars
    <2>. QED BY <2>1, <2>2, <2>3, <2>4, <2>5 DEF Next
  <1>3. ReadyInv => ReadyIsShown
    BY DEF ReadyInv, Awaited, ReadyIsShown
  <1>. QED BY <1>1, <1>2, <1>3, StatusInvariant, PTL DEF Spec

=============================================================================
