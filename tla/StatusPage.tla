----------------------------- MODULE StatusPage ------------------------------
(***************************************************************************)
(* GET /status (handlers/manage.go, GetStatus): for every company in Recras*)
(* find its division in Exact Online by VAT number, and see whether the    *)
(* accountant has put four things in place there.  The page belongs to a   *)
(* linked instance; every HTTP request is a step, and the accountant works *)
(* on in the meantime.                                                     *)
(*                                                                         *)
(* The search for the division (division.go) starts from the division the  *)
(* client stands on and moves it, so it is modelled request by request.    *)
(***************************************************************************)
EXTENDS Integers, FiniteSets

CONSTANTS
    Bedrijf,            \* companies in Recras
    Division,           \* divisions in Exact Online
    VAT,                \* VAT numbers, without dots
    VATOf,              \* [Bedrijf -> VAT]
    VATNumber,          \* [Division -> VAT]
    Visible,            \* [Division -> SUBSET Division]: what hrm/Divisions
                        \* of a division lists
    DefaultDivision,    \* the division of Me
    BTW,                \* VAT percentages that Recras uses
    Blank,              \* the one percentage in a setting that was not read
    None                \* no division, no company

ASSUME StatusAssumption ==
    /\ None \notin Division \cup Bedrijf
    /\ {"notfound", "error"} \cap Division = {}
    /\ Blank \notin BTW
    /\ VATOf \in [Bedrijf -> VAT]
    /\ VATNumber \in [Division -> VAT]
    /\ Visible \in [Division -> SUBSET Division]
    /\ \A d \in Division : d \in Visible[d]
    /\ DefaultDivision \in Division

VARIABLES
    setup,      \* setup[d]: what the accountant has put in place
    page,       \* the local variables of GetStatus
    healthy     \* once TRUE, no request fails any more

vars == <<setup, page, healthy>>

Setup == [group : BOOLEAN, journal : BOOLEAN, btw : SUBSET BTW,
          payment : BOOLEAN]

Complete(d) == setup[d] = [group |-> TRUE, journal |-> TRUE, btw |-> BTW,
                           payment |-> TRUE]

\* A row of the page.  `found` is history: the search ended in a division.
Administration == [kind : {"absent", "error", "checked"}, found : BOOLEAN,
                   group : BOOLEAN, journal : BOOLEAN, vat : BOOLEAN,
                   payment : BOOLEAN, everything : BOOLEAN]

Absent == [kind |-> "absent", found |-> FALSE, group |-> FALSE,
           journal |-> FALSE, vat |-> FALSE, payment |-> FALSE,
           everything |-> FALSE]

\* `ready` is history: the companies whose division was complete when the
\* page was asked for, on a day without failures.
Page == [pc : {"shown", "me", "bedrijven", "percentages", "bedrijf", "system",
               "probe", "group", "journal", "vat", "payment"},
         division : Division \cup {None},
         todo : SUBSET Bedrijf, bedrijf : Bedrijf \cup {None},
         probe : SUBSET Division, percentages : SUBSET (BTW \cup {Blank}),
         rows : [Bedrijf -> Administration], error : BOOLEAN,
         ready : SUBSET Bedrijf]

Blanco == [pc |-> "shown", division |-> None, todo |-> {}, bedrijf |-> None,
           probe |-> {}, percentages |-> {},
           rows |-> [b \in Bedrijf |-> Absent], error |-> FALSE,
           ready |-> {}]

Divisions(v) == {d \in Division : VATNumber[d] = v}

Become(p) == page' = p /\ UNCHANGED <<setup, healthy>>

Row(field, value) ==
    [page.rows EXCEPT ![page.bedrijf] = [@ EXCEPT ![field] = value]]

NextBedrijf(p) ==
    [p EXCEPT !.pc = "bedrijf", !.todo = @ \ {p.bedrijf}, !.bedrijf = None,
              !.probe = {}]

-----------------------------------------------------------------------------
GetStatus ==
    /\ page.pc = "shown"
    /\ Become([Blanco EXCEPT
                 !.pc = "me",
                 !.ready = {b \in Bedrijf : healthy /\ Divisions(VATOf[b]) # {}
                              /\ \A d \in Divisions(VATOf[b]) : Complete(d)}])

\* Mutant: the failure is only logged, as SyncRecras does.
GetDefaultDivisionLogs ==
    /\ page.pc = "me"
    /\ \E d \in {DefaultDivision} \cup (IF healthy THEN {} ELSE {None}) :
         Become([page EXCEPT !.pc = "bedrijven", !.division = d])

GetDefaultDivision ==
    /\ page.pc = "me"
    /\ \/ Become([page EXCEPT !.pc = "bedrijven",
                              !.division = DefaultDivision])
       \/ ~healthy /\ Become([page EXCEPT !.pc = "shown", !.error = TRUE])

GetBedrijven ==
    /\ page.pc = "bedrijven"
    /\ \/ Become([page EXCEPT !.pc = "percentages", !.todo = Bedrijf])
       \/ ~healthy /\ Become([page EXCEPT !.pc = "shown", !.error = TRUE])

\* The error is dropped; an empty setting splits into one empty percentage.
GetPercentages ==
    /\ page.pc = "percentages"
    /\ \E ps \in {BTW} \cup (IF healthy THEN {} ELSE {{Blank}}) :
         Become([page EXCEPT !.pc = "bedrijf", !.percentages = ps])

-----------------------------------------------------------------------------
(* SetDivisionByVATNumber: ask the division the client stands on; if it    *)
(* does not know the number, ask every division of the system.             *)

FindDivisionReplies(v, d) ==
    LET hits == Divisions(v) \cap Visible[d]
    IN  (IF hits = {} THEN {"notfound"} ELSE hits)
          \cup (IF healthy THEN {} ELSE {"error"})

\* Mutant: every error is ErrDivisionNotFound.
AfterLookupAnyError(p, r) ==
    IF r \in Division
    THEN [p EXCEPT !.pc = "group", !.division = r, !.probe = {},
                   !.rows[p.bedrijf].found = TRUE]
    ELSE NextBedrijf([p EXCEPT !.rows[p.bedrijf].kind = "error"])

\* Mutant: a `break` for the `continue`.
AfterLookupBreaks(p, r) ==
    CASE r \in Division -> [p EXCEPT !.pc = "group", !.division = r,
                                     !.probe = {},
                                     !.rows[p.bedrijf].found = TRUE]
      [] r = "notfound" -> [NextBedrijf([p EXCEPT
                              !.rows[p.bedrijf].kind = "error"])
                              EXCEPT !.todo = {}]
      [] r = "error" -> [p EXCEPT !.pc = "group", !.probe = {}]

\* Only ErrDivisionNotFound is an error on the page: after any other error
\* GetStatus checks the division that the client still stands on.
AfterLookup(p, r) ==
    CASE r \in Division -> [p EXCEPT !.pc = "group", !.division = r,
                                     !.probe = {},
                                     !.rows[p.bedrijf].found = TRUE]
      [] r = "notfound" -> NextBedrijf([p EXCEPT
                                          !.rows[p.bedrijf].kind = "error"])
      [] r = "error" -> [p EXCEPT !.pc = "group", !.probe = {}]

AskCurrentDivision(b) ==
    /\ page.pc = "bedrijf"
    /\ b \in page.todo
    /\ LET p == [page EXCEPT !.bedrijf = b]
       IN  \E r \in FindDivisionReplies(VATOf[b], p.division) :
             Become(IF r = "notfound" THEN [p EXCEPT !.pc = "system"]
                                      ELSE AfterLookup(p, r))

GetSystemDivisions ==
    /\ page.pc = "system"
    /\ \/ Become([page EXCEPT !.pc = "probe", !.probe = Division])
       \/ ~healthy /\ Become(AfterLookup(page, "error"))

AskDivision(d) ==
    /\ page.pc = "probe"
    /\ d \in page.probe
    /\ \E r \in FindDivisionReplies(VATOf[page.bedrijf], d) :
         Become(IF r = "notfound" THEN [page EXCEPT !.probe = @ \ {d}]
                                  ELSE AfterLookup(page, r))

NoDivision ==
    /\ page.pc = "probe"
    /\ page.probe = {}
    /\ Become(AfterLookup(page, "notfound"))

-----------------------------------------------------------------------------
(* The four checks: an error counts as "not in place".                     *)

Replies(present) == {present} \cup (IF healthy THEN {} ELSE {FALSE})

CheckItemGroup ==
    /\ page.pc = "group"
    /\ \E ok \in Replies(setup[page.division].group) :
         Become([page EXCEPT !.pc = "journal", !.rows = Row("group", ok)])

CheckDefaultJournal ==
    /\ page.pc = "journal"
    /\ \E ok \in Replies(setup[page.division].journal) :
         Become([page EXCEPT !.pc = "vat", !.rows = Row("journal", ok)])

\* Mutant: VATCodesOK is set before the codes are there.
CheckVATCodesEarly ==
    /\ page.pc = "vat"
    /\ \E ok \in {page.percentages \subseteq setup[page.division].btw}
                   \cup (IF healthy THEN {} ELSE {TRUE}) :
         Become([page EXCEPT !.pc = "payment", !.rows = Row("vat", ok)])

CheckVATCodes ==
    /\ page.pc = "vat"
    /\ \E ok \in Replies(page.percentages \subseteq setup[page.division].btw) :
         Become([page EXCEPT !.pc = "payment", !.rows = Row("vat", ok)])

\* The last check, and EverythingOK.
CheckPaymentCondition ==
    /\ page.pc = "payment"
    /\ \E ok \in Replies(setup[page.division].payment) :
         LET row == page.rows[page.bedrijf]
         IN  Become(NextBedrijf([page EXCEPT
                       !.rows[page.bedrijf] =
                         [row EXCEPT !.kind = "checked", !.payment = ok,
                            !.everything = /\ row.group /\ row.journal
                                           /\ row.vat /\ ok]]))

Show ==
    /\ page.pc = "bedrijf"
    /\ page.todo = {}
    /\ Become([page EXCEPT !.pc = "shown"])

-----------------------------------------------------------------------------
(* The accountant, and the end of all faults.                              *)

PutInPlace(d) ==
    /\ \/ \E x \in {"group", "journal", "payment"} :
            /\ ~setup[d][x]
            /\ setup' = [setup EXCEPT ![d][x] = TRUE]
       \/ \E b \in BTW \ setup[d].btw :
            setup' = [setup EXCEPT ![d].btw = @ \cup {b}]
    /\ UNCHANGED <<page, healthy>>

Recover ==
    /\ ~healthy
    /\ healthy' = TRUE
    /\ UNCHANGED <<setup, page>>

Init ==
    /\ setup = [d \in Division |-> [group |-> FALSE, journal |-> FALSE,
                                    btw |-> {}, payment |-> FALSE]]
    /\ page = Blanco
    /\ healthy = FALSE

Next ==
    \/ GetStatus \/ GetDefaultDivision \/ GetBedrijven \/ GetPercentages
    \/ \E b \in Bedrijf : AskCurrentDivision(b)
    \/ GetSystemDivisions
    \/ \E d \in Division : AskDivision(d)
    \/ NoDivision
    \/ CheckItemGroup \/ CheckDefaultJournal \/ CheckVATCodes
    \/ CheckPaymentCondition \/ Show
    \/ \E d \in Division : PutInPlace(d)
    \/ Recover

Spec == Init /\ [][Next]_vars

-----------------------------------------------------------------------------
(* Properties.                                                             *)

\* The variables have their types, and the client has a division whenever
\* the page checks one.
TypeOK ==
    /\ setup \in [Division -> Setup]
    /\ page \in Page
    /\ page.pc \in {"bedrijf", "system", "probe", "group", "journal", "vat",
                    "payment"} => page.division \in Division
    /\ healthy \in BOOLEAN

\* A company that the page calls ready, with a division that was found for
\* it, is ready: its division has all four things (manage.go:130).
ReadyIsTrue ==
    \A b \in Bedrijf :
      page.rows[b].everything /\ page.rows[b].found
        => \E d \in Divisions(VATOf[b]) : Complete(d)

\* The page says "Geen administratie in Exact Online met BTW-nummer"
\* (manage.go:113) only of a company that has none, whatever fails and
\* wherever the search for the companies before it has left the client.
ErrorIsTrue ==
    \A b \in Bedrijf :
      page.rows[b].kind = "error" => Divisions(VATOf[b]) = {}

\* A page that was asked for when a company was ready shows that it is,
\* whatever it has to say of the companies before it.
ReadyIsShown ==
    page.pc = "shown" =>
      \A b \in page.ready : page.rows[b].everything

=============================================================================
