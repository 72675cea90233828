----------------------------- MODULE ExactOnline -----------------------------
(***************************************************************************)
(* The store the synchronisation writes to: the administrations (divisions)*)
(* of one Exact Online customer, seen through the calls of the Go package  *)
(* `exactonline` (account.go, item.go, document.go, salesentries.go,       *)
(* division.go, paymentconditions.go, vatcodes.go).                        *)
(*                                                                         *)
(* A call is one HTTP request.  What it can return is a set of replies,    *)
(* computed from the store; what a POST stores is an operator on the next  *)
(* state.  While ~healthy every request may fail, and a POST may be stored *)
(* although its reply is lost.  The accountant, who is not part of the     *)
(* program, completes the set-up of an administration.                     *)
(***************************************************************************)
EXTENDS Integers, Sequences, FiniteSets

CONSTANTS
    Client,     \* API clients; every running SyncRecras makes one of its own
    Division,   \* administrations of the Exact Online customer
    Klant,      \* customers in Recras
    Product,    \* products in Recras
    Factuur,    \* invoices in Recras
    BTW,        \* VAT percentages that occur on invoice lines
    Contains,   \* <<f, g>>: the number of f is a substring of the
                \* description "Recras factuur: <number of g>"
    None        \* Go's zero value: no division, no customer, no document

ASSUME ContainsAssumption ==
    /\ Contains \subseteq Factuur \X Factuur
    /\ \A f \in Factuur : <<f, f>> \in Contains

ASSUME NoneAssumption ==
    None \notin Division \cup Klant \cup Product \cup Factuur

\* There are many clients, but never infinitely many at once.
ASSUME ClientAssumption == IsFiniteSet(Client)

VARIABLES
    accounts,   \* accounts[d][k]: how many accounts have SearchCode 'K<k>'
    items,      \* items[d][p][g]: how many items have Code 'recras<p>';
                \* "ready" ones have a GLRevenue account, "bare" ones do not
    documents,  \* documents[d]: <<f, k>>, the PDF document of f for k
    entries,    \* entries[d]: the sales entries, in the order they came in
    setup,      \* setup[d]: the payment condition and the VAT codes that
                \* carry the description the program looks for
    healthy     \* once TRUE, no request fails and no process dies any more

exactVars == <<accounts, items, documents, entries, setup, healthy>>

Document == Factuur \X Klant

GL == {"ready", "bare"}

\* What the program sends in a SalesEntry.  `lines` are the indices of the
\* invoice lines that made it into SalesEntryLines; `client` is history.
SalesEntry == [factuur : Factuur, customer : Klant, lines : SUBSET Nat,
               document : Document \cup {None}, client : Client]

ExactTypeOK ==
    /\ accounts \in [Division -> [Klant -> Nat]]
    /\ items \in [Division -> [Product -> [GL -> Nat]]]
    /\ documents \in [Division -> SUBSET Document]
    /\ entries \in [Division -> Seq(SalesEntry)]
    /\ setup \in [Division -> [payment : BOOLEAN, btw : SUBSET BTW]]
    /\ healthy \in BOOLEAN

ExactInit ==
    /\ accounts = [d \in Division |-> [k \in Klant |-> 0]]
    /\ items = [d \in Division |-> [p \in Product |-> [g \in GL |-> 0]]]
    /\ documents = [d \in Division |-> {}]
    /\ entries = [d \in Division |-> << >>]
    /\ setup \in [Division -> [payment : BOOLEAN, btw : {{}, BTW}]]
    /\ healthy = FALSE

-----------------------------------------------------------------------------
(* Replies.  "error" stands for every error of a call but its not-found    *)
(* error: transport, token refresh, status code, JSON.  A client without a *)
(* division gets ErrNoDivision, or asks for /api/v1/0/ and is refused.     *)

Faults == IF healthy THEN {} ELSE {"error"}

Found(present) == IF present THEN {"found"} ELSE {"notfound"}

AccountReplies(d, k) ==
    IF d = None THEN {"error"} ELSE Found(accounts[d][k] > 0) \cup Faults

\* Results[0] of the items with the code of p: any of them.
ItemReplies(d, p) ==
    IF d = None
    THEN {"error"}
    ELSE {g \in GL : items[d][p][g] > 0}
           \cup (IF \A g \in GL : items[d][p][g] = 0
                 THEN {"notfound"} ELSE {})
           \cup Faults

\* The filter is substringof('<number of f>', Description).
SalesEntryReplies(d, f) ==
    IF d = None
    THEN {"error"}
    ELSE Found(\E i \in DOMAIN entries[d] :
                 <<f, entries[d][i].factuur>> \in Contains) \cup Faults

PaymentConditionReplies(d) ==
    IF d = None THEN {"error"} ELSE Found(setup[d].payment) \cup Faults

\* Whether there is a document type of that name is up to Exact Online, and may
\* change.
DocumentTypeReplies(d) ==
    IF d = None THEN {"error"} ELSE {"found", "notfound"} \cup Faults

\* Replies to a POST: "lost" is stored, but the caller gets an error.
PostReplies(d) ==
    IF d = None
    THEN {"error"}
    ELSE {"created"} \cup (IF healthy THEN {} ELSE {"lost", "error"})

\* Account.Save does not look at the status code: the JSON body of a refusal
\* decodes to an empty envelope, and the caller gets no error.
AccountPostReplies(d) ==
    PostReplies(d) \cup (IF d = None \/ healthy THEN {} ELSE {"refused"})

Stored == {"created", "lost"}

-----------------------------------------------------------------------------
(* Effects of a POST that is stored.                                       *)

AddAccount(d, k) == accounts' = [accounts EXCEPT ![d][k] = @ + 1]

\* The default item group decides whether a new item has a GLRevenue account.
AddItem(d, p) ==
    \E g \in GL : items' = [items EXCEPT ![d][p][g] = @ + 1]

AddDocument(d, doc) == documents' = [documents EXCEPT ![d] = @ \cup {doc}]

AddSalesEntry(d, e) == entries' = [entries EXCEPT ![d] = Append(@, e)]

-----------------------------------------------------------------------------
(* The accountant's side of the set-up, and the end of all faults.         *)

AddPaymentCondition(d) ==
    /\ ~setup[d].payment
    /\ setup' = [setup EXCEPT ![d].payment = TRUE]
    /\ UNCHANGED <<accounts, items, documents, entries, healthy>>

AddVATCode(d, b) ==
    /\ b \notin setup[d].btw
    /\ setup' = [setup EXCEPT ![d].btw = @ \cup {b}]
    /\ UNCHANGED <<accounts, items, documents, entries, healthy>>

SetGLRevenue(d, p) ==
    /\ items[d][p]["bare"] > 0
    /\ items' = [items EXCEPT ![d][p]["bare"] = @ - 1,
                              ![d][p]["ready"] = @ + 1]
    /\ UNCHANGED <<accounts, documents, entries, setup, healthy>>

Recover ==
    /\ ~healthy
    /\ healthy' = TRUE
    /\ UNCHANGED <<accounts, items, documents, entries, setup>>

ExactEnv ==
    \/ \E d \in Division : AddPaymentCondition(d)
    \/ \E d \in Division, b \in BTW : AddVATCode(d, b)
    \/ \E d \in Division, p \in Product : SetGLRevenue(d, p)
    \/ Recover

=============================================================================
