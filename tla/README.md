# Recras – Exact Online: specification, model checking and proofs

The program in `src/` copies sent invoices from Recras (a booking system) to
Exact Online (bookkeeping).  A web application links a Recras instance to an
Exact Online customer through OAuth, shows whether an administration is ready
for the copying, and copies once a day and on demand.  This directory holds
TLA+ modules of that program, the TLC configurations that check them, and
proofs that TLAPS checks.

## 1. The system

| component | source | state | operations |
|---|---|---|---|
| synchronisation | `synctool/synctool.go` | local variables of a run | `Sync`, `syncBedrijf`, `syncProducten`, `syncFactuur`, `syncKlant`, `convertFactuurregels`, `uploadFactuurPDF` |
| Exact Online client | `client.go`, `account.go`, `item.go`, `document.go`, `salesentries.go`, `division.go`, `paymentconditions.go`, `vatcodes.go`, `journal.go` | `Client.Division` | `Find…`, `Get…`, `SetDivisionByVATNumber`, `Save` |
| tokens | `auth.go` | `tokenSource.token` | `Exchange`, `refreshToken`, `Token` |
| Recras client | `recras/` | none | `GetBedrijven`, `GetAllProducten`, `GetFacturenFilter`, `GetCurrentPersoneel`, `GetGebruiker`, `Contactmoment.Save`, `IsValidUser` |
| credentials | `dal/credential.go`, `migrations/0002…` | table `credential`: one row per Recras host | `CreateCredential`, `Find…`, `UpdateToken` |
| handlers | `handlers/`, `middlewares/` | session cookie | `PostLogin`, `GetLogout`, `GetHome`, `PostLinkExact`, `GetCallback`, `GetStatus`, `GetSync`, `SyncRecras` |
| timer | `cmd/koppeling/main.go` | timer, ticker | `runTimedSync`, `syncAll` |
| conversions | `odata2json/` | none | `Date`, `Binary` |
| table of users | `dal/base.go`, `dal/user.go`, `migrations/0001…` | table `users`, transactions | `Signup`, `UpdateEmailAndPasswordById`, `InsertIntoTable`, `Update…`, `Delete…`; no handler calls them yet |

How they interact: `runTimedSync` and `GetSync` both call `SyncRecras`, the first
for every row of `credential` in turn, the second in the goroutine of the HTTP
request.  `SyncRecras` makes an Exact Online client from the stored refresh
token, runs `synctool.Sync` in a goroutine that sends its errors over `errc`,
posts what it collected as a *contactmoment* in Recras, and stores the token it
has then.  `GetCallback` stores a token too.  Nothing excludes two runs of the
same instance, nor a run and a callback.  All lasting state is in PostgreSQL
(one row per instance), in the session cookies, and in the two services.

Hard behaviour: every step is an HTTP request that may fail, or take effect and
lose its answer; most steps are *find, and make if not found*; one client value
(`Division`) is changed from company to company; errors are sometimes returned,
sometimes sent to `errc`, sometimes logged, sometimes dropped; there is no
transaction over the requests, no lock and no timeout; the process may die
anywhere, and a panic in the goroutine of the timer kills it.

What makes each part correct:

- synchronisation: an invoice is booked at most once by a client, complete, for
  its customer, in the division of its company; what is not booked is reported;
  one failure does not keep the rest back;
- tokens and credentials: what an activation stored stays until the next one,
  and belongs to the instance that asked for it;
- status page: what a row says is about the company it names, and true;
- report: each run has one of its own, whole, and it gets to the user; neither of
  the two goroutines waits for the other for ever;
- lines: what is booked adds up to what the invoice says, with the VAT codes that
  the accountant marked; the page and the run agree on which are there;
- table of users: one user per address, whoever writes at the same time; a
  caller's transaction is the caller's; a failed statement holds nobody up;
- timer: every linked instance is synchronised every day, in the night.

The hazards of the code, each at its line, with the properties that would catch
it, are listed in `PROJECT.json`.

## 2. Modules and how they correspond to the code

| module | models | of |
|---|---|---|
| `ExactOnline` | the store of Exact Online, the replies to each call of the Go client, the accountant | the client, the service |
| `SyncTool` | `SyncRecras` and `synctool.Sync`, one action per request, any number of clients | `synctool/`, `handlers/manage.go` |
| `SalesLedger` | the abstract specification of `SyncTool`: a ledger per division | |
| `SyncTool_proof` | theorems about `SyncTool`: types, the ledger | |
| `SyncRuns_proof` | more of them, from those: what becomes of every invoice, what entries refer to, how many accounts and items, that no run goes on forever | |
| `Koppeling` | the row of an instance, logins, activations, the token calls, and which token each run reads and stores | `dal/credential.go`, `auth.go`, `handlers/`, `syncAll` |
| `Koppeling_proof` | theorems about `Koppeling` | |
| `StatusPage` | `GET /status` and the search for a division, request by request | `handlers/manage.go`, `division.go`, `item.go`, `journal.go` |
| `StatusPage_proof` | theorems about `StatusPage` | |
| `TimedSync` | when the daily synchronisation begins | `runTimedSync` |
| `TimedSync_proof` | theorems about `TimedSync` | |
| `SyncReport` | the two goroutines of a run, `errc`, the report and the token after it | `handlers/manage.go`, `recras/personeel.go`, `recras/contactmomenten.go` |
| `RunReport` | the abstract specification of `SyncReport`: a run says things and delivers them at most once | |
| `SyncReport_proof` | theorems about `SyncReport` | |
| `Factuurregels` | the recursion over the lines of an invoice, their amounts, the two readings of a VAT code | `synctool.go`, `vatcodes.go`, `checkVATCodes` |
| `FlatRegels` | the flat list and the sum that the recursion is compared with, as recursive functions on trees | |
| `Factuurregels_proof` | theorems about `Factuurregels` and `FlatRegels`: the VAT codes, the stack of calls, the walk and the sums | |
| `Users` | the table `users`, its methods, and the transactions they run in | `dal/base.go`, `dal/user.go` |
| `Users_proof` | theorems about `Users` | |
| `MC…` | small instances | |

`SyncTool` extends `ExactOnline` and instantiates `SalesLedger`.  `Koppeling`
has the same runs from another side: what `SyncTool` does between reading the
row and storing the token is one step there.  `TimedSync` says when `SyncAll` of
`Koppeling` happens.  `SyncReport` has that step apart too: `SyncTool` says what
`Sync` sends, `SyncReport` what becomes of it, and instantiates `RunReport`.
`FlatRegels` extends `Factuurregels` with what `SyncTool` assumes of it.  `Users`
stands alone.

**ExactOnline.**  `accounts[d][k]` and `items[d][p]` count what a division holds
for a customer or product (counts, because nothing keeps a second one from
being made); an item has a revenue account (`ready`) or not (`bare`);
`documents[d]` is a set, `entries[d]` the sequence of sales entries; `setup[d]` is
what only the accountant changes.  The `…Replies` operators return what a call of
the Go client can return to its caller: `found`, `notfound` (the `Err…NotFound`
value) or `error` for finds; `created`, `refused`, `lost` (stored, reply lost) or
`error` for saves.  As long as `healthy` is false every call may fail.

**SyncTool.**  `sync[c]` is the record of local variables of client `c`'s run:
`pc` names the next request, `division` is `ecl.Division`, `cust` and `doc` are
what `syncFactuur` holds, `report` is what went down `errc`.  Every action is one
request with everything the code does up to the next one; the loops take the
elements of a list in any order.  Nested groups of lines are flattened to
`Regels`, in the order in which `convertFactuurregels` walks them.

**Koppeling.**  `token[h]` and `state[h]` are columns of the row of host `h`
(`NoRow`, `Null`, the empty string or a grant); `login[u] = "insert"` is a
`CreateCredential` between its SELECT and its INSERT; `pending` are answers of
Exact Online on their way to `/callback`; `run[r]` are the rows a run has read and
not come to, and the one it is busy with.  `TokenReplies` is what `refreshToken`
and `Exchange` return.  `state` is a place in the sequence that an unseeded
`math/rand` draws: it begins anew with the process.

**StatusPage.**  `page` holds the local variables of `GetStatus`; `page.division`
is where the client stands, which the search moves.  `found` and `ready` are
history.

**SyncReport.**  `sync[r]` is the goroutine that runs `Sync`, `main[r]` the one of
`SyncRecras`; a send over the unbuffered channel and its receive are the step
`Receive`, before which the sender is blocked in `send`.  `posted[r]` is what Recras
has got.  The mapping to `RunReport` takes a message for said when it is sent, not
when it is received.

**Factuurregels.**  `run.stack` is the call stack of `convertFactuurregels`, the
innermost call first, each frame with its list, its place in it, its reduction
factor and its result so far; `run.vatcodes` is the map that `syncBedrijf` makes.  An
amount is an exact fraction of cents.  A description is a record of what the two
readers tell apart: something before `recras:`, the number after it, and whether
the text is the one that the page looks for.  `FlatRegels` has what the recursion
is compared with: `Flat[list]`, the items of a list at a given discount, and
`Total[list]`, its value.  Both are recursive functions (a recursive operator
could not be proved about), and curried, because the discount changes on the way
down.  `FlatRegelsAssumption` says that lists are finite trees, as slices that were
decoded from JSON are.  Sums are of whole numbers: `Scaled` multiplies by `Scale` and
divides by the denominator, rounding down.

**Users.**  `tx[p]` is the transaction that caller `p` has a `*sqlx.Tx` of, its own or
one that a method began (`call[p].wrap`); `lost` are those that a method has begun
and returned without.  PostgreSQL is external: a statement sees what is committed
and its own transaction's writes; it waits for a transaction that has touched
the same row or address; one of those that wait in a circle fails; a failed
statement aborts its transaction, which lets go of what it held but keeps its
connection.  A row is its address: no password is told apart from another.

**TimedSync.**  The clock in minutes, the timer of `AfterFunc`, the ticker and
its channel of one tick.

Assumptions the models share, each where the code leaves the matter to others:

- a POST whose reply is lost has taken effect before its caller goes on;
- companies and products in Recras do not change during the behaviour; the
  set of sent invoices grows; the accountant adds and does not remove;
- VAT numbers are those of the divisions: `SyncTool` has the search for the
  division as one step, because it reads what does not change there;
- the outcome of `DocumentAttachment.Save` is not told apart: the code drops it;
- the tokens that a grant yields in turn are one value: a `tokenSource` is
  passed by value, never keeps a newer token, and refreshes for every request;
- the exchange of a code and the UPDATE are one step: what comes between
  touches nothing that the exchange has read;
- `InsertCredential` draws the state and inserts in one step; draws of two
  logins that interleave would make other states, which are left out;
- amounts are exact: the rounding of `float64` is left out of `Factuurregels`;
- the callers of `Users` are assumed, as nothing in the repository calls its
  methods: what it checks is what the methods promise to whoever will, and races
  of its callers are no hazard of the program as it is; a caller that has a
  transaction passes it on: one that did not would wait for itself;
- the panics of the code (a nil token in the timer, and others that a fault
  leads to) are the process dying.

## 3. What the runs check

A run that passes is exhaustive for its instance; deadlock is checked in all.

| run | instance | shows |
|---|---|---|
| `sync_one` | 1 client, a company with 3 invoices, of two lines, one line and a line without value, and a company unknown to Exact Online | `TypeOK`; `NoSilentLoss`: when a run is over, every invoice that was sent before it is booked or reported; `EntriesResolve`: the account and document an entry refers to are there and its own; `LedgerSpec`: refinement of `SalesLedger`; `RunsProgress`: every request leaves its run less to do, faults or not; `RunsEnd`: once requests do not fail, a run ends; `EventuallyBooked`: what stays ready is booked, whatever fails beside it |
| `sync_two` | 2 clients, 1 company, 1 invoice | `AtMostOncePerClient`: an invoice is doubled only by overlapping runs; `NoNeedlessMasterData`: accounts and items too |
| `link_hosts` | 2 hosts and users, the timer, 1 grant, 2 states per process | `TypeOK`: no run uses the NULL token of an unlinked row; `QuietLinkSticks`: other hosts' runs and callbacks leave the link alone; `WorkingLinkSurvives`: while requests do not fail, neither do refusals of other hosts' codes and tokens; `DailySync`: a working link is synchronised every day, beside one that does not work |
| `link_races` | 1 host, 2 users, 2 runs, 2 grants | `QuietLinkSticks` with logins, runs and activations that race |
| `status_page` | 2 companies, one unknown; 2 divisions that list only themselves | `TypeOK`; `ReadyIsTrue`, `ErrorIsTrue`: a row that says ready, or unknown, is right; `ReadyIsShown`: a company that was ready is shown to be |
| `timed_sync` | days of 4 hours of 3 minutes, 5 days, restarts | `TypeOK`; `IdleMeansRecent`: however many ticks are dropped, the timer comes back within a day; `FirstWithinDay` |
| `sync_report` | the timer and `GET /sync`, 2 messages, at most 2 per run | `TypeOK`; `NoGoroutineLeft`: no sender without a receiver; `RunReportSpec`: refinement of `RunReport`; `RunEnds`; `ReportArrives`: on a day without failures, at the user |
| `factuurregels` | 2 VAT codes with 5 descriptions, 2 percentages; an invoice with a text, a credit line and a line of no value, and one with groups in groups, one of them empty | `TypeOK`; `OkPageConverts`: after a page that says ok no percentage misses its code; `CodeIsMarked`: a line with VAT gets the code of its own percentage; `WalkIsFlat`: the recursion is a walk along a flat list, with all discounts; `AmountsAddUp`: to the value of the invoice, but for lines without value |
| `users` | 2 callers, 2 addresses, 2 connections, 2 ids | `TypeOK`; `OneUserPerEmail`; `SignupsApart`: no two sign-ups look up the same id; `CallsEnd`: failed statements, waits, deadlocks and what a failed method leaves behind keep nobody waiting; `CallerCommits`: no method commits what its caller began |

Why the bounds are enough to be interesting.  The hazards of a run are about two
companies (one that fails beside one that does not), two invoices (a failure between them, a
document carried over), two lines (a failure after the first was converted) and
two runs (a race); `sync_one` and `sync_two` have each of them, with every
request of every run able to fail and the process able to die at each step.  A
second division would add the case that an entry goes into the division of the
company before: that it does not is proved for any number of companies and
divisions (`ImplementsLedger`), and `status_page` checks the same search with two.
Two grants are needed for an older one to come back, two hosts for one to be
taken for the other; `link_hosts` needs no second grant, as one host is not
linked in the interesting case.  Days of twelve minutes have all the
cases that `next3am` tells apart (before, at and after the hour, and the minute),
and five of them a synchronisation over two ticks.  Two runs and two messages make
reports that could be mixed up, torn or turned around.  The invoices of
`factuurregels` have what the recursion tells apart: an empty group, a group after
an item and before one, discounts at three levels, amounts below the limit
because of a discount, and negative ones; the list of descriptions has one of
each kind.  Its `Scale` is 100 to the number of discounts around an item, at most
three, so that no sum is rounded.  Two callers are enough to race, to wait for each other and to use up
two connections.
The bounds are `MaxDraw` (states drawn in the life of a process), `MaxTime` (the
clock), `MaxSend` (messages of one run) and `MaxId` (values of the sequence of
ids).  Symmetry is used over clients and grants, where no liveness is checked and
no client or grant is named.

Each property of a passing run has a mutant in the module: a definition with a
plausible mistake in it that makes TLC find the property violated.

### Fairness

`SyncTool!Fairness` and `Koppeling!Fairness` assume weak fairness of the steps of
a run and of the timer's beginning one, *once requests no longer fail*.  No HTTP
client in the program has a timeout, so while the network may fail a request may
also hang, and nothing is promised; when it works, a request returns and the Go
scheduler runs the goroutine on.  The ticker comes back every day and its loop
has no other exit than the end of the process (which only happens while not
`healthy`, or never).  No fairness is assumed of users, of the accountant, of
`GET /sync` or of crashes.  `SyncReport!Fairness` is the same for each goroutine of a
run.  `Users!Fairness` is strong, because a statement that waits can be enabled and
disabled again: PostgreSQL wakes who waits for a lock, and callers end their own
transactions; nobody has to begin anything.

## 4. Where the code does not do what is said of it

Each is a run that TLC finds violated; `PROJECT.json` quotes the line.

| run | property | what happens |
|---|---|---|
| `sync_prefix` | `SkippedIsBooked` | invoice 1 is skipped once invoice 10 is booked: the number is searched as a substring; `SkippedIsBookedCorrect` (section 5) shows that this is the only way |
| `link_sticks` | `ActivationSticks` | a run that began before an activation stores the older grant over it when it ends |
| `link_state` | `LinkIsOfAsker` | two hosts that logged in first, each after a restart, have the same state, and the token of one is stored with the other |

The models show more of the kind without a run of its own.  `TokenReplies`
(`auth.go:76`, `auth.go:103`): a refusal is an empty token without an error, so
declining a second activation wipes a link that worked.  `GetToken`
(`handlers/manage.go:224`): an error of `Token()` leaves a nil token that is read,
and in the goroutine of the timer that panic ends the process.  `Receive`
(`cmd/koppeling/main.go:187`): the test for a tick that is too late looks for one in
the future, and `TypeOK` of `TimedSync` shows that there is none.  `next3am`
(`cmd/koppeling/main.go:160`): hour and minute are compared each on its own, so a
process that begins in the first eight minutes of an hour after three sets the
timer for a moment in the past, synchronises at once, and at that time of day
from then on.  `AfterLookup` (`handlers/manage.go:111`): after any other error than
`ErrDivisionNotFound` the page goes on with the division of the company before,
under the name of this one; `ReadyIsTrue` is therefore about companies whose
division was found.  `Sscanf` (`synctool.go:69`): a description that cannot be read
leaves the number zero, so its code is taken for that of 0%; `CodeIsMarked`
leaves 0% out for that.  `ExecFails` (`dal/base.go:89`, `:137`): each failed INSERT or
UPDATE in a transaction of its own keeps a connection for the life of the
process, be it for an address that is taken, until `BeginxFails` is all that
happens.  `GetById` (`dal/user.go:52`): a `Signup` in the transaction of its caller
does not see the row it has made.

## 5. What is proved

TLAPS checks the following for every value of the constants that satisfies the
named assumptions in the modules (types of the parameters, distinct special
values; `ClientAssumption`: the clients of `SyncTool` are finitely many, which is what
counting them needs).  Nothing bounds the number of clients, hosts, runs,
divisions or invoices.

`SyncTool_proof`:

- `ScopeCorrect`: `Spec => []ScopeInv`.  `TypeOK` is not inductive: a step builds
  an entry from local variables, which must be in scope where it does so.
  `ScopeInv` adds for every `pc` which of `bedrijf`, `product`, `factuur`,
  `regel`, `lines`, `cust` and `doc` are set, and that `lines` are the lines of
  value among those already walked.
- `TypeCorrect`: `Spec => []TypeOK`.
- `LedgerInvariant`: with it, that every entry is in the division of its company
  (`Placed`), that a client that is past `FindSalesEntry` for an invoice has not
  entered it (`Fresh`), and that any two entries of an invoice are of two clients.
  `FindSalesEntry` establishes `Fresh`, since it asks the division where, by
  `Placed`, every entry of the invoice is; only the run's own `SaveSalesEntry`
  could end it, which moves on.
- `AtMostOnce`: `Spec => []AtMostOncePerClient`.
- `ImplementsLedger`: `Spec => LedgerSpec`: `SaveSalesEntry` that is stored is
  `Enter`, `Send` is `Send`, every other step stutters.

`SyncRuns_proof`, from `ScopeCorrect`:

- `EntriesResolveCorrect`: `Spec => []EntriesResolve`.  The entry is written requests
  after the account and the document that it refers to were found or made, so
  `ResolveInv` says of the local variables what `EntriesResolve` says of the entries:
  what `cust` and `doc` name is in the division the run stands in, and `doc` is the
  document of this invoice.  It stays so because no action takes anything from the
  store (`Grown`) and the division does not change while an invoice is copied.
- `FollowInvariant`: when a run is over nothing is left in its variables of what it
  did, so `NoSilentLoss` needs an account of every invoice on the way.  `FollowInv`
  says that an invoice that was sent before the run began is `Covered` (the lookup of
  `FindSalesEntry` would find something in the division of its company),
  `Complained` of (itself, its company or the run), or `Pending`: its company is
  still to come, or is the one in hand and the list has the invoice still.  Each
  way out of `syncFactuur` and `syncBedrijf` (an error, an invoice without lines of
  value, "SalesEntry exists", a POST that was lost) turns the third into one of the
  others.
- `NothingForgottenCorrect`: so at the end of a run every invoice is reported or
  looked up with success, whatever the numbers are.
- `NoSilentLossCorrect`, `SkippedIsBookedCorrect`: what is found under the number of
  an invoice is its own entry if no number occurs in another (`NumbersApart`, a
  hypothesis of these two theorems and not an assumption of the model).  Without
  it both are false, the second in the run `sync_prefix`.
- `NoNeedlessMasterDataCorrect`: `Spec => []NoNeedlessMasterData`.  A count in the store
  is bounded only together with the clients that are about to add to it: `RaceInv`
  says that the accounts of a customer and the clients that have looked for one in
  vain are together no more than all clients; the same for items.  A client only
  joins those when it finds nothing, so there is no account then and the clients
  alone are counted; when it makes one it leaves them.  With one client this is: at
  most one account for each customer, one item for each product.
- `RunsProgressCorrect`: `Spec => RunsProgress`.  What a run has left is its
  companies, then its products, then its invoices (all there are, while their list is
  not there yet), then the request it is at, then the lines of the invoice; `Closer` is
  the lexicographic order of these.  A step that leaves an iteration makes a list
  smaller only if what it takes off is on it, which `ScopeInv`, `FollowInv` and
  `ProductOnList` say; any other step goes on to a later request or the next line.
- `CloserWellFounded`: that order is well founded when companies, products and
  invoices are finitely many (a hypothesis of this theorem): the least of any set of
  runs is found list by list.  `RunsDescend` puts the two together.  So a run is over
  after finitely many requests however they are answered, and what `RunsEnd` adds,
  for TLC alone to check, is that each request is made and returns.

`Koppeling_proof`:

- `LinkTypeCorrect`: `Spec => []TypeOK`.
- `LinkInvariant`: `QuietLinkSticks` speaks of the table only.  `CopyInv` adds the
  copies: every copy of a quiet row in a run (read and not come to, or being
  used) is the grant that was stored last, or empty; `RowInv` that a host
  without a row was never given a token.
- `QuietLinkCorrect`: `Spec => []QuietLinkSticks`.
- `WorkingLinkCorrect`: `Spec => WorkingLinkSurvives`, from the types alone: each step
  that writes a token is a callback or the end of a run, and both write a token
  that `Working` says is one that Exact Online honours.

`StatusPage_proof`, from `StatusAssumption` (among others: a division lists at
least itself):

- `StatusInvariant`: what the page says is written in one step, after four
  checks in four requests and a search in several.  `StatusInv` says of each
  place in between what still holds: which local variables are set (`Scope`),
  that companies still to come have no row (`Open`), that a division asked in
  vain does not have the company's number (`Search`), and that what the checks
  found is still in place in the division they asked (`Checks`); this last holds
  because the accountant only adds, and the division does not change between
  the checks.
- `StatusTypeCorrect`, `ReadyCorrect`, `ErrorCorrect`: `Spec => []TypeOK`,
  `[]ReadyIsTrue`, `[]ErrorIsTrue`.
- `ReadyShown`: `Spec => []ReadyIsShown`, the converse of `ReadyIsTrue`.  `ReadyInv` follows
  a company that was complete when the page began: it stays complete and requests
  go on to succeed (`Certain`); it is among those to come, in hand, or has its row
  (`Awaited`); and while its checks are made, each that was made has passed (`Passed`).

`TimedSync_proof`, for days of any length:

- `TimedInvariant`: ticks are dropped when one waits already, so the last tick says
  nothing about the last synchronisation.  `TickerInv` adds that while no tick
  waits the next one comes within a day of when the last synchronisation *began*;
  `TimerInv` that before the first one there is no ticker and no tick, and the timer
  is at most a day ahead.  The lemma `Next3am` is about the comparison of hour and
  minute in `next3am`: it never gives more than a day, though it may give a time
  that is past.
- `TypeCorrect`, `IdleIsRecent`, `FirstIsWithinDay`: `Spec => []TypeOK`,
  `[]IdleMeansRecent`, `[]FirstWithinDay`.

`SyncReport_proof`:

- `ReportInvariant`: `NoGoroutineLeft` is inductive only with where both goroutines
  are at the same time, and the refinement needs that nothing is posted before
  the loop is left and at most one report after it, which is then what was
  received.
- `ReportTypeCorrect`, `NoGoroutineLeftCorrect`, and `ImplementsRunReport`:
  `Spec => RunReportSpec`, in which `Send` is `Say`, a POST that is stored is `Deliver`,
  and the panic of the timer ends all runs.

`Factuurregels_proof`:

- `VATInvariant`: what the run has read of the codes, what its map and its lines
  were made of, and that the page says ok only while every percentage has the
  text it looks for.
- `OkPageCorrect`, `CodeIsMarkedCorrect`: `Spec => []OkPageConverts`, `[]CodeIsMarked`.
- `RegelsTypeCorrect`: `Spec => []TypeOK`, for groups of any depth.  That no call runs past
  the end of its list is not inductive: a return moves its caller on by one.
  `CallsInv` adds that every caller stands at the group it has called for, which is
  a place before the end.
- `WalkInvariant`, `WalkIsFlatCorrect`: `Spec => []WalkIsFlat`.  The property speaks of what
  was walked, and nothing in it says that the right items come next.  `WalkInv`
  adds what is ahead: the rest of the innermost list, and of each caller's the
  part after its group.  The flat list of the invoice is at every moment the
  items looked up followed by those (`Walked`).  A group is walked where it
  stands (`GroupWalk`), a call past the end leaves nothing (`PastEnd`), a return only
  moves lines from a call to its caller (`ReturnWalk`).
- `FlatWorth`, `AmountsAddUpCorrect`: `Spec => []AmountsAddUp`.  The code multiplies the
  discounts on the way down, the groups say what they are worth from the inside
  out.  `FlatWorth` shows that both come to the same, by induction over the tree; it
  needs no assumption on `Scale`, as division rounded down can be done in two steps
  (`DivisionTwice`).  With a `Scale` that is a power of 100 to the depth nothing is
  rounded; with a smaller one the theorem holds, of sums that are rounded.  `LinesNear`
  is the other half: each line that is left out takes less than a tenth of a cent.

The induction needs some groundwork, as the induction theorems of the library
take an operator, which the provers here cannot instantiate.  They are stated
about sets instead (`NatSetInduction`, `AppendInduction`, `ListInduction`): a set with the
first element and with each one also the next has them all.  TLA+ defines a
recursive function as some solution of its equation, so a solution has to be shown
to exist: `RecursionSolved` does so for any function on a set that is `Grounded`, and
the functions by which the community modules flatten a sequence and add up numbers,
`Flat` and `Total` all follow from it or from its simple case, `LoopSolved`.

`Users_proof`:

- `UsersInvariant`: `OneUserPerEmail` holds of what is committed only because of what
  is not: what a transaction would commit has no address twice (`View`), and two
  transactions do not hold the same row or address; aborted ones hold nothing;
  the ids that calls look up are drawn and no two the same.
- `UsersTypeCorrect`, `OneUserPerEmailCorrect`, `SignupsApartCorrect`,
  `CallerCommitsCorrect`: the four safety properties.

Every safety property that a passing run checks has its theorem.  Only
model-checked are the liveness properties (`RunsEnd`, `EventuallyBooked`, `DailySync`,
`RunEnds`, `ReportArrives`, `CallsEnd`): the provers at hand do not reason about fairness
and `ENABLED`.

`sync_one` checks `NoSilentLoss` with numbers that do not occur in each other, which
is what its theorem assumes too.

## 6. What is not modelled

- `GetAllItems`: no caller.  Of the client's other calls, only what
  `DocumentAttachment.Save` stores is left out: the code drops its outcome, and
  nothing reads it.
- `odata2json`, `libhttp`, `libenv`, `httperror`, templates, start-up: formatting,
  configuration and pages without state of their own.  No date that was read is
  written again or compared, so no property could tell a wrong one; a reply that
  cannot be decoded is an error in the models.
- the reads of `dal/user.go` other than `GetById`, and the comparison of passwords:
  they change nothing.
- a request that hangs (no timeouts): under it nothing can be promised; a change
  of password in Recras, after which `CreateCredential` keeps the old one
  (`dal/credential.go:57`).

## 7. Plan

Modules were written in the order of what matters most, and all that were
planned are there:

1. `ExactOnline`, `SyncTool`, `SalesLedger`, `SyncTool_proof`, `SyncRuns_proof`: the
   synchronisation and its promise.
2. `Koppeling`, `Koppeling_proof`: the link.
3. `StatusPage`, `StatusPage_proof`: the page and what it says.
4. `TimedSync`, `TimedSync_proof`: when it all begins.
5. `SyncReport`, `RunReport`, `SyncReport_proof`: what a run says.
6. `Factuurregels`, `FlatRegels`, `Factuurregels_proof`: lines, amounts, VAT codes.
7. `Users`, `Users_proof`: the table behind `dal/base.go`.

The proofs that were planned are there as well; what is left to TLC is listed at
the end of section 5.
