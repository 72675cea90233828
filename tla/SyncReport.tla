----------------------------- MODULE SyncReport ------------------------------
(***************************************************************************)
(* The two goroutines of handlers.SyncRecras and the report of a run.  One *)
(* goroutine runs synctool.Sync, which sends every error over `errc`, and  *)
(* closes the channel when Sync returns.  The other collects them until    *)
(* the channel is closed, looks up for whom the report is, saves it in     *)
(* Recras as a Contactmoment, and only then asks for the token to store.   *)
(*                                                                         *)
(* `errc` is unbuffered: a send and the receive that takes it are one step.*)
(* What Sync does between two sends is module SyncTool.                    *)
(***************************************************************************)
EXTENDS Integers, Sequences

CONSTANTS
    Run,        \* goroutines that call SyncRecras
    Timer,      \* the one of runTimedSync; the others serve GET /sync
    Message,    \* errors that Sync can send
    MaxSend,    \* bound: messages of one run
    None        \* Go's zero value: no employee, no role, no message

ASSUME SyncReportAssumption ==
    /\ Timer \in Run
    /\ None \notin Message
    /\ MaxSend \in Nat

VARIABLES
    sync,       \* sync[r]: the goroutine that runs Sync
    main,       \* main[r]: the goroutine of SyncRecras itself
    posted,     \* posted[r]: the reports that Recras has got from r's
                \* present or last run
    healthy     \* once TRUE, no request fails and no process dies any more

vars == <<sync, main, posted, healthy>>

-----------------------------------------------------------------------------
(* Contact and group of a report are those of the user of the credentials, *)
(* or zero.                                                                *)

Contactmoment == [bericht : Seq(Message), contact : {"me", None},
                  group : {"rol", None}]

Sync == [pc : {"none", "run", "send", "closed"}, err : Message \cup {None}]

NoSync == [pc |-> "none", err |-> None]

Main == [pc : {"idle", "range", "personeel", "gebruiker", "post", "token",
               "store"},
         buf : Seq(Message), contact : {"me", None}, group : {"rol", None}]

Idle == [pc |-> "idle", buf |-> << >>, contact |-> None, group |-> None]

\* A request to Recras or Exact Online, or a statement on the database.
MayFail == ~healthy

-----------------------------------------------------------------------------
(* The goroutine of Sync.                                                  *)

SyncRecras(r) ==
    /\ main[r].pc = "idle"
    /\ main' = [main EXCEPT ![r] = [Idle EXCEPT !.pc = "range"]]
    /\ sync' = [sync EXCEPT ![r] = [pc |-> "run", err |-> None]]
    /\ posted' = [posted EXCEPT ![r] = << >>]
    /\ UNCHANGED healthy

\* errc <- err: blocks until the other goroutine receives.
Send(r, e) ==
    /\ sync[r].pc = "run"
    /\ Len(main[r].buf) < MaxSend
    /\ sync' = [sync EXCEPT ![r] = [pc |-> "send", err |-> e]]
    /\ UNCHANGED <<main, posted, healthy>>

Close(r) ==
    /\ sync[r].pc = "run"
    /\ sync' = [sync EXCEPT ![r] = [pc |-> "closed", err |-> None]]
    /\ UNCHANGED <<main, posted, healthy>>

-----------------------------------------------------------------------------
(* The goroutine of SyncRecras.                                            *)

\* Mutants: one channel for all runs; a loop that ends at the first error; one
\* that goes on to receive from a closed channel, which yields nil.
ReceiveShared(r) ==
    /\ main[r].pc = "range"
    /\ \E q \in Run :
         /\ sync[q].pc = "send"
         /\ main' = [main EXCEPT ![r].buf = Append(@, sync[q].err)]
         /\ sync' = [sync EXCEPT ![q] = [pc |-> "run", err |-> None]]
    /\ UNCHANGED <<posted, healthy>>

ReceiveFirst(r) ==
    /\ main[r].pc = "range"
    /\ sync[r].pc = "send"
    /\ main' = [main EXCEPT ![r].buf = Append(@, sync[r].err),
                            ![r].pc = "personeel"]
    /\ sync' = [sync EXCEPT ![r] = [pc |-> "run", err |-> None]]
    /\ UNCHANGED <<posted, healthy>>

ReceiveNil(r) ==
    /\ main[r].pc = "range"
    /\ sync[r].pc \in {"send", "closed"}
    /\ main' = [main EXCEPT ![r].buf = Append(@, sync[r].err)]
    /\ sync' = [sync EXCEPT ![r] = [pc |-> IF @.pc = "send" THEN "run" ELSE @.pc,
                                    err |-> None]]
    /\ UNCHANGED <<posted, healthy>>

Receive(r) ==
    /\ main[r].pc = "range"
    /\ sync[r].pc = "send"
    /\ main' = [main EXCEPT ![r].buf = Append(@, sync[r].err)]
    /\ sync' = [sync EXCEPT ![r] = [pc |-> "run", err |-> None]]
    /\ UNCHANGED <<posted, healthy>>

RangeEnds(r) ==
    /\ main[r].pc = "range"
    /\ sync[r].pc = "closed"
    /\ main' = [main EXCEPT ![r].pc = "personeel"]
    /\ UNCHANGED <<sync, posted, healthy>>

\* The error is dropped, and the employee has ID 0.
GetCurrentPersoneel(r) ==
    /\ main[r].pc = "personeel"
    /\ \E p \in {"me"} \cup (IF MayFail THEN {None} ELSE {}) :
         main' = [main EXCEPT ![r].pc = "gebruiker", ![r].contact = p]
    /\ UNCHANGED <<sync, posted, healthy>>

\* There is no user 0; a user need not have a role.
GetGebruiker(r) ==
    /\ main[r].pc = "gebruiker"
    /\ \E g \in {None} \cup (IF main[r].contact = None THEN {} ELSE {"rol"}) :
         main' = [main EXCEPT ![r].pc = "post", ![r].group = g]
    /\ UNCHANGED <<sync, posted, healthy>>

\* Replies of Recras to the POST: "lost" is saved, but the program does not
\* get to know; a report for nobody may be refused on any day.
PostReplies(m) ==
    {"created"} \cup (IF MayFail THEN {"lost", "error"} ELSE {})
                \cup (IF m.contact = None THEN {"error"} ELSE {})

Report(m) == [bericht |-> m.buf, contact |-> m.contact, group |-> m.group]

\* Mutant: there is no report of a run without errors.
SaveOnlyErrors(r) ==
    /\ main[r].pc = "post"
    /\ main' = [main EXCEPT ![r].pc = "token"]
    /\ \E reply \in PostReplies(main[r]) :
         posted' = IF reply = "error" \/ main[r].buf = << >> THEN posted
                   ELSE [posted EXCEPT ![r] = Append(@, Report(main[r]))]
    /\ UNCHANGED <<sync, healthy>>

\* Contactmoment.Save.  An error is only logged.
SaveContactmoment(r) ==
    /\ main[r].pc = "post"
    /\ main' = [main EXCEPT ![r].pc = "token"]
    /\ \E reply \in PostReplies(main[r]) :
         posted' = IF reply = "error" THEN posted
                   ELSE [posted EXCEPT ![r] = Append(@, Report(main[r]))]
    /\ UNCHANGED <<sync, healthy>>

Return(r) ==
    /\ main' = [main EXCEPT ![r] = Idle]
    /\ sync' = [sync EXCEPT ![r] = NoSync]

Die ==
    /\ main' = [r \in Run |-> Idle]
    /\ sync' = [r \in Run |-> NoSync]

\* Without a token the next line reads a nil pointer: net/http recovers the
\* panic of a request, but nobody that of the timer.
GetToken(r) ==
    /\ main[r].pc = "token"
    /\ \/ /\ main' = [main EXCEPT ![r].pc = "store"]
          /\ UNCHANGED sync
       \/ MayFail /\ r = Timer /\ Die
       \/ MayFail /\ r # Timer /\ Return(r)
    /\ UNCHANGED <<posted, healthy>>

\* Mutant: a token that was stored is refreshed and stored again.
StoreTokenLoops(r) ==
    /\ main[r].pc = "store"
    /\ main' = [main EXCEPT ![r].pc = "token"]
    /\ UNCHANGED <<sync, posted, healthy>>

\* An error of the UPDATE is only logged.
StoreToken(r) ==
    /\ main[r].pc = "store"
    /\ Return(r)
    /\ UNCHANGED <<posted, healthy>>

-----------------------------------------------------------------------------
Crash ==
    /\ ~healthy
    /\ Die
    /\ UNCHANGED <<posted, healthy>>

Recover ==
    /\ ~healthy
    /\ healthy' = TRUE
    /\ UNCHANGED <<sync, main, posted>>

Init ==
    /\ sync = [r \in Run |-> NoSync]
    /\ main = [r \in Run |-> Idle]
    /\ posted = [r \in Run |-> << >>]
    /\ healthy = FALSE

SyncStep(r) ==
    \/ \E e \in Message : Send(r, e)
    \/ Close(r)

MainStep(r) ==
    \/ Receive(r) \/ RangeEnds(r)
    \/ GetCurrentPersoneel(r) \/ GetGebruiker(r) \/ SaveContactmoment(r)
    \/ GetToken(r) \/ StoreToken(r)

Next ==
    \/ \E r \in Run : SyncRecras(r) \/ SyncStep(r) \/ MainStep(r)
    \/ Crash
    \/ Recover

Spec == Init /\ [][Next]_vars

\* Both goroutines of a run go on once no request hangs or fails; nobody has
\* to begin a run.
Fairness ==
    \A r \in Run : /\ WF_vars(healthy /\ SyncStep(r))
                   /\ WF_vars(healthy /\ MainStep(r))

FairSpec == Spec /\ Fairness

-----------------------------------------------------------------------------
(* Properties.                                                             *)

\* Every variable has its type.
TypeOK ==
    /\ sync \in [Run -> Sync]
    /\ main \in [Run -> Main]
    /\ posted \in [Run -> Seq(Contactmoment)]
    /\ healthy \in BOOLEAN

\* A run leaves no goroutine behind (manage.go:189-199): once SyncRecras has
\* left its loop, Sync has returned and closed the channel.  Nothing is ever
\* sent on a closed channel or to a reader that has gone.
NoGoroutineLeft ==
    \A r \in Run :
      /\ main[r].pc \notin {"idle", "range"} => sync[r].pc = "closed"
      /\ main[r].pc = "idle" => sync[r].pc = "none"

\* The report is the run's own and whole: it is what its Sync has sent, in
\* that order, and Recras gets it at most once, though an error in saving it
\* may be the reply that was lost (manage.go:190-215).
phaseBar == [r \in Run |-> IF main[r].pc = "idle" THEN "idle"
                          ELSE IF sync[r].pc = "closed" THEN "closing"
                          ELSE "running"]

saidBar == [r \in Run |-> IF sync[r].pc = "send"
                         THEN Append(main[r].buf, sync[r].err)
                         ELSE main[r].buf]

reportsBar == [r \in Run |-> [i \in DOMAIN posted[r] |-> posted[r][i].bericht]]

Abstract == INSTANCE RunReport
              WITH phase <- phaseBar, said <- saidBar, reports <- reportsBar

RunReportSpec == Abstract!Spec

\* However many errors there are to send, neither goroutine waits for the
\* other for ever: a run ends once requests do.
RunEnds ==
    \A r \in Run : healthy /\ main[r].pc # "idle" ~> main[r].pc = "idle"

\* The report is the only word that a user gets of a run (manage.go:205-218):
\* a run that collects its errors on a day without failures gets it to the
\* employee whose account it is, errors or no errors, whatever other runs do.
ReportArrives ==
    \A r \in Run :
      healthy /\ main[r].pc = "range"
        ~> /\ posted[r] # << >>
           /\ posted[r][1].contact = "me"

=============================================================================
