------------------------------ MODULE Koppeling ------------------------------
(***************************************************************************)
(* The link between a Recras instance (a host) and Exact Online: the row   *)
(* of table `credential` (dal/credential.go), the handlers that make it    *)
(* and fill it (PostLogin, PostLinkExact, GetCallback), the token calls of *)
(* auth.go, and the runs of SyncRecras that read the refresh token when    *)
(* they begin and store one when they end.                                 *)
(*                                                                         *)
(* What a run does in between is module SyncTool; here it is one step.     *)
(* Exact Online gives a refresh token for every time a user agrees to the  *)
(* link (a Grant).  A tokenSource keeps the token it was made with and     *)
(* refreshes it for every request, so the tokens a grant yields in turn    *)
(* are all as good as the first: they are one value here.                  *)
(***************************************************************************)
EXTENDS Integers, FiniteSets

CONSTANTS
    Host,       \* Recras instances
    User,       \* their users
    HostOf,     \* [User -> Host], what follows the @ of the login
    Run,        \* goroutines that call SyncRecras
    Timer,      \* the one of runTimedSync; the others serve GET /sync
    Grant,      \* authorisations given by users in Exact Online
    MaxDraw,    \* bound: states drawn in the life of one process
    NoRow,      \* no row for this host
    Null,       \* a row without a refresh token
    Empty       \* the refresh token ""

ASSUME KoppelingAssumption ==
    /\ HostOf \in [User -> Host]
    /\ Timer \in Run
    /\ MaxDraw \in Nat
    /\ {NoRow, Null, Empty} \cap Grant = {}
    /\ NoRow # Null /\ NoRow # Empty /\ Null # Empty

VARIABLES
    token,      \* token[h]: the column exact_refresh_token
    state,      \* state[h]: the column state, by its place in the sequence
                \* of math/rand; 0 without a row
    drawn,      \* states drawn since the process began
    login,      \* login[u]: "out", "in", or "insert": about to INSERT the row
    pending,    \* answers of Exact Online on their way to GET /callback:
                \* <<h, g>>, or <<h, Null>> when the user declined
    unused,     \* grants not given yet
    valid,      \* grants that Exact Online honours
    run,        \* run[r]: the local variables of syncAll and SyncRecras
    healthy,    \* once TRUE, no request, query or process fails any more
    latest,     \* history: the last grant that a callback stored for h
    quiet       \* history: no run held a copy of h's row at that moment

hist == <<latest, quiet>>
web  == <<login, pending, unused>>
draw == <<state, drawn>>
vars == <<token, draw, web, valid, run, healthy, hist>>

-----------------------------------------------------------------------------
(* A run: `todo` are the rows it has read and not come to yet.             *)

Row == Host \X (Grant \cup {Null, Empty})

RunState == [pc : {"idle", "next", "sync", "store"}, todo : SUBSET Row,
             host : Host \cup {Null}, token : Grant \cup {Null, Empty}]

IdleRun == [pc |-> "idle", todo |-> {}, host |-> Null, token |-> Null]

Rows == {h \in Host : token[h] # NoRow}

\* r still holds a copy of the row of h.
Holds(r, h) == run[r].host = h \/ \E t \in Grant \cup {Null, Empty} :
                                    <<h, t>> \in run[r].todo

Become(r, s) == run' = [run EXCEPT ![r] = s]

-----------------------------------------------------------------------------
(* PostLogin and CreateCredential: SELECT, then INSERT.  The session is    *)
(* saved whether or not that went well.                                    *)

PostLogin(u) ==
    /\ login[u] = "out"
    /\ \E next \in {IF HostOf[u] \in Rows THEN "in" ELSE "insert"}
                     \cup (IF healthy THEN {} ELSE {"in"}) :
         login' = [login EXCEPT ![u] = next]
    /\ UNCHANGED <<token, draw, pending, unused, valid, run, healthy, hist>>

\* Mutant: INSERT ... ON CONFLICT DO UPDATE.
InsertCredentialUpserts(u) ==
    LET h == HostOf[u]
    IN  /\ login[u] = "insert"
        /\ drawn < MaxDraw
        /\ drawn' = drawn + 1
        /\ login' = [login EXCEPT ![u] = "in"]
        /\ \/ /\ token' = [token EXCEPT ![h] = Null]
              /\ state' = [state EXCEPT ![h] = drawn']
           \/ ~healthy /\ UNCHANGED <<token, state>>
        /\ UNCHANGED <<pending, unused, valid, run, healthy, hist>>

\* The state is drawn from math/rand, which nobody seeds: every process draws
\* the same sequence.  The primary key refuses a second row for the host.
InsertCredential(u) ==
    LET h == HostOf[u]
    IN  /\ login[u] = "insert"
        /\ drawn < MaxDraw
        /\ drawn' = drawn + 1
        /\ login' = [login EXCEPT ![u] = "in"]
        /\ \/ /\ h \notin Rows
              /\ token' = [token EXCEPT ![h] = Null]
              /\ state' = [state EXCEPT ![h] = drawn']
           \/ (h \in Rows \/ ~healthy) /\ UNCHANGED <<token, state>>
        /\ UNCHANGED <<pending, unused, valid, run, healthy, hist>>

GetLogout(u) ==
    /\ login[u] = "in"
    /\ login' = [login EXCEPT ![u] = "out"]
    /\ UNCHANGED <<token, draw, pending, unused, valid, run, healthy, hist>>

\* A page for which setDashboardData finds no row, or gets no answer to its
\* query, sends the browser to GET /logout.
GetHome(u) ==
    /\ HostOf[u] \notin Rows \/ ~healthy
    /\ GetLogout(u)

-----------------------------------------------------------------------------
(* PostLinkExact sends the user to Exact Online, who agrees or declines;   *)
(* GetCallback gets the answer, exchanges the code and stores the token.   *)

PostLinkExact(u) ==
    LET h == HostOf[u]
    IN  /\ login[u] = "in"
        /\ h \in Rows
        /\ \/ \E g \in unused :
                /\ unused' = unused \ {g}
                /\ valid' = valid \cup {g}
                /\ pending' = pending \cup {<<h, g>>}
           \/ /\ pending' = pending \cup {<<h, Null>>}
              /\ UNCHANGED <<unused, valid>>
        /\ UNCHANGED <<token, draw, login, run, healthy, hist>>

\* Mutant: the UPDATE without its WHERE.
UpdateTokenEverywhere(h, t) ==
    token' = [x \in Host |-> IF token[x] = NoRow THEN NoRow ELSE t]

UpdateToken(h, t) ==
    token' = [token EXCEPT ![h] = IF @ = NoRow THEN NoRow ELSE t]

\* What refreshToken and Exchange make of the reply of Exact Online.  They
\* do not look at the status code: the JSON of a refusal decodes to a token
\* without content, and there is no error.
TokenReplies(g) ==
    (IF g \in valid THEN {g} ELSE {Empty})
      \cup (IF healthy THEN {} ELSE {Empty, "error"})

\* The code is exchanged and the token stored: what comes between the two
\* touches nothing that the exchange has read.  The row is one with the state
\* that h was sent to Exact Online with; the session need only have a user.
GetCallback(h, g) ==
    /\ <<h, g>> \in pending
    /\ \E u \in User : login[u] = "in"
    /\ pending' = pending \ {<<h, g>>}
    /\ \/ \E x \in Rows, t \in TokenReplies(g) \ {"error"} :
            /\ state[x] = state[h]
            /\ UpdateToken(x, t)
            /\ latest' = [latest EXCEPT ![x] = t]
            /\ quiet' = [quiet EXCEPT ![x] = \A r \in Run : ~Holds(r, x)]
       \/ ~healthy /\ UNCHANGED <<token, hist>>
    /\ UNCHANGED <<draw, login, unused, valid, run, healthy>>

-----------------------------------------------------------------------------
(* The runs.  The timer reads every row before it comes to the first one.  *)

SyncAll ==
    /\ run[Timer].pc = "idle"
    /\ Become(Timer, [IdleRun EXCEPT !.pc = "next",
                                     !.todo = {<<h, token[h]>> : h \in Rows}])
    /\ UNCHANGED <<token, draw, web, valid, healthy, hist>>

GetSync(r, u) ==
    /\ r # Timer
    /\ run[r].pc = "idle"
    /\ login[u] = "in"
    /\ HostOf[u] \in Rows
    /\ Become(r, [IdleRun EXCEPT !.pc = "next",
                                 !.todo = {<<HostOf[u], token[HostOf[u]]>>}])
    /\ UNCHANGED <<token, draw, web, valid, healthy, hist>>

\* Mutants: a NULL token is taken for a token; a row without one ends syncAll.
NextCredentialUnchecked(r, row) ==
    /\ run[r].pc = "next"
    /\ row \in run[r].todo
    /\ Become(r, [run[r] EXCEPT !.todo = @ \ {row}, !.pc = "sync",
                                !.host = row[1], !.token = row[2]])
    /\ UNCHANGED <<token, draw, web, valid, healthy, hist>>

NextCredentialReturns(r, row) ==
    /\ run[r].pc = "next"
    /\ row \in run[r].todo
    /\ Become(r, IF row[2] = Null THEN IdleRun
                 ELSE [run[r] EXCEPT !.todo = @ \ {row}, !.pc = "sync",
                                     !.host = row[1], !.token = row[2]])
    /\ UNCHANGED <<token, draw, web, valid, healthy, hist>>

\* SyncRecras of the next row; without a refresh token it returns at once.
NextCredential(r, row) ==
    /\ run[r].pc = "next"
    /\ row \in run[r].todo
    /\ LET s == [run[r] EXCEPT !.todo = @ \ {row}]
       IN  Become(r, IF row[2] = Null THEN s
                     ELSE [s EXCEPT !.pc = "sync", !.host = row[1],
                                    !.token = row[2]])
    /\ UNCHANGED <<token, draw, web, valid, healthy, hist>>

AllDone(r) ==
    /\ run[r].pc = "next"
    /\ run[r].todo = {}
    /\ Become(r, IdleRun)
    /\ UNCHANGED <<token, draw, web, valid, healthy, hist>>

\* The process ends, and begins anew: the cookies of the sessions outlive it.
Dies ==
    /\ run' = [r \in Run |-> IdleRun]
    /\ login' = [u \in User |-> IF login[u] = "insert" THEN "out" ELSE login[u]]
    /\ drawn' = 0

\* Sync is over and its report is posted; then comes Token().  On an error
\* tok is nil, and reading tok.AccessToken panics: that ends an HTTP request,
\* but in the goroutine of the timer it ends the process.
GetToken(r) ==
    /\ run[r].pc = "sync"
    /\ \/ \E t \in TokenReplies(run[r].token) \ {"error"} :
            /\ Become(r, [run[r] EXCEPT !.pc = "store", !.token = t])
            /\ UNCHANGED <<login, drawn>>
       \/ /\ "error" \in TokenReplies(run[r].token)
          /\ \/ r = Timer /\ Dies
             \/ r # Timer /\ Become(r, IdleRun) /\ UNCHANGED <<login, drawn>>
    /\ UNCHANGED <<token, state, pending, unused, valid, healthy, hist>>

\* An error of the UPDATE is only logged.
StoreToken(r) ==
    /\ run[r].pc = "store"
    /\ \/ UpdateToken(run[r].host, run[r].token)
       \/ ~healthy /\ UNCHANGED token
    /\ Become(r, [run[r] EXCEPT !.pc = "next", !.host = Null, !.token = Null])
    /\ UNCHANGED <<draw, web, valid, healthy, hist>>

-----------------------------------------------------------------------------
(* The rest of the world: a user withdraws a grant in Exact Online, the    *)
(* process dies, or everything works from now on.                          *)

Revoke(g) ==
    /\ g \in valid
    /\ valid' = valid \ {g}
    /\ UNCHANGED <<token, draw, web, run, healthy, hist>>

Crash ==
    /\ ~healthy
    /\ Dies
    /\ UNCHANGED <<token, state, pending, unused, valid, healthy, hist>>

Recover ==
    /\ ~healthy
    /\ healthy' = TRUE
    /\ UNCHANGED <<token, draw, web, valid, run, hist>>

-----------------------------------------------------------------------------
Init ==
    /\ token = [h \in Host |-> NoRow]
    /\ state = [h \in Host |-> 0]
    /\ drawn = 0
    /\ login = [u \in User |-> "out"]
    /\ pending = {}
    /\ unused = Grant
    /\ valid = {}
    /\ run = [r \in Run |-> IdleRun]
    /\ healthy = FALSE
    /\ latest = [h \in Host |-> Null]
    /\ quiet = [h \in Host |-> TRUE]

Browser ==
    \/ \E u \in User : \/ PostLogin(u) \/ InsertCredential(u)
                       \/ GetLogout(u) \/ GetHome(u) \/ PostLinkExact(u)
    \/ \E h \in Host, g \in Grant \cup {Null} : GetCallback(h, g)
    \/ \E r \in Run, u \in User : GetSync(r, u)

Step(r) ==
    \/ \E row \in Row : NextCredential(r, row)
    \/ AllDone(r) \/ GetToken(r) \/ StoreToken(r)

Next ==
    \/ Browser
    \/ SyncAll
    \/ \E r \in Run : Step(r)
    \/ \E g \in Grant : Revoke(g)
    \/ Crash
    \/ Recover

Spec == Init /\ [][Next]_vars

\* The ticker comes back every day, and a run goes on as long as no request
\* hangs; what users do is up to them.
Fairness ==
    /\ WF_vars(healthy /\ SyncAll)
    /\ \A r \in Run : WF_vars(healthy /\ Step(r))

FairSpec == Spec /\ Fairness

-----------------------------------------------------------------------------
(* Properties.                                                             *)

\* Every variable has its type, and a run that has come to Sync has a token:
\* it never dereferences the NULL of a row that was not linked yet.
TypeOK ==
    /\ token \in [Host -> Grant \cup {NoRow, Null, Empty}]
    /\ state \in [Host -> 0..MaxDraw]
    /\ drawn \in 0..MaxDraw
    /\ login \in [User -> {"out", "insert", "in"}]
    /\ pending \subseteq Host \X (Grant \cup {Null})
    /\ unused \subseteq Grant
    /\ valid \subseteq Grant
    /\ run \in [Run -> RunState]
    /\ \A r \in Run : run[r].pc \in {"sync", "store"} =>
         run[r].host \in Host /\ run[r].token # Null
    /\ healthy \in BOOLEAN
    /\ latest \in [Host -> Grant \cup {Null, Empty}]
    /\ quiet \in [Host -> BOOLEAN]

\* What a callback stored for a host (dal/credential.go:83) stays there until
\* the next one, or until Exact Online refuses it: runs of other hosts, and
\* runs that begin later, at most store the same grant again.  Only a run
\* that had read the row before the callback can put an older grant back.
QuietLinkSticks ==
    \A h \in Host :
      quiet[h] /\ token[h] # NoRow => token[h] \in {latest[h], Empty}

\* Everything that may yet be stored in the row of h works: answers on their
\* way to GET /callback, and the copies that runs hold.
Copies(h) ==
    {run[r].token : r \in {q \in Run : run[q].host = h}}
      \cup {t \in Grant \cup {Null, Empty} :
               \E r \in Run : <<h, t>> \in run[r].todo}

Working(h) ==
    /\ healthy
    /\ token[h] \in valid
    /\ Copies(h) \subseteq valid \cup {Null}
    /\ \A x \in Host, g \in Grant \cup {Null} :
         <<x, g>> \in pending /\ state[x] = state[h] => g \in valid

\* The exchange of a refused code gives an empty token that is stored over a
\* working one (auth.go:51-76), and a refused refresh does so too (auth.go:103),
\* but that takes a refusal for this very row: while requests do not fail, what
\* other instances' users decline and other rows' tokens lose, and whatever
\* order runs and callbacks come in, leaves a link working that works.
WorkingLinkSurvives ==
    [][\A h \in Host :
         Working(h) /\ valid \subseteq valid' => token'[h] \in valid']_vars

\* A host whose stored token works is synchronised every day, whatever the
\* state of the other hosts' rows (cmd/koppeling/main.go:178).
DailySync ==
    \A h \in Host :
      <>[](healthy /\ token[h] \in valid)
        => []<>(/\ run[Timer].pc = "sync" /\ run[Timer].host = h
                /\ run[Timer].token \in valid)

\* "Please run the activation again" (handlers/manage.go:178): doing so lasts.
\* The grant that was stored last, and that Exact Online honours, is not
\* replaced by one from before.
ActivationSticks ==
    [][\A h \in Host :
         /\ token[h] = latest[h] /\ token[h] \in valid
         /\ latest'[h] = latest[h]
         => token'[h] \in {token[h], Empty}]_vars

\* The user who activates the link is asked for access to
\* "uw Administraties" (templates/link_exact.html.tmpl:8): what Exact Online
\* answers is stored for the instance that the user comes from.
LinkIsOfAsker ==
    [][\A h, x \in Host, g \in Grant :
         GetCallback(h, g) /\ token'[x] # token[x] => x = h]_vars

=============================================================================
