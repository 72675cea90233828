------------------------------ MODULE TimedSync ------------------------------
(***************************************************************************)
(* When the daily synchronisation begins: runTimedSync of                  *)
(* cmd/koppeling/main.go.  A timer waits for the first 03:07, its function *)
(* makes a ticker of 24 hours and calls syncAll for every tick it receives.*)
(* The channel of a ticker holds one tick and drops those that find it     *)
(* full, which happens while syncAll is busy.  What syncAll does is in     *)
(* Koppeling and SyncTool; here it takes as long as it likes.              *)
(***************************************************************************)
EXTENDS Integers

CONSTANTS
    Hours, Minutes,             \* of a day, of an hour
    beginHour, beginMinute,
    MaxTime,                    \* bound of the clock, in minutes
    None                        \* no timer, no ticker, no tick, no sync yet

ASSUME TimedSyncAssumption ==
    /\ Hours \in Nat \ {0} /\ Minutes \in Nat \ {0}
    /\ beginHour \in 0..(Hours - 1) /\ beginMinute \in 0..(Minutes - 1)
    /\ MaxTime \in Nat
    /\ None \notin Int

VARIABLES
    now,        \* minutes since some midnight
    timer,      \* when the function of AfterFunc is due
    ticker,     \* when the next tick is due
    chan,       \* the tick in the channel of the ticker
    busy,       \* syncAll is under way
    last        \* history: when this process last began a syncAll

vars == <<now, timer, ticker, chan, busy, last>>

Day == Hours * Minutes
Hour(t) == (t % Day) \div Minutes
Minute(t) == t % Minutes

\* time.Date(...): beginHour:beginMinute on the day of t.
Begin(t) == t - (t % Day) + beginHour * Minutes + beginMinute

\* Mutant: only the minutes are compared.
next3amMinutes(t) == Begin(IF Minute(t) > beginMinute THEN t + Day ELSE t)

next3am(t) ==
    Begin(IF Hour(t) >= beginHour /\ Minute(t) > beginMinute THEN t + Day ELSE t)

-----------------------------------------------------------------------------
\* AfterFunc fires at once when it is called for a moment that has passed.
FirstSync ==
    /\ timer # None /\ now >= timer
    /\ timer' = None
    /\ ticker' = now + Day
    /\ busy' = TRUE /\ last' = now
    /\ UNCHANGED <<now, chan>>

\* Mutant: the channel gets the time of the tick after this one.
TickNext ==
    /\ ticker # None /\ now >= ticker
    /\ ticker' = ticker + Day
    /\ chan' = IF chan = None THEN ticker' ELSE chan
    /\ UNCHANGED <<now, timer, busy, last>>

Tick ==
    /\ ticker # None /\ now >= ticker
    /\ ticker' = ticker + Day
    /\ chan' = IF chan = None THEN ticker ELSE chan
    /\ UNCHANGED <<now, timer, busy, last>>

\* Mutant: the test for a late tick turned round.
ReceiveBefore ==
    /\ chan # None /\ ~busy
    /\ busy' = (chan > now + Minutes)
    /\ last' = IF busy' THEN now ELSE last
    /\ chan' = None
    /\ UNCHANGED <<now, timer, ticker>>

\* A tick that lies more than an hour in the future is skipped.
Receive ==
    /\ chan # None /\ ~busy
    /\ busy' = ~(chan > now + Minutes)
    /\ last' = IF busy' THEN now ELSE last
    /\ chan' = None
    /\ UNCHANGED <<now, timer, ticker>>

SyncEnds ==
    /\ busy
    /\ busy' = FALSE
    /\ UNCHANGED <<now, timer, ticker, chan, last>>

\* The process ends, and main calls runTimedSync again.
Restart ==
    /\ timer' = next3am(now)
    /\ ticker' = None /\ chan' = None /\ busy' = FALSE /\ last' = None
    /\ UNCHANGED now

\* What is due happens before the clock moves on.
Clock ==
    /\ now < MaxTime
    /\ timer # None => now < timer
    /\ ticker # None => now < ticker
    /\ chan # None => busy
    /\ now' = now + 1
    /\ UNCHANGED <<timer, ticker, chan, busy, last>>

Init ==
    /\ now \in 0..(Day - 1)
    /\ timer = next3am(now)
    /\ ticker = None /\ chan = None /\ busy = FALSE /\ last = None

Next ==
    \/ FirstSync \/ Tick \/ Receive \/ SyncEnds \/ Restart \/ Clock

Spec == Init /\ [][Next]_vars

-----------------------------------------------------------------------------
(* Properties.                                                             *)

\* The variables have their types, a process has a timer or a ticker, and a
\* tick in the channel is one that has passed: the test of main.go:187 for a
\* tick in the future never holds.
TypeOK ==
    /\ now \in Nat
    /\ timer \in Int \cup {None} /\ ticker \in Nat \cup {None}
    /\ (timer = None) <=> (ticker # None)
    /\ chan \in Nat \cup {None} /\ (chan # None => chan <= now)
    /\ busy \in BOOLEAN
    /\ last \in Nat \cup {None}

\* However long the synchronisations take, and whatever ticks are dropped
\* meanwhile: while none is under way and no tick waits for it, the last one
\* began within a day (main.go:169-193).
IdleMeansRecent ==
    ~busy /\ chan = None /\ last # None => now - last <= Day

\* The first synchronisation of a process does not wait for more than a day,
\* at whatever time the process begins (main.go:158-166).
FirstWithinDay ==
    timer # None => timer - now <= Day

=============================================================================
