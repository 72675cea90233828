--------------------------- MODULE TimedSync_proof ---------------------------
(***************************************************************************)
(* Proofs about TimedSync, for days of any length and any beginHour and    *)
(* beginMinute.                                                            *)
(***************************************************************************)
EXTENDS TimedSync, TLAPS

-----------------------------------------------------------------------------
(* The arithmetic of time.Date: hours and minutes of a moment.             *)

LEMMA DivMod ==
    ASSUME NEW a \in Int, NEW b \in Nat \ {0}
    PROVE  /\ a \div b \in Int /\ a % b \in 0..(b - 1)
           /\ a = b * (a \div b) + (a % b)
  BY Z3

\* There is one way to write a moment as so many times b and a rest.
LEMMA ModUnique ==
    ASSUME NEW b \in Nat \ {0}, NEW q \in Int, NEW p \in Int,
           NEW r \in 0..(b - 1), NEW s \in 0..(b - 1),
           b * q + r = b * p + s
    PROVE  r = s
<1>1. b * (q - p) = s - r OBVIOUS
<1>2. CASE q - p >= 1
  <2>1. b * (q - p) >= b BY <1>2
  <2> QED BY <1>1, <2>1
<1>3. CASE q - p <= 0 - 1
  <2>1. b * (p - q) >= b BY <1>3
  <2>2. b * (p - q) = r - s OBVIOUS
  <2> QED BY <2>1, <2>2
<1>4. CASE q = p BY <1>4
<1> QED BY <1>2, <1>3, <1>4

LEMMA DayType ==
    /\ Day \in Nat \ {0}
    /\ beginHour * Minutes + beginMinute \in 0..(Day - 1)
<1>1. /\ Hours \in Nat \ {0} /\ Minutes \in Nat \ {0}
      /\ beginHour \in 0..(Hours - 1) /\ beginMinute \in 0..(Minutes - 1)
  BY TimedSyncAssumption
<1>2. Hours * Minutes \in Nat \ {0} BY <1>1
<1>3. beginHour * Minutes \in Nat BY <1>1
<1>4. (Hours - 1 - beginHour) * Minutes \in Nat BY <1>1
<1>5. Hours * Minutes - Minutes - beginHour * Minutes \in Nat BY <1>1, <1>4
<1> QED BY <1>1, <1>2, <1>3, <1>5 DEF Day

\* The minute of a moment is that of its time of day.
LEMMA TimeOfDay ==
    ASSUME NEW t \in Int
    PROVE  /\ t % Day \in 0..(Day - 1) /\ Hour(t) \in Int /\ Minute(t) \in Int
           /\ t % Day = Hour(t) * Minutes + Minute(t)
<1> DEFINE r == t % Day
           q == t \div Day
<1>1. /\ Minutes \in Nat \ {0} /\ Hours \in Nat \ {0} /\ Day \in Nat \ {0}
  BY DayType, TimedSyncAssumption
<1>2. q \in Int /\ r \in 0..(Day - 1) /\ t = Day * q + r BY <1>1, DivMod
<1> HIDE DEF r, q
<1>3. /\ r \div Minutes \in Int /\ r % Minutes \in 0..(Minutes - 1)
      /\ r = Minutes * (r \div Minutes) + (r % Minutes)
  BY <1>1, <1>2, DivMod
<1>4. /\ t \div Minutes \in Int /\ t % Minutes \in 0..(Minutes - 1)
      /\ t = Minutes * (t \div Minutes) + (t % Minutes)
  BY <1>1, DivMod
<1> DEFINE p == Hours * q + (r \div Minutes)
<1>5. p \in Int BY <1>1, <1>2, <1>3
<1>6. Day * q = Minutes * (Hours * q) BY <1>1, <1>2 DEF Day
<1>7. Minutes * p = Minutes * (Hours * q) + Minutes * (r \div Minutes)
  BY <1>1, <1>2, <1>3
<1> HIDE DEF p
<1>8. Minutes * p + (r % Minutes) = t
  <2> DEFINE a == Minutes * (Hours * q)
             b == Minutes * (r \div Minutes)
             m == r % Minutes
  <2>1. a \in Int /\ b \in Int /\ m \in Int BY <1>1, <1>2, <1>3
  <2>2. Minutes * p = a + b /\ r = b + m /\ t = a + r
    BY <1>2, <1>3, <1>6, <1>7
  <2> HIDE DEF a, b, m
  <2>3. Minutes * p + m = t BY <2>1, <2>2
  <2> QED BY <2>3 DEF m
<1>9. r % Minutes = t % Minutes BY <1>1, <1>3, <1>4, <1>5, <1>8, ModUnique
<1>10. Hour(t) = r \div Minutes /\ Minute(t) = t % Minutes
  BY DEF Hour, Minute, r
<1>11. Minutes * (r \div Minutes) = (r \div Minutes) * Minutes BY <1>1, <1>3
<1> QED BY <1>2, <1>3, <1>9, <1>10, <1>11 DEF r

\* The first sync is due on this day of the calendar or on the next one, and
\* in the latter case at an earlier time of day than it is now.
LEMMA Next3am ==
    ASSUME NEW t \in Nat
    PROVE  next3am(t) \in Nat /\ next3am(t) - t <= Day
<1> DEFINE begin == beginHour * Minutes + beginMinute
<1>1. Day \in Nat \ {0} /\ begin \in 0..(Day - 1) BY DayType
<1>2. ASSUME NEW u \in Nat
      PROVE  Begin(u) \in Nat /\ Begin(u) = u - (u % Day) + begin
  <2>1. u % Day \in 0..(Day - 1) /\ u - (u % Day) = Day * (u \div Day)
        /\ u \div Day \in Int
    BY <1>1, DivMod
  <2>2. u - (u % Day) > 0 - Day BY <1>1, <2>1
  <2>3. u \div Day >= 0
    <3>1. CASE u \div Day <= 0 - 1
      <4>1. Day * (u \div Day) <= Day * (0 - 1) BY <1>1, <2>1, <3>1
      <4> QED BY <1>1, <2>1, <2>2, <4>1
    <3> QED BY <2>1, <3>1
  <2>4. Day * (u \div Day) >= 0 BY <1>1, <2>1, <2>3
  <2>5. beginHour * Minutes \in Int /\ beginMinute \in Int
    BY TimedSyncAssumption
  <2>6. Begin(u) = u - (u % Day) + begin BY <1>1, <2>1, <2>5 DEF Begin
  <2> HIDE DEF begin
  <2> QED BY <1>1, <2>1, <2>4, <2>6
<1>3. t % Day \in 0..(Day - 1) BY TimeOfDay
<1>4. CASE Hour(t) >= beginHour /\ Minute(t) > beginMinute
  <2>1. next3am(t) = Begin(t + Day) BY <1>4 DEF next3am
  <2>2. begin <= t % Day
    <3>1. /\ Minutes \in Nat /\ beginHour \in Nat /\ beginMinute \in Nat
          /\ Hour(t) \in Int /\ Minute(t) \in Int
      BY TimedSyncAssumption, TimeOfDay
    <3>2. Hour(t) * Minutes >= beginHour * Minutes BY <1>4, <3>1
    <3> QED BY <1>4, <3>1, <3>2, TimeOfDay
  <2>3. (t + Day) % Day = t % Day
    <3> DEFINE u == t + Day
               q == t \div Day
               p == u \div Day
               r == t % Day
               s == u % Day
    <3>1. q \in Int /\ r \in 0..(Day - 1) /\ t = Day * q + r
      BY <1>1, DivMod
    <3>2. u \in Int BY <1>1
    <3> HIDE DEF u
    <3>3. p \in Int /\ s \in 0..(Day - 1) /\ u = Day * p + s
      BY <1>1, <3>2, DivMod
    <3>4. u = t + Day BY DEF u
    <3> HIDE DEF q, p, r, s
    <3>5. Day * (q + 1) = Day * q + Day BY <1>1, <3>1
    <3>6. Day * (q + 1) + r = Day * p + s /\ q + 1 \in Int
      BY <1>1, <3>1, <3>3, <3>4, <3>5
    <3>7. r = s BY <1>1, <3>1, <3>3, <3>6, ModUnique
    <3> QED BY <3>7 DEF r, s, u
  <2> DEFINE u == t + Day
  <2>4. u \in Nat /\ u = t + Day /\ u % Day = t % Day BY <1>1, <2>3
  <2>5. next3am(t) = Begin(u) BY <2>1
  <2> HIDE DEF u
  <2>6. Begin(u) = u - (u % Day) + begin /\ Begin(u) \in Nat BY <1>2, <2>4
  <2> HIDE DEF begin
  <2> QED BY <1>1, <1>3, <2>2, <2>4, <2>5, <2>6
<1>5. CASE ~(Hour(t) >= beginHour /\ Minute(t) > beginMinute)
  <2>1. next3am(t) = Begin(t) BY <1>5 DEF next3am
  <2>2. Begin(t) = t - (t % Day) + begin /\ Begin(t) \in Nat BY <1>2
  <2> HIDE DEF begin
  <2> QED BY <1>1, <1>3, <2>1, <2>2
<1> QED BY <1>4, <1>5

-----------------------------------------------------------------------------
(* The inductive invariant.  A tick that finds the channel full is lost,   *)
(* but then the one in the channel will begin a sync later still: while    *)
(* the channel is empty the last sync began after the last tick.           *)

TickerInv ==
    ticker # None =>
      /\ ticker \in now..(now + Day)
      /\ last # None
      /\ chan = None => ticker <= last + Day

TimerInv ==
    timer # None => timer <= now + Day /\ chan = None /\ last = None

TimedInv == TypeOK /\ TimerInv /\ TickerInv

LEMMA TimedInvInit == Init => TimedInv
<1> SUFFICES ASSUME Init PROVE TimedInv OBVIOUS
<1>1. now \in Nat /\ Day \in Nat BY DayType DEF Init
<1>2. next3am(now) \in Nat /\ next3am(now) - now <= Day BY <1>1, Next3am
<1>3. next3am(now) # None BY <1>2, TimedSyncAssumption
<1>4. /\ timer \in Nat /\ timer # None /\ timer <= now + Day
      /\ ticker = None /\ chan = None /\ busy = FALSE /\ last = None
  BY <1>1, <1>2, <1>3 DEF Init
<1>5. TypeOK
  <2>1. busy \in BOOLEAN BY <1>4
  <2>2. (timer = None) <=> (ticker # None) BY <1>4
  <2> QED BY <1>1, <1>4, <2>1, <2>2 DEF TypeOK
<1>6. TimerInv /\ TickerInv BY <1>4 DEF TimerInv, TickerInv
<1> QED BY <1>5, <1>6 DEF TimedInv

LEMMA TimedInvNext == TimedInv /\ [Next]_vars => TimedInv'
<1> SUFFICES ASSUME TimedInv, [Next]_vars PROVE TimedInv' OBVIOUS
<1>1. /\ Day \in Nat \ {0} /\ Minutes \in Nat /\ None \notin Int
  BY DayType, TimedSyncAssumption
<1> USE DEF TimedInv, TypeOK, TimerInv, TickerInv
<1>2. CASE FirstSync BY <1>1, <1>2 DEF FirstSync
<1>3. CASE Tick BY <1>1, <1>3 DEF Tick
<1>4. CASE Receive
  \* No tick lies in the future, so every one that is received counts.
  <2>1. chan \in Nat /\ chan <= now BY <1>4 DEF Receive
  <2>2. busy' = TRUE /\ last' = now BY <1>1, <1>4, <2>1 DEF Receive
  <2> QED BY <1>1, <1>4, <2>2 DEF Receive
<1>5. CASE SyncEnds BY <1>1, <1>5 DEF SyncEnds
<1>6. CASE Restart
  <2>1. next3am(now) \in Nat /\ next3am(now) - now <= Day BY Next3am
  <2> QED BY <1>1, <1>6, <2>1 DEF Restart
<1>7. CASE Clock BY <1>1, <1>7 DEF Clock
<1>8. CASE UNCHANGED vars BY <1>8 DEF vars
<1> QED BY <1>2, <1>3, <1>4, <1>5, <1>6, <1>7, <1>8 DEF Next

\* Timer, ticker and the tick in its channel are where runTimedSync puts them,
\* relative to the beginning of the last sync.
THEOREM TimedInvariant == Spec => []TimedInv
  BY TimedInvInit, TimedInvNext, PTL DEF Spec

\* Types; and no tick that is received lies in the future, so the test of
\* main.go:187 never skips a sync.
THEOREM TypeCorrect == Spec => []TypeOK
<1>1. TimedInv => TypeOK BY DEF TimedInv
<1> QED BY <1>1, TimedInvariant, PTL

\* An idle process has begun a sync within the last day, whatever ticks were
\* dropped while the syncs before it took too long.
THEOREM IdleIsRecent == Spec => []IdleMeansRecent
<1>1. TimedInv => IdleMeansRecent
  BY DayType, TimedSyncAssumption
  DEF TimedInv, TypeOK, TimerInv, TickerInv, IdleMeansRecent
<1> QED BY <1>1, TimedInvariant, PTL

\* A process begins its first sync within a day, although the comparison of
\* hours and minutes in runTimedSync is not one of times of day.
THEOREM FirstIsWithinDay == Spec => []FirstWithinDay
<1>1. TimedInv => FirstWithinDay
  BY DayType, TimedSyncAssumption
  DEF TimedInv, TypeOK, TimerInv, FirstWithinDay
<1> QED BY <1>1, TimedInvariant, PTL

=============================================================================
