--------------------------- MODULE Koppeling_proof ---------------------------
(***************************************************************************)
(* Proofs about Koppeling, for any number of hosts, users, runs and grants.*)
(***************************************************************************)
EXTENDS Koppeling, TLAPS

\* The two forms a refresh token has when a request has returned one.
LEMMA ReplyType ==
    ASSUME TypeOK, NEW g \in Grant \cup {Null, Empty},
           NEW t \in TokenReplies(g) \ {"error"}
    PROVE  t \in Grant \cup {Empty} /\ t \in {g, Empty} /\ t # Null
  BY KoppelingAssumption DEF TypeOK, TokenReplies

LEMMA UpdateTokenEffect ==
    ASSUME TypeOK, NEW h \in Host, NEW t \in Grant \cup {Empty},
           UpdateToken(h, t)
    PROVE  /\ token' \in [Host -> Grant \cup {NoRow, Null, Empty}]
           /\ \A x \in Host : token'[x] = NoRow <=> token[x] = NoRow
           /\ \A x \in Host \ {h} : token'[x] = token[x]
           /\ token'[h] \in {NoRow, t}
  BY KoppelingAssumption DEF TypeOK, UpdateToken

LEMMA RunsType ==
    ASSUME TypeOK, NEW r \in Run
    PROVE  /\ run[r] \in RunState
           /\ run[r].pc \in {"sync", "store"} =>
                run[r].host \in Host /\ run[r].token # Null
  BY DEF TypeOK

LEMMA IdleType == IdleRun \in RunState
  BY DEF IdleRun, RunState

\* What the end of the process leaves of the variables that it changes.
LEMMA DiesEffect ==
    ASSUME TypeOK, Dies
    PROVE  /\ run' \in [Run -> RunState]
           /\ \A q \in Run : run'[q] = IdleRun /\ run'[q].pc = "idle"
           /\ login' \in [User -> {"out", "insert", "in"}]
           /\ drawn' \in 0..MaxDraw
  BY IdleType, KoppelingAssumption DEF TypeOK, Dies, IdleRun

-----------------------------------------------------------------------------
(* Types.                                                                  *)

LEMMA InitType == Init => TypeOK
  <1>. SUFFICES ASSUME Init  PROVE TypeOK
    OBVIOUS
  <1>1. /\ run \in [Run -> RunState]
        /\ \A r \in Run : run[r].pc \notin {"sync", "store"}
    BY IdleType DEF Init, IdleRun
  <1>2. quiet \in [Host -> BOOLEAN]
    BY DEF Init
  <1>3. /\ token \in [Host -> Grant \cup {NoRow, Null, Empty}]
        /\ login \in [User -> {"out", "insert", "in"}]
        /\ pending \subseteq Host \X (Grant \cup {Null})
        /\ unused \subseteq Grant
        /\ valid \subseteq Grant
        /\ healthy \in BOOLEAN
        /\ latest \in [Host -> Grant \cup {Null, Empty}]
    BY DEF Init
  <1>4. 0 \in 0..MaxDraw
    BY KoppelingAssumption
  <1>5. state \in [Host -> 0..MaxDraw] /\ drawn \in 0..MaxDraw
    BY <1>4 DEF Init
  <1>. QED BY <1>1, <1>2, <1>3, <1>5 DEF TypeOK

LEMMA BrowserType ==
    ASSUME TypeOK, Browser
    PROVE  TypeOK'
  <1>1. ASSUME NEW u \in User, PostLogin(u)  PROVE TypeOK'
    BY <1>1 DEF TypeOK, PostLogin, hist, draw
  <1>2. ASSUME NEW u \in User, InsertCredential(u)  PROVE TypeOK'
    BY <1>2, KoppelingAssumption DEF TypeOK, InsertCredential, hist
  <1>3. ASSUME NEW u \in User, GetLogout(u)  PROVE TypeOK'
    BY <1>3 DEF TypeOK, GetLogout, hist, draw
  <1>4. ASSUME NEW u \in User, PostLinkExact(u)  PROVE TypeOK'
    BY <1>4, KoppelingAssumption DEF TypeOK, PostLinkExact, hist, draw
  <1>5. ASSUME NEW h \in Host, NEW g \in Grant \cup {Null}, GetCallback(h, g)
        PROVE  TypeOK'
    <2>1. CASE UNCHANGED <<token, hist>>
      BY <1>5, <2>1 DEF TypeOK, GetCallback, hist, draw
    <2>2. ASSUME NEW x \in Rows, NEW t \in TokenReplies(g) \ {"error"},
                 UpdateToken(x, t), latest' = [latest EXCEPT ![x] = t],
                 quiet' = [quiet EXCEPT ![x] = \A r \in Run : ~Holds(r, x)]
          PROVE  TypeOK'
      <3>1. t \in Grant \cup {Empty}
        BY <2>2, ReplyType
      <3>2. token' \in [Host -> Grant \cup {NoRow, Null, Empty}]
        BY <2>2, <3>1, UpdateTokenEffect DEF Rows
      <3>3. latest' \in [Host -> Grant \cup {Null, Empty}]
        BY <2>2, <3>1 DEF TypeOK
      <3>4. quiet' \in [Host -> BOOLEAN]
        BY <2>2, Zenon DEF TypeOK
      <3>5. pending' \subseteq Host \X (Grant \cup {Null})
        BY <1>5 DEF TypeOK, GetCallback
      <3>. QED BY <1>5, <3>2, <3>3, <3>4, <3>5 DEF TypeOK, GetCallback, draw
    <2>. QED BY <1>5, <2>1, <2>2 DEF GetCallback
  <1>6. ASSUME NEW r \in Run, NEW u \in User, GetSync(r, u)  PROVE TypeOK'
    <2>1. <<HostOf[u], token[HostOf[u]]>> \in Row
      BY <1>6, KoppelingAssumption DEF TypeOK, GetSync, Row, Rows
    <2>. DEFINE s == [IdleRun EXCEPT !.pc = "next",
                        !.todo = {<<HostOf[u], token[HostOf[u]]>>}]
    <2>2. s \in RunState /\ s.pc = "next"
      BY <2>1 DEF RunState, IdleRun
    <2>. QED BY <1>6, <2>2 DEF TypeOK, GetSync, Become, hist, web, draw
  <1>. QED BY <1>1, <1>2, <1>3, <1>4, <1>5, <1>6 DEF Browser, GetHome

LEMMA SyncAllType ==
    ASSUME TypeOK, SyncAll
    PROVE  TypeOK'
  <1>1. {<<h, token[h]>> : h \in Rows} \subseteq Row
    BY DEF TypeOK, Row, Rows
  <1>. QED BY <1>1 DEF TypeOK, SyncAll, Become, RunState, IdleRun, hist, web, draw

LEMMA StepType ==
    ASSUME TypeOK, NEW r \in Run, Step(r)
    PROVE  TypeOK'
  <1>1. ASSUME NEW row \in Row, NextCredential(r, row)  PROVE TypeOK'
    <2>. DEFINE s == [run[r] EXCEPT !.todo = @ \ {row}]
                n == IF row[2] = Null THEN s
                     ELSE [s EXCEPT !.pc = "sync", !.host = row[1],
                                    !.token = row[2]]
    <2>1. row[1] \in Host /\ row[2] \in Grant \cup {Null, Empty}
      BY DEF Row
    <2>2. /\ n \in RunState
          /\ n.pc \in {"sync", "store"} => n.host \in Host /\ n.token # Null
      BY <1>1, <2>1, RunsType DEF NextCredential, RunState
    <2>3. run' = [run EXCEPT ![r] = n]
      BY <1>1 DEF NextCredential, Become
    <2>. QED BY <1>1, <2>2, <2>3 DEF TypeOK, NextCredential, hist, web, draw
  <1>2. CASE AllDone(r)
    BY <1>2, IdleType DEF TypeOK, AllDone, Become, IdleRun, hist, web, draw
  <1>3. CASE GetToken(r)
    <2>. DEFINE Typed(f) == /\ f \in [Run -> RunState]
                            /\ \A q \in Run : f[q].pc \in {"sync", "store"} =>
                                 f[q].host \in Host /\ f[q].token # Null
    <2>1. ASSUME NEW t \in TokenReplies(run[r].token) \ {"error"},
                 Become(r, [run[r] EXCEPT !.pc = "store", !.token = t])
          PROVE  Typed(run')
      <3>1. t \in Grant \cup {Empty} /\ t # Null
        BY <2>1, RunsType, ReplyType DEF RunState
      <3>. QED BY <1>3, <2>1, <3>1, RunsType
               DEF TypeOK, GetToken, Become, RunState
    <2>2. ASSUME Become(r, IdleRun)  PROVE Typed(run')
      BY <2>2, IdleType DEF TypeOK, Become, IdleRun
    <2>3. ASSUME Dies  PROVE Typed(run')
      BY <2>3, DiesEffect
    <2>4. Typed(run')
      BY <1>3, <2>1, <2>2, <2>3 DEF GetToken
    <2>5. /\ login' \in [User -> {"out", "insert", "in"}]
          /\ drawn' \in 0..MaxDraw
      BY <1>3, DiesEffect DEF TypeOK, GetToken
    <2>. QED BY <1>3, <2>4, <2>5 DEF TypeOK, GetToken, hist
  <1>4. CASE StoreToken(r)
    <2>1. token' \in [Host -> Grant \cup {NoRow, Null, Empty}]
      <3>1. CASE UNCHANGED token
        BY <3>1 DEF TypeOK
      <3>2. CASE UpdateToken(run[r].host, run[r].token)
        BY <1>4, <3>2, RunsType, UpdateTokenEffect DEF StoreToken, RunState
      <3>. QED BY <1>4, <3>1, <3>2 DEF StoreToken
    <2>. QED BY <1>4, <2>1, RunsType
             DEF TypeOK, StoreToken, Become, RunState, hist, web, draw
  <1>. QED BY <1>1, <1>2, <1>3, <1>4 DEF Step

LEMMA NextType == TypeOK /\ [Next]_vars => TypeOK'
  <1>. SUFFICES ASSUME TypeOK, [Next]_vars  PROVE TypeOK'
    OBVIOUS
  <1>1. CASE Browser
    BY <1>1, BrowserType
  <1>2. CASE SyncAll
    BY <1>2, SyncAllType
  <1>3. CASE \E r \in Run : Step(r)
    BY <1>3, StepType
  <1>4. CASE \E g \in Grant : Revoke(g)
    BY <1>4 DEF TypeOK, Revoke, hist, web, draw
  <1>5. CASE Crash
    BY <1>5, DiesEffect DEF TypeOK, Crash, hist
  <1>6. CASE Recover
    BY <1>6 DEF TypeOK, Recover, hist, web, draw
  <1>7. CASE UNCHANGED vars
    BY <1>7 DEF TypeOK, vars, hist, web, draw
  <1>. QED BY <1>1, <1>2, <1>3, <1>4, <1>5, <1>6, <1>7 DEF Next

\* The variables keep their types, and no run dereferences a NULL token.
THEOREM LinkTypeCorrect == Spec => []TypeOK
  BY InitType, NextType, PTL DEF Spec

-----------------------------------------------------------------------------
(* What a callback stored stays, if no run held an older copy of the row.  *)
(* QuietLinkSticks is not inductive: it says nothing of the copies that    *)
(* runs hold and store later, nor of hosts without a row.                  *)

\* Only a row can have been given a token.
RowInv == \A h \in Host : token[h] = NoRow => latest[h] = Null

\* Every copy that some run holds of a quiet row is what was stored last.
CopyInv ==
    \A h \in Host : quiet[h] =>
      /\ token[h] \in {NoRow, latest[h], Empty}
      /\ \A r \in Run :
           /\ run[r].pc \in {"sync", "store"} /\ run[r].host = h
                => run[r].token \in {latest[h], Empty}
           /\ \A t \in Grant \cup {Null, Empty} :
                <<h, t>> \in run[r].todo => t \in {latest[h], Empty}

LinkInv == TypeOK /\ RowInv /\ CopyInv

LEMMA InitLink == Init => LinkInv
  <1>. SUFFICES ASSUME Init  PROVE LinkInv
    OBVIOUS
  <1>1. RowInv
    BY DEF Init, RowInv
  <1>2. CopyInv
    BY DEF Init, CopyInv, IdleRun
  <1>. QED BY <1>1, <1>2, InitType DEF LinkInv

LEMMA RowStep ==
    ASSUME LinkInv, Next
    PROVE  RowInv'
  <1>. USE DEF LinkInv
  <1>1. ASSUME NEW u \in User, PostLogin(u) \/ GetLogout(u)  PROVE RowInv'
    BY <1>1 DEF RowInv, PostLogin, GetLogout, hist
  <1>2. ASSUME NEW u \in User, InsertCredential(u)  PROVE RowInv'
    BY <1>2, KoppelingAssumption DEF TypeOK, RowInv, InsertCredential, Rows, hist
  <1>3. ASSUME NEW u \in User, PostLinkExact(u)  PROVE RowInv'
    BY <1>3 DEF RowInv, PostLinkExact, hist
  <1>4. ASSUME NEW h \in Host, NEW g \in Grant \cup {Null}, GetCallback(h, g)
        PROVE  RowInv'
    <2>1. CASE UNCHANGED <<token, hist>>
      BY <1>4, <2>1 DEF RowInv, GetCallback, hist
    <2>2. ASSUME NEW x \in Rows, NEW t \in TokenReplies(g) \ {"error"},
                 UpdateToken(x, t), latest' = [latest EXCEPT ![x] = t]
          PROVE  RowInv'
      <3>1. t \in Grant \cup {Empty} /\ x \in Host /\ token[x] # NoRow
        BY <2>2, ReplyType DEF Rows
      <3>2. \A y \in Host : token'[y] = NoRow <=> token[y] = NoRow
        BY <2>2, <3>1, UpdateTokenEffect
      <3>. QED BY <2>2, <3>1, <3>2 DEF TypeOK, RowInv
    <2>. QED BY <1>4, <2>1, <2>2 DEF GetCallback
  <1>5. ASSUME NEW r \in Run, NEW u \in User, GetSync(r, u)  PROVE RowInv'
    BY <1>5 DEF RowInv, GetSync, hist, web, draw
  <1>6. CASE SyncAll
    BY <1>6 DEF RowInv, SyncAll, hist, web, draw
  <1>7. ASSUME NEW r \in Run, Step(r)  PROVE RowInv'
    <2>1. \A x \in Host : token'[x] = NoRow <=> token[x] = NoRow
      <3>1. CASE StoreToken(r) /\ UpdateToken(run[r].host, run[r].token)
        BY <3>1, RunsType, UpdateTokenEffect DEF StoreToken, RunState
      <3>2. CASE UNCHANGED token
        BY <3>2
      <3>. QED BY <1>7, <3>1, <3>2
               DEF Step, StoreToken, NextCredential, AllDone, GetToken
    <2>2. UNCHANGED latest
      BY <1>7 DEF Step, StoreToken, NextCredential, AllDone, GetToken, hist
    <2>. QED BY <2>1, <2>2 DEF RowInv
  <1>8. CASE (\E g \in Grant : Revoke(g)) \/ Crash \/ Recover
    BY <1>8 DEF RowInv, Revoke, Crash, Recover, hist, web, draw
  <1>. QED BY <1>1, <1>2, <1>3, <1>4, <1>5, <1>6, <1>7, <1>8
           DEF Next, Browser, GetHome

-----------------------------------------------------------------------------
\* A step that keeps the rows and every copy of them keeps CopyInv, and so
\* does one after which a run holds no copy at all.
LEMMA SameCopies ==
    ASSUME LinkInv, UNCHANGED <<token, hist>>,
           \A q \in Run : run'[q] \in {run[q], IdleRun}
    PROVE  CopyInv'
  BY DEF LinkInv, CopyInv, hist, IdleRun

LEMMA BrowserCopies ==
    ASSUME LinkInv, Browser
    PROVE  CopyInv'
  <1>. USE DEF LinkInv
  <1>1. ASSUME NEW u \in User, PostLogin(u) \/ GetLogout(u) \/ PostLinkExact(u)
        PROVE  CopyInv'
    BY <1>1, SameCopies DEF PostLogin, GetLogout, PostLinkExact
  <1>2. ASSUME NEW u \in User, InsertCredential(u)  PROVE CopyInv'
    <2>1. CASE UNCHANGED token
      BY <1>2, <2>1, SameCopies DEF InsertCredential
    <2>2. CASE HostOf[u] \notin Rows /\ token' = [token EXCEPT ![HostOf[u]] = Null]
      <3>1. latest[HostOf[u]] = Null
        BY <2>2, KoppelingAssumption DEF RowInv, Rows
      <3>. QED BY <1>2, <2>2, <3>1
               DEF TypeOK, CopyInv, InsertCredential, hist
    <2>. QED BY <1>2, <2>1, <2>2 DEF InsertCredential
  <1>3. ASSUME NEW h \in Host, NEW g \in Grant \cup {Null}, GetCallback(h, g)
        PROVE  CopyInv'
    <2>1. CASE UNCHANGED <<token, hist>>
      BY <1>3, <2>1, SameCopies DEF GetCallback
    <2>2. ASSUME NEW x \in Rows, NEW t \in TokenReplies(g) \ {"error"},
                 UpdateToken(x, t), latest' = [latest EXCEPT ![x] = t],
                 quiet' = [quiet EXCEPT ![x] = \A r \in Run : ~Holds(r, x)]
          PROVE  CopyInv'
      <3>1. t \in Grant \cup {Empty} /\ x \in Host
        BY <2>2, ReplyType DEF Rows
      <3>2. /\ token'[x] \in {NoRow, t}
            /\ \A y \in Host \ {x} : token'[y] = token[y]
        BY <2>2, <3>1, UpdateTokenEffect
      <3>3. latest'[x] = t /\ \A y \in Host \ {x} : latest'[y] = latest[y]
        BY <2>2, <3>1 DEF TypeOK
      <3>4. /\ quiet'[x] => \A r \in Run : ~Holds(r, x)
            /\ \A y \in Host \ {x} : quiet'[y] = quiet[y]
        BY <2>2, <3>1, Zenon DEF TypeOK
      <3>5. run' = run
        BY <1>3 DEF GetCallback
      <3>. QED BY <3>2, <3>3, <3>4, <3>5 DEF CopyInv, Holds
    <2>. QED BY <1>3, <2>1, <2>2 DEF GetCallback
  <1>4. ASSUME NEW r \in Run, NEW u \in User, GetSync(r, u)  PROVE CopyInv'
    <2>1. /\ run'[r].pc = "next"
          /\ run'[r].todo = {<<HostOf[u], token[HostOf[u]]>>}
          /\ \A q \in Run \ {r} : run'[q] = run[q]
      BY <1>4 DEF TypeOK, GetSync, Become, IdleRun
    <2>2. token[HostOf[u]] # NoRow
      BY <1>4 DEF GetSync, Rows
    <2>. QED BY <1>4, <2>1, <2>2 DEF CopyInv, GetSync, hist
  <1>. QED BY <1>1, <1>2, <1>3, <1>4 DEF Browser, GetHome

LEMMA SyncAllCopies ==
    ASSUME LinkInv, SyncAll
    PROVE  CopyInv'
  <1>. USE DEF LinkInv
  <1>1. /\ run'[Timer].pc = "next"
        /\ run'[Timer].todo = {<<h, token[h]>> : h \in Rows}
        /\ \A q \in Run \ {Timer} : run'[q] = run[q]
    BY KoppelingAssumption DEF TypeOK, SyncAll, Become, IdleRun
  <1>. QED BY <1>1 DEF CopyInv, SyncAll, Rows, hist

LEMMA StepCopies ==
    ASSUME LinkInv, NEW r \in Run, Step(r)
    PROVE  CopyInv'
  <1>. USE DEF LinkInv
  <1>1. ASSUME NEW row \in Row, NextCredential(r, row)  PROVE CopyInv'
    <2>1. /\ run'[r].todo \subseteq run[r].todo
          /\ \/ run'[r].pc = "next"
             \/ row = <<run'[r].host, run'[r].token>>
          /\ \A q \in Run \ {r} : run'[q] = run[q]
      BY <1>1, RunsType DEF TypeOK, NextCredential, Become, RunState, Row
    <2>2. row \in run[r].todo /\ row[2] \in Grant \cup {Null, Empty}
      BY <1>1 DEF NextCredential, Row
    <2>. QED BY <1>1, <2>1, <2>2 DEF CopyInv, NextCredential, hist
  <1>2. CASE AllDone(r)
    BY <1>2, SameCopies DEF TypeOK, AllDone, Become
  <1>3. CASE GetToken(r)
    <2>1. ASSUME NEW t \in TokenReplies(run[r].token) \ {"error"},
                 Become(r, [run[r] EXCEPT !.pc = "store", !.token = t])
          PROVE  CopyInv'
      <3>1. t \in {run[r].token, Empty}
        BY <2>1, RunsType, ReplyType DEF RunState
      <3>2. /\ run'[r].host = run[r].host
            /\ run'[r].todo = run[r].todo
            /\ run'[r].token = t
            /\ run[r].pc = "sync"
            /\ \A q \in Run \ {r} : run'[q] = run[q]
        BY <1>3, <2>1, RunsType DEF TypeOK, GetToken, Become, RunState
      <3>3. token' = token /\ latest' = latest /\ quiet' = quiet
        BY <1>3 DEF GetToken, hist
      <3>. QED BY <3>1, <3>2, <3>3 DEF CopyInv
    <2>2. CASE Dies \/ Become(r, IdleRun)
      <3>1. \A q \in Run : run'[q] \in {run[q], IdleRun}
        BY <2>2 DEF TypeOK, Dies, Become
      <3>2. UNCHANGED <<token, hist>>
        BY <1>3 DEF GetToken
      <3>. QED BY <3>1, <3>2, SameCopies
    <2>. QED BY <1>3, <2>1, <2>2 DEF GetToken
  <1>4. CASE StoreToken(r)
    <2>1. /\ run[r].pc = "store"
          /\ run'[r].pc = "next"
          /\ run'[r].todo = run[r].todo
          /\ \A q \in Run \ {r} : run'[q] = run[q]
      BY <1>4, RunsType DEF TypeOK, StoreToken, Become, RunState
    <2>2. \A x \in Host : token'[x] # token[x] =>
            x = run[r].host /\ token'[x] \in {NoRow, run[r].token}
      <3>1. CASE UNCHANGED token
        BY <3>1
      <3>2. CASE UpdateToken(run[r].host, run[r].token)
        BY <2>1, <3>2, RunsType, UpdateTokenEffect DEF RunState
      <3>. QED BY <1>4, <3>1, <3>2 DEF StoreToken
    <2>. QED BY <1>4, <2>1, <2>2 DEF CopyInv, StoreToken, hist
  <1>. QED BY <1>1, <1>2, <1>3, <1>4 DEF Step

LEMMA NextLink == LinkInv /\ [Next]_vars => LinkInv'
  <1>. SUFFICES ASSUME LinkInv, [Next]_vars  PROVE LinkInv'
    OBVIOUS
  <1>1. TypeOK'
    BY NextType DEF LinkInv
  <1>2. CASE Next
    <2>1. RowInv'
      BY <1>2, RowStep
    <2>2. CASE (\E g \in Grant : Revoke(g)) \/ Crash \/ Recover
      <3>1. \A q \in Run : run'[q] \in {run[q], IdleRun}
        BY <2>2 DEF Revoke, Crash, Recover, Dies
      <3>. QED BY <1>1, <2>1, <2>2, <3>1, SameCopies
               DEF LinkInv, Revoke, Crash, Recover
    <2>. QED BY <1>1, <1>2, <2>1, <2>2, BrowserCopies, SyncAllCopies,
                StepCopies DEF LinkInv, Next
  <1>3. CASE UNCHANGED vars
    BY <1>1, <1>3 DEF LinkInv, RowInv, CopyInv, vars, hist, web, draw
  <1>. QED BY <1>2, <1>3

\* Every copy of a row that a run carries is the grant stored last, or empty,
\* as long as no activation has come between (auth.go, manage.go).
THEOREM LinkInvariant == Spec => []LinkInv
  BY InitLink, NextLink, PTL DEF Spec

\* An activation is undone only by a refusal of Exact Online or by a run that
\* had read the row before it: for any number of hosts and runs.
THEOREM QuietLinkCorrect == Spec => []QuietLinkSticks
  <1>1. LinkInv => QuietLinkSticks
    BY DEF LinkInv, CopyInv, QuietLinkSticks
  <1>. QED BY <1>1, LinkInvariant, PTL

-----------------------------------------------------------------------------
(* A working link survives whatever happens to the others.                 *)

LEMMA CallbackKeepsWorking ==
    ASSUME TypeOK, NEW h \in Host, Working(h),
           NEW x \in Host, NEW g \in Grant \cup {Null}, GetCallback(x, g)
    PROVE  token'[h] \in valid
  <1>1. CASE token' = token
    BY <1>1 DEF Working
  <1>2. CASE \E y \in Rows, t \in TokenReplies(g) \ {"error"} :
               state[y] = state[x] /\ UpdateToken(y, t)
    <2>1. PICK y \in Rows, t \in TokenReplies(g) \ {"error"} :
            state[y] = state[x] /\ UpdateToken(y, t)
      BY <1>2
    <2>2. CASE y # h
      BY <2>1, <2>2 DEF UpdateToken, TypeOK, Working, Rows
    <2>3. CASE y = h
      <3>1. g \in valid
        BY <2>1, <2>3 DEF Working, GetCallback
      <3>2. t = g
        BY <3>1, <2>1 DEF Working, TokenReplies
      <3>. QED
        BY <2>1, <2>3, <3>1, <3>2 DEF UpdateToken, TypeOK, Rows
    <2>. QED  BY <2>2, <2>3
  <1>. QED  BY <1>1, <1>2 DEF GetCallback, Working

LEMMA StoreKeepsWorking ==
    ASSUME TypeOK, NEW h \in Host, Working(h), NEW r \in Run, StoreToken(r)
    PROVE  token'[h] \in valid
  <1>. DEFINE x == run[r].host
  <1>1. /\ x \in Host /\ run[r].token # Null
        /\ UpdateToken(x, run[r].token)
    BY DEF StoreToken, TypeOK, Working
  <1>2. CASE x # h
    BY <1>1, <1>2 DEF UpdateToken, TypeOK, Working
  <1>3. CASE x = h
    <2>1. run[r].token \in Copies(h)
      BY <1>3 DEF Copies
    <2>2. run[r].token \in valid
      BY <1>1, <2>1 DEF Working
    <2>3. token[h] # NoRow
      BY KoppelingAssumption DEF Working, TypeOK
    <2>. QED  BY <1>1, <1>3, <2>2, <2>3 DEF UpdateToken, TypeOK
  <1>. QED  BY <1>2, <1>3

LEMMA InsertKeepsWorking ==
    ASSUME TypeOK, NEW h \in Host, Working(h), NEW u \in User,
           InsertCredential(u)
    PROVE  token'[h] \in valid
  <1>1. token[h] # NoRow
    BY KoppelingAssumption DEF Working, TypeOK
  <1>2. h \in Rows
    BY <1>1 DEF Rows
  <1>. QED  BY <1>2 DEF InsertCredential, Working, TypeOK

\* Nothing but a refusal, a fault or an older copy for this very row takes a
\* working link away, for any number of hosts, users, runs and grants.
THEOREM WorkingLinkCorrect == Spec => WorkingLinkSurvives
  <1>1. ASSUME TypeOK, [Next]_vars, NEW h \in Host, Working(h),
               valid \subseteq valid'
        PROVE  token'[h] \in valid'
    <2>1. token[h] \in valid
      BY <1>1 DEF Working
    <2>2. CASE token' = token
      BY <1>1, <2>1, <2>2
    <2>3. CASE \E x \in Host, g \in Grant \cup {Null} : GetCallback(x, g)
      BY <1>1, <2>3, CallbackKeepsWorking
    <2>4. CASE \E r \in Run : StoreToken(r)
      BY <1>1, <2>4, StoreKeepsWorking
    <2>5. CASE \E u \in User : InsertCredential(u)
      BY <1>1, <2>5, InsertKeepsWorking
    <2>. QED
      BY <1>1, <2>2, <2>3, <2>4, <2>5
         DEF Next, Browser, GetHome, Step, vars, PostLogin, GetLogout,
             PostLinkExact, GetSync, SyncAll, NextCredential, AllDone, GetToken, Revoke,
             Crash, Recover
  <1>2. TypeOK /\ [Next]_vars
          => [\A h \in Host :
                Working(h) /\ valid \subseteq valid' => token'[h] \in valid']_vars
    BY <1>1
  <1>. QED
    BY <1>2, LinkTypeCorrect, PTL DEF Spec, WorkingLinkSurvives

=============================================================================
