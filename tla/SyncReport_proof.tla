-------------------------- MODULE SyncReport_proof ---------------------------
(***************************************************************************)
(* Proofs about SyncReport, for any number of runs that are under way at   *)
(* the same time and any number of errors that a run sends.                *)
(***************************************************************************)
EXTENDS SyncReport, TLAPS

\* What the end of the process and the return of SyncRecras leave behind.
LEMMA ZeroValues ==
    /\ NoSync \in Sync
    /\ Idle \in Main
    /\ NoSync.pc = "none" /\ Idle.pc = "idle" /\ Idle.buf = << >>
  BY DEF NoSync, Idle, Sync, Main

\* What there is to save is a Contactmoment.
LEMMA ReportType ==
    ASSUME NEW m \in Main
    PROVE  Report(m) \in Contactmoment /\ Report(m).bericht = m.buf
  BY DEF Report, Main, Contactmoment

-----------------------------------------------------------------------------
(* Types.                                                                  *)

LEMMA InitType == Init => TypeOK
  <1>. << >> \in Seq(Contactmoment)
    OBVIOUS
  <1>. QED  BY ZeroValues DEF Init, TypeOK

\* The inductive invariant: besides NoGoroutineLeft, there is an error to
\* send when one is being sent, and no report before its time.
Pending(r) ==
    /\ sync[r].pc = "send" => sync[r].err \in Message
    /\ main[r].pc = "idle" => main[r].buf = << >>
    /\ main[r].pc \in {"range", "personeel", "gebruiker", "post"} =>
         posted[r] = << >>

IInv == TypeOK /\ NoGoroutineLeft /\ \A r \in Run : Pending(r)

\* An action that only sets the variables of run r: what holds of the other
\* runs goes on to hold.
OnlyRun(r) ==
    /\ main' = [main EXCEPT ![r] = main'[r]]
    /\ sync' = [sync EXCEPT ![r] = sync'[r]]
    /\ posted' = [posted EXCEPT ![r] = posted'[r]]
    /\ healthy' = healthy

RunInv(r) ==
    /\ sync[r] \in Sync
    /\ main[r] \in Main
    /\ posted[r] \in Seq(Contactmoment)
    /\ main[r].pc \notin {"idle", "range"} => sync[r].pc = "closed"
    /\ main[r].pc = "idle" => sync[r].pc = "none"
    /\ Pending(r)

LEMMA InvOfRun ==
    ASSUME IInv, NEW r \in Run
    PROVE  RunInv(r)
  BY DEF IInv, TypeOK, NoGoroutineLeft, RunInv

\* One run is enough to look at.
LEMMA RunStepInv ==
    ASSUME IInv, NEW r \in Run, OnlyRun(r), RunInv(r)'
    PROVE  IInv'
  <1>1. ASSUME NEW q \in Run
        PROVE  RunInv(q)'
    <2>1. CASE q = r
      BY <2>1
    <2>2. CASE q # r
      <3>1. RunInv(q)
        BY InvOfRun
      <3>2. main'[q] = main[q] /\ sync'[q] = sync[q] /\ posted'[q] = posted[q]
        BY <2>2 DEF OnlyRun, IInv, TypeOK
      <3>. QED  BY <3>1, <3>2 DEF RunInv, Pending
    <2>. QED  BY <2>1, <2>2
  <1>2. TypeOK'
    <2>1. main' \in [Run -> Main]
      BY <1>1 DEF OnlyRun, IInv, TypeOK, RunInv
    <2>2. sync' \in [Run -> Sync]
      BY <1>1 DEF OnlyRun, IInv, TypeOK, RunInv
    <2>3. posted' \in [Run -> Seq(Contactmoment)]
      BY <1>1 DEF OnlyRun, IInv, TypeOK, RunInv
    <2>4. healthy' \in BOOLEAN
      BY DEF OnlyRun, IInv, TypeOK
    <2>. QED  BY <2>1, <2>2, <2>3, <2>4 DEF TypeOK
  <1>3. NoGoroutineLeft'
    BY <1>1 DEF NoGoroutineLeft, RunInv
  <1>. QED  BY <1>1, <1>2, <1>3 DEF IInv, RunInv

-----------------------------------------------------------------------------
(* One lemma per action.                                                   *)

LEMMA SyncRecrasInv ==
    ASSUME IInv, NEW r \in Run, SyncRecras(r)
    PROVE  IInv' /\ OnlyRun(r)
  <1>1. RunInv(r)
    BY InvOfRun
  <1>2. OnlyRun(r)
    BY DEF SyncRecras, OnlyRun, IInv, TypeOK
  <1>3. /\ main'[r] = [Idle EXCEPT !.pc = "range"]
        /\ sync'[r] = [pc |-> "run", err |-> None]
        /\ posted'[r] = << >>
    BY DEF SyncRecras, IInv, TypeOK
  <1>4. sync'[r] \in Sync
    BY <1>3 DEF Sync
  <1>5. main'[r] \in Main
    BY <1>3, ZeroValues DEF Main
  <1>6. main'[r].pc = "range" /\ sync'[r].pc = "run"
    BY <1>3 DEF Idle
  <1>7. posted'[r] \in Seq(Contactmoment)
    BY <1>3
  <1>8. RunInv(r)'
    BY <1>3, <1>4, <1>5, <1>6, <1>7 DEF RunInv, Pending
  <1>. QED  BY <1>2, <1>8, RunStepInv

LEMMA SendInv ==
    ASSUME IInv, NEW r \in Run, NEW e \in Message, Send(r, e)
    PROVE  IInv' /\ OnlyRun(r)
  <1>1. RunInv(r)
    BY InvOfRun
  <1>2. OnlyRun(r)
    BY DEF Send, OnlyRun, IInv, TypeOK
  <1>3. /\ sync[r].pc = "run"
        /\ main'[r] = main[r]
        /\ sync'[r] = [pc |-> "send", err |-> e]
        /\ posted'[r] = posted[r]
    BY DEF Send, IInv, TypeOK
  <1>4. main[r].pc = "range"
    BY <1>1, <1>3 DEF RunInv, Main
  <1>5. sync'[r] \in Sync
    BY <1>3 DEF Sync
  <1>6. RunInv(r)'
    BY <1>1, <1>3, <1>4, <1>5 DEF RunInv, Pending
  <1>. QED  BY <1>2, <1>6, RunStepInv

LEMMA CloseInv ==
    ASSUME IInv, NEW r \in Run, Close(r)
    PROVE  IInv' /\ OnlyRun(r)
  <1>1. RunInv(r)
    BY InvOfRun
  <1>2. OnlyRun(r)
    BY DEF Close, OnlyRun, IInv, TypeOK
  <1>3. /\ sync[r].pc = "run"
        /\ main'[r] = main[r]
        /\ sync'[r] = [pc |-> "closed", err |-> None]
        /\ posted'[r] = posted[r]
    BY DEF Close, IInv, TypeOK
  <1>4. main[r].pc = "range"
    BY <1>1, <1>3 DEF RunInv, Main
  <1>5. sync'[r] \in Sync
    BY <1>3 DEF Sync
  <1>6. RunInv(r)'
    BY <1>1, <1>3, <1>4, <1>5 DEF RunInv, Pending
  <1>. QED  BY <1>2, <1>6, RunStepInv

LEMMA ReceiveInv ==
    ASSUME IInv, NEW r \in Run, Receive(r)
    PROVE  IInv' /\ OnlyRun(r)
  <1>1. RunInv(r)
    BY InvOfRun
  <1>2. OnlyRun(r)
    BY DEF Receive, OnlyRun, IInv, TypeOK
  <1>3. /\ main[r].pc = "range"
        /\ sync[r].pc = "send"
        /\ main'[r] = [main[r] EXCEPT !.buf = Append(main[r].buf, sync[r].err)]
        /\ sync'[r] = [pc |-> "run", err |-> None]
        /\ posted'[r] = posted[r]
    BY DEF Receive, IInv, TypeOK
  <1>4. Append(main[r].buf, sync[r].err) \in Seq(Message)
    BY <1>1, <1>3 DEF RunInv, Pending, Main
  <1>5. /\ main'[r] \in Main /\ main'[r].pc = "range"
        /\ sync'[r] \in Sync /\ sync'[r].pc = "run"
    <2>1. main[r] \in Main
      BY <1>1 DEF RunInv
    <2>2. main'[r] \in Main /\ main'[r].pc = "range"
      BY <1>3, <1>4, <2>1 DEF Main
    <2>. QED  BY <1>3, <2>2 DEF Sync
  <1>6. RunInv(r)'
    BY <1>1, <1>3, <1>5 DEF RunInv, Pending
  <1>. QED  BY <1>2, <1>6, RunStepInv

LEMMA RangeEndsInv ==
    ASSUME IInv, NEW r \in Run, RangeEnds(r)
    PROVE  IInv' /\ OnlyRun(r)
  <1>1. RunInv(r)
    BY InvOfRun
  <1>2. OnlyRun(r)
    BY DEF RangeEnds, OnlyRun, IInv, TypeOK
  <1>3. /\ main[r].pc = "range"
        /\ sync[r].pc = "closed"
        /\ main'[r] = [main[r] EXCEPT !.pc = "personeel"]
        /\ sync'[r] = sync[r]
        /\ posted'[r] = posted[r]
    BY DEF RangeEnds, IInv, TypeOK
  <1>4. main'[r] \in Main /\ main'[r].pc = "personeel"
    BY <1>1, <1>3 DEF RunInv, Main
  <1>5. RunInv(r)'
    BY <1>1, <1>3, <1>4 DEF RunInv, Pending
  <1>. QED  BY <1>2, <1>5, RunStepInv

LEMMA GetCurrentPersoneelInv ==
    ASSUME IInv, NEW r \in Run, GetCurrentPersoneel(r)
    PROVE  /\ IInv' /\ OnlyRun(r)
           /\ sync'[r] = sync[r] /\ posted'[r] = posted[r]
           /\ main[r].pc # "idle" /\ main'[r].pc # "idle"
           /\ main'[r].buf = main[r].buf
  <1>1. RunInv(r)
    BY InvOfRun
  <1>2. PICK p \in {"me", None} :
          main' = [main EXCEPT ![r].pc = "gebruiker", ![r].contact = p]
    BY DEF GetCurrentPersoneel
  <1>3. OnlyRun(r)
    BY <1>2 DEF GetCurrentPersoneel, OnlyRun, IInv, TypeOK
  <1>4. /\ main[r].pc = "personeel"
        /\ main'[r] = [main[r] EXCEPT !.pc = "gebruiker", !.contact = p]
        /\ sync'[r] = sync[r]
        /\ posted'[r] = posted[r]
    BY <1>2 DEF GetCurrentPersoneel, IInv, TypeOK
  <1>5. /\ main'[r] \in Main /\ main'[r].pc = "gebruiker"
        /\ main'[r].buf = main[r].buf
    BY <1>1, <1>4 DEF RunInv, Main
  <1>6. RunInv(r)'
    BY <1>1, <1>4, <1>5 DEF RunInv, Pending
  <1>. QED  BY <1>3, <1>4, <1>5, <1>6, RunStepInv

LEMMA GetGebruikerInv ==
    ASSUME IInv, NEW r \in Run, GetGebruiker(r)
    PROVE  /\ IInv' /\ OnlyRun(r)
           /\ sync'[r] = sync[r] /\ posted'[r] = posted[r]
           /\ main[r].pc # "idle" /\ main'[r].pc # "idle"
           /\ main'[r].buf = main[r].buf
  <1>1. RunInv(r)
    BY InvOfRun
  <1>2. PICK g \in {"rol", None} :
          main' = [main EXCEPT ![r].pc = "post", ![r].group = g]
    BY DEF GetGebruiker
  <1>3. OnlyRun(r)
    BY <1>2 DEF GetGebruiker, OnlyRun, IInv, TypeOK
  <1>4. /\ main[r].pc = "gebruiker"
        /\ main'[r] = [main[r] EXCEPT !.pc = "post", !.group = g]
        /\ sync'[r] = sync[r]
        /\ posted'[r] = posted[r]
    BY <1>2 DEF GetGebruiker, IInv, TypeOK
  <1>5. /\ main'[r] \in Main /\ main'[r].pc = "post"
        /\ main'[r].buf = main[r].buf
    BY <1>1, <1>4 DEF RunInv, Main
  <1>6. RunInv(r)'
    BY <1>1, <1>4, <1>5 DEF RunInv, Pending
  <1>. QED  BY <1>3, <1>4, <1>5, <1>6, RunStepInv

\* What saving does to posted.
LEMMA SaveEffect ==
    ASSUME IInv, NEW r \in Run, SaveContactmoment(r)
    PROVE  \/ posted' = posted
           \/ posted' = [posted EXCEPT ![r] = <<Report(main[r])>>]
  <1>1. posted[r] = << >>
    BY DEF IInv, Pending, SaveContactmoment
  <1>2. \/ posted' = posted
        \/ posted' = [posted EXCEPT ![r] = Append(posted[r], Report(main[r]))]
    BY DEF SaveContactmoment, IInv, TypeOK
  <1>3. Append(<< >>, Report(main[r])) = <<Report(main[r])>>
    OBVIOUS
  <1>. QED  BY <1>1, <1>2, <1>3

LEMMA SaveContactmomentInv ==
    ASSUME IInv, NEW r \in Run, SaveContactmoment(r)
    PROVE  /\ IInv' /\ OnlyRun(r)
           /\ sync'[r] = sync[r] /\ sync[r].pc = "closed"
           /\ main[r].pc # "idle" /\ main'[r].pc # "idle"
           /\ main'[r].buf = main[r].buf
  <1>1. RunInv(r)
    BY InvOfRun
  <1>2. /\ main[r].pc = "post"
        /\ main' = [main EXCEPT ![r].pc = "token"]
        /\ main'[r] = [main[r] EXCEPT !.pc = "token"]
        /\ sync'[r] = sync[r]
    BY DEF SaveContactmoment, IInv, TypeOK
  <1>3. posted' = [posted EXCEPT ![r] = posted'[r]]
    BY SaveEffect DEF IInv, TypeOK
  <1>4. OnlyRun(r)
    BY <1>2, <1>3 DEF SaveContactmoment, OnlyRun, IInv, TypeOK
  <1>5. /\ main'[r] \in Main /\ main'[r].pc = "token"
        /\ main'[r].buf = main[r].buf
    BY <1>1, <1>2 DEF RunInv, Main
  <1>6. posted'[r] \in Seq(Contactmoment)
    <2>1. Report(main[r]) \in Contactmoment
      BY <1>1, ReportType DEF RunInv
    <2>2. <<Report(main[r])>> \in Seq(Contactmoment)
      BY <2>1
    <2>. QED  BY <1>1, <2>2, SaveEffect DEF RunInv, IInv, TypeOK
  <1>7. sync[r].pc = "closed"
    BY <1>1, <1>2 DEF RunInv
  <1>8. RunInv(r)'
    BY <1>1, <1>2, <1>5, <1>6, <1>7 DEF RunInv, Pending
  <1>. QED  BY <1>2, <1>4, <1>5, <1>7, <1>8, RunStepInv

\* SyncRecras comes to its end.
LEMMA ReturnInv ==
    ASSUME IInv, NEW r \in Run, Return(r), UNCHANGED <<posted, healthy>>
    PROVE  IInv' /\ OnlyRun(r)
  <1>1. RunInv(r)
    BY InvOfRun
  <1>2. OnlyRun(r)
    BY DEF Return, OnlyRun, IInv, TypeOK
  <1>3. main'[r] = Idle /\ sync'[r] = NoSync /\ posted'[r] = posted[r]
    BY DEF Return, IInv, TypeOK
  <1>4. RunInv(r)'
    BY <1>1, <1>3, ZeroValues DEF RunInv, Pending
  <1>. QED  BY <1>2, <1>4, RunStepInv

\* The process comes to its end.
LEMMA DieInv ==
    ASSUME IInv, Die, UNCHANGED <<posted, healthy>>
    PROVE  IInv'
  <1>1. TypeOK'
    BY ZeroValues DEF Die, IInv, TypeOK
  <1>2. ASSUME NEW r \in Run
        PROVE  main'[r] = Idle /\ sync'[r] = NoSync
    BY DEF Die
  <1>. QED  BY <1>1, <1>2, ZeroValues DEF IInv, NoGoroutineLeft, Pending

\* On to the UPDATE of the row.
LEMMA TokenInv ==
    ASSUME IInv, NEW r \in Run, main[r].pc = "token",
           main' = [main EXCEPT ![r].pc = "store"],
           UNCHANGED <<sync, posted, healthy>>
    PROVE  /\ IInv' /\ OnlyRun(r)
           /\ main'[r].pc # "idle" /\ main'[r].buf = main[r].buf
  <1>1. RunInv(r)
    BY InvOfRun
  <1>2. OnlyRun(r)
    BY DEF OnlyRun, IInv, TypeOK
  <1>3. main'[r] = [main[r] EXCEPT !.pc = "store"]
    BY DEF IInv, TypeOK
  <1>4. /\ main'[r] \in Main /\ main'[r].pc = "store"
        /\ main'[r].buf = main[r].buf
    BY <1>1, <1>3 DEF RunInv, Main
  <1>5. RunInv(r)'
    BY <1>1, <1>4 DEF RunInv, Pending
  <1>. QED  BY <1>2, <1>4, <1>5, RunStepInv

LEMMA NextInv == IInv /\ [Next]_vars => IInv'
  <1>. SUFFICES ASSUME IInv, [Next]_vars  PROVE IInv'
    OBVIOUS
  <1>1. ASSUME NEW r \in Run, SyncRecras(r)  PROVE IInv'
    BY <1>1, SyncRecrasInv
  <1>2. ASSUME NEW r \in Run, SyncStep(r)  PROVE IInv'
    BY <1>2, SendInv, CloseInv DEF SyncStep
  <1>3. ASSUME NEW r \in Run, GetToken(r)  PROVE IInv'
    BY <1>3, TokenInv, DieInv, ReturnInv DEF GetToken
  <1>4. ASSUME NEW r \in Run, MainStep(r)  PROVE IInv'
    BY <1>3, <1>4, ReceiveInv, RangeEndsInv, GetCurrentPersoneelInv,
       GetGebruikerInv, SaveContactmomentInv, ReturnInv
       DEF MainStep, StoreToken
  <1>5. CASE Crash
    BY <1>5, DieInv DEF Crash
  <1>6. CASE Recover \/ UNCHANGED vars
    BY <1>6 DEF Recover, vars, IInv, TypeOK, NoGoroutineLeft, Pending
  <1>. QED  BY <1>1, <1>2, <1>4, <1>5, <1>6 DEF Next

LEMMA InitInv == Init => IInv
  BY InitType, ZeroValues DEF Init, IInv, NoGoroutineLeft, Pending

\* The inductive invariant: a run without a reader has no sender, what is
\* being sent is an error, and there is no report before its time.
THEOREM ReportInvariant == Spec => []IInv
  BY InitInv, NextInv, PTL DEF Spec

\* Every variable keeps its type.
THEOREM ReportTypeCorrect == Spec => []TypeOK
  <1>1. IInv => TypeOK
    BY DEF IInv
  <1>. QED  BY <1>1, ReportInvariant, PTL

\* No goroutine of a run outlives it, or is left waiting at the channel.
THEOREM NoGoroutineLeftCorrect == Spec => []NoGoroutineLeft
  <1>1. IInv => NoGoroutineLeft
    BY DEF IInv
  <1>. QED  BY <1>1, ReportInvariant, PTL

-----------------------------------------------------------------------------
(* The report that a user can count on: SyncReport implements RunReport.   *)

Phase(r) == IF main[r].pc = "idle" THEN "idle"
            ELSE IF sync[r].pc = "closed" THEN "closing" ELSE "running"

Said(r) == IF sync[r].pc = "send" THEN Append(main[r].buf, sync[r].err)
                                  ELSE main[r].buf

Reports(r) == [i \in DOMAIN posted[r] |-> posted[r][i].bericht]

LEMMA Bars ==
    ASSUME NEW r \in Run
    PROVE  /\ phaseBar[r] = Phase(r) /\ phaseBar'[r] = Phase(r)'
           /\ saidBar[r] = Said(r) /\ saidBar'[r] = Said(r)'
           /\ reportsBar[r] = Reports(r) /\ reportsBar'[r] = Reports(r)'
  BY DEF phaseBar, saidBar, reportsBar, Phase, Said, Reports

\* A step of one run is a step of that run for the user as well.
LEMMA BarsOfStep ==
    ASSUME IInv, NEW r \in Run, OnlyRun(r)
    PROVE  /\ phaseBar' = [phaseBar EXCEPT ![r] = Phase(r)']
           /\ saidBar' = [saidBar EXCEPT ![r] = Said(r)']
           /\ reportsBar' = [reportsBar EXCEPT ![r] = Reports(r)']
  <1>1. ASSUME NEW q \in Run, q # r
        PROVE  main'[q] = main[q] /\ sync'[q] = sync[q] /\ posted'[q] = posted[q]
    BY <1>1 DEF OnlyRun, IInv, TypeOK
  <1>2. ASSUME NEW q \in Run, q # r
        PROVE  Phase(q)' = Phase(q) /\ Said(q)' = Said(q) /\ Reports(q)' = Reports(q)
    BY <1>1, <1>2 DEF Phase, Said, Reports
  <1>3. phaseBar' = [phaseBar EXCEPT ![r] = Phase(r)']
    BY <1>2, Bars DEF phaseBar
  <1>4. saidBar' = [saidBar EXCEPT ![r] = Said(r)']
    BY <1>2, Bars DEF saidBar
  <1>5. reportsBar' = [reportsBar EXCEPT ![r] = Reports(r)']
    <2>1. /\ reportsBar = [q \in Run |-> Reports(q)]
          /\ reportsBar' = [q \in Run |-> Reports(q)']
      BY DEF reportsBar, Reports
    <2>. QED  BY <1>2, <2>1
  <1>. QED  BY <1>3, <1>4, <1>5

\* What is not changed of the run is not changed for the user.
LEMMA Unchanged ==
    ASSUME IInv, NEW r \in Run, OnlyRun(r)
    PROVE  /\ Phase(r)' = Phase(r) => phaseBar' = phaseBar
           /\ Said(r)' = Said(r) => saidBar' = saidBar
           /\ Reports(r)' = Reports(r) => reportsBar' = reportsBar
  <1>1. phaseBar = [phaseBar EXCEPT ![r] = Phase(r)]
    BY Bars DEF phaseBar
  <1>2. saidBar = [saidBar EXCEPT ![r] = Said(r)]
    BY Bars DEF saidBar
  <1>3. reportsBar = [reportsBar EXCEPT ![r] = Reports(r)]
    BY Bars DEF reportsBar
  <1>. QED  BY <1>1, <1>2, <1>3, BarsOfStep

LEMMA SyncRecrasBegins ==
    ASSUME IInv, NEW r \in Run, SyncRecras(r)
    PROVE  Abstract!Begin(r)
  <1>. /\ OnlyRun(r)
       /\ main[r].pc = "idle" /\ main[r].buf = << >> /\ sync[r].pc = "none"
       /\ main'[r] = [Idle EXCEPT !.pc = "range"]
       /\ sync'[r] = [pc |-> "run", err |-> None]
       /\ posted'[r] = << >>
    BY SyncRecrasInv DEF SyncRecras, IInv, TypeOK, NoGoroutineLeft, Pending
  <1>1. Phase(r) = "idle" /\ Phase(r)' = "running"
    BY DEF Phase, Idle
  <1>2. Said(r)' = Said(r)
    BY DEF Said, Idle
  <1>3. Reports(r)' = << >>
    BY DEF Reports
  <1>. QED  BY <1>1, <1>2, <1>3, Bars, BarsOfStep, Unchanged DEF Abstract!Begin

LEMMA SendSays ==
    ASSUME IInv, NEW r \in Run, NEW e \in Message, Send(r, e)
    PROVE  Abstract!Say(r, e)
  <1>. /\ OnlyRun(r) /\ RunInv(r)
       /\ sync[r].pc = "run"
       /\ sync'[r] = [pc |-> "send", err |-> e]
       /\ main'[r] = main[r] /\ posted'[r] = posted[r]
    BY SendInv, InvOfRun DEF Send, IInv, TypeOK
  <1>1. Phase(r) = "running" /\ Phase(r)' = Phase(r)
    BY DEF Phase, RunInv
  <1>2. Said(r)' = Append(Said(r), e)
    BY DEF Said
  <1>3. Reports(r)' = Reports(r)
    BY DEF Reports
  <1>. QED  BY <1>1, <1>2, <1>3, Bars, BarsOfStep, Unchanged DEF Abstract!Say

LEMMA CloseCloses ==
    ASSUME IInv, NEW r \in Run, Close(r)
    PROVE  Abstract!Close(r)
  <1>. /\ OnlyRun(r) /\ RunInv(r)
       /\ sync[r].pc = "run"
       /\ sync'[r] = [pc |-> "closed", err |-> None]
       /\ main'[r] = main[r] /\ posted'[r] = posted[r]
    BY CloseInv, InvOfRun DEF Close, IInv, TypeOK
  <1>1. Phase(r) = "running" /\ Phase(r)' = "closing"
    BY DEF Phase, RunInv
  <1>2. Said(r)' = Said(r) /\ Reports(r)' = Reports(r)
    BY DEF Said, Reports
  <1>. QED  BY <1>1, <1>2, Bars, BarsOfStep, Unchanged DEF Abstract!Close

\* Receiving, and asking Recras for whom the report is, is not seen.
LEMMA ReceiveStutters ==
    ASSUME IInv, NEW r \in Run,
           \/ Receive(r) \/ RangeEnds(r)
           \/ GetCurrentPersoneel(r) \/ GetGebruiker(r)
    PROVE  UNCHANGED <<phaseBar, saidBar, reportsBar>>
  <1>1. CASE Receive(r)
    <2>. /\ OnlyRun(r)
         /\ main[r].pc = "range" /\ sync[r].pc = "send"
         /\ main'[r] = [main[r] EXCEPT !.buf = Append(main[r].buf, sync[r].err)]
         /\ main[r] \in Main
         /\ sync'[r] = [pc |-> "run", err |-> None]
         /\ posted'[r] = posted[r]
      BY <1>1, ReceiveInv DEF Receive, IInv, TypeOK
    <2>1. Phase(r)' = Phase(r)
      BY DEF Phase, Main
    <2>2. Said(r)' = Said(r) /\ Reports(r)' = Reports(r)
      BY DEF Said, Reports, Main
    <2>. QED  BY <2>1, <2>2, Unchanged
  <1>2. CASE RangeEnds(r)
    <2>. /\ OnlyRun(r)
         /\ main[r].pc = "range"
         /\ main'[r] = [main[r] EXCEPT !.pc = "personeel"]
         /\ main[r] \in Main
         /\ sync'[r] = sync[r] /\ posted'[r] = posted[r]
      BY <1>2, RangeEndsInv DEF RangeEnds, IInv, TypeOK
    <2>1. Phase(r)' = Phase(r)
      BY DEF Phase, Main
    <2>2. Said(r)' = Said(r) /\ Reports(r)' = Reports(r)
      BY DEF Said, Reports, Main
    <2>. QED  BY <2>1, <2>2, Unchanged
  <1>3. CASE GetCurrentPersoneel(r) \/ GetGebruiker(r)
    <2>1. /\ OnlyRun(r)
          /\ main[r].pc # "idle" /\ main'[r].pc # "idle"
          /\ main'[r].buf = main[r].buf
          /\ sync'[r] = sync[r] /\ posted'[r] = posted[r]
      BY <1>3, GetCurrentPersoneelInv, GetGebruikerInv
    <2>2. Phase(r)' = Phase(r) /\ Said(r)' = Said(r) /\ Reports(r)' = Reports(r)
      BY <2>1 DEF Phase, Said, Reports
    <2>. QED  BY <2>1, <2>2, Unchanged
  <1>. QED  BY <1>1, <1>2, <1>3

LEMMA SaveDelivers ==
    ASSUME IInv, NEW r \in Run, SaveContactmoment(r)
    PROVE  \/ Abstract!Deliver(r)
           \/ UNCHANGED <<phaseBar, saidBar, reportsBar>>
  <1>. /\ OnlyRun(r) /\ main[r] \in Main
       /\ sync'[r] = sync[r] /\ sync[r].pc = "closed"
       /\ main[r].pc # "idle" /\ main'[r].pc # "idle"
       /\ main'[r].buf = main[r].buf
       /\ posted[r] = << >>
    BY SaveContactmomentInv DEF SaveContactmoment, IInv, TypeOK, Pending
  <1>1. /\ Phase(r) = "closing" /\ Phase(r)' = Phase(r)
        /\ Said(r) = main[r].buf /\ Said(r)' = Said(r)
        /\ Reports(r) = << >>
    BY DEF Phase, Said, Reports
  <1>2. CASE posted' = posted
    <2>1. Reports(r)' = Reports(r)
      BY <1>2 DEF Reports
    <2>. QED  BY <1>1, <2>1, Unchanged
  <1>3. CASE posted' = [posted EXCEPT ![r] = <<Report(main[r])>>]
    <2>1. posted'[r] = <<Report(main[r])>>
      BY <1>3 DEF IInv, TypeOK
    <2>2. Reports(r)' = <<Said(r)>>
      BY <2>1, <1>1, ReportType DEF Reports
    <2>. QED  BY <1>1, <2>2, Bars, BarsOfStep, Unchanged DEF Abstract!Deliver
  <1>. QED  BY <1>2, <1>3, SaveEffect

LEMMA ReturnEnds ==
    ASSUME IInv, NEW r \in Run, main[r].pc \in {"token", "store"},
           Return(r), UNCHANGED <<posted, healthy>>
    PROVE  Abstract!End(r)
  <1>. /\ OnlyRun(r) /\ RunInv(r)
       /\ main'[r] = Idle /\ sync'[r] = NoSync /\ posted'[r] = posted[r]
    BY ReturnInv, InvOfRun DEF Return, IInv, TypeOK
  <1>1. Phase(r) = "closing" /\ Phase(r)' = "idle"
    BY ZeroValues DEF Phase, RunInv
  <1>2. Said(r)' = << >> /\ Reports(r)' = Reports(r)
    BY ZeroValues DEF Said, Reports
  <1>. QED  BY <1>1, <1>2, Bars, BarsOfStep, Unchanged DEF Abstract!End

LEMMA DieEndsAll ==
    ASSUME IInv, Die, UNCHANGED <<posted, healthy>>
    PROVE  Abstract!EndAll
  <1>1. ASSUME NEW r \in Run
        PROVE  Phase(r)' = "idle" /\ Said(r)' = << >>
    BY <1>1, ZeroValues DEF Die, Phase, Said
  <1>2. phaseBar' = [r \in Run |-> "idle"] /\ saidBar' = [r \in Run |-> << >>]
    BY <1>1 DEF phaseBar, saidBar, Phase, Said
  <1>3. reportsBar' = reportsBar
    BY DEF reportsBar
  <1>. QED  BY <1>2, <1>3 DEF Abstract!EndAll

LEMMA ReportStep ==
    IInv /\ [Next]_vars => [Abstract!Next]_<<phaseBar, saidBar, reportsBar>>
  <1>. SUFFICES ASSUME IInv, [Next]_vars
                PROVE  \/ Abstract!Next
                       \/ UNCHANGED <<phaseBar, saidBar, reportsBar>>
    OBVIOUS
  <1>. USE DEF Abstract!Next
  <1>1. ASSUME NEW r \in Run, SyncRecras(r)
        PROVE  Abstract!Next
    BY <1>1, SyncRecrasBegins
  <1>2. ASSUME NEW r \in Run, SyncStep(r)
        PROVE  Abstract!Next
    BY <1>2, SendSays, CloseCloses DEF SyncStep
  <1>3. ASSUME NEW r \in Run, GetToken(r)
        PROVE  Abstract!Next \/ UNCHANGED <<phaseBar, saidBar, reportsBar>>
    <2>1. CASE /\ main' = [main EXCEPT ![r].pc = "store"]
               /\ UNCHANGED <<sync, posted, healthy>>
      <3>1. /\ OnlyRun(r) /\ main[r].pc # "idle"
            /\ main'[r].pc # "idle" /\ main'[r].buf = main[r].buf
            /\ sync'[r] = sync[r] /\ posted'[r] = posted[r]
        BY <1>3, <2>1, TokenInv DEF GetToken
      <3>2. Phase(r)' = Phase(r) /\ Said(r)' = Said(r) /\ Reports(r)' = Reports(r)
        BY <3>1 DEF Phase, Said, Reports
      <3>. QED  BY <3>1, <3>2, Unchanged
    <2>2. CASE Die
      BY <1>3, <2>2, DieEndsAll DEF GetToken
    <2>3. CASE Return(r)
      BY <1>3, <2>3, ReturnEnds DEF GetToken
    <2>. QED  BY <1>3, <2>1, <2>2, <2>3 DEF GetToken
  <1>4. ASSUME NEW r \in Run, MainStep(r)
        PROVE  Abstract!Next \/ UNCHANGED <<phaseBar, saidBar, reportsBar>>
    <2>1. CASE \/ Receive(r) \/ RangeEnds(r)
               \/ GetCurrentPersoneel(r) \/ GetGebruiker(r)
      BY <2>1, ReceiveStutters
    <2>2. CASE SaveContactmoment(r)
      BY <2>2, SaveDelivers
    <2>3. CASE StoreToken(r)
      BY <2>3, ReturnEnds DEF StoreToken
    <2>. QED  BY <1>3, <1>4, <2>1, <2>2, <2>3 DEF MainStep
  <1>5. CASE Crash
    BY <1>5, DieEndsAll DEF Crash
  <1>6. CASE Recover \/ UNCHANGED vars
    BY <1>6 DEF Recover, vars, phaseBar, saidBar, reportsBar
  <1>. QED  BY <1>1, <1>2, <1>4, <1>5, <1>6 DEF Next

LEMMA ReportInit == Init => Abstract!Init
  <1>. SUFFICES ASSUME Init  PROVE Abstract!Init
    OBVIOUS
  <1>1. ASSUME NEW r \in Run
        PROVE  Phase(r) = "idle" /\ Said(r) = << >> /\ Reports(r) = << >>
    BY <1>1, ZeroValues DEF Init, Phase, Said, Reports
  <1>. QED
    BY <1>1 DEF Abstract!Init, phaseBar, saidBar, reportsBar, Phase, Said, Reports

\* However many runs overlap, die or fail to save, a report is whole, of one
\* run, in its order, and delivered at most once.
THEOREM ImplementsRunReport == Spec => RunReportSpec
  <1>1. IInv /\ [Next]_vars => [Abstract!Next]_(Abstract!vars)
    BY ReportStep DEF Abstract!vars
  <1>. QED
    BY <1>1, ReportInit, ReportInvariant, PTL DEF Spec, RunReportSpec, Abstract!Spec

=============================================================================
