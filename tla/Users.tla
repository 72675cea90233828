-------------------------------- MODULE Users --------------------------------
(***************************************************************************)
(* The table `users` (migration 0001) behind dal/user.go and the queries   *)
(* of dal/base.go that take a transaction: callers that write to it at the *)
(* same time, each statement either in a transaction of the caller or in   *)
(* one that the method begins, and commits, for itself.                    *)
(*                                                                         *)
(* No handler calls these methods yet; a caller here is any code that uses *)
(* them one after the other, and a caller with a transaction passes it on. *)
(* PostgreSQL is external: READ COMMITTED, a unique index, and a wait for  *)
(* whoever has touched the same row or address and has not ended yet.  A   *)
(* row is the address in it: no password is told apart from another.       *)
(***************************************************************************)
EXTENDS Integers, Sequences, FiniteSets

CONSTANTS
    Caller,     \* goroutines
    MaxConn,    \* connections that PostgreSQL accepts
    Email,      \* addresses
    MaxId,      \* the last value of the sequence of the column id
    None,       \* no row, no address
    Keep,       \* a row that a transaction has not touched
    All         \* every row

ASSUME UsersAssumption ==
    /\ MaxId \in Nat
    /\ MaxConn \in Nat
    /\ {None, Keep} \cap Email = {}
    /\ None # Keep
    /\ All \notin 1..MaxId

VARIABLES
    rows,       \* rows[i]: what is committed
    nextId,     \* the sequence; a ROLLBACK does not put a value back
    tx,         \* tx[p]: the transaction that p has the *sqlx.Tx of
    lost,       \* those that nobody has it of any more
    call,       \* call[p]: the local variables of the method p is in
    healthy     \* once TRUE, no query fails and no process dies any more

vars == <<rows, nextId, tx, lost, call, healthy>>

-----------------------------------------------------------------------------
Id == 1..MaxId

UserRow == Email \cup {None}

Tx == [status : {"none", "open", "aborted"}, writes : [Id -> UserRow \cup {Keep}]]

Untouched == [i \in Id |-> Keep]

NoTx == [status |-> "none", writes |-> Untouched]

\* `email` is the new address, if any; `where` the rows it is about, and after
\* the statement the id that an INSERT has returned; `wrap` is
\* wrapInSingleTransaction.
Call == [pc : {"idle", "exec", "commit", "read"},
         op : {"signup", "update", "delete"},
         email : UserRow, where : Id \cup {All}, wrap : BOOLEAN]

Idle == [pc |-> "idle", op |-> "update", email |-> None, where |-> All,
         wrap |-> FALSE]

InTx(p) == tx[p].status # "none"

\* What a transaction sees: what is committed, and its own.
View(t) == [i \in Id |-> IF t.writes[i] = Keep THEN rows[i] ELSE t.writes[i]]

Touched(t) == {i \in Id : t.writes[i] # Keep}

\* The addresses for which the unique index makes others wait.
Held(t) == {rows[i] : i \in Touched(t)} \cup {View(t)[i] : i \in Touched(t)}

Become(p, c) == call' = [call EXCEPT ![p] = c]

-----------------------------------------------------------------------------
(* The caller's own transaction.  Every transaction has a connection.      *)

Free == Cardinality({p \in Caller : InTx(p)}) + Len(lost) < MaxConn

Begin(p) ==
    /\ Free
    /\ tx' = [tx EXCEPT ![p] = [NoTx EXCEPT !.status = "open"]]

End(p) == tx' = [tx EXCEPT ![p] = NoTx]

BeginTx(p) ==
    /\ call[p].pc = "idle"
    /\ ~InTx(p)
    /\ Begin(p)
    /\ UNCHANGED <<rows, nextId, lost, call, healthy>>

\* An aborted transaction sees what is committed: COMMIT changes nothing.
CommitTx(p) ==
    /\ call[p].pc = "idle"
    /\ InTx(p)
    /\ End(p)
    /\ \/ rows' = View(tx[p])
       \/ ~healthy /\ rows' = rows
    /\ UNCHANGED <<nextId, lost, call, healthy>>

RollbackTx(p) ==
    /\ call[p].pc = "idle"
    /\ InTx(p)
    /\ End(p)
    /\ UNCHANGED <<rows, nextId, lost, call, healthy>>

-----------------------------------------------------------------------------
(* The methods.  Arguments that they refuse change nothing and are left    *)
(* out.                                                                    *)

newTransactionIfNeeded(p) ==
    \/ InTx(p) /\ UNCHANGED tx
    \/ ~InTx(p) /\ Begin(p)

\* No connection is left: Beginx fails, and the method returns an error.
BeginxFails(p) ==
    /\ call[p].pc = "idle"
    /\ ~InTx(p)
    /\ ~Free
    /\ UNCHANGED vars

Start(p, op, email, where) ==
    /\ call[p].pc = "idle"
    /\ newTransactionIfNeeded(p)
    /\ Become(p, [pc |-> "exec", op |-> op, email |-> email, where |-> where,
                  wrap |-> ~InTx(p)])
    /\ UNCHANGED <<rows, nextId, lost, healthy>>

Signup(p) == \E e \in Email : Start(p, "signup", e, All)

\* UpdateById is all that it does to the table: with no address, and passwords
\* that differ, not even that, and without a word.  The row is read again.
UpdateEmailAndPasswordById(p) ==
    \E e \in UserRow, i \in Id : Start(p, "update", e, i)

\* UpdateFromTable and UpdateByKeyValueString match rows by other columns: one,
\* like UpdateById, or many, which no address can be given to.
Update(p) == Start(p, "update", None, All)

\* DeleteById and DeleteFromTable.
Delete(p) == \E w \in Id \cup {All} : Start(p, "delete", None, w)

-----------------------------------------------------------------------------
(* The statement.                                                          *)

Targets(p) ==
    IF call[p].op = "signup" THEN {nextId}
    ELSE {i \in Id : /\ View(tx[p])[i] # None
                     /\ call[p].where \in {i, All}}

\* What a row becomes: one without a new address has its password changed.
Written(p, row) ==
    IF call[p].email = None /\ call[p].op # "delete" THEN row ELSE call[p].email

\* p's statement waits for the transaction t of somebody else.
WaitsFor(p, t) ==
    /\ call[p].pc = "exec"
    /\ \/ Targets(p) \cap Touched(t) # {}
       \/ Targets(p) # {} /\ call[p].email # None /\ call[p].email \in Held(t)

Blocked(p) ==
    \/ \E q \in Caller \ {p} : WaitsFor(p, tx[q])
    \/ \E n \in DOMAIN lost : WaitsFor(p, lost[n])

Deadlocked(p) ==
    \E S \in SUBSET Caller :
      p \in S /\ \A q \in S : \E r \in S \ {q} : WaitsFor(q, tx[r])

\* Mutant: the migration without the unique index.
TakenNever(p) == FALSE

\* The unique index refuses the address.
Taken(p) ==
    /\ call[p].email # None
    /\ Targets(p) # {}
    /\ \E j \in Id \ Targets(p) : View(tx[p])[j] = call[p].email

\* Mutant: every statement is committed, whoever began the transaction.
ExecutedCommits(c, id) ==
    [Idle EXCEPT !.pc = "commit", !.where = id, !.wrap = c.wrap]

\* Where a method goes on after its statement: an INSERT by reading its row.
Executed(c, id) ==
    IF c.wrap THEN [Idle EXCEPT !.pc = "commit", !.where = id, !.wrap = TRUE]
    ELSE IF id = All THEN Idle
    ELSE [Idle EXCEPT !.pc = "read", !.where = id]

\* Mutants: the id is the last that is committed; a table without hasID.
ReturningLast(p) ==
    LET seen == {i \in Id : rows[i] # None}
    IN  IF call[p].op # "signup" THEN All
        ELSE IF seen = {} THEN nextId
        ELSE CHOOSE i \in seen : \A j \in seen : j <= i

ReturningZero(p) == IF call[p].op = "signup" THEN 0 ELSE All

\* INSERT ... RETURNING id.
Returning(p) == IF call[p].op = "signup" THEN nextId ELSE All

\* Mutant: an INSERT that returns an id returns at once.
ExecReturnsEarly(p) ==
    /\ call[p].pc = "exec"
    /\ tx[p].status = "open"
    /\ ~Blocked(p)
    /\ ~Taken(p)
    /\ call[p].op = "signup" => nextId \in Id
    /\ LET wrote == [tx[p] EXCEPT !.writes =
                       [i \in Id |-> IF i \in Targets(p)
                                     THEN Written(p, View(tx[p])[i]) ELSE @[i]]]
       IN  IF call[p].op = "signup" /\ call[p].wrap
           THEN /\ End(p)
                /\ lost' = Append(lost, wrote)
                /\ Become(p, Executed([call[p] EXCEPT !.wrap = FALSE], nextId))
           ELSE /\ tx' = [tx EXCEPT ![p] = wrote]
                /\ Become(p, Executed(call[p], Returning(p)))
                /\ UNCHANGED lost
    /\ nextId' = IF call[p].op = "signup" THEN nextId + 1 ELSE nextId
    /\ UNCHANGED <<rows, healthy>>

Exec(p) ==
    /\ call[p].pc = "exec"
    /\ tx[p].status = "open"
    /\ ~Blocked(p)
    /\ ~Taken(p)
    /\ call[p].op = "signup" => nextId \in Id
    /\ tx' = [tx EXCEPT ![p].writes =
                  [i \in Id |-> IF i \in Targets(p)
                                THEN Written(p, View(tx[p])[i]) ELSE @[i]]]
    /\ nextId' = IF call[p].op = "signup" THEN nextId + 1 ELSE nextId
    /\ Become(p, Executed(call[p], Returning(p)))
    /\ UNCHANGED <<rows, lost, healthy>>

Fails(p) ==
    \/ tx[p].status = "aborted"
    \/ ~Blocked(p) /\ Taken(p)
    \/ Deadlocked(p)
    \/ call[p].op = "signup" /\ nextId \notin Id
    \/ ~healthy

\* An INSERT that fails may have drawn its id.
Drawn(p) == IF call[p].op = "signup" /\ nextId \in Id THEN {nextId, nextId + 1}
            ELSE {nextId}

\* An error aborts the transaction, which gives its locks back.  A DELETE goes
\* on to Commit, which then fails but returns the connection; the others return
\* with the transaction that they began, and nobody can end it.
ExecFails(p) ==
    LET aborted == [status |-> "aborted", writes |-> Untouched]
    IN  /\ call[p].pc = "exec"
        /\ Fails(p)
        /\ nextId' \in Drawn(p)
        /\ IF call[p].wrap /\ call[p].op # "delete"
           THEN End(p) /\ lost' = Append(lost, aborted)
           ELSE tx' = [tx EXCEPT ![p] = aborted] /\ UNCHANGED lost
        /\ Become(p, IF call[p].wrap /\ call[p].op = "delete"
                     THEN Executed(call[p], All) ELSE Idle)
        /\ UNCHANGED <<rows, healthy>>

-----------------------------------------------------------------------------
\* The reply to a COMMIT may be an error, or get lost.
Commit(p) ==
    /\ call[p].pc = "commit"
    /\ End(p)
    /\ \/ /\ tx[p].status = "open"
          /\ rows' = View(tx[p])
          /\ Become(p, Executed([call[p] EXCEPT !.wrap = FALSE], call[p].where))
       \/ /\ tx[p].status = "aborted" \/ ~healthy
          /\ rows' \in {rows, View(tx[p])}
          /\ Become(p, Idle)
    /\ UNCHANGED <<nextId, lost, healthy>>

\* GetById takes the transaction and does not use it: the query goes over
\* another connection, which sees what is committed.  It finds a row or it
\* does not; either way the method ends.
GetById(p) ==
    /\ call[p].pc = "read"
    /\ Become(p, Idle)
    /\ UNCHANGED <<rows, nextId, tx, lost, healthy>>

-----------------------------------------------------------------------------
\* PostgreSQL rolls back what the process has not ended.
Crash ==
    /\ ~healthy
    /\ tx' = [p \in Caller |-> NoTx]
    /\ lost' = << >>
    /\ call' = [p \in Caller |-> Idle]
    /\ UNCHANGED <<rows, nextId, healthy>>

Recover ==
    /\ ~healthy
    /\ healthy' = TRUE
    /\ UNCHANGED <<rows, nextId, tx, lost, call>>

Init ==
    /\ rows = [i \in Id |-> None]
    /\ nextId = 1
    /\ tx = [p \in Caller |-> NoTx]
    /\ lost = << >>
    /\ call = [p \in Caller |-> Idle]
    /\ healthy = FALSE

EndTx(p) == CommitTx(p) \/ RollbackTx(p)

Method(p) == Signup(p) \/ UpdateEmailAndPasswordById(p) \/ Update(p) \/ Delete(p)

Step(p) == Exec(p) \/ ExecFails(p) \/ Commit(p) \/ GetById(p)

Next ==
    \/ \E p \in Caller :
         BeginTx(p) \/ EndTx(p) \/ Method(p) \/ BeginxFails(p) \/ Step(p)
    \/ Crash
    \/ Recover

Spec == Init /\ [][Next]_vars

\* A caller ends its transactions, and PostgreSQL wakes who waits: a statement
\* that can go on time and again does.
Fairness ==
    \A p \in Caller : SF_vars(healthy /\ Step(p)) /\ SF_vars(healthy /\ EndTx(p))

FairSpec == Spec /\ Fairness

-----------------------------------------------------------------------------
(* Properties.                                                             *)

\* Every variable has its type.
TypeOK ==
    /\ rows \in [Id -> UserRow]
    /\ nextId \in 1..(MaxId + 1)
    /\ tx \in [Caller -> Tx]
    /\ lost \in Seq(Tx)
    /\ call \in [Caller -> Call]
    /\ healthy \in BOOLEAN

\* No address has two users, whatever callers do at the same time: Signup and
\* the updates do not look first, and rely on the index of migration 0001
\* (user.go:102, user.go:128).
OneUserPerEmail ==
    \A i, j \in Id : rows[i] # None /\ rows[i] = rows[j] => i = j

\* What is written in a transaction of the caller is committed when the caller
\* says so (base.go:97-99), and by nobody else before.
CallerCommits ==
    [][\A p \in Caller :
         call[p].pc # "idle" /\ ~call[p].wrap /\ call'[p] # call[p]
           => rows' = rows]_vars

\* No two calls of Signup look up the same id after their INSERTs, whatever
\* others have written or rolled back meanwhile (user.go:102-107).
SignupsApart ==
    \A p, q \in Caller :
      call[p].pc = "read" /\ call[q].pc = "read" /\ call[p].where = call[q].where
        => p = q

\* No call waits for ever, with callers that end their transactions: not for a
\* row, an address or each other, nor for the transaction that a failed INSERT
\* or UPDATE has left behind (base.go:89-92, base.go:137-141).
CallsEnd ==
    \A p \in Caller : healthy /\ call[p].pc # "idle" ~> call[p].pc = "idle"

=============================================================================
