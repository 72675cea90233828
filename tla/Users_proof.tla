----------------------------- MODULE Users_proof -----------------------------
(***************************************************************************)
(* Proofs about Users, for any callers, addresses, connections and length  *)
(* of the sequence.                                                        *)
(***************************************************************************)
EXTENDS Users, TLAPS

(* The inductive invariant.  The index looks at one transaction at a time; *)
(* that no two of them can both commit an address needs that what one has  *)
(* touched, the other has not.                                             *)

Unique(f) == \A i, j \in Id : f[i] # None /\ f[i] = f[j] => i = j

\* The addresses that row i has before and after the transaction t.
Sides(t, i) == {rows[i], View(t)[i]}

Apart(s, t) ==
    \A i, j \in Id :
      s.writes[i] # Keep /\ t.writes[j] # Keep
        => i # j /\ Sides(s, i) \cap Sides(t, j) \subseteq {None}

TableInv ==
    /\ Unique(rows)
    /\ \A p \in Caller : Unique(View(tx[p]))
    /\ \A p, q \in Caller : p # q => Apart(tx[p], tx[q])

\* A method has a transaction until it is done, commits its own only, and
\* gives an address to one row at the most.
CallInv(p) ==
    /\ tx[p].status # "open" => tx[p].writes = Untouched
    /\ call[p].pc = "exec" => InTx(p)
    /\ call[p].pc = "commit" => InTx(p) /\ call[p].wrap
    /\ call[p].pc = "read" => call[p].where # All
    /\ call[p].pc = "exec" /\ call[p].op = "signup" => call[p].email # None
    /\ call[p].pc = "exec" /\ call[p].op = "delete" => call[p].email = None
    /\ call[p].pc = "exec" /\ call[p].op = "update" /\ call[p].where = All
         => call[p].email = None

\* The ids that INSERTs have returned to calls that go on.
HasId(p) == call[p].pc \in {"commit", "read"} /\ call[p].where # All

IdsInv ==
    /\ \A p \in Caller : HasId(p) => call[p].where < nextId
    /\ \A p, q \in Caller :
         HasId(p) /\ HasId(q) /\ call[p].where = call[q].where => p = q

IInv ==
    /\ TypeOK
    /\ TableInv
    /\ \A p \in Caller : CallInv(p)
    /\ IdsInv

-----------------------------------------------------------------------------
(* Transactions that have touched nothing.                                 *)

LEMMA Fresh ==
    /\ Untouched \in [Id -> UserRow \cup {Keep}]
    /\ NoTx \in Tx
    /\ \A i \in Id : Untouched[i] = Keep
  BY DEF Untouched, NoTx, Tx

LEMMA ViewType ==
    ASSUME TypeOK, NEW t \in Tx
    PROVE  /\ View(t) \in [Id -> UserRow]
           /\ \A i \in Id : t.writes[i] = Keep => View(t)[i] = rows[i]
           /\ \A i \in Id : t.writes[i] # Keep => View(t)[i] = t.writes[i]
           /\ t.writes = Untouched => View(t) = rows
<1>1. \A i \in Id : t.writes[i] \in UserRow \cup {Keep} /\ rows[i] \in UserRow
  BY DEF TypeOK, Tx
<1>2. View(t) \in [Id -> UserRow]
  BY <1>1 DEF View
<1>3. t.writes = Untouched => View(t) = rows
  BY <1>2, Fresh DEF View, TypeOK
<1>. QED  BY <1>2, <1>3 DEF View

-----------------------------------------------------------------------------
(* Steps of one caller: what the others have in hand stays.                *)

OnlyCaller(p) ==
    /\ tx' \in [Caller -> Tx]
    /\ call' \in [Caller -> Call]
    /\ \A q \in Caller \ {p} : tx'[q] = tx[q] /\ call'[q] = call[q]

\* A caller that begins, rolls back or goes on as it is.
LEMMA TableKept ==
    ASSUME IInv, TypeOK', NEW p \in Caller, OnlyCaller(p), rows' = rows,
           tx'[p].writes \in {Untouched, tx[p].writes}
    PROVE  TableInv'
<1>1. Unique(rows)'
  BY DEF IInv, TableInv, Unique
<1>2. ASSUME NEW q \in Caller
      PROVE  /\ tx'[q].writes \in {Untouched, tx[q].writes}
             /\ tx[q] \in Tx /\ tx'[q] \in Tx
  BY DEF OnlyCaller, IInv, TypeOK
<1>3. ASSUME NEW q \in Caller
      PROVE  View(tx[q])' \in {rows, View(tx[q])}
  BY <1>2, Fresh, ViewType DEF View, IInv, TypeOK
<1>4. ASSUME NEW q \in Caller
      PROVE  Unique(View(tx[q]))'
  BY <1>3 DEF IInv, TableInv, Unique
<1>5. ASSUME NEW q \in Caller, NEW r \in Caller, q # r
      PROVE  Apart(tx[q], tx[r])'
  <2>1. SUFFICES ASSUME NEW i \in Id, NEW j \in Id,
                        tx'[q].writes[i] # Keep, tx'[r].writes[j] # Keep
                 PROVE  /\ i # j
                        /\ (Sides(tx[q], i) \cap Sides(tx[r], j))' \subseteq {None}
    BY DEF Apart
  <2>2. tx'[q].writes = tx[q].writes /\ tx'[r].writes = tx[r].writes
    BY <1>2, <2>1, Fresh
  <2>3. View(tx[q])' = View(tx[q]) /\ View(tx[r])' = View(tx[r])
    BY <2>2 DEF View
  <2>4. i # j /\ Sides(tx[q], i) \cap Sides(tx[r], j) \subseteq {None}
    BY <1>5, <2>1, <2>2 DEF IInv, TableInv, Apart
  <2>. QED  BY <2>3, <2>4 DEF Sides
<1>. QED  BY <1>1, <1>4, <1>5 DEF TableInv

\* A COMMIT: what p has written becomes what is committed, and no other
\* transaction sees an address twice for it.
LEMMA TableCommitted ==
    ASSUME IInv, TypeOK', NEW p \in Caller, OnlyCaller(p),
           rows' = View(tx[p]), tx'[p].writes = Untouched
    PROVE  TableInv'
<1>0. \A q \in Caller : tx[q] \in Tx /\ tx'[q] \in Tx
  BY DEF OnlyCaller, IInv, TypeOK
<1>1. Unique(rows)'
  BY DEF IInv, TableInv, Unique
<1>2. View(tx[p])' = rows'
  BY <1>0, Fresh DEF View, TypeOK
<1>3. ASSUME NEW q \in Caller, q # p
      PROVE  /\ tx'[q] = tx[q]
             /\ \A i \in Id : tx[q].writes[i] # Keep => rows'[i] = rows[i]
             /\ \A i \in Id : View(tx[q])'[i] = IF tx[q].writes[i] = Keep
                                                THEN rows'[i] ELSE View(tx[q])[i]
  <2>1. tx'[q] = tx[q]
    BY <1>3 DEF OnlyCaller
  <2>2. ASSUME NEW i \in Id, tx[q].writes[i] # Keep
        PROVE  rows'[i] = rows[i]
    <3>1. tx[p].writes[i] = Keep
      BY <1>3, <2>2 DEF IInv, TableInv, Apart
    <3>. QED  BY <3>1, <1>0, ViewType DEF IInv
  <2>. QED  BY <2>1, <2>2 DEF View
<1>4. ASSUME NEW q \in Caller, q # p
      PROVE  Unique(View(tx[q]))'
  <2>1. SUFFICES ASSUME NEW i \in Id, NEW j \in Id, i # j,
                        tx[q].writes[i] # Keep, tx[q].writes[j] = Keep,
                        View(tx[q])[i] # None, View(tx[q])[i] = rows'[j]
                 PROVE  FALSE
    <3>1. Unique(View(tx[q]))
      BY DEF IInv, TableInv
    <3>. QED  BY <1>1, <1>3, <1>4, <3>1 DEF Unique
  <2>2. CASE tx[p].writes[j] = Keep
    <3>1. rows'[j] = View(tx[q])[j]
      BY <2>1, <2>2, <1>0, ViewType DEF IInv
    <3>. QED  BY <2>1, <3>1 DEF IInv, TableInv, Unique
  <2>3. CASE tx[p].writes[j] # Keep
    <3>1. Sides(tx[q], i) \cap Sides(tx[p], j) \subseteq {None}
      BY <1>4, <2>1, <2>3 DEF IInv, TableInv, Apart
    <3>. QED  BY <2>1, <3>1 DEF Sides
  <2>. QED  BY <2>2, <2>3
<1>5. ASSUME NEW q \in Caller, NEW r \in Caller, q # r
      PROVE  Apart(tx[q], tx[r])'
  <2>1. SUFFICES ASSUME NEW i \in Id, NEW j \in Id,
                        tx'[q].writes[i] # Keep, tx'[r].writes[j] # Keep
                 PROVE  /\ i # j
                        /\ (Sides(tx[q], i) \cap Sides(tx[r], j))' \subseteq {None}
    BY DEF Apart
  <2>2. q # p /\ r # p
    BY <2>1, Fresh
  <2>3. /\ tx'[q] = tx[q] /\ tx'[r] = tx[r]
        /\ rows'[i] = rows[i] /\ rows'[j] = rows[j]
        /\ View(tx[q])'[i] = View(tx[q])[i] /\ View(tx[r])'[j] = View(tx[r])[j]
    BY <1>3, <2>1, <2>2
  <2>4. i # j /\ Sides(tx[q], i) \cap Sides(tx[r], j) \subseteq {None}
    BY <1>5, <2>1, <2>3 DEF IInv, TableInv, Apart
  <2>. QED  BY <2>3, <2>4 DEF Sides
<1>. QED  BY <1>1, <1>2, <1>4, <1>5 DEF TableInv, Unique

-----------------------------------------------------------------------------
(* A statement.                                                            *)

LEMMA TargetsType ==
    ASSUME IInv, NEW p \in Caller, call[p].pc = "exec",
           call[p].op = "signup" => nextId \in Id
    PROVE  /\ Targets(p) \subseteq Id
           /\ \A i \in Id : Written(p, View(tx[p])[i]) \in UserRow
           /\ tx[p] \in Tx /\ View(tx[p]) \in [Id -> UserRow]
           /\ call[p].email # None =>
                \A i, j \in Targets(p) : i = j
<1>1. call[p] \in Call /\ tx[p] \in Tx
  BY DEF IInv, TypeOK
<1>2. View(tx[p]) \in [Id -> UserRow]
  BY <1>1, ViewType DEF IInv
<1>3. Targets(p) \subseteq Id
  BY DEF Targets
<1>4. \A i \in Id : Written(p, View(tx[p])[i]) \in UserRow
  BY <1>1, <1>2 DEF Written, Call
<1>5. ASSUME call[p].email # None, NEW i \in Targets(p), NEW j \in Targets(p)
      PROVE  i = j
  <2>1. CASE call[p].op = "signup"
    BY <1>5, <2>1 DEF Targets
  <2>2. CASE call[p].op = "update"
    <3>1. call[p].where # All
      BY <1>5, <2>2 DEF IInv, CallInv
    <3>. QED  BY <1>5, <2>2, <3>1 DEF Targets
  <2>3. CASE call[p].op = "delete"
    BY <1>5, <2>3 DEF IInv, CallInv
  <2>. QED  BY <1>1, <2>1, <2>2, <2>3 DEF Call
<1>. QED  BY <1>1, <1>2, <1>3, <1>4, <1>5

\* What Exec(p) makes of the transaction.
LEMMA ExecWrites ==
    ASSUME IInv, TypeOK', NEW p \in Caller, Exec(p)
    PROVE  /\ rows' = rows
           /\ \A i \in Id :
                /\ i \in Targets(p) =>
                     /\ tx'[p].writes[i] = Written(p, View(tx[p])[i])
                     /\ View(tx[p])'[i] = Written(p, View(tx[p])[i])
                     /\ tx'[p].writes[i] # Keep
                /\ i \notin Targets(p) =>
                     /\ tx'[p].writes[i] = tx[p].writes[i]
                     /\ View(tx[p])'[i] = View(tx[p])[i]
           /\ \A q \in Caller \ {p} : tx'[q] = tx[q] /\ View(tx[q])' = View(tx[q])
<1>1. /\ Targets(p) \subseteq Id
      /\ \A i \in Id : Written(p, View(tx[p])[i]) \in UserRow
      /\ tx[p] \in Tx /\ View(tx[p]) \in [Id -> UserRow]
  BY TargetsType DEF Exec
<1>2. /\ tx'[p].writes = [i \in Id |-> IF i \in Targets(p)
                            THEN Written(p, View(tx[p])[i]) ELSE tx[p].writes[i]]
      /\ \A q \in Caller \ {p} : tx'[q] = tx[q]
      /\ rows' = rows
  BY <1>1 DEF Exec, IInv, TypeOK, Tx
<1>3. \A i \in Id : Written(p, View(tx[p])[i]) # Keep
  BY <1>1, UsersAssumption DEF UserRow
<1>4. View(tx[p])' = [i \in Id |-> IF tx'[p].writes[i] = Keep THEN rows[i]
                                   ELSE tx'[p].writes[i]]
  BY <1>2 DEF View
<1>5. \A q \in Caller \ {p} : View(tx[q])' = View(tx[q])
  BY <1>2 DEF View
<1>6. \A i \in Id : i \notin Targets(p) => View(tx[p])'[i] = View(tx[p])[i]
  BY <1>2, <1>4 DEF View
<1>. QED  BY <1>1, <1>2, <1>3, <1>4, <1>5, <1>6

\* The index lets no address be given twice in one transaction.
LEMMA ExecUnique ==
    ASSUME IInv, TypeOK', NEW p \in Caller, Exec(p)
    PROVE  Unique(View(tx[p]))'
<1>1. SUFFICES ASSUME NEW i \in Id, NEW j \in Id, i # j,
                      View(tx[p])'[i] # None, View(tx[p])'[i] = View(tx[p])'[j]
               PROVE  FALSE
  BY DEF Unique
<1>2. Unique(View(tx[p]))
  BY DEF IInv, TableInv
<1>3. ~Taken(p) /\ call[p].pc = "exec" /\ call[p] \in Call
  BY DEF Exec, IInv, TypeOK
<1>4. CASE call[p].email = None
  <2>1. \A k \in Id : View(tx[p])'[k] \in {None, View(tx[p])[k]}
    BY <1>4, ExecWrites DEF Written
  <2>. QED  BY <1>1, <1>2, <2>1 DEF Unique
<1>5. CASE call[p].email # None
  <2>. Targets(p) \subseteq Id
    BY TargetsType DEF Exec
  <2>1. \A k \in Targets(p) : View(tx[p])'[k] = call[p].email
    BY <1>5, ExecWrites DEF Written
  <2>2. \A k, l \in Targets(p) : k = l
    BY <1>3, <1>5, TargetsType DEF Exec
  <2>3. \A k \in Id \ Targets(p) : View(tx[p])'[k] = View(tx[p])[k]
    BY ExecWrites
  <2>4. \A k \in Id \ Targets(p) : Targets(p) # {} => View(tx[p])[k] # call[p].email
    BY <1>3, <1>5 DEF Taken
  <2>. QED  BY <1>1, <1>2, <2>1, <2>2, <2>3, <2>4 DEF Unique
<1>. QED  BY <1>4, <1>5

\* The wait keeps it apart from the others.
LEMMA ExecApart ==
    ASSUME IInv, TypeOK', NEW p \in Caller, Exec(p), NEW q \in Caller, q # p
    PROVE  Apart(tx[p], tx[q])' /\ Apart(tx[q], tx[p])'
<1>1. /\ ~WaitsFor(p, tx[q])
      /\ call[p].pc = "exec"
      /\ tx[q] \in Tx
  BY DEF Exec, Blocked, IInv, TypeOK
<1>2. Targets(p) \subseteq Id /\ Apart(tx[p], tx[q])
  BY TargetsType DEF Exec, IInv, TableInv
<1>3. ASSUME NEW i \in Id, NEW j \in Id,
             tx'[p].writes[i] # Keep, tx'[q].writes[j] # Keep
      PROVE  i # j /\ (Sides(tx[p], i) \cap Sides(tx[q], j))' \subseteq {None}
  <2>1. /\ tx[q].writes[j] # Keep
        /\ (Sides(tx[q], j))' = Sides(tx[q], j)
    BY <1>3, ExecWrites DEF Sides
  <2>2. CASE i \notin Targets(p)
    <3>1. tx[p].writes[i] # Keep /\ (Sides(tx[p], i))' = Sides(tx[p], i)
      BY <1>3, <2>2, ExecWrites DEF Sides
    <3>. QED  BY <1>2, <2>1, <3>1 DEF Apart
  <2>3. CASE i \in Targets(p)
    <3>1. tx[q].writes[i] = Keep
      BY <1>1, <2>3, <1>2 DEF WaitsFor, Touched
    <3>2. i # j
      BY <2>1, <3>1
    <3>3. View(tx[q])[i] = rows[i]
      BY <1>1, <3>1, ViewType DEF IInv
    <3>4. {rows[i]} \cap Sides(tx[q], j) \subseteq {None}
      BY <3>2, <3>3 DEF Sides, IInv, TableInv, Unique
    <3>5. View(tx[p])[i] = rows[i]
             \/ {View(tx[p])[i]} \cap Sides(tx[q], j) \subseteq {None}
      <4>1. CASE tx[p].writes[i] = Keep
        BY <4>1, TargetsType, ViewType DEF IInv, Exec
      <4>2. CASE tx[p].writes[i] # Keep
        BY <1>2, <2>1, <4>2 DEF Apart, Sides
      <4>. QED  BY <4>1, <4>2
    <3>6. {View(tx[p])'[i]} \cap Sides(tx[q], j) \subseteq {None}
      <4>1. View(tx[p])'[i] = Written(p, View(tx[p])[i])
        BY <2>3, ExecWrites
      <4>2. CASE call[p].email = None
        BY <4>1, <4>2, <3>4, <3>5 DEF Written
      <4>3. CASE call[p].email # None
        <5>1. call[p].email \notin Held(tx[q])
          BY <1>1, <2>3, <4>3 DEF WaitsFor
        <5>2. Sides(tx[q], j) \subseteq Held(tx[q])
          BY <2>1 DEF Sides, Held, Touched
        <5>. QED  BY <4>1, <4>3, <5>1, <5>2 DEF Written
      <4>. QED  BY <4>2, <4>3
    <3>7. rows' = rows
      BY ExecWrites
    <3>8. (Sides(tx[p], i))' = {rows[i], View(tx[p])'[i]}
      BY <3>7 DEF Sides
    <3>. QED  BY <2>1, <3>2, <3>4, <3>6, <3>8
  <2>. QED  BY <2>2, <2>3
<1>. QED  BY <1>3 DEF Apart

LEMMA TableWritten ==
    ASSUME IInv, TypeOK', NEW p \in Caller, Exec(p)
    PROVE  TableInv'
<1>1. Unique(rows)'
  BY ExecWrites DEF IInv, TableInv, Unique
<1>2. ASSUME NEW q \in Caller
      PROVE  Unique(View(tx[q]))'
  <2>1. CASE q = p
    BY <2>1, ExecUnique
  <2>2. CASE q # p
    BY <2>2, ExecWrites DEF IInv, TableInv, Unique
  <2>. QED  BY <2>1, <2>2
<1>3. ASSUME NEW q \in Caller, NEW r \in Caller, q # r
      PROVE  Apart(tx[q], tx[r])'
  <2>1. CASE q = p \/ r = p
    BY <1>3, <2>1, ExecApart
  <2>2. CASE q # p /\ r # p
    <3>1. /\ rows' = rows /\ tx'[q] = tx[q] /\ tx'[r] = tx[r]
          /\ View(tx[q])' = View(tx[q]) /\ View(tx[r])' = View(tx[r])
      BY <2>2, ExecWrites
    <3>2. Apart(tx[q], tx[r])
      BY <1>3 DEF IInv, TableInv
    <3>. QED  BY <3>1, <3>2 DEF Apart, Sides
  <2>. QED  BY <2>1, <2>2
<1>. QED  BY <1>1, <1>2, <1>3 DEF TableInv

-----------------------------------------------------------------------------
(* Types.                                                                  *)

LEMMA IdleType == Idle \in Call /\ Idle.pc = "idle" /\ Idle.where = All
  BY DEF Idle, Call, UserRow

LEMMA ExecutedType ==
    ASSUME NEW c \in Call, NEW id \in Id \cup {All}
    PROVE  /\ Executed(c, id) \in Call
           /\ Executed(c, id).pc \in {"idle", "commit", "read"}
           /\ Executed(c, id).pc = "commit" => c.wrap /\ Executed(c, id).wrap
           /\ Executed(c, id).pc = "read" => id # All
           /\ Executed(c, id).where \in {id, All}
  BY DEF Executed, Idle, Call, UserRow

LEMMA InitInv == Init => IInv
<1>. SUFFICES ASSUME Init
              PROVE  IInv
  OBVIOUS
<1>1. rows = [i \in Id |-> None] /\ Unique(rows)
  BY DEF Init, Unique
<1>2. lost = << >> /\ << >> \in Seq(Tx)
  BY DEF Init
<1>3. TypeOK
  <2>1. rows \in [Id -> UserRow]
    BY DEF Init, UserRow
  <2>2. nextId \in 1..(MaxId + 1)
    BY UsersAssumption DEF Init
  <2>. QED  BY <1>2, <2>1, <2>2, Fresh, IdleType DEF Init, TypeOK
<1>4. \A p \in Caller : tx[p] = NoTx /\ NoTx.writes = Untouched
  BY DEF Init, NoTx
<1>5. View(NoTx) = rows
  BY <1>3, Fresh, ViewType DEF NoTx
<1>6. TableInv
  BY <1>1, <1>4, <1>5, Fresh DEF TableInv, Apart
<1>7. \A p \in Caller : call[p] = Idle
  BY DEF Init
<1>. QED
  BY <1>2, <1>3, <1>4, <1>6, <1>7, IdleType
  DEF IInv, CallInv, IdsInv, HasId

\* A step of one caller has only that caller to be looked at.
LEMMA OneCaller ==
    ASSUME IInv, TypeOK', NEW p \in Caller, OnlyCaller(p), CallInv(p)'
    PROVE  \A q \in Caller : CallInv(q)'
  BY DEF IInv, OnlyCaller, CallInv, InTx

\* A call that has no id after the step, or the id it had before.
LEMMA IdsKept ==
    ASSUME IInv, TypeOK', NEW p \in Caller, OnlyCaller(p), nextId' >= nextId,
           HasId(p)' => HasId(p) /\ call'[p].where = call[p].where
    PROVE  IdsInv'
<1>1. \A q \in Caller : HasId(q)' => HasId(q) /\ call'[q].where = call[q].where
  BY DEF OnlyCaller, HasId
<1>2. \A q \in Caller : HasId(q) => call[q].where \in Nat
  BY DEF HasId, IInv, TypeOK, Call, Id
<1>3. nextId \in Nat /\ nextId' \in Nat
  BY UsersAssumption DEF IInv, TypeOK
<1>. QED  BY <1>1, <1>2, <1>3 DEF IInv, IdsInv

\* The id of an INSERT is larger than those that are out.
LEMMA IdsDrawn ==
    ASSUME IInv, TypeOK', NEW p \in Caller, OnlyCaller(p),
           nextId' = nextId + 1, HasId(p)' => call'[p].where = nextId
    PROVE  IdsInv'
<1>1. \A q \in Caller \ {p} :
        HasId(q)' => HasId(q) /\ call'[q].where = call[q].where
  BY DEF OnlyCaller, HasId
<1>2. \A q \in Caller : HasId(q) => call[q].where \in Nat
  BY DEF HasId, IInv, TypeOK, Call, Id
<1>3. nextId \in Nat
  BY UsersAssumption DEF IInv, TypeOK
<1>. QED  BY <1>1, <1>2, <1>3 DEF IInv, IdsInv

-----------------------------------------------------------------------------
(* The steps.                                                              *)

\* BeginTx, RollbackTx, the beginning of a method, GetById: the table is left
\* alone, and no id is returned.
Quiet(p) ==
    /\ UNCHANGED <<rows, nextId, lost, healthy>>
    /\ tx'[p] \in Tx /\ call'[p] \in Call
    /\ tx' = [tx EXCEPT ![p] = tx'[p]]
    /\ call' = [call EXCEPT ![p] = call'[p]]
    /\ tx'[p].writes \in {Untouched, tx[p].writes}
    /\ HasId(p)' => call'[p] = call[p]

LEMMA QuietInv ==
    ASSUME IInv, NEW p \in Caller, Quiet(p), CallInv(p)'
    PROVE  IInv'
<1>1. TypeOK' /\ OnlyCaller(p)
  BY DEF IInv, TypeOK, Quiet, OnlyCaller
<1>2. TableInv'
  BY <1>1, TableKept DEF Quiet
<1>3. IdsInv'
  <2>1. nextId' >= nextId
    BY UsersAssumption DEF Quiet, IInv, TypeOK
  <2>. QED  BY <1>1, <2>1, IdsKept DEF Quiet, HasId
<1>. QED  BY <1>1, <1>2, <1>3, OneCaller DEF IInv

LEMMA BeginTxInv ==
    ASSUME IInv, NEW p \in Caller, BeginTx(p)
    PROVE  IInv'
<1>. DEFINE t == [NoTx EXCEPT !.status = "open"]
<1>1. t \in Tx /\ t.writes = Untouched /\ t.status = "open"
  BY Fresh DEF NoTx, Tx
<1>2. tx' = [tx EXCEPT ![p] = t] /\ call' = call /\ call[p].pc = "idle"
  BY DEF BeginTx, Begin
<1>3. tx'[p] = t /\ call' = [call EXCEPT ![p] = call'[p]] /\ call'[p] \in Call
  BY <1>2 DEF IInv, TypeOK
<1>4. Quiet(p)
  BY <1>1, <1>2, <1>3 DEF Quiet, BeginTx, HasId
<1>5. CallInv(p)'
  BY <1>1, <1>2, <1>3 DEF CallInv
<1>. QED  BY <1>4, <1>5, QuietInv

LEMMA RollbackTxInv ==
    ASSUME IInv, NEW p \in Caller, RollbackTx(p)
    PROVE  IInv'
<1>1. tx' = [tx EXCEPT ![p] = NoTx] /\ call' = call /\ call[p].pc = "idle"
  BY DEF RollbackTx, End
<1>2. tx'[p] = NoTx /\ call' = [call EXCEPT ![p] = call'[p]] /\ call'[p] \in Call
  BY <1>1 DEF IInv, TypeOK
<1>3. tx'[p] \in Tx /\ tx'[p].writes = Untouched
  BY <1>2, Fresh DEF NoTx
<1>4. ~HasId(p)'
  BY <1>1 DEF HasId
<1>5. Quiet(p)
  BY <1>1, <1>2, <1>3, <1>4 DEF Quiet, RollbackTx
<1>6. CallInv(p)'
  BY <1>1, <1>2 DEF CallInv, NoTx
<1>. QED  BY <1>5, <1>6, QuietInv

LEMMA MethodInv ==
    ASSUME IInv, NEW p \in Caller, Method(p)
    PROVE  IInv'
<1>1. PICK op \in {"signup", "update", "delete"}, e \in UserRow,
           w \in Id \cup {All} :
        /\ Start(p, op, e, w)
        /\ op = "signup" => e # None
        /\ op = "delete" => e = None
        /\ op = "update" /\ w = All => e = None
  <2>1. ASSUME Signup(p)
        PROVE  \E e \in Email : Start(p, "signup", e, All) /\ e # None
    BY <2>1, UsersAssumption DEF Signup
  <2>2. ASSUME UpdateEmailAndPasswordById(p)
        PROVE  \E e \in UserRow, i \in Id : Start(p, "update", e, i) /\ i # All
    BY <2>2, UsersAssumption DEF UpdateEmailAndPasswordById, Id
  <2>3. ASSUME Update(p)
        PROVE  Start(p, "update", None, All)
    BY <2>3 DEF Update
  <2>4. ASSUME Delete(p)
        PROVE  \E w \in Id \cup {All} : Start(p, "delete", None, w)
    BY <2>4 DEF Delete
  <2>5. Email \subseteq UserRow /\ None \in UserRow
    BY DEF UserRow
  <2>6. CASE Signup(p)
    BY <2>1, <2>5, <2>6
  <2>7. CASE UpdateEmailAndPasswordById(p)
    BY <2>2, <2>7
  <2>8. CASE Update(p)
    BY <2>3, <2>5, <2>8
  <2>9. CASE Delete(p)
    BY <2>4, <2>5, <2>9
  <2>. QED  BY <2>6, <2>7, <2>8, <2>9 DEF Method
<1>. DEFINE c == [pc |-> "exec", op |-> op, email |-> e, where |-> w,
                  wrap |-> ~InTx(p)]
            t == [NoTx EXCEPT !.status = "open"]
<1>2. t \in Tx /\ t.writes = Untouched /\ t.status = "open"
  BY Fresh DEF NoTx, Tx
<1>3. c \in Call
  BY DEF Call
<1>4. call' = [call EXCEPT ![p] = c] /\ call'[p] = c
  BY <1>1 DEF Start, Become, IInv, TypeOK
<1>5. \/ InTx(p) /\ tx' = tx
      \/ tx' = [tx EXCEPT ![p] = t]
  BY <1>1 DEF Start, newTransactionIfNeeded, Begin
<1>6. /\ tx'[p] \in Tx /\ tx' = [tx EXCEPT ![p] = tx'[p]]
      /\ tx'[p].writes \in {Untouched, tx[p].writes}
      /\ tx'[p] \in {t, tx[p]}
      /\ tx'[p].status # "none"
  BY <1>2, <1>5 DEF IInv, TypeOK, InTx
<1>7. Quiet(p)
  <2>1. ~HasId(p)'
    BY <1>4 DEF HasId
  <2>2. UNCHANGED <<rows, nextId, lost, healthy>>
    BY <1>1 DEF Start
  <2>. QED  BY <1>3, <1>4, <1>6, <2>1, <2>2 DEF Quiet
<1>8. CallInv(p)'
  <2>1. tx'[p].status # "open" => tx'[p].writes = Untouched
    BY <1>2, <1>6 DEF IInv, CallInv
  <2>. QED  BY <1>1, <1>4, <1>6, <2>1 DEF CallInv, InTx
<1>. QED  BY <1>7, <1>8, QuietInv

LEMMA GetByIdInv ==
    ASSUME IInv, NEW p \in Caller, GetById(p)
    PROVE  IInv'
<1>1. tx' = tx /\ call' = [call EXCEPT ![p] = Idle]
  BY DEF GetById, Become
<1>2. /\ tx' = [tx EXCEPT ![p] = tx'[p]] /\ tx'[p] = tx[p] /\ tx'[p] \in Tx
      /\ call'[p] = Idle
  BY <1>1 DEF IInv, TypeOK
<1>3. Quiet(p)
  BY <1>1, <1>2, IdleType DEF Quiet, GetById, HasId
<1>4. CallInv(p)'
  BY <1>2, IdleType DEF CallInv, IInv
<1>. QED  BY <1>3, <1>4, QuietInv

LEMMA CommitTxInv ==
    ASSUME IInv, NEW p \in Caller, CommitTx(p)
    PROVE  IInv'
<1>1. /\ tx' = [tx EXCEPT ![p] = NoTx] /\ call' = call /\ call[p].pc = "idle"
      /\ UNCHANGED <<nextId, lost, healthy>>
  BY DEF CommitTx, End
<1>2. tx'[p] = NoTx /\ NoTx \in Tx /\ NoTx.writes = Untouched
  BY <1>1, Fresh DEF IInv, TypeOK, NoTx
<1>3. CASE rows' = rows
  <2>1. Quiet(p)
    BY <1>1, <1>2, <1>3 DEF Quiet, HasId, IInv, TypeOK
  <2>2. CallInv(p)'
    BY <1>1, <1>2 DEF CallInv
  <2>. QED  BY <2>1, <2>2, QuietInv
<1>4. CASE rows' = View(tx[p])
  <2>1. TypeOK' /\ OnlyCaller(p)
    <3>1. View(tx[p]) \in [Id -> UserRow]
      BY ViewType DEF IInv, TypeOK
    <3>. QED  BY <1>1, <1>2, <1>4, <3>1 DEF IInv, TypeOK, OnlyCaller
  <2>2. TableInv'
    BY <1>2, <1>4, <2>1, TableCommitted
  <2>3. CallInv(p)'
    BY <1>1, <1>2 DEF CallInv
  <2>4. IdsInv'
    BY <1>1 DEF IInv, IdsInv, HasId
  <2>. QED  BY <2>1, <2>2, <2>3, <2>4, OneCaller DEF IInv
<1>. QED  BY <1>3, <1>4 DEF CommitTx

LEMMA ExecInv ==
    ASSUME IInv, NEW p \in Caller, Exec(p)
    PROVE  IInv'
<1>1. /\ Targets(p) \subseteq Id
      /\ \A i \in Id : Written(p, View(tx[p])[i]) \in UserRow
      /\ tx[p] \in Tx /\ call[p] \in Call /\ call[p].pc = "exec"
  BY TargetsType DEF Exec, IInv, TypeOK
<1>. DEFINE w == [i \in Id |-> IF i \in Targets(p)
                    THEN Written(p, View(tx[p])[i]) ELSE tx[p].writes[i]]
            t == [tx[p] EXCEPT !.writes = w]
            id == Returning(p)
            c == Executed(call[p], id)
<1>2. t \in Tx /\ t.status = "open"
  <2>1. w \in [Id -> UserRow \cup {Keep}]
    BY <1>1 DEF Tx
  <2>. QED  BY <1>1, <2>1 DEF Tx, Exec
<1>3. id \in Id \cup {All}
  BY DEF Returning, Exec
<1>4. /\ c \in Call /\ c.pc \in {"idle", "commit", "read"}
      /\ c.pc = "commit" => c.wrap
      /\ c.pc = "read" => id # All
      /\ c.where \in {id, All}
  BY <1>1, <1>3, ExecutedType
<1>5. /\ tx' = [tx EXCEPT ![p] = t] /\ call' = [call EXCEPT ![p] = c]
      /\ UNCHANGED <<rows, lost, healthy>>
      /\ nextId' = IF call[p].op = "signup" THEN nextId + 1 ELSE nextId
  BY DEF Exec, Become
<1>. HIDE DEF w, t, id, c
<1>6. tx'[p] = t /\ call'[p] = c
  BY <1>5 DEF IInv, TypeOK
<1>7. TypeOK' /\ OnlyCaller(p)
  <2>1. nextId' \in 1..(MaxId + 1)
    BY <1>5, UsersAssumption DEF Exec, IInv, TypeOK, Id
  <2>. QED  BY <1>2, <1>4, <1>5, <2>1 DEF IInv, TypeOK, OnlyCaller
<1>8. TableInv'
  BY <1>7, TableWritten
<1>9. CallInv(p)'
  <2>1. c.pc = "read" => c.where # All
    BY DEF c, Executed, Idle
  <2>. QED  BY <1>2, <1>4, <1>6, <2>1 DEF CallInv, InTx
<1>10. IdsInv'
  <2>1. CASE call[p].op = "signup"
    <3>1. HasId(p)' => call'[p].where = nextId
      BY <1>4, <1>6, <2>1 DEF HasId, id, Returning
    <3>. QED  BY <1>5, <1>7, <2>1, <3>1, IdsDrawn
  <2>2. CASE call[p].op # "signup"
    <3>1. ~HasId(p)'
      BY <1>4, <1>6, <2>2 DEF HasId, id, Returning
    <3>2. nextId' >= nextId
      BY <1>5, <2>2, UsersAssumption DEF IInv, TypeOK
    <3>. QED  BY <1>7, <3>1, <3>2, IdsKept
  <2>. QED  BY <2>1, <2>2
<1>. QED  BY <1>7, <1>8, <1>9, <1>10, OneCaller DEF IInv

LEMMA ExecFailsInv ==
    ASSUME IInv, NEW p \in Caller, ExecFails(p)
    PROVE  IInv'
<1>. DEFINE a == [status |-> "aborted", writes |-> Untouched]
            goesOn == call[p].wrap /\ call[p].op = "delete"
            c == IF goesOn THEN Executed(call[p], All) ELSE Idle
<1>1. /\ call[p].pc = "exec" /\ call[p] \in Call /\ tx[p] \in Tx
      /\ nextId' \in Drawn(p)
      /\ UNCHANGED <<rows, healthy>>
      /\ call' = [call EXCEPT ![p] = c]
  BY DEF ExecFails, Become, IInv, TypeOK
<1>2. a \in Tx /\ a.writes = Untouched /\ NoTx \in Tx /\ NoTx.writes = Untouched
  BY Fresh DEF Tx, NoTx
<1>3. c \in Call /\ ~(c.pc \in {"commit", "read"} /\ c.where # All)
  BY <1>1, IdleType, ExecutedType
<1>4. \/ /\ tx' = [tx EXCEPT ![p] = NoTx] /\ lost' = Append(lost, a)
         /\ ~goesOn
      \/ tx' = [tx EXCEPT ![p] = a] /\ lost' = lost
  BY DEF ExecFails, End
<1>5. /\ tx'[p] \in {NoTx, a} /\ call'[p] = c
      /\ goesOn => tx'[p] = a
  BY <1>1, <1>4 DEF IInv, TypeOK
<1>6. lost \in Seq(Tx)
  BY DEF IInv, TypeOK
<1>7. lost' \in Seq(Tx) /\ \A n \in DOMAIN lost' : lost'[n] \in {lost[n], a}
  <2>1. CASE lost' = lost
    BY <1>6, <2>1
  <2>2. CASE lost' = Append(lost, a)
    BY <1>2, <1>6, <2>2
  <2>. QED  BY <1>4, <2>1, <2>2
<1>8. TypeOK' /\ OnlyCaller(p) /\ nextId' >= nextId
  <2>1. nextId' \in 1..(MaxId + 1) /\ nextId' >= nextId
    BY <1>1, UsersAssumption DEF Drawn, IInv, TypeOK, Id
  <2>. QED  BY <1>1, <1>2, <1>3, <1>4, <1>7, <2>1 DEF IInv, TypeOK, OnlyCaller
<1>9. TableInv'
  BY <1>1, <1>2, <1>5, <1>8, TableKept
<1>10. CallInv(p)'
  <2>1. CASE goesOn
    <3>1. c = Executed(call[p], All) /\ tx'[p] = a
      BY <1>5, <2>1
    <3>2. c.pc \in {"idle", "commit"} /\ (c.pc = "commit" => c.wrap)
      BY <1>1, <3>1, ExecutedType
    <3>. QED  BY <1>2, <1>5, <3>1, <3>2 DEF CallInv, InTx
  <2>2. CASE ~goesOn
    BY <1>2, <1>5, <2>2, IdleType DEF CallInv
  <2>. QED  BY <2>1, <2>2
<1>11. IdsInv'
  <2>1. ~HasId(p)'
    BY <1>3, <1>5 DEF HasId
  <2>. QED  BY <1>8, <2>1, IdsKept
<1>. QED  BY <1>8, <1>9, <1>10, <1>11, OneCaller DEF IInv

LEMMA CommitInv ==
    ASSUME IInv, NEW p \in Caller, Commit(p)
    PROVE  IInv'
<1>. DEFINE d == Executed([call[p] EXCEPT !.wrap = FALSE], call[p].where)
<1>1. /\ tx' = [tx EXCEPT ![p] = NoTx]
      /\ rows' \in {rows, View(tx[p])}
      /\ UNCHANGED <<nextId, lost, healthy>>
      /\ \E c \in {d, Idle} : call' = [call EXCEPT ![p] = c]
      /\ call[p].pc = "commit"
  BY DEF Commit, End, Become
<1>2. /\ tx'[p] = NoTx /\ NoTx \in Tx /\ NoTx.writes = Untouched
      /\ tx[p] \in Tx /\ call[p] \in Call
  BY <1>1, Fresh DEF IInv, TypeOK, NoTx
<1>3. /\ d \in Call /\ d.pc \in {"idle", "read"}
      /\ d.pc = "read" => d.where = call[p].where /\ d.where # All
  BY <1>2 DEF Executed, Idle, Call, UserRow
<1>4. PICK c \in {d, Idle} : call' = [call EXCEPT ![p] = c]
  BY <1>1
<1>5. /\ c \in Call /\ c.pc \in {"idle", "read"} /\ call'[p] = c
      /\ c.pc = "read" => c.where = call[p].where /\ c.where # All
  BY <1>3, <1>4, IdleType DEF IInv, TypeOK
<1>6. TypeOK' /\ OnlyCaller(p)
  <2>1. View(tx[p]) \in [Id -> UserRow]
    BY <1>2, ViewType DEF IInv
  <2>. QED  BY <1>1, <1>2, <1>4, <1>5, <2>1 DEF IInv, TypeOK, OnlyCaller
<1>7. TableInv'
  BY <1>1, <1>2, <1>6, TableKept, TableCommitted
<1>8. CallInv(p)'
  BY <1>2, <1>5 DEF CallInv
<1>9. IdsInv'
  <2>1. HasId(p)' => HasId(p) /\ call'[p].where = call[p].where
    BY <1>1, <1>5 DEF HasId
  <2>2. nextId' >= nextId
    BY <1>1, UsersAssumption DEF IInv, TypeOK
  <2>. QED  BY <1>6, <2>1, <2>2, IdsKept
<1>. QED  BY <1>6, <1>7, <1>8, <1>9, OneCaller DEF IInv

LEMMA CrashInv ==
    ASSUME IInv, Crash
    PROVE  IInv'
<1>1. /\ rows' = rows /\ nextId' = nextId /\ healthy' = healthy
      /\ tx' = [p \in Caller |-> NoTx] /\ call' = [p \in Caller |-> Idle]
      /\ lost' = << >> /\ << >> \in Seq(Tx)
  BY DEF Crash
<1>2. TypeOK'
  BY <1>1, Fresh, IdleType DEF IInv, TypeOK
<1>3. \A p \in Caller : tx'[p] = NoTx /\ NoTx.writes = Untouched
  BY <1>1 DEF NoTx
<1>4. View(NoTx) = rows
  BY Fresh, ViewType DEF IInv, NoTx
<1>5. \A p \in Caller : View(tx[p])' = rows
  BY <1>1, <1>3, <1>4 DEF View
<1>6. TableInv'
  BY <1>1, <1>3, <1>5, Fresh DEF IInv, TableInv, Apart, Unique
<1>. QED
  BY <1>1, <1>2, <1>3, <1>6, IdleType
  DEF IInv, CallInv, IdsInv, HasId

LEMMA SameInv ==
    ASSUME IInv, UNCHANGED <<rows, nextId, tx, lost, call>>, healthy' \in BOOLEAN
    PROVE  IInv'
  BY DEF IInv, TypeOK, TableInv, CallInv, IdsInv, HasId,
         Unique, Apart, Sides, View, Touched, InTx

LEMMA NextInv == IInv /\ [Next]_vars => IInv'
<1>. SUFFICES ASSUME IInv, [Next]_vars
              PROVE  IInv'
  OBVIOUS
<1>1. ASSUME NEW p \in Caller, Step(p)
      PROVE  IInv'
  BY <1>1, ExecInv, ExecFailsInv, CommitInv, GetByIdInv DEF Step
<1>2. ASSUME NEW p \in Caller, BeginTx(p) \/ EndTx(p) \/ Method(p)
      PROVE  IInv'
  BY <1>2, BeginTxInv, CommitTxInv, RollbackTxInv, MethodInv DEF EndTx
<1>3. ASSUME NEW p \in Caller, BeginxFails(p)
      PROVE  IInv'
  BY <1>3, SameInv DEF BeginxFails, vars, IInv, TypeOK
<1>4. CASE Crash
  BY <1>4, CrashInv
<1>5. CASE Recover
  BY <1>5, SameInv DEF Recover
<1>6. CASE UNCHANGED vars
  BY <1>6, SameInv DEF vars, IInv, TypeOK
<1>. QED  BY <1>1, <1>2, <1>3, <1>4, <1>5, <1>6 DEF Next

-----------------------------------------------------------------------------
(* Theorems.                                                               *)

\* IInv is an invariant.
THEOREM UsersInvariant == Spec => []IInv
  BY InitInv, NextInv, PTL DEF Spec

\* Every variable keeps its type.
THEOREM UsersTypeCorrect == Spec => []TypeOK
<1>1. IInv => TypeOK
  BY DEF IInv
<1>. QED  BY <1>1, UsersInvariant, PTL

\* No address has two users, however transactions interleave (user.go:102,
\* user.go:128, the index of migration 0001).
THEOREM OneUserPerEmailCorrect == Spec => []OneUserPerEmail
<1>1. IInv => OneUserPerEmail
  BY DEF IInv, TableInv, Unique, OneUserPerEmail
<1>. QED  BY <1>1, UsersInvariant, PTL

\* No two calls of Signup look up the same id (user.go:102-107).
THEOREM SignupsApartCorrect == Spec => []SignupsApart
<1>1. IInv => SignupsApart
  BY DEF IInv, IdsInv, HasId, CallInv, SignupsApart
<1>. QED  BY <1>1, UsersInvariant, PTL

\* In a transaction of the caller nothing is committed before the caller says
\* so (base.go:90).
THEOREM CallerCommitsCorrect == Spec => CallerCommits
<1>. DEFINE A == \A p \in Caller :
                   call[p].pc # "idle" /\ ~call[p].wrap /\ call'[p] # call[p]
                     => rows' = rows
<1>1. IInv /\ [Next]_vars => [A]_vars
  <2>. SUFFICES ASSUME IInv, Next, NEW p \in Caller, call[p].pc # "idle",
                       ~call[p].wrap, call'[p] # call[p]
                PROVE  rows' = rows
    OBVIOUS
  <2>1. ASSUME NEW q \in Caller, CommitTx(q)
        PROVE  FALSE
    BY <2>1 DEF CommitTx
  <2>2. ASSUME NEW q \in Caller, Commit(q)
        PROVE  FALSE
    <3>1. call[q].pc = "commit" /\ call[q].wrap
      BY <2>2 DEF Commit, IInv, CallInv
    <3>2. \E c : call' = [call EXCEPT ![q] = c]
      BY <2>2 DEF Commit, Become
    <3>. QED  BY <3>1, <3>2 DEF IInv, TypeOK
  <2>3. ASSUME NEW q \in Caller,
               BeginTx(q) \/ RollbackTx(q) \/ Method(q) \/ BeginxFails(q)
                 \/ Exec(q) \/ ExecFails(q) \/ GetById(q)
        PROVE  rows' = rows
    BY <2>3 DEF BeginTx, RollbackTx, Method, Signup, UpdateEmailAndPasswordById,
                Update, Delete, Start, BeginxFails, Exec, ExecFails, GetById, vars
  <2>4. CASE Crash \/ Recover
    BY <2>4 DEF Crash, Recover
  <2>. QED  BY <2>1, <2>2, <2>3, <2>4 DEF Next, EndTx, Step
<1>. QED  BY <1>1, UsersInvariant, PTL DEF Spec, CallerCommits
=============================================================================
