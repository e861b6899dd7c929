-------------------------- MODULE SyncRebaseProofs --------------------------
(***************************************************************************)
(* Proofs about the device's undo log, for any rows, values, mutators and  *)
(* queue: type correctness, that every marked row has a mutation behind    *)
(* it, and, unless a mutator uses INSERT OR REPLACE, that rewinding always *)
(* gives back exactly the server state and the local tables are that state *)
(* with the queue run on it.                                               *)
(***************************************************************************)
EXTENDS SyncRebaseView, SequenceTheorems, TLAPS

-----------------------------------------------------------------------------
(* Statements. A statement keeps the type of a database, and keeps the undo *)
(* log exact for the server state b.                                        *)

Exact(d, b) ==
  /\ \A k \in Row : b[k] = IF k \in d.dirty THEN d.shadow[k] ELSE d.table[k]
  /\ \A k \in Row : d.shadow[k] # Absent => k \in d.dirty

\* The first touch of a row moves the server's copy into the shadow.
LEMMA CaptureExact ==
  ASSUME NEW d \in Database, NEW b \in Table, NEW k \in Row
  PROVE  /\ Capture(d, k) \in Database
         /\ Capture(d, k).table = d.table
         /\ k \in Capture(d, k).dirty
         /\ Exact(d, b) => Exact(Capture(d, k), b)
BY DEF Capture, Database, Table, Cell, Exact

\* A write to a row that is already dirty changes no server state.
LEMMA WriteDirty ==
  ASSUME NEW d \in Database, NEW b \in Table, NEW k \in Row, NEW v \in Cell,
         k \in d.dirty
  PROVE  /\ [d EXCEPT !.table[k] = v] \in Database
         /\ Exact(d, b) => Exact([d EXCEPT !.table[k] = v], b)
BY DEF Database, Table, Cell, Exact

\* UPDATE and DELETE capture, then write.
LEMMA UpdateExact ==
  ASSUME NEW d \in Database, NEW b \in Table, NEW k \in Row, NEW v \in Value
  PROVE  /\ Update(d, k, v) \in Database
         /\ Delete(d, k) \in Database
         /\ Exact(d, b) => Exact(Update(d, k, v), b)
         /\ Exact(d, b) => Exact(Delete(d, k), b)
<1>1. v \in Cell /\ Absent \in Cell
  BY DEF Cell
<1>2. QED
  BY <1>1, CaptureExact, WriteDirty DEF Update, Delete

\* A DELETE leaves every other row alone.
LEMMA DeleteTables ==
  ASSUME NEW d \in Database, NEW k \in Row
  PROVE  /\ Delete(d, k) \in Database
         /\ Delete(d, k).table = [d.table EXCEPT ![k] = Absent]
         /\ Delete(d, k).dirty = d.dirty \cup {k}
<1> DEFINE c == Capture(d, k)
<1>1. c \in Database /\ c.table = d.table /\ c.dirty = d.dirty \cup {k}
  BY DEF Capture, Database, Table, Cell
<1>2. Delete(d, k) = [c EXCEPT !.table[k] = Absent]
  BY DEF Delete
<1> HIDE DEF c
<1>3. QED
  BY <1>1, <1>2 DEF Database, Table, Cell

\* An INSERT of a row that is not there: it was not the server's either, or
\* its shadow is already kept.
LEMMA InsertExact ==
  ASSUME NEW d \in Database, NEW b \in Table, NEW k \in Row, NEW v \in Value
  PROVE  /\ Insert(d, k, v) \in Database
         /\ Exact(d, b) /\ ~ Holds(d, k) => Exact(Insert(d, k, v), b)
BY DEF Insert, Mark, Holds, Database, Table, Cell, Exact

\* A change of primary key is a delete of one row and an insert of another.
LEMMA RekeyExact ==
  ASSUME NEW d \in Database, NEW b \in Table, NEW k \in Row, NEW j \in Row,
         k # j, Holds(d, k)
  PROVE  /\ Rekey(d, k, j) \in Database
         /\ Exact(d, b) /\ ~ Holds(d, j) => Exact(Rekey(d, k, j), b)
<1> DEFINE v == d.table[k]
           e == Delete(d, k)
<1>1. v \in Value
  BY DEF Holds, Database, Table, Cell
<1>2. e \in Database /\ (Exact(d, b) => Exact(e, b))
  BY <1>1, UpdateExact
<1>3. e.table[j] = d.table[j]
  <2>1. e.table = [d.table EXCEPT ![k] = Absent]
    BY DeleteTables
  <2> HIDE DEF e
  <2>2. QED
    BY <2>1 DEF Database, Table
<1>4. Rekey(d, k, j) = Insert(e, j, v)
  BY DEF Rekey, Insert
<1> HIDE DEF v, e
<1>5. QED
  BY <1>1, <1>2, <1>3, <1>4, InsertExact DEF Holds

-----------------------------------------------------------------------------
(* Mutators. *)

\* A mutator that succeeds keeps the type of the database, and keeps the undo
\* log exact if it does not use INSERT OR REPLACE.
LEMMA EffectExact ==
  ASSUME NEW d \in Database, NEW b \in Table, NEW m \in Mutator,
         Succeeds(m, d)
  PROVE  /\ Effect(m, d) \in Database
         /\ Exact(d, b) /\ m.op # "replace" => Exact(Effect(m, d), b)
<1>1. m \in [op : Op, row : Row, to : Row, value : Value]
  BY RebaseAssumption
<1>2. CASE m.op = "inc"
  <2>1. Increment[d.table[m.row]] \in Value /\ Increment[Absent] \in Value
    BY <1>1, RebaseAssumption DEF Database, Table, Cell
  <2>2. CASE Holds(d, m.row)
    BY <1>1, <1>2, <2>1, <2>2, UpdateExact DEF Effect
  <2>3. CASE ~ Holds(d, m.row)
    BY <1>1, <1>2, <2>1, <2>3, InsertExact DEF Effect
  <2>4. QED
    BY <2>2, <2>3
<1>3. CASE m.op = "create"
  BY <1>1, <1>3, InsertExact DEF Effect, Succeeds
<1>4. CASE m.op = "move"
  <2> DEFINE e == Delete(d, m.row)
  <2>1. e \in Database /\ (Exact(d, b) => Exact(e, b))
    BY <1>1, UpdateExact
  <2>2. ~ Holds(e, m.to)
    <3>1. e.table = [d.table EXCEPT ![m.row] = Absent]
      BY <1>1, DeleteTables
    <3>2. m.to = m.row \/ ~ Holds(d, m.to)
      BY <1>4 DEF Succeeds
    <3> HIDE DEF e
    <3>3. QED
      BY <1>1, <3>1, <3>2 DEF Holds, Database, Table
  <2>3. Effect(m, d) = Insert(e, m.to, m.value)
    BY <1>4 DEF Effect
  <2> HIDE DEF e
  <2>4. QED
    BY <1>1, <2>1, <2>2, <2>3, InsertExact
<1>5. CASE m.op = "delete"
  BY <1>1, <1>5, UpdateExact DEF Effect
<1>6. CASE m.op = "rename"
  BY <1>1, <1>6, RekeyExact DEF Effect, Succeeds
<1>7. CASE m.op = "replace"
  BY <1>1, <1>7 DEF Effect, Replace, Mark, Database, Table, Cell
<1>8. QED
  BY <1>1, <1>2, <1>3, <1>4, <1>5, <1>6, <1>7 DEF Op

\* So does running one under its savepoint.
LEMMA RunExact ==
  ASSUME NEW d \in Database, NEW b \in Table, NEW m \in Mutator
  PROVE  /\ Run(m, d) \in Database
         /\ Exact(d, b) /\ m.op # "replace" => Exact(Run(m, d), b)
BY EffectExact DEF Run

-----------------------------------------------------------------------------
(* Rewinding. *)

\* An exact undo log rewinds to the server state, and a rewound database with
\* any server state under it has an exact undo log.
LEMMA RewoundExact ==
  ASSUME NEW d \in Database, NEW b \in Table
  PROVE  /\ Rewound(d) \in Database
         /\ Exact(d, b) => Rewound(d).table = b
         /\ \A t \in Table : /\ [Rewound(d) EXCEPT !.table = t] \in Database
                            /\ Exact([Rewound(d) EXCEPT !.table = t], t)
<1>1. /\ d.table \in Table /\ d.shadow \in Table
      /\ b = [k \in Row |-> b[k]]
  BY DEF Database, Table
<1>2. Empty \in Table
  BY DEF Empty, Table, Cell
<1>3. Rewound(d).table \in Table
  BY <1>1 DEF Rewound, Table, Cell
<1>4. Rewound(d) \in Database
  BY <1>2, <1>3 DEF Rewound, Database
<1>5. ASSUME Exact(d, b) PROVE Rewound(d).table = b
  <2>1. \A k \in Row : Rewound(d).table[k] = b[k]
    BY <1>5 DEF Rewound, Exact
  <2>2. QED
    BY <1>1, <1>3, <2>1 DEF Table
<1>6. ASSUME NEW t \in Table
      PROVE  /\ [Rewound(d) EXCEPT !.table = t] \in Database
             /\ Exact([Rewound(d) EXCEPT !.table = t], t)
  BY <1>2, <1>6 DEF Rewound, Database, Exact, Empty
<1>7. QED
  BY <1>4, <1>5, <1>6

\* The rows of a page, on a table, make a table.
LEMMA ChangedType ==
  ASSUME NEW t \in Table, NEW K \in SUBSET Row, NEW changes \in [K -> Cell]
  PROVE  Changed(t, changes) \in Table
BY DEF Changed, Table

-----------------------------------------------------------------------------
(* The engine. *)

\* The queue an operation leaves, and sets out to replay, is well typed.
LEMMA QueueType ==
  ASSUME TypeOK
  PROVE  /\ \A n \in 0 .. Len(pending) :
              SubSeq(pending, n + 1, Len(pending)) \in Seq(Mutator)
         /\ \A n \in 0 .. Len(pending) : \A at \in [1 .. n -> 1 .. Len(pending)] :
              [i \in 1 .. n |-> pending[at[i]]] \in Seq(Mutator)
<1>1. pending \in Seq(Mutator) /\ Len(pending) \in Nat
  BY DEF TypeOK
<1>2. ASSUME NEW n \in 0 .. Len(pending)
      PROVE  SubSeq(pending, n + 1, Len(pending)) \in Seq(Mutator)
  BY <1>1
<1>3. ASSUME NEW n \in 0 .. Len(pending), NEW at \in [1 .. n -> 1 .. Len(pending)]
      PROVE  [i \in 1 .. n |-> pending[at[i]]] \in Seq(Mutator)
  <2>1. [i \in 1 .. n |-> pending[at[i]]] \in [1 .. n -> Mutator]
    BY <1>1
  <2>2. n \in Nat
    BY <1>1
  <2>3. QED
    BY <2>1, <2>2, SeqDef
<1>4. QED
  BY <1>2, <1>3

\* The initial database is well typed and its undo log exact.
LEMMA InitUndo == Init => TypeOK /\ UndoInv
<1> SUFFICES ASSUME Init PROVE TypeOK /\ UndoInv
  OBVIOUS
<1>1. Empty \in Table
  BY DEF Empty, Table, Cell
<1>2. db \in Database /\ base \in Table
  BY <1>1 DEF Init, Database
<1>3. UndoInv
  BY DEF Init, UndoInv, TouchedOnce, ShadowsAreDirty, Empty
<1>4. <<>> \in Seq(Mutator)
  OBVIOUS
<1>5. QED
  BY <1>2, <1>3, <1>4 DEF Init, TypeOK

\* Every step keeps the types, and the undo log exact.
LEMMA NextUndo ==
  ASSUME TypeOK, Next
  PROVE  TypeOK' /\ (NoReplace /\ UndoInv => UndoInv')
<1>1. UndoInv <=> Exact(db, base)
  BY DEF UndoInv, TouchedOnce, ShadowsAreDirty, Exact
<1>2. UndoInv' <=> Exact(db', base')
  BY DEF UndoInv, TouchedOnce, ShadowsAreDirty, Exact
<1>3. db \in Database /\ base \in Table
  BY DEF TypeOK
<1>4. ASSUME NEW m \in Mutator, Mutate(m)
      PROVE  TypeOK' /\ (NoReplace /\ UndoInv => UndoInv')
  <2>1. db' = Effect(m, db) /\ base' = base /\ Succeeds(m, db)
    BY <1>4 DEF Mutate
  <2>2. db' \in Database /\ (m.op # "replace" /\ UndoInv => UndoInv')
    BY <1>1, <1>2, <1>3, <2>1, EffectExact
  <2>3. pending' \in Seq(Mutator)
    BY <1>4 DEF Mutate, TypeOK
  <2>4. QED
    BY <1>4, <2>1, <2>2, <2>3 DEF Mutate, TypeOK, NoReplace
<1>5. ASSUME NEW K \in SUBSET Row, NEW changes \in [K -> Cell],
             NEW n \in 0 .. Len(pending), ApplyPull(changes, n)
      PROVE  TypeOK' /\ (NoReplace /\ UndoInv => UndoInv')
  <2> DEFINE Under(t) == Changed(IF resync THEN Empty ELSE t, changes)
             rest == SubSeq(pending, n + 1, Len(pending))
  <2>1. \A t \in Table : Under(t) \in Table
    <3>1. Empty \in Table
      BY DEF Empty, Table, Cell
    <3>2. QED
      BY <3>1, ChangedType
  <2>2. Rewound(db).table \in Table
    BY <1>3, RewoundExact DEF Database
  <2>3. /\ db' = [Rewound(db) EXCEPT !.table = Under(Rewound(db).table)]
        /\ base' = Under(base)
        /\ pending' = rest /\ todo' = rest /\ resync' = FALSE
    BY <1>5 DEF ApplyPull, Rebase
  <2> HIDE DEF Under
  <2>4. db' \in Database /\ Exact(db', Under(Rewound(db).table))
    BY <1>3, <2>1, <2>2, <2>3, RewoundExact
  <2>5. UndoInv => UndoInv'
    BY <1>1, <1>2, <1>3, <2>3, <2>4, RewoundExact
  <2>6. rest \in Seq(Mutator)
    BY QueueType
  <2>7. QED
    BY <1>3, <2>1, <2>3, <2>4, <2>5, <2>6 DEF TypeOK
<1>6. ASSUME NEW rest \in Seq(Mutator), Rebase(rest, Rewound(db).table),
             base' = base, resync' \in BOOLEAN
      PROVE  TypeOK' /\ (NoReplace /\ UndoInv => UndoInv')
  <2>1. Rewound(db).table \in Table
    BY <1>3, RewoundExact DEF Database
  <2>2. db' \in Database /\ Exact(db', Rewound(db).table)
    BY <1>3, <1>6, <2>1, RewoundExact DEF Rebase
  <2>3. UndoInv => UndoInv'
    BY <1>1, <1>2, <1>3, <1>6, <2>2, RewoundExact
  <2>4. QED
    BY <1>3, <1>6, <2>2, <2>3 DEF Rebase, TypeOK
<1>7. ASSUME NEW n \in 0 .. Len(pending), NEW at \in [1 .. n -> 1 .. Len(pending)],
             ApplyRejections(n, at)
      PROVE  TypeOK' /\ (NoReplace /\ UndoInv => UndoInv')
  BY <1>6, <1>7, QueueType DEF ApplyRejections, TypeOK
<1>8. ASSUME NEW n \in 0 .. Len(pending), ResetRegistration(n)
      PROVE  TypeOK' /\ (NoReplace /\ UndoInv => UndoInv')
  BY <1>6, <1>8, QueueType DEF ResetRegistration
<1>9. CASE ExpireCursor
  BY <1>1, <1>2, <1>9 DEF ExpireCursor, TypeOK
<1>10. CASE ReplayOne
  <2>1. Head(todo) \in Mutator /\ Tail(todo) \in Seq(Mutator)
    BY <1>10 DEF ReplayOne, TypeOK
  <2>2. db' = Run(Head(todo), db) /\ base' = base
    BY <1>10 DEF ReplayOne
  <2>3. /\ db' \in Database
        /\ Head(todo).op # "replace" /\ UndoInv => UndoInv'
    BY <1>1, <1>2, <1>3, <2>1, <2>2, RunExact
  <2>4. QED
    BY <1>10, <2>1, <2>2, <2>3 DEF ReplayOne, TypeOK, NoReplace
<1>11. QED
  BY <1>4, <1>5, <1>7, <1>8, <1>9, <1>10 DEF Next

\* Every reachable state is well typed.
THEOREM TypeCorrect == Spec => []TypeOK
<1>1. TypeOK /\ UNCHANGED vars => TypeOK'
  BY DEF TypeOK, vars
<1>2. TypeOK /\ [Next]_vars => TypeOK'
  BY <1>1, NextUndo
<1>3. QED
  BY <1>2, InitUndo, PTL DEF Spec

\* The undo log is exact in every reachable state: a row no mutator touched is
\* the server's, and a touched one has the server's row in its shadow, as long
\* as no mutator uses INSERT OR REPLACE (client/ddl.rs, the capture triggers).
THEOREM UndoLogKept == NoReplace => (Spec => []UndoInv)
<1> SUFFICES ASSUME NoReplace PROVE Spec => []UndoInv
  OBVIOUS
<1>1. TypeOK /\ UndoInv /\ UNCHANGED vars => UndoInv'
  BY DEF UndoInv, TouchedOnce, ShadowsAreDirty, vars
<1>2. TypeOK /\ UndoInv /\ [Next]_vars => UndoInv'
  BY <1>1, NextUndo
<1>3. QED
  BY <1>2, InitUndo, TypeCorrect, PTL DEF Spec

\* Whatever mutators did, failed to do or did again, rewinding gives back
\* exactly the server state, in every reachable state, as long as no mutator
\* uses INSERT OR REPLACE (client/ddl.rs).
THEOREM UndoIsExact == NoReplace => (Spec => []UndoLogExact)
<1> SUFFICES ASSUME NoReplace PROVE Spec => []UndoLogExact
  OBVIOUS
<1>1. TypeOK /\ UndoInv => UndoLogExact
  <2> SUFFICES ASSUME TypeOK, UndoInv PROVE UndoLogExact
    OBVIOUS
  <2>1. Exact(db, base)
    BY DEF UndoInv, TouchedOnce, ShadowsAreDirty, Exact
  <2>2. QED
    BY <2>1, RewoundExact DEF TypeOK, UndoLogExact
<1>2. QED
  BY <1>1, TypeCorrect, UndoLogKept, PTL

-----------------------------------------------------------------------------
(* The view. The replays of the first n mutations of ms on b are what the   *)
(* recursion of View asks for; that there is one, and that all of them end  *)
(* alike, is carried from each mutation to the next by the steps of the     *)
(* engine.                                                                  *)

IsReplay(t, b, ms, n) ==
  t = [i \in 0 .. n |-> IF i = 0 THEN b ELSE Plainly(t[i - 1], ms[i])]

EndsIn(v, b, ms, n) ==
  /\ \E t : IsReplay(t, b, ms, n)
  /\ \A t : IsReplay(t, b, ms, n) => t[n] = v

\* With no mutation run, the view is the server state.
LEMMA ReplayOfNone ==
  ASSUME NEW b, NEW ms
  PROVE  EndsIn(b, b, ms, 0)
<1>1. IsReplay([i \in 0 .. 0 |-> b], b, ms, 0)
  BY DEF IsReplay
<1>2. ASSUME NEW t, IsReplay(t, b, ms, 0) PROVE t[0] = b
  BY <1>2 DEF IsReplay
<1>3. QED
  BY <1>1, <1>2 DEF EndsIn

\* One more mutation runs on what the ones before it left.
LEMMA ReplayOfNext ==
  ASSUME NEW b, NEW ms, NEW qs, NEW v, NEW n \in Nat,
         \A i \in 1 .. n : qs[i] = ms[i],
         EndsIn(v, b, ms, n)
  PROVE  EndsIn(Plainly(v, qs[n + 1]), b, qs, n + 1)
<1>1. PICK t : IsReplay(t, b, ms, n)
  BY DEF EndsIn
<1> DEFINE u == [i \in 0 .. n + 1 |->
                   IF i = n + 1 THEN Plainly(t[n], qs[n + 1]) ELSE t[i]]
           step(f) == [i \in 0 .. n + 1 |->
                         IF i = 0 THEN b ELSE Plainly(f[i - 1], qs[i])]
<1>2. IsReplay(u, b, qs, n + 1)
  <2>1. ASSUME NEW i \in 0 .. n + 1 PROVE u[i] = step(u)[i]
    <3>1. CASE i = n + 1
      BY <3>1
    <3>2. CASE i = 0
      BY <1>1, <3>2 DEF IsReplay
    <3>3. CASE i \in 1 .. n
      <4>1. t[i] = Plainly(t[i - 1], ms[i])
        BY <1>1, <3>3 DEF IsReplay
      <4>2. u[i] = t[i] /\ u[i - 1] = t[i - 1] /\ qs[i] = ms[i]
        BY <3>3
      <4>3. step(u)[i] = Plainly(u[i - 1], qs[i])
        BY <3>3
      <4> HIDE DEF u, step
      <4>4. QED
        BY <4>1, <4>2, <4>3
    <3>4. QED
      BY <3>1, <3>2, <3>3
  <2>2. u = step(u)
    <3>1. u = [i \in 0 .. n + 1 |-> u[i]]
      OBVIOUS
    <3>2. step(u) = [i \in 0 .. n + 1 |-> step(u)[i]]
      OBVIOUS
    <3> HIDE DEF u, step
    <3>3. QED
      BY <2>1, <3>1, <3>2
  <2>3. QED
    BY <2>2 DEF IsReplay
<1>3. ASSUME NEW f, IsReplay(f, b, qs, n + 1)
      PROVE  f[n + 1] = Plainly(v, qs[n + 1])
  <2> DEFINE g == [i \in 0 .. n |-> f[i]]
  <2>1. f[n + 1] = Plainly(f[n], qs[n + 1])
    BY <1>3 DEF IsReplay
  <2>2. IsReplay(g, b, ms, n)
    <3> DEFINE back(h) == [i \in 0 .. n |->
                             IF i = 0 THEN b ELSE Plainly(h[i - 1], ms[i])]
    <3>1. ASSUME NEW i \in 0 .. n PROVE g[i] = back(g)[i]
      <4>1. CASE i = 0
        BY <1>3, <4>1 DEF IsReplay
      <4>2. CASE i \in 1 .. n
        <5>1. f[i] = Plainly(f[i - 1], qs[i])
          <6>1. i \in 0 .. n + 1 /\ i # 0
            BY <4>2
          <6> HIDE DEF g, back
          <6>2. QED
            BY <1>3, <6>1 DEF IsReplay
        <5>2. g[i] = f[i] /\ g[i - 1] = f[i - 1] /\ qs[i] = ms[i]
          BY <4>2
        <5>3. back(g)[i] = Plainly(g[i - 1], ms[i])
          BY <4>2
        <5> HIDE DEF g, back
        <5>4. QED
          BY <5>1, <5>2, <5>3
      <4>3. QED
        BY <4>1, <4>2
    <3>2. back(g) = [i \in 0 .. n |-> back(g)[i]]
      OBVIOUS
    <3>3. g = [i \in 0 .. n |-> g[i]]
      OBVIOUS
    <3>4. g = back(g)
      <4> HIDE DEF g, back
      <4>1. QED
        BY <3>1, <3>2, <3>3
    <3>5. QED
      BY <3>4 DEF IsReplay
  <2>3. g[n] = v
    <3> HIDE DEF g
    <3>1. QED
      BY <2>2 DEF EndsIn
  <2>4. g[n] = f[n]
    OBVIOUS
  <2>5. QED
    BY <2>1, <2>3, <2>4
<1>4. QED
  BY <1>2, <1>3 DEF EndsIn

\* The view is what the replays of the queue end in.
LEMMA ViewIsReplay ==
  ASSUME NEW n \in Nat, NEW v, EndsIn(v, base, pending, n)
  PROVE  View(n) = v
<1> DEFINE after == CHOOSE t : IsReplay(t, base, pending, n)
<1>1. IsReplay(after, base, pending, n)
  BY DEF EndsIn
<1>2. View(n) = after[n]
  BY DEF View, IsReplay
<1>3. QED
  BY <1>1, <1>2 DEF EndsIn

-----------------------------------------------------------------------------
(* What a mutator does to the table depends on the table alone, and it      *)
(* marks only the rows it names.                                            *)

\* What each statement does to the table, and the mark it leaves.
LEMMA WriteTables ==
  ASSUME NEW d \in Database, NEW k \in Row, NEW v \in Cell
  PROVE  /\ Update(d, k, v).table = [d.table EXCEPT ![k] = v]
         /\ Insert(d, k, v).table = [d.table EXCEPT ![k] = v]
         /\ Replace(d, k, v).table = [d.table EXCEPT ![k] = v]
         /\ Update(d, k, v).dirty = d.dirty \cup {k}
         /\ Insert(d, k, v).dirty = d.dirty \cup {k}
         /\ Replace(d, k, v).dirty = d.dirty \cup {k}
<1> DEFINE c == Capture(d, k)
<1>1. c \in Database /\ c.table = d.table /\ c.dirty = d.dirty \cup {k}
  BY DEF Capture, Database, Table, Cell
<1>2. Update(d, k, v) = [c EXCEPT !.table[k] = v]
  BY DEF Update
<1> HIDE DEF c
<1>3. /\ Update(d, k, v).table = [d.table EXCEPT ![k] = v]
      /\ Update(d, k, v).dirty = d.dirty \cup {k}
  BY <1>1, <1>2 DEF Database
<1>4. QED
  BY <1>3 DEF Insert, Replace, Mark, Database

LEMMA RekeyTables ==
  ASSUME NEW d \in Database, NEW k \in Row, NEW j \in Row
  PROVE  /\ Rekey(d, k, j).table =
              [[d.table EXCEPT ![k] = Absent] EXCEPT ![j] = d.table[k]]
         /\ Rekey(d, k, j).dirty = d.dirty \cup {k, j}
<1> DEFINE e == Delete(d, k)
<1>1. Rekey(d, k, j) = Mark([e EXCEPT !.table[j] = d.table[k]], j)
  BY DEF Rekey
<1>2. /\ e \in Database
      /\ e.table = [d.table EXCEPT ![k] = Absent]
      /\ e.dirty = d.dirty \cup {k}
  BY DeleteTables
<1> HIDE DEF e
<1>3. QED
  BY <1>1, <1>2 DEF Mark, Database

\* What a mutator leaves of a table.
Written(m, t) ==
  CASE m.op = "inc" /\ t[m.row] # Absent ->
         [t EXCEPT ![m.row] = Increment[t[m.row]]]
    [] m.op = "inc" /\ t[m.row] = Absent ->
         [t EXCEPT ![m.row] = Increment[Absent]]
    [] m.op = "create" -> [t EXCEPT ![m.row] = m.value]
    [] m.op = "move" ->
         [[t EXCEPT ![m.row] = Absent] EXCEPT ![m.to] = m.value]
    [] m.op = "delete" /\ t[m.row] # Absent -> [t EXCEPT ![m.row] = Absent]
    [] m.op = "rename" /\ t[m.row] # Absent ->
         [[t EXCEPT ![m.row] = Absent] EXCEPT ![m.to] = t[m.row]]
    [] m.op = "replace" -> [t EXCEPT ![m.row] = m.value]
    [] OTHER -> t

\* It depends on the table alone, and no row is marked but those it names.
LEMMA EffectTables ==
  ASSUME NEW d \in Database, NEW m \in Mutator
  PROVE  /\ Effect(m, d).table = Written(m, d.table)
         /\ Effect(m, d).dirty \subseteq d.dirty \cup {m.row, m.to}
<1> DEFINE t == d.table
<1>1. /\ m \in [op : Op, row : Row, to : Row, value : Value]
      /\ m.row \in Row /\ m.to \in Row /\ m.value \in Cell /\ m.op \in Op
  BY RebaseAssumption DEF Cell
<1>2. /\ Increment[t[m.row]] \in Cell /\ Increment[Absent] \in Cell
      /\ Holds(d, m.row) <=> t[m.row] # Absent
  BY <1>1, RebaseAssumption DEF Database, Table, Cell, Holds
<1> HIDE DEF t
<1>3. CASE m.op = "inc" /\ Holds(d, m.row)
  <2>1. Effect(m, d) = Update(d, m.row, Increment[t[m.row]])
    BY <1>3 DEF Effect, t
  <2>2. Written(m, t) = [t EXCEPT ![m.row] = Increment[t[m.row]]]
    BY <1>2, <1>3 DEF Written
  <2>3. QED
    BY <1>1, <1>2, <2>1, <2>2, WriteTables DEF t
<1>4. CASE m.op = "inc" /\ ~ Holds(d, m.row)
  <2>1. Effect(m, d) = Insert(d, m.row, Increment[Absent])
    BY <1>4 DEF Effect
  <2>2. Written(m, t) = [t EXCEPT ![m.row] = Increment[Absent]]
    BY <1>2, <1>4 DEF Written
  <2>3. QED
    BY <1>1, <1>2, <2>1, <2>2, WriteTables DEF t
<1>5. CASE m.op = "create"
  <2>1. Effect(m, d) = Insert(d, m.row, m.value)
    BY <1>5 DEF Effect
  <2>2. Written(m, t) = [t EXCEPT ![m.row] = m.value]
    BY <1>5 DEF Written
  <2>3. QED
    BY <1>1, <2>1, <2>2, WriteTables DEF t
<1>6. CASE m.op = "move"
  <2> DEFINE e == Delete(d, m.row)
  <2>1. Effect(m, d) = Insert(e, m.to, m.value)
    BY <1>6 DEF Effect
  <2>2. Written(m, t) =
          [[t EXCEPT ![m.row] = Absent] EXCEPT ![m.to] = m.value]
    BY <1>6 DEF Written
  <2>3. /\ e \in Database
        /\ e.table = [t EXCEPT ![m.row] = Absent]
        /\ e.dirty = d.dirty \cup {m.row}
    BY <1>1, DeleteTables DEF t
  <2> HIDE DEF e
  <2>4. /\ Insert(e, m.to, m.value).table = [e.table EXCEPT ![m.to] = m.value]
        /\ Insert(e, m.to, m.value).dirty = e.dirty \cup {m.to}
    <3>1. e \in Database /\ m.to \in Row /\ m.value \in Cell
      BY <1>1, <2>3
    <3>2. Insert(e, m.to, m.value).table = [e.table EXCEPT ![m.to] = m.value]
      BY <3>1, WriteTables
    <3>3. Insert(e, m.to, m.value).dirty = e.dirty \cup {m.to}
      BY <3>1 DEF Insert, Mark, Database
    <3>4. QED
      BY <3>2, <3>3
  <2>5. QED
    BY <2>1, <2>2, <2>3, <2>4 DEF t
<1>7. CASE m.op = "delete" /\ Holds(d, m.row)
  <2>1. Effect(m, d) = Delete(d, m.row)
    BY <1>7 DEF Effect
  <2>2. Written(m, t) = [t EXCEPT ![m.row] = Absent]
    BY <1>2, <1>7 DEF Written
  <2>3. QED
    BY <1>1, <2>1, <2>2, DeleteTables DEF t
<1>8. CASE m.op = "rename" /\ Holds(d, m.row)
  <2>1. Effect(m, d) = Rekey(d, m.row, m.to)
    BY <1>8 DEF Effect
  <2>2. Written(m, t) =
          [[t EXCEPT ![m.row] = Absent] EXCEPT ![m.to] = t[m.row]]
    BY <1>2, <1>8 DEF Written
  <2>3. QED
    BY <1>1, <2>1, <2>2, RekeyTables DEF t
<1>9. CASE m.op \in {"delete", "rename"} /\ ~ Holds(d, m.row)
  <2>1. Effect(m, d) = d
    BY <1>9 DEF Effect
  <2>2. Written(m, t) = t
    BY <1>2, <1>9 DEF Written
  <2>3. QED
    BY <2>1, <2>2 DEF t
<1>10. CASE m.op = "replace"
  <2>1. Effect(m, d) = Replace(d, m.row, m.value)
    BY <1>10 DEF Effect
  <2>2. Written(m, t) = [t EXCEPT ![m.row] = m.value]
    BY <1>10 DEF Written
  <2>3. QED
    BY <1>1, <2>1, <2>2, WriteTables DEF t
<1>11. QED
  BY <1>1, <1>3, <1>4, <1>5, <1>6, <1>7, <1>8, <1>9, <1>10 DEF Op

\* Two databases with one table: a mutator succeeds on both or on neither, and
\* leaves one table.
LEMMA TableDecides ==
  ASSUME NEW d \in Database, NEW e \in Database, NEW m \in Mutator,
         d.table = e.table
  PROVE  Run(m, d).table = Run(m, e).table
<1>1. Succeeds(m, d) <=> Succeeds(m, e)
  BY DEF Succeeds, Holds
<1>2. Effect(m, d).table = Effect(m, e).table
  BY EffectTables
<1>3. QED
  BY <1>1, <1>2 DEF Run

\* The engine's run of a mutator shows what the reference's shows.
LEMMA RunsPlainly ==
  ASSUME NEW d \in Database, NEW m \in Mutator
  PROVE  Run(m, d).table = Plainly(d.table, m)
<1> DEFINE e == [table |-> d.table, shadow |-> Empty, dirty |-> {}]
<1>1. e \in Database /\ e.table = d.table
  BY DEF Database, Table, Cell, Empty
<1>2. Plainly(d.table, m) = Run(m, e).table
  BY DEF Plainly
<1> HIDE DEF e
<1>3. QED
  BY <1>1, <1>2, TableDecides

\* A mutator marks no row but those it names.
LEMMA RunMarks ==
  ASSUME NEW d \in Database, NEW m \in Mutator
  PROVE  Run(m, d).dirty \subseteq d.dirty \cup {m.row, m.to}
BY EffectTables DEF Run

-----------------------------------------------------------------------------
(* The queue against the table: the view and the marks, step by step.       *)

Shown == EndsIn(db.table, base, pending, Len(pending) - Len(todo))

\* After a rewind nothing is marked, everything queued is to be replayed, and
\* the table is the server state under it.
LEMMA RebaseView ==
  ASSUME TypeOK, NEW rest \in Seq(Mutator), NEW t \in Table, Rebase(rest, t)
  PROVE  /\ ReplayIsSuffix' /\ MarkedByReplayed'
         /\ base' = t => Shown'
<1>1. pending' = rest /\ todo' = rest /\ Len(rest) \in Nat
  BY DEF Rebase
<1>2. db'.dirty = {} /\ db'.table = t
  <2>1. Rewound(db) \in Database /\ Rewound(db).dirty = {}
    <3>1. base \in Table
      BY DEF TypeOK
    <3>2. Rewound(db) \in Database
      BY <3>1, RewoundExact DEF TypeOK
    <3>3. QED
      BY <3>2 DEF Rewound
  <2>2. db' = [Rewound(db) EXCEPT !.table = t]
    BY DEF Rebase
  <2>3. QED
    BY <2>1, <2>2 DEF Database
<1>3. ReplayIsSuffix' /\ MarkedByReplayed'
  <2>1. Len(pending') - Len(todo') = 0
    BY <1>1
  <2>2. MarkedByReplayed'
    BY <1>2 DEF MarkedByReplayed
  <2>3. \A i \in DOMAIN todo' : todo'[i] = pending'[0 + i]
    BY <1>1
  <2>4. QED
    BY <1>1, <2>1, <2>2, <2>3 DEF ReplayIsSuffix
<1>4. ASSUME base' = t PROVE Shown'
  <2>1. Len(pending') - Len(todo') = 0
    BY <1>1
  <2>2. EndsIn(t, t, pending', 0)
    BY ReplayOfNone
  <2>3. QED
    BY <1>2, <1>4, <2>1, <2>2 DEF Shown
<1>5. QED
  BY <1>3, <1>4

\* A mutation that has just run is the next of the queue.
LEMMA RunView ==
  ASSUME TypeOK, ReplayIsSuffix, MarkedByReplayed,
         NEW m \in Mutator, NEW n \in Nat,
         n = Len(pending) - Len(todo),
         Len(pending') - Len(todo') = n + 1,
         n + 1 \in DOMAIN pending', pending'[n + 1] = m,
         \A i \in 1 .. n : i \in DOMAIN pending' /\ pending'[i] = pending[i],
         db' = Run(m, db), base' = base
  PROVE  /\ MarkedByReplayed'
         /\ Shown => Shown'
<1>1. db \in Database
  BY DEF TypeOK
<1>2. MarkedByReplayed'
  <2>1. Replayed' = 1 .. n + 1 /\ Replayed = 1 .. n
    BY DEF Replayed
  <2>2. ASSUME NEW k \in db'.dirty
        PROVE  \E i \in 1 .. n + 1 : k \in {pending'[i].row, pending'[i].to}
    <3>1. k \in db.dirty \/ k \in {m.row, m.to}
      BY <1>1, <2>2, RunMarks
    <3>2. CASE k \in db.dirty
      <4>1. PICK i \in 1 .. n : k \in {pending[i].row, pending[i].to}
        BY <2>1, <3>2 DEF MarkedByReplayed
      <4>2. i \in 1 .. n + 1 /\ pending'[i] = pending[i]
        BY <4>1
      <4>3. QED
        BY <4>1, <4>2
    <3>3. CASE k \in {m.row, m.to}
      <4>1. n + 1 \in 1 .. n + 1
        OBVIOUS
      <4>2. QED
        BY <3>3, <4>1
    <3>4. QED
      BY <3>1, <3>2, <3>3
  <2>3. QED
    BY <2>1, <2>2 DEF MarkedByReplayed
<1>3. ASSUME Shown PROVE Shown'
  <2>1. EndsIn(db.table, base, pending, n)
    BY <1>3 DEF Shown
  <2>2. EndsIn(Plainly(db.table, pending'[n + 1]), base, pending', n + 1)
    BY <2>1, ReplayOfNext
  <2>3. db'.table = Plainly(db.table, m)
    BY <1>1, RunsPlainly
  <2>4. QED
    BY <2>2, <2>3 DEF Shown
<1>4. QED
  BY <1>2, <1>3

\* Every step keeps the rest of the replay the end of the queue, the marks
\* those of what has run, and the view, as long as rewinding is exact.
LEMMA NextView ==
  ASSUME TypeOK, ReplayIsSuffix, MarkedByReplayed, Next
  PROVE  /\ ReplayIsSuffix' /\ MarkedByReplayed'
         /\ UndoLogExact /\ Shown => Shown'
<1> DEFINE Goal == /\ ReplayIsSuffix' /\ MarkedByReplayed'
                   /\ UndoLogExact /\ Shown => Shown'
<1>1. /\ pending \in Seq(Mutator) /\ todo \in Seq(Mutator)
      /\ Len(pending) \in Nat /\ Len(todo) \in Nat
      /\ db \in Database /\ base \in Table
  BY DEF TypeOK
<1>2. Rewound(db).table \in Table
  BY <1>1, RewoundExact DEF Database
<1>3. ASSUME NEW m \in Mutator, Mutate(m) PROVE Goal
  <2> DEFINE n == Len(pending)
  <2>1. /\ todo = <<>> /\ todo' = <<>> /\ base' = base
        /\ pending' = Append(pending, m)
    BY <1>3 DEF Mutate
  <2>2. /\ Len(pending') = n + 1 /\ pending'[n + 1] = m
        /\ n + 1 \in DOMAIN pending'
        /\ \A i \in 1 .. n : i \in DOMAIN pending' /\ pending'[i] = pending[i]
    BY <1>1, <2>1
  <2>3. Len(todo) = 0 /\ Len(todo') = 0 /\ DOMAIN todo' = {}
    BY <2>1
  <2>4. db' = Run(m, db)
    BY <1>3 DEF Mutate, Run
  <2>5. n \in Nat /\ n = Len(pending) - Len(todo)
        /\ Len(pending') - Len(todo') = n + 1
    BY <1>1, <2>2, <2>3
  <2> HIDE DEF n
  <2>6. MarkedByReplayed' /\ (Shown => Shown')
    BY <2>1, <2>2, <2>4, <2>5, RunView
  <2>7. ReplayIsSuffix'
    BY <2>2, <2>3, <2>5 DEF ReplayIsSuffix
  <2>8. QED
    BY <2>6, <2>7
<1>4. ASSUME NEW K \in SUBSET Row, NEW changes \in [K -> Cell],
             NEW n \in 0 .. Len(pending), ApplyPull(changes, n)
      PROVE  Goal
  <2> DEFINE Under(t) == Changed(IF resync THEN Empty ELSE t, changes)
             rest == SubSeq(pending, n + 1, Len(pending))
             t == Under(Rewound(db).table)
  <2>1. t \in Table
    <3>1. Empty \in Table
      BY DEF Empty, Table, Cell
    <3>2. QED
      BY <1>2, <3>1, ChangedType
  <2>2. Rebase(rest, t) /\ base' = Under(base)
    BY <1>4 DEF ApplyPull
  <2>3. UndoLogExact => base' = t
    BY <2>2 DEF UndoLogExact
  <2>4. rest \in Seq(Mutator)
    BY QueueType
  <2> HIDE DEF Under, rest, t
  <2>5. QED
    BY <2>1, <2>2, <2>3, <2>4, RebaseView
<1>5. ASSUME NEW rest \in Seq(Mutator), Rebase(rest, Rewound(db).table),
             base' = base
      PROVE  Goal
  <2>1. UndoLogExact => base' = Rewound(db).table
    BY <1>5 DEF UndoLogExact
  <2>2. QED
    BY <1>2, <1>5, <2>1, RebaseView
<1>6. ASSUME NEW n \in 0 .. Len(pending), NEW at \in [1 .. n -> 1 .. Len(pending)],
             ApplyRejections(n, at)
      PROVE  Goal
  BY <1>5, <1>6, QueueType DEF ApplyRejections
<1>7. ASSUME NEW n \in 0 .. Len(pending), ResetRegistration(n)
      PROVE  Goal
  BY <1>5, <1>7, QueueType DEF ResetRegistration
<1>8. CASE ExpireCursor
  BY <1>8 DEF ExpireCursor, ReplayIsSuffix, MarkedByReplayed, Replayed, Shown
<1>9. CASE ReplayOne
  <2> DEFINE n == Len(pending) - Len(todo)
             m == Head(todo)
  <2>1. /\ todo # <<>> /\ todo' = Tail(todo) /\ db' = Run(m, db)
        /\ base' = base /\ pending' = pending
    BY <1>9 DEF ReplayOne
  <2>2. /\ m \in Mutator /\ m = todo[1] /\ Len(todo) > 0
        /\ Len(todo') = Len(todo) - 1
        /\ \A i \in 1 .. Len(todo') : todo'[i] = todo[i + 1]
        /\ DOMAIN todo' = 1 .. Len(todo')
    BY <1>1, <2>1
  <2>3. /\ n \in Nat /\ n + 1 \in 1 .. Len(pending)
        /\ Len(pending') - Len(todo') = n + 1
    BY <1>1, <2>1, <2>2 DEF ReplayIsSuffix
  <2>4. DOMAIN todo = 1 .. Len(todo) /\ DOMAIN pending = 1 .. Len(pending)
    BY <1>1
  <2>5. pending[n + 1] = m
    BY <1>1, <2>2, <2>4 DEF ReplayIsSuffix
  <2>6. \A i \in 1 .. n : i \in DOMAIN pending' /\ pending'[i] = pending[i]
    BY <1>1, <2>1, <2>3, <2>4
  <2>7. ReplayIsSuffix'
    <3>1. Len(todo') <= Len(pending')
      BY <1>1, <2>1, <2>2 DEF ReplayIsSuffix
    <3>2. ASSUME NEW i \in DOMAIN todo'
          PROVE  todo'[i] = pending'[n + 1 + i]
      <4>1. i + 1 \in DOMAIN todo /\ i \in Nat
        BY <1>1, <2>2, <2>4
      <4>2. todo[i + 1] = pending[n + (i + 1)]
        BY <4>1 DEF ReplayIsSuffix
      <4>3. n + (i + 1) = n + 1 + i
        BY <2>3, <4>1
      <4>4. todo'[i] = todo[i + 1]
        BY <2>2
      <4> HIDE DEF n, m
      <4>5. QED
        BY <2>1, <4>2, <4>3, <4>4
    <3>3. QED
      BY <2>3, <3>1, <3>2 DEF ReplayIsSuffix
  <2>8. MarkedByReplayed' /\ (Shown => Shown')
    <3>1. n = Len(pending) - Len(todo)
      OBVIOUS
    <3>2. n + 1 \in DOMAIN pending' /\ pending'[n + 1] = m
      BY <2>1, <2>3, <2>4, <2>5
    <3> HIDE DEF n, m
    <3>3. QED
      BY <2>1, <2>2, <2>3, <2>6, <3>1, <3>2, RunView
  <2>9. QED
    BY <2>7, <2>8
<1>10. QED
  BY <1>3, <1>4, <1>6, <1>7, <1>8, <1>9 DEF Next

\* At first the queue is empty and the table the server's.
LEMMA InitView == Init => ReplayIsSuffix /\ MarkedByReplayed /\ Shown
<1> SUFFICES ASSUME Init PROVE ReplayIsSuffix /\ MarkedByReplayed /\ Shown
  OBVIOUS
<1>1. /\ pending = <<>> /\ todo = <<>> /\ db.dirty = {} /\ db.table = base
  BY DEF Init
<1>2. Len(pending) - Len(todo) = 0 /\ Len(todo) = 0 /\ DOMAIN todo = {}
  BY <1>1
<1>3. ReplayIsSuffix /\ MarkedByReplayed
  BY <1>1, <1>2 DEF ReplayIsSuffix, MarkedByReplayed
<1>4. EndsIn(base, base, pending, 0)
  BY ReplayOfNone
<1>5. QED
  BY <1>1, <1>2, <1>3, <1>4 DEF Shown

\* The invariant of the marks, for any mutators.
LEMMA MarksInvariant == Spec => [](ReplayIsSuffix /\ MarkedByReplayed)
<1> DEFINE Inv == ReplayIsSuffix /\ MarkedByReplayed
<1>1. Init => Inv
  BY InitView
<1>2. TypeOK /\ Inv /\ [Next]_vars => Inv'
  <2>1. Inv /\ UNCHANGED vars => Inv'
    BY DEF ReplayIsSuffix, MarkedByReplayed, Replayed, vars
  <2>2. QED
    BY <2>1, NextView
<1> HIDE DEF Inv
<1>3. Spec => []Inv
  BY <1>1, <1>2, TypeCorrect, PTL DEF Spec
<1>4. QED
  BY <1>3 DEF Inv

\* A row is shown as not synced only while a mutation that names it is queued,
\* whatever is acknowledged, rejected, pulled or surfaced
\* (client/inspect.rs).
THEOREM MarksHaveMutations == Spec => []UnsyncedIsPending
<1>1. TypeOK /\ ReplayIsSuffix /\ MarkedByReplayed => UnsyncedIsPending
  <2> SUFFICES ASSUME TypeOK, ReplayIsSuffix, MarkedByReplayed,
                      NEW k \in db.dirty
               PROVE  \E i \in DOMAIN pending :
                        k \in {pending[i].row, pending[i].to}
    BY DEF UnsyncedIsPending
  <2>1. Replayed \subseteq DOMAIN pending
    BY DEF Replayed, ReplayIsSuffix, TypeOK
  <2>2. QED
    BY <2>1 DEF MarkedByReplayed
<1>2. QED
  BY <1>1, TypeCorrect, MarksInvariant, PTL

\* Between operations the local tables are the server state as of the cursor
\* with the queue run on it, and during one, with as much of the queue as it
\* has replayed, as long as no mutator uses INSERT OR REPLACE
\* (client/rebase.rs, rebase and replay).
THEOREM LocalTablesRebased == NoReplace => (Spec => []LocalIsRebased)
<1> SUFFICES ASSUME NoReplace PROVE Spec => []LocalIsRebased
  OBVIOUS
<1>1. TypeOK /\ ReplayIsSuffix /\ MarkedByReplayed /\ UndoLogExact /\ Shown
        /\ [Next]_vars => Shown'
  <2>1. Shown /\ UNCHANGED vars => Shown'
    BY DEF Shown, vars
  <2>2. QED
    BY <2>1, NextView
<1>2. Init => Shown
  BY InitView
<1>3. TypeOK /\ ReplayIsSuffix /\ Shown => LocalIsRebased
  <2> SUFFICES ASSUME TypeOK, ReplayIsSuffix, Shown PROVE LocalIsRebased
    OBVIOUS
  <2>1. Len(pending) - Len(todo) \in Nat
    BY DEF TypeOK, ReplayIsSuffix
  <2>2. QED
    BY <2>1, ViewIsReplay DEF Shown, LocalIsRebased
<1>4. QED
  BY <1>1, <1>2, <1>3, TypeCorrect, MarksInvariant, UndoIsExact, PTL DEF Spec
=============================================================================
