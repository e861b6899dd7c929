----------------------------- MODULE SyncRebase -----------------------------
(***************************************************************************)
(* The device's database: a synced table, the undo log that SQLite         *)
(* triggers keep while a local mutator runs (client/ddl.rs), and the       *)
(* rewind and replay around every change of server state or of the queue   *)
(* (client/rebase.rs, client/flow.rs, client/recovery.rs, client/mod.rs).  *)
(*                                                                         *)
(* An operation of the engine is one SQLite transaction. The ones that end *)
(* in `replay` are a first step that rewinds and changes what is below the *)
(* queue, then one step per queued mutation; nothing else runs until       *)
(* `todo` is empty. Seqs, pushes and acks are SyncSession's subject: here  *)
(* a prefix of the queue is acknowledged and any of it may be rejected.    *)
(***************************************************************************)
EXTENDS Naturals, Sequences

CONSTANTS
  Row,        \* primary keys of the synced tables
  Value,      \* what a row can hold
  Absent,     \* no row
  Increment,  \* Increment[v]: v incremented; of Absent, a new row's value
  Mutator,    \* the mutations the app makes: a local mutator and its args
  MaxPending  \* max_pending_mutations

Op == {"inc", "create", "move", "delete", "rename", "replace"}

ASSUME RebaseAssumption ==
  /\ Absent \notin Value
  /\ Increment \in [Value \cup {Absent} -> Value]
  /\ Mutator \subseteq [op : Op, row : Row, to : Row, value : Value]
  /\ MaxPending \in Nat

VARIABLES
  db,       \* the table, and per row the shadow and the dirty mark
  base,     \* ghost: server state as of the cursor
  pending,  \* cratestack_sync_pending, in seq order
  todo,     \* the mutations `replay` has still to re-apply
  resync    \* meta RESYNC

vars == <<db, base, pending, todo, resync>>

Cell == Value \cup {Absent}

Table == [Row -> Cell]

Empty == [k \in Row |-> Absent]

Database == [table : Table, shadow : Table, dirty : SUBSET Row]

-----------------------------------------------------------------------------
(* Statements of a mutator, on database d, with the capture triggers on.    *)

\* Mutant of Mark: the row marked instead of its key.
MarkValue(d, k) == [d EXCEPT !.dirty = @ \cup {d.table[k]}]

\* The AFTER trigger's mark_new.
Mark(d, k) == [d EXCEPT !.dirty = @ \cup {k}]

\* Mutant of Capture: on every touch, not only the first.
CaptureAgain(d, k) ==
  [d EXCEPT !.shadow[k] = d.table[k], !.dirty = @ \cup {k}]

\* The BEFORE trigger's capture_old: the row as it is, on first touch only.
Capture(d, k) ==
  IF k \in d.dirty THEN d
  ELSE [d EXCEPT !.shadow[k] = d.table[k], !.dirty = @ \cup {k}]

Insert(d, k, v) == Mark([d EXCEPT !.table[k] = v], k)

Update(d, k, v) == [Capture(d, k) EXCEPT !.table[k] = v]

Delete(d, k) == [Capture(d, k) EXCEPT !.table[k] = Absent]

\* An UPDATE of the primary key, from k to the free key j.
Rekey(d, k, j) == Mark([Delete(d, k) EXCEPT !.table[j] = d.table[k]], j)

\* INSERT OR REPLACE: SQLite deletes the row in the way without firing its
\* delete triggers.
Replace(d, k, v) == Mark([d EXCEPT !.table[k] = v], k)

Holds(d, k) == d.table[k] # Absent

\* What the mutators of the app do, as sequences of statements. `move` is a
\* DELETE, then an INSERT that may find its key taken.
Effect(m, d) ==
  CASE m.op = "inc" /\ Holds(d, m.row) ->
         Update(d, m.row, Increment[d.table[m.row]])
    [] m.op = "inc" /\ ~ Holds(d, m.row) ->
         Insert(d, m.row, Increment[Absent])
    [] m.op = "create" -> Insert(d, m.row, m.value)
    [] m.op = "move" -> Insert(Delete(d, m.row), m.to, m.value)
    [] m.op = "delete" /\ Holds(d, m.row) -> Delete(d, m.row)
    [] m.op = "rename" /\ Holds(d, m.row) -> Rekey(d, m.row, m.to)
    [] m.op = "replace" -> Replace(d, m.row, m.value)
    [] OTHER -> d

\* A statement that would violate the primary key, or a delegate that finds
\* no row to update, makes the mutator fail.
Succeeds(m, d) ==
  CASE m.op = "create" -> ~ Holds(d, m.row)
    [] m.op = "move" -> Holds(d, m.row) /\ (m.to = m.row \/ ~ Holds(d, m.to))
    [] m.op = "rename" -> m.to # m.row /\ ~ Holds(d, m.to)
    [] OTHER -> TRUE

\* Under its savepoint: a mutator that fails leaves no trace.
Run(m, d) == IF Succeeds(m, d) THEN Effect(m, d) ELSE d

\* Mutant of Rewound: rows a mutator inserted are not deleted.
RewoundInserts(d) ==
  [table  |-> [k \in Row |-> IF d.shadow[k] # Absent THEN d.shadow[k]
                             ELSE d.table[k]],
   shadow |-> Empty,
   dirty  |-> {}]

\* Mutant of Rewound: the dirty marks stay.
RewoundMarked(d) ==
  [table  |-> [k \in Row |-> IF d.shadow[k] # Absent THEN d.shadow[k]
                             ELSE IF k \in d.dirty THEN Absent
                             ELSE d.table[k]],
   shadow |-> Empty,
   dirty  |-> d.dirty]

\* rewind_sql: delete every dirty row, re-insert the shadows, forget both.
Rewound(d) ==
  [table  |-> [k \in Row |-> IF d.shadow[k] # Absent THEN d.shadow[k]
                             ELSE IF k \in d.dirty THEN Absent
                             ELSE d.table[k]],
   shadow |-> Empty,
   dirty  |-> {}]

-----------------------------------------------------------------------------

\* SyncEngine::mutate.
Mutate(m) ==
  /\ todo = <<>>
  /\ Len(pending) < MaxPending
  /\ Succeeds(m, db)
  /\ db' = Effect(m, db)
  /\ pending' = Append(pending, m)
  /\ UNCHANGED <<base, todo, resync>>

\* Rewind, drop mutations so that `rest` stays queued, set out to replay it.
Rebase(rest, table) ==
  /\ db' = [Rewound(db) EXCEPT !.table = table]
  /\ pending' = rest
  /\ todo' = rest

Changed(table, changes) ==
  [k \in Row |-> IF k \in DOMAIN changes THEN changes[k] ELSE table[k]]

\* apply_pull: the page's upserts and deletes, triggers off, on the rewound
\* table, wiped first by a resync; the first n mutations are acknowledged.
ApplyPull(changes, n) ==
  LET Under(table) == Changed(IF resync THEN Empty ELSE table, changes)
  IN  /\ todo = <<>>
      /\ base' = Under(base)
      /\ Rebase(SubSeq(pending, n + 1, Len(pending)),
                Under(Rewound(db).table))
      /\ resync' = FALSE

\* apply_push with rejections: n mutations stay queued, the ith of them was
\* at `at[i]`. A rejection of one that is no longer queued drops nothing.
ApplyRejections(n, at) ==
  /\ todo = <<>>
  /\ \A i, j \in 1 .. n : i < j => at[i] < at[j]
  /\ Rebase([i \in 1 .. n |-> pending[at[i]]], Rewound(db).table)
  /\ UNCHANGED <<base, resync>>

\* reset_registration: the first n mutations are surfaced as rejected.
ResetRegistration(n) ==
  /\ todo = <<>>
  /\ Rebase(SubSeq(pending, n + 1, Len(pending)), Rewound(db).table)
  /\ resync' = TRUE
  /\ UNCHANGED base

\* recover on cursor_expired.
ExpireCursor ==
  /\ todo = <<>>
  /\ resync' = TRUE
  /\ UNCHANGED <<db, base, pending, todo>>

\* One iteration of replay. A mutator that fails now stays queued.
ReplayOne ==
  /\ todo # <<>>
  /\ db' = Run(Head(todo), db)
  /\ todo' = Tail(todo)
  /\ UNCHANGED <<base, pending, resync>>

Init ==
  /\ db = [table |-> Empty, shadow |-> Empty, dirty |-> {}]
  /\ base = Empty
  /\ pending = <<>>
  /\ todo = <<>>
  /\ resync = FALSE

Next ==
  \/ \E m \in Mutator : Mutate(m)
  \/ \E K \in SUBSET Row : \E changes \in [K -> Cell], n \in 0 .. Len(pending) :
       ApplyPull(changes, n)
  \/ \E n \in 0 .. Len(pending) : \E at \in [1 .. n -> 1 .. Len(pending)] :
       ApplyRejections(n, at)
  \/ \E n \in 0 .. Len(pending) : ResetRegistration(n)
  \/ ExpireCursor
  \/ ReplayOne

Spec == Init /\ [][Next]_vars

-----------------------------------------------------------------------------
(* Properties. *)

\* Every variable holds a value of its type.
TypeOK ==
  /\ db \in Database
  /\ base \in Table
  /\ pending \in Seq(Mutator)
  /\ todo \in Seq(Mutator)
  /\ resync \in BOOLEAN

\* Rewinding gives back exactly the server state, in every state of the
\* queue: whatever mutators did, failed to do, or did again (client/ddl.rs).
UndoLogExact == Rewound(db).table = base

\* Why: a row no mutator touched is the server's, and a touched one has the
\* server's row in its shadow.
TouchedOnce ==
  \A k \in Row :
    base[k] = IF k \in db.dirty THEN db.shadow[k] ELSE db.table[k]

ShadowsAreDirty ==
  \A k \in Row : db.shadow[k] # Absent => k \in db.dirty

UndoInv == TouchedOnce /\ ShadowsAreDirty

\* No mutator uses INSERT OR REPLACE.
NoReplace == \A m \in Mutator : m.op # "replace"
=============================================================================
