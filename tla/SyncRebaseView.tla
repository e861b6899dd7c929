--------------------------- MODULE SyncRebaseView ---------------------------
(***************************************************************************)
(* What SyncRebase is for: between operations the device shows the server  *)
(* state as of its cursor with the queue replayed on it. The reference is  *)
(* a plain table with no undo log, on which each mutation either runs or   *)
(* does nothing.                                                           *)
(***************************************************************************)
EXTENDS SyncRebase

\* Mutation m on a plain table.
Plainly(table, m) ==
  Run(m, [table |-> table, shadow |-> Empty, dirty |-> {}]).table

\* Mutations that are queued and, while an operation is under way, no longer
\* to be replayed.
Replayed == 1 .. Len(pending) - Len(todo)

\* The server state as of the cursor, with the first n mutations run on it.
View(n) ==
  LET after[i \in 0 .. n] ==
        IF i = 0 THEN base ELSE Plainly(after[i - 1], pending[i])
  IN  after[n]

\* The local tables are the server state as of the cursor plus the pending
\* mutations in seq order (client/rebase.rs), less the ones still to be
\* replayed while an operation is under way.
LocalIsRebased == db.table = View(Len(pending) - Len(todo))

\* A row is marked as not synced only while a mutation that names it is
\* queued: the mark goes when the state with its change arrives
\* (client/inspect.rs).
UnsyncedIsPending ==
  db.dirty \subseteq UNION {{pending[i].row, pending[i].to} :
                            i \in DOMAIN pending}

\* Why: what is still to be replayed is the end of the queue, and only a
\* mutation that has run since the last rewind marks a row.
ReplayIsSuffix ==
  /\ Len(todo) <= Len(pending)
  /\ \A i \in DOMAIN todo : todo[i] = pending[Len(pending) - Len(todo) + i]

MarkedByReplayed ==
  \A k \in db.dirty : \E i \in Replayed : k \in {pending[i].row, pending[i].to}
=============================================================================
