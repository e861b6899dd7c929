------------------------------- MODULE SyncLog -------------------------------
(***************************************************************************)
(* The server change log of cratestack-sync and the clients that page      *)
(* through it: the capture trigger (server/ddl.rs), the push transaction   *)
(* that writes rows and the client's ack together (server/push.rs), the    *)
(* pull with its xmin gate (server/pull.rs), the tombstone purge and its   *)
(* horizon (server/gc.rs), and what a device does with a page              *)
(* (client/flow.rs, client/recovery.rs).                                   *)
(*                                                                         *)
(* Postgres is external and modelled by what the code relies on: a         *)
(* transaction takes its 64-bit id at its first write, a written row stays *)
(* locked until the transaction ends, writes become visible at commit, and *)
(* pg_snapshot_xmin is the oldest id still in flight.                      *)
(***************************************************************************)
EXTENDS Naturals, FiniteSets

CONSTANTS
  Row,        \* primary keys of the one synced model
  Scope,      \* scopes a row can be in, e.g. `user:<id>`
  Client,     \* registered clients; a client is also its own ack scope
  ScopesOf,   \* ScopesOf[c]: the scopes of c's principal (ScopeResolver)
  PageLimit,  \* max_pull_changes
  NoScope,    \* scope of a row that does not exist or is not synced
  AckRow,     \* the key of the ack change, ACK_MODEL
  MaxTxid,    \* bound: transactions of one behaviour
  MaxVer      \* bound: writes to one row

ASSUME ConstantsAssumption ==
  /\ ScopesOf \in [Client -> SUBSET Scope]
  /\ Scope \cap Client = {}
  /\ NoScope \notin Scope \cup Client
  /\ AckRow \notin Row
  /\ PageLimit \in Nat \ {0}
  /\ MaxTxid \in Nat
  /\ MaxVer \in Nat

VARIABLES
  table,     \* committed rows: scope and a version that counts writes
  changes,   \* committed rows of cratestack_sync_changes
  horizon,   \* cratestack_sync_horizon: newest purged position
  nextTxid,  \* next transaction id Postgres will hand out
  open,      \* ids of transactions in flight
  lock,      \* lock[k]: the transaction that wrote row k, or 0
  dirty,     \* the uncommitted row, where lock[k] # 0
  draft,     \* uncommitted rows of cratestack_sync_changes
  nextSeq,   \* nextSeq[t]: the next seq t draws
  pushing,   \* pushing[c]: the open push transaction of c, or 0
  lastSeq,   \* cratestack_sync_clients.last_mutation_seq
  cursor, resync, acked,  \* client meta: CURSOR, RESYNC, ACK_SEQ
  replica,   \* the client's rows, rewound: server state as of the cursor
  pull       \* the client's outstanding pull, by stage

serverVars == <<table, changes, horizon, nextTxid, open, lock, dirty, draft,
                nextSeq, pushing, lastSeq>>
clientVars == <<cursor, resync, acked, replica, pull>>
vars == <<serverVars, clientVars>>

-----------------------------------------------------------------------------
(* Positions of the log. *)

Txid == 1 .. MaxTxid

Zero == [txid |-> 0, seq |-> 0]

Position == [txid : Nat, seq : Nat]

\* Cursor's derived ordering: (txid, seq), lexicographic.
Before(p, q) == \/ p.txid < q.txid
                \/ p.txid = q.txid /\ p.seq < q.seq

PositionOf(e) == [txid |-> e.txid, seq |-> e.seq]

\* e is the last change of S.
IsLast(e, S) == e \in S /\ \A f \in S : f = e \/ Before(f, e)

Change == [scope : Scope \cup Client, row : Row \cup {AckRow},
           op : {"upsert", "delete"}, txid : Txid, seq : Nat, inline : Nat]

SameKey(e, f) == e.scope = f.scope /\ e.row = f.row

-----------------------------------------------------------------------------
(* Writing transactions. *)

NoRow == [scope |-> NoScope, ver |-> 0]

\* A row as transaction t sees it: its own write, else the committed row.
Current(t, k) == IF lock[k] = t THEN dirty[k] ELSE table[k]

Drafts(t) == {d \in draft : d.txid = t}

\* cratestack_sync_record: one row per (scope, model, pk), moved to a new
\* position by every write.
Recorded(log, new) == {f \in log : \A e \in new : ~ SameKey(e, f)} \cup new

\* Mutant of Captured: cratestack_sync_record without its NULL scope check.
CapturedNullScope(t, k, old, new) ==
  {[scope |-> new, row |-> k, op |-> "upsert", txid |-> t,
    seq |-> nextSeq[t] + 1, inline |-> 0]}

\* The capture trigger: a tombstone in the scope the row left, then an
\* upsert in the scope it is in now.
Captured(t, k, old, new) ==
  LET n == nextSeq[t]
      left == [scope |-> old, row |-> k, op |-> "delete",
               txid |-> t, seq |-> n, inline |-> 0]
      here == [scope |-> new, row |-> k, op |-> "upsert",
               txid |-> t, seq |-> n + 1, inline |-> 0]
  IN  (IF old \in Scope /\ old # new THEN {left} ELSE {})
        \cup (IF new \in Scope THEN {here} ELSE {})

\* A transaction takes its id: any writer on the cluster (a generated route,
\* psql, or a pull refreshing last_seen_at).
Begin ==
  /\ nextTxid <= MaxTxid
  /\ open' = open \cup {nextTxid}
  /\ nextTxid' = nextTxid + 1
  /\ UNCHANGED <<table, changes, horizon, lock, dirty, draft, nextSeq,
                 pushing, lastSeq, clientVars>>

\* SyncServer::push up to `authorize`: it locks the client row and refreshes
\* last_seen_at, so the push has its id before any row is written.
BeginPush(c) ==
  /\ pushing[c] = 0
  /\ nextTxid <= MaxTxid
  /\ open' = open \cup {nextTxid}
  /\ nextTxid' = nextTxid + 1
  /\ pushing' = [pushing EXCEPT ![c] = nextTxid]
  /\ UNCHANGED <<table, changes, horizon, lock, dirty, draft, nextSeq,
                 lastSeq, clientVars>>

\* INSERT, UPDATE or DELETE of row k by t, leaving it in scope s, and the
\* trigger it fires. A row another transaction wrote blocks the statement.
Write(t, k, s) ==
  LET old == Current(t, k)
      new == Captured(t, k, old.scope, s)
  IN  /\ t \in open
      /\ lock[k] \in {0, t}
      /\ old.scope # NoScope \/ s # NoScope
      /\ old.ver < MaxVer
      /\ lock' = [lock EXCEPT ![k] = t]
      /\ dirty' = [dirty EXCEPT ![k] = [scope |-> s, ver |-> old.ver + 1]]
      /\ draft' = (draft \ Drafts(t)) \cup Recorded(Drafts(t), new)
      /\ nextSeq' = [nextSeq EXCEPT ![t] = @ + 2]
      /\ UNCHANGED <<table, changes, horizon, nextTxid, open, pushing,
                     lastSeq, clientVars>>

\* The end of t, committed or not: its locks and uncommitted writes go.
End(t) ==
  /\ open' = open \ {t}
  /\ draft' = draft \ Drafts(t)
  /\ lock' = [k \in Row |-> IF lock[k] = t THEN 0 ELSE lock[k]]
  /\ dirty' = [k \in Row |-> IF lock[k] = t THEN NoRow ELSE dirty[k]]
  /\ nextSeq' = [nextSeq EXCEPT ![t] = 1]

\* What t's COMMIT makes visible, with `extra` recorded just before it.
CommitWith(t, extra) ==
  /\ table' = [k \in Row |-> Current(t, k)]
  /\ changes' = Recorded(changes, Drafts(t) \cup extra)
  /\ End(t)

Commit(t) ==
  /\ t \in open
  /\ \A c \in Client : pushing[c] # t
  /\ CommitWith(t, {})
  /\ UNCHANGED <<horizon, nextTxid, pushing, lastSeq, clientVars>>

\* The end of SyncServer::push: advance last_mutation_seq and record the ack
\* in the client's own scope, in the transaction of the writes it covers.
\* One mutation a push; batches and retries are SyncSession's subject.
CommitPush(c) ==
  LET t == pushing[c]
      seq == lastSeq[c] + 1
      ack == [scope |-> c, row |-> AckRow, op |-> "upsert", txid |-> t,
              seq |-> nextSeq[t], inline |-> seq]
  IN  /\ t # 0
      /\ CommitWith(t, {ack})
      /\ lastSeq' = [lastSeq EXCEPT ![c] = seq]
      /\ pushing' = [pushing EXCEPT ![c] = 0]
      /\ UNCHANGED <<horizon, nextTxid, clientVars>>

\* A rollback: a failed handler, a Fatal mutation, a lost connection.
Abort(t) ==
  /\ t \in open
  /\ End(t)
  /\ pushing' = [c \in Client |-> IF pushing[c] = t THEN 0 ELSE pushing[c]]
  /\ UNCHANGED <<table, changes, horizon, nextTxid, lastSeq, clientVars>>

\* PURGE_TOMBSTONES: delete expired tombstones and raise the horizon to the
\* newest. changed_at is the writer's start time, unrelated to positions, so
\* any set may have expired. An entry an open transaction has rewritten makes
\* the DELETE wait for it.
Purge(S) ==
  /\ S \subseteq {e \in changes : e.op = "delete"}
  /\ \A e \in S : ~ \E d \in draft : SameKey(d, e)
  /\ changes' = changes \ S
  /\ \E e \in S :
       /\ IsLast(e, S)
       /\ horizon' = IF Before(horizon, e) THEN PositionOf(e) ELSE horizon
  /\ UNCHANGED <<table, nextTxid, open, lock, dirty, draft, nextSeq, pushing,
                 lastSeq, clientVars>>

-----------------------------------------------------------------------------
(* Pulls. *)

\* Mutant of BelowXmin: everything committed, as a plain position cursor has.
BelowNext(txid) == txid < nextTxid

\* pg_snapshot_xmin: the oldest transaction in flight, else the next id.
BelowXmin(txid) == txid < nextTxid /\ \A t \in open : txid < t

Subscribed(c) == ScopesOf[c] \cup {c}

\* Changes the gate lets client c have, and the ones one page takes: the
\* first PageLimit, extended to the end of the last transaction they touch.
Eligible(c) ==
  {e \in changes : /\ e.scope \in Subscribed(c)
                   /\ Before(cursor[c], e)
                   /\ BelowXmin(e.txid)}

Page(c) ==
  LET E == Eligible(c)
  IN  {e \in E : Cardinality({f \in E : f.txid < e.txid}) < PageLimit}

\* Mutant of CursorExpired: no exemption for a cursor of zero.
BehindHorizon(c) == Before(cursor[c], horizon)

\* Mutant of CursorExpired: no horizon check.
NeverExpired(c) == FALSE

CursorExpired(c) == cursor[c] # Zero /\ Before(cursor[c], horizon)

\* The client's copy of a row: whether it holds it, and the version of the
\* row (ghost) that copy, or its absence, reflects.
Copy == [live : BOOLEAN, ver : Nat]

NoCopy == [live |-> FALSE, ver |-> 0]

NoRows == [k \in Row |-> NoCopy]

Idle == [stage |-> "idle", page |-> {}, cursor |-> Zero, rows |-> NoRows]

\* A page and the cursor after it, its rows still to be fetched.
Paged(page, position) ==
  [stage |-> "paged", page |-> page, cursor |-> position, rows |-> NoRows]

\* SyncServer::pull up to its COMMIT: horizon check and page in one snapshot.
\* A push of the same client holds the client row, and the pull's own update
\* of it would fail, so no page is cut while one is open.
PullPage(c) ==
  /\ pull[c].stage = "idle"
  /\ pushing[c] = 0
  /\ ~ CursorExpired(c)
  /\ \/ /\ Page(c) = {}
        /\ pull' = [pull EXCEPT ![c] = Paged({}, cursor[c])]
     \/ \E e \in Page(c) :
          /\ IsLast(e, Page(c))
          /\ pull' = [pull EXCEPT ![c] = Paged(Page(c), PositionOf(e))]
  /\ UNCHANGED <<serverVars, cursor, resync, acked, replica>>

\* SyncServer::materialize, after the COMMIT: the rows as they are now, if
\* the puller may read them now.
Materialize(c) ==
  /\ pull[c].stage = "paged"
  /\ pull' = [pull EXCEPT
       ![c].stage = "fetched",
       ![c].rows = [k \in Row |->
         [live |-> table[k].scope \in ScopesOf[c], ver |-> table[k].ver]]]
  /\ UNCHANGED <<serverVars, cursor, resync, acked, replica>>

\* The answer never arrives, or the pull failed on the server.
LosePull(c) ==
  /\ pull[c].stage # "idle"
  /\ pull' = [pull EXCEPT ![c] = Idle]
  /\ UNCHANGED <<serverVars, cursor, resync, acked, replica>>

\* check_horizon's cursor_expired and SyncEngine::recover on it.
PullExpired(c) ==
  /\ pull[c].stage = "idle"
  /\ CursorExpired(c)
  /\ cursor' = [cursor EXCEPT ![c] = Zero]
  /\ resync' = [resync EXCEPT ![c] = TRUE]
  /\ UNCHANGED <<serverVars, acked, replica, pull>>

\* A row the page names, after its changes are applied in order: the last
\* one decides. An upsert whose row was not fetched arrives as a delete.
Applied(p, k) ==
  LET named == {e \in p.page : e.row = k}
  IN  [live |-> /\ p.rows[k].live
               /\ \E e \in named : IsLast(e, named) /\ e.op = "upsert",
       ver  |-> p.rows[k].ver]

\* SyncEngine::apply_pull on the rewound tables (SyncRebase has the rewind).
ApplyPull(c) ==
  LET p == pull[c]
      base == IF resync[c] THEN NoRows ELSE replica[c]
      acks == {e.inline : e \in {f \in p.page : f.row = AckRow}}
                \cup {acked[c]}
  IN  /\ p.stage = "fetched"
      /\ replica' = [replica EXCEPT ![c] =
           [k \in Row |-> IF \E e \in p.page : e.row = k THEN Applied(p, k)
                                                         ELSE base[k]]]
      /\ \E n \in acks : /\ \A m \in acks : m <= n
                         /\ acked' = [acked EXCEPT ![c] = n]
      /\ cursor' = [cursor EXCEPT ![c] = p.cursor]
      /\ resync' = [resync EXCEPT ![c] = FALSE]
      /\ pull' = [pull EXCEPT ![c] = Idle]
      /\ UNCHANGED serverVars

-----------------------------------------------------------------------------

Init ==
  /\ table = [k \in Row |-> NoRow]
  /\ changes = {}
  /\ horizon = Zero
  /\ nextTxid = 1
  /\ open = {}
  /\ lock = [k \in Row |-> 0]
  /\ dirty = table
  /\ draft = {}
  /\ nextSeq = [t \in Txid |-> 1]
  /\ pushing = [c \in Client |-> 0]
  /\ lastSeq = [c \in Client |-> 0]
  /\ cursor = [c \in Client |-> Zero]
  /\ resync = [c \in Client |-> FALSE]
  /\ acked = [c \in Client |-> 0]
  /\ replica = [c \in Client |-> NoRows]
  /\ pull = [c \in Client |-> Idle]

ServerNext ==
  \/ Begin
  \/ \E c \in Client : BeginPush(c) \/ CommitPush(c)
  \/ \E t \in Txid :
       \/ \E k \in Row, s \in Scope \cup {NoScope} : Write(t, k, s)
       \/ Commit(t)
       \/ Abort(t)
  \/ \E S \in SUBSET changes : Purge(S)

ClientNext ==
  \E c \in Client :
    \/ PullPage(c) \/ Materialize(c) \/ LosePull(c)
    \/ PullExpired(c) \/ ApplyPull(c)

Next == ServerNext \/ ClientNext

Spec == Init /\ [][Next]_vars

-----------------------------------------------------------------------------
(* Properties. *)

\* Every variable holds a value of its type.
TypeOK ==
  /\ table \in [Row -> [scope : Scope \cup {NoScope}, ver : Nat]]
  /\ changes \subseteq Change
  /\ horizon \in Position
  /\ nextTxid \in 1 .. MaxTxid + 1
  /\ open \subseteq Txid
  /\ lock \in [Row -> Txid \cup {0}]
  /\ dirty \in [Row -> [scope : Scope \cup {NoScope}, ver : Nat]]
  /\ draft \subseteq Change
  /\ nextSeq \in [Txid -> Nat]
  /\ pushing \in [Client -> Txid \cup {0}]
  /\ lastSeq \in [Client -> Nat]
  /\ cursor \in [Client -> Position]
  /\ resync \in [Client -> BOOLEAN]
  /\ acked \in [Client -> Nat]
  /\ replica \in [Client -> [Row -> Copy]]
  /\ pull \in [Client -> [stage : {"idle", "paged", "fetched"},
                          page : SUBSET Change, cursor : Position,
                          rows : [Row -> Copy]]]

\* The change log never gains a position at or behind a cursor a client
\* holds or is about to be handed: no transaction commits behind a cursor
\* (protocol/cursor.rs, the gate of PAGE_SQL).
NothingBehindCursor ==
  [][\A e \in changes' \ changes, c \in Client :
       /\ Before(cursor[c], e)
       /\ pull[c].stage # "idle" => Before(pull[c].cursor, e)]_vars

\* Why: an open transaction is newer than every cursor a client holds or is
\* about to be handed, so whatever it commits lands ahead of them.
OpenAhead ==
  \A t \in open : /\ t < nextTxid
                  /\ \A c \in Client : /\ cursor[c].txid < t
                                       /\ pull[c].cursor.txid < t

CursorsHandedOut ==
  \A c \in Client : /\ cursor[c].txid < nextTxid
                    /\ pull[c].cursor.txid < nextTxid

PushesOpen ==
  \A c \in Client : pushing[c] # 0 =>
    /\ pushing[c] \in open
    /\ \A d \in Client : pushing[d] = pushing[c] => d = c

GateInv == OpenAhead /\ CursorsHandedOut /\ PushesOpen

\* Where a client stands on a row when nothing about it is still to come.
Settled(c, k) ==
  /\ ~ resync[c]
  /\ ~ CursorExpired(c)
  /\ ~ \E e \in changes : /\ e.row = k
                          /\ e.scope \in ScopesOf[c]
                          /\ Before(cursor[c], e)

\* The client holds the row exactly as committed, or not at all if it is not
\* in the client's scopes.
Agrees(c, k) ==
  IF table[k].scope \in ScopesOf[c]
    THEN replica[c][k] = [live |-> TRUE, ver |-> table[k].ver]
    ELSE ~ replica[c][k].live

\* A client that has no change of a row ahead of its cursor agrees with the
\* server about it: no write, delete or scope change is lost to a late
\* commit, a page boundary, the fetch after the snapshot, a lost answer, a
\* purged tombstone or a resync.
CaughtUp == \A c \in Client, k \in Row : Settled(c, k) => Agrees(c, k)

\* As far as the log tells, no row is or was in two scopes of client c. A
\* client of one scope needs nothing more.
RowsStay(c) ==
  \A e, f \in changes :
    e.row = f.row /\ {e.scope, f.scope} \subseteq ScopesOf[c]
      => e.scope = f.scope

\* Clients of several scopes are caught up as well, as long as no row goes from
\* one scope of a client to another of the same client (server/pull.rs).
CaughtUpWhileRowsStay == [](\A c \in Client : RowsStay(c)) => []CaughtUp

\* Once writers are done, every client ends up with the server's rows.
InSync(c) == \A k \in Row : Agrees(c, k)

Converges == \A c \in Client : <>[]InSync(c)

\* The same for clients of several scopes, as far as rows stay in theirs.
ConvergesWhileRowsStay == [](\A c \in Client : RowsStay(c)) => Converges

\* Transactions end; hosts keep pulling (worker.js syncs every 30 s and on
\* every poke); a pull that is retried for ever is answered again and again.
Fairness ==
  /\ \A t \in Txid : WF_vars(Commit(t) \/ Abort(t))
  /\ \A c \in Client :
       /\ WF_vars(CommitPush(c))
       /\ WF_vars(PullPage(c))
       /\ WF_vars(PullExpired(c))
       /\ SF_vars(Materialize(c))
       /\ SF_vars(ApplyPull(c))

FairSpec == Spec /\ Fairness
=============================================================================
