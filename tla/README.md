# A TLA+ model of CrateStack's run-time core

CrateStack is a schema-first Rust framework: a schema language and its compiler generate
servers, clients and storage code, and a set of run-time crates carry the behaviour that is
hard to get right: offline sync, idempotent requests, rate limits, the event outbox, replay
protection. The compiler side is pure translation. This project models the run-time side: the
offline sync engine (`src/crates/cratestack-sync`), where most of the protocol lives, idempotent
requests over both stores, model events from the outbox to the subscriptions, and the in-memory
rate limiter.

Contents: [inventory](#inventory), [modules](#modules), [runs](#runs-and-bounds),
[fairness](#fairness), [proofs](#proofs), [findings](#what-the-runs-found),
[what is not modelled](#what-is-not-modelled), [plan](#plan).

## Inventory

### The sync engine

| Part | State | Operations | Talks to | Hard behaviour |
| --- | --- | --- | --- | --- |
| change log (`server/ddl.rs`, `server/pull.rs`, `server/gc.rs`) | `cratestack_sync_changes`, compacted to one entry per (scope, model, key); `cratestack_sync_horizon` | the capture trigger, the pull page, the fetch of its rows, the tombstone purge | written by every transaction of the application, read by pulls | transactions that commit out of order, entries that move, rows fetched after the snapshot, purged tombstones |
| push and registration (`server/push.rs`, `server/clients.rs`, `policy.rs`) | `cratestack_sync_clients`: last consumed seq, last seen | register, push (screen, savepoint per mutation, ack), eviction | writes rows and the ack into the change log in one transaction | retries, late calls, rejection, eviction, clock skew |
| device queue (`client/flow.rs`, `client/recovery.rs`, `client/store.rs`, `client/mod.rs`) | SQLite meta (`client_id`, `cursor`, `next_seq`, `pushed_seq`, `ack_seq`, `resync`), pending and rejected mutations | mutate, requests, apply answers, recover | the host carries its requests | answers lost between the server's commit and the device, renumbering |
| undo log (`client/ddl.rs`, `client/rebase.rs`) | synced tables, shadow tables, dirty keys | capture triggers, rewind, replay, wipe | runs inside every queue operation | first-touch capture, mutators that fail half way, replay on a changed base |
| pokes (`server/poke.rs`, `server/http/stream.rs`) | a broadcast channel, stream slots per principal | listen, notify, open and close a stream | NOTIFY at commit, the host pulls | a poke that comes before the gate opens, lag, the slot cap |
| host (`examples/sync-notes/web/worker.js`) | one round at a time | register, push until empty, pull until no more, recover | device and server | network errors, retry |

What makes them correct:

- the log never gains an entry behind a cursor it has handed out;
- a client that has nothing of a row ahead of its cursor holds exactly the server's row, and
  every client gets there once writers stop;
- a mutation takes effect at most once, and leaves the device's queue only once the server has
  applied or refused it, or the device lists it as rejected;
- the device and the server agree on what is consumed, across evictions and re-registrations;
- the visible tables are the server state as of the cursor with the queue replayed on it, and
  rewinding gives back that server state exactly.

### The rest of the run time

| Component | State | Operations | Hard behaviour | What makes it correct |
| --- | --- | --- | --- | --- |
| idempotency (`cratestack-core/src/store/idempotency.rs`, `-redis`, `-sqlx`, `-exec`, `-axum`) | one record per key: token, hash, response, expiry | reserve, complete, release, purge; the HTTP layer around them | a handler that outlives its reservation, the SQL store's two statements, release on failure, a panic | never two holders of a live reservation; a replayed answer is that of the run that held the record; a stale holder changes nothing |
| model-event outbox (`cratestack-sqlx/src/descriptor/drain.rs`, `-core/src/events/bus.rs`) | rows written with the application's transaction: attempts, `delivered_at` | store, drain to every handler, mark, announce | drains that overlap, a handler that fails, a drain cut off between two steps | what is marked was accepted by all; handlers repeat an event only for something that failed; one bad event does not hold up the rest; announced at most once |
| backplane and subscriptions (`-sqlx/src/backplane`, `-core/src/backplane`, `-axum/src/rpc/model_feed.rs`) | one listening connection, a sender per channel, a buffer per receiver | notify at commit, listen, fan out, resync, subscribe | a connection that is lost and taken up without a report, overflow, payloads read out of line | no silent gap, commit order |
| rate limiting (`-axum/src/ratelimit`, `-core/src/store/ratelimit`, `-exec`, `-redis`) | token buckets, slots of a scope, two caps | consume, sweep, admit | calls that enter out of order, eviction and creation anew, refusal half way | never more than the burst plus the time; the caps hold, and a scope has a bounded number of buckets; a refusal leaves nothing |
| queued outbox (`cratestack-outbox`) | a persistent queue of client calls | enqueue, drain, mark | a drain that crashes after delivery | nothing queued is lost |
| nonces and replay (`cratestack-auth`, `cratestack-cose`) | seen nonces with expiry | check and insert | expiry against clock skew | a signed request is accepted once |
| transports, MCP, service runtime | connections, admission slots | open, close, admit | caps, shutdown | slots are given back |
| parser, macros, LSP, CLI, generators, codecs, SQL rendering, policies, migrations, studio | none at run time | pure translation | none for a model checker | not modelled |

How they meet at run time: a request passes the rate limiter and the idempotency layer, then its
handler writes in one transaction that the capture trigger (sync), the outbox and the backplane
all hang on: the log entries, the event row and the notification commit or abort together.
Drains, the listener and the sync pulls read what has been committed, each on its own.

`PROJECT.json` lists the components with their sources, and under `hazards` the places where
this code is hard to test, with the properties that cover them.

## Modules

| Module | Models | Stands on |
| --- | --- | --- |
| `SyncLog` | the change log, its writers and its clients | |
| `SyncSession` | one device, its host and the server's registration | |
| `SyncRebase` | the device's database and undo log | |
| `SyncRebaseView` | the reference view: server state plus queue, with no undo log | `SyncRebase` |
| `Idempotency` | what the `IdempotencyStore` trait promises, for one key | |
| `IdempotencyService` | the HTTP layer, the executor and the Redis or SQL store | refines `Idempotency` |
| `Backplane` | committing writers, the listener, the hub and the feeds of one replica | |
| `EventOutbox` | the rows of the event outbox and the drains of all replicas | |
| `RateLimit` | the in-memory rate limiter | |
| `MC...` | instances for TLC | the above |
| `SyncLogProofs`, `SyncSessionProofs`, `SyncRebaseProofs`, `IdempotencyProofs`, `BackplaneProofs`, `EventOutboxProofs`, `RateLimitProofs` | the theorems | the module of that name (`IdempotencyProofs`: `IdempotencyService`; `SyncRebaseProofs`: `SyncRebaseView`) |
| `SyncQueueProofs` | the theorems about the seqs of a device's queue | `SyncSessionProofs` |

The three sync specifications cut the engine at its own seams. `SyncLog` knows rows and positions
and a push of one mutation; `SyncSession` knows seqs, registrations and calls and leaves rows
out; `SyncRebase` knows the tables of one device and takes pages, acks and rejections as given.

### `SyncLog`

State: `table` is the committed rows of one synced model (a scope, and a version that counts
writes), `changes` the committed log, `horizon` the purge horizon. A writer is a transaction id
in `open` with its row locks (`lock`), its uncommitted rows (`dirty`) and log entries (`draft`).
A client has a cursor, the resync flag, its ack and its rows (`replica`, the rows as rewound:
server state as of the cursor), and the stage of its pull.

| Action | Code |
| --- | --- |
| `Begin`, `Write`, `Commit`, `Abort` | any writer: a generated route, `psql`, a pull's own `last_seen_at`; `Write` is a statement and the capture trigger with its two `cratestack_sync_record` calls |
| `BeginPush`, `CommitPush` | `SyncServer::push`: the id is taken by `authorize`'s update before any row is written, the ack is recorded last |
| `Purge` | `PURGE_TOMBSTONES`, any set of tombstones, horizon raised to the newest |
| `PullPage` | `SyncServer::pull` up to its COMMIT: horizon check and `PAGE_SQL` in one snapshot |
| `Materialize` | the fetch after it, on rows that may have changed |
| `LosePull` | the answer is lost, or the pull fails |
| `PullExpired` | `cursor_expired`, and the device's `recover` |
| `ApplyPull` | `apply_pull`: wipe on resync, changes in order, ack, cursor |

Postgres is modelled by what the code relies on: ids at the first write, row locks until the
end, visibility at commit, `pg_snapshot_xmin` as the oldest id in flight. A seq is drawn per
transaction rather than from one sequence: positions compare it only within a transaction.
The read policy is that the row's scope is one of the principal's. `has_more` only tells the
host to pull again, which here it always may. A pull that fails to serialise is a lost pull. A
pull writes its client's row (`last_seen_at`), so it waits for an open push of the same client
and fails to serialise when that commits; when the push aborts the pull goes on with a snapshot
from before the abort, a late answer the model leaves out. A compacted entry is replaced
at the commit of its writer; two writers of one entry are writers of one row, which the lock
keeps apart. A row is its key: an `UPDATE` that changes the primary key and stays in its scope is
not among the writes. The trigger records only the upsert of the new key then
(`server/ddl.rs:138-143`, the tombstone is for a change of scope), so every client keeps the old row
until it resyncs, although `server/ddl.rs:3-7` says that a write reaches clients however it was made.

### `SyncSession`

State: the server's clock, the issued and registered client ids with their `last_mutation_seq`
and `last_seen_at`, the acks in the log; the device's meta and queue; the call its host waits
for, and one call the host gave up on that may still arrive (`late`). `effects` counts how often
each mutation was applied and `refused` remembers rejections: both are ghosts.

| Action | Code |
| --- | --- |
| `Serve`, `ServeLate`, `LoseLate` | the server handles a call: `register`, `push` (contiguity, screening, savepoints, ack, a `Fatal` that rolls everything back), `pull`; or never gets it |
| `Evict`, `Tick` | `EVICT_CLIENTS` with the acks of the evicted, and time |
| `Mutate` | `SyncEngine::mutate`, with `created_at` by a clock that may be wrong |
| `SendRegister`, `SendPush`, `SendPull`, `GiveUp` | the host's round; with `PushFirst` it is `syncOnce`, without it any host |
| `ApplyRegister`, `ApplyPush`, `ApplyPull`, `Recover` | the engine's method of that name |

A server operation is one action because it is one transaction serialised on the client row.
A pull brings the ack or nothing, since the gate and the page limit may hold it back. There is
one device; a rate limit, a full registration cap and an internal error of any of the three calls
(`Fails`) are all `Retry`. The codes that halt the host, and the poke stream's refresh of
`last_seen_at`, are left out. `cursor_expired` is `SyncLog`'s.

The code has two clocks besides the device's. Mutations are screened by the application's
(`server/push.rs:45`), read once the client's row is locked; `last_seen_at` is Postgres's `now()`, the
time the transaction began (`server/clients.rs:103`), and is compared with Postgres's clock by the
GC. `now` is one clock for both, as neither interval takes one clock from the other: a difference
between the two that does not change falls out of both, while drift and a clock that is set are not
modelled. What does not fall out is the wait for the lock: `Seen` stamps a lease with a time up to
`LockWait` before the push it comes with is screened.

### `SyncRebase`

State: `db` (the table, each row's shadow and the dirty marks), the queue, and `base`, a ghost:
the server's rows as of the cursor. An operation that ends in `replay` is a first step that
rewinds and changes what is below the queue, and one `ReplayOne` per queued mutation; nothing
else runs while `todo` is not empty, as it is one SQLite transaction.

| Action | Code |
| --- | --- |
| `Mutate` | `SyncEngine::mutate` |
| `ApplyPull` | `apply_pull`: rewind, wipe on resync, upserts and deletes with capture off, drop the acknowledged |
| `ApplyRejections` | `apply_push` with rejections |
| `ResetRegistration`, `ExpireCursor` | `recover` |
| `ReplayOne` | one iteration of `replay`, a failing mutator rolled back to its savepoint |

A mutator is a sequence of SQL statements on the table, each with the triggers of `model_ddl`:
`inc` is the upsert of the engine's own tests, `create`, `delete` those of the example, and
`move`, `rename`, `replace` stand for what else `LocalMutator` allows: two statements of which
the second may fail, an update of the key, and `INSERT OR REPLACE`.

### `Idempotency` and `IdempotencyService`

`Idempotency` is the contract of the trait for one key: the record, what each call was told, and
which calls have found the key taken. `IdempotencyService` is the code: the same record with its
expiry by the server's clock, `step` (where each call is), and ghosts for what was granted, until
when, what was released and whose answer was replayed. Each call is one request with the same
key; keys do not touch each other. The deployed store is a variable that never changes.

| Action | Code |
| --- | --- |
| `RedisReserve` | `RESERVE_LUA`: one script sees the record, or takes it |
| `SqlUpsert`, `SqlRead` | the SQL reservation's two statements; the row may have changed, expired or gone in between |
| `StoreDown` | the store cannot be asked, the request is refused |
| `HandlerReturns`, `Vanish` | the handler returns what is recorded or what is not (an error, a stream, a body too large); or panics, is cancelled, dies with its server |
| `Complete`, `Release` | `complete` and `release` of either store, best effort, by token |
| `Tick`, `GarbageCollect` | the store's clock, `garbage_collect` |

An operation whose answer is lost has still happened: `Take` may end in `failed`. Under the
refinement (`Contract`, `KeepsContract`) a call is told "reserved" from the moment it runs until it
has completed or released, and "seen" while it is between the SQL statements.

### `Backplane`

State: how many notifications have been committed, in which channel each is, the listener's
connection and what is on its way, the notification whose payload is being read from the outbox,
the hub's channels and receivers (`attached`, `unread`, `ending`), and each subscription's feed.
Notifications are numbered in commit order, which is the order Postgres delivers them in.

| Action | Code |
| --- | --- |
| `Commit` | `pg_notify` in the writing transaction (`event_enqueue.rs`); an abort sends nothing |
| `Disconnect`, `Notice`, `Reconnect`, `ReconnectFails` | `listen` in `pg_notify.rs`: `try_recv` returning `Ok(None)`, the reconnect inside the next one, or its error |
| `Receive`, `Fetched` | a notification that carries its payload, or only the id of an outbox row that is read, or cannot be |
| `Attach`, `Live`, `Leave` | `subscribe`: attach to the hub, `ensure_listening`; the stream is dropped with its receiver, as that failed or the client left |
| `Forward`, `Told` | `model_events` and `model_feed`: the next event, or the error frame that ends the stream |

Every notification is one that `enqueue` wrote. `deliver` logs and drops one that does not parse, or
that has neither payload nor event (`pg_notify.rs:144-147`, `161`), and tells no subscription; only
another version of the program, or another program that notifies the same channel, writes such a one.

### `EventOutbox`

State: the rows stored, delivered and tried; how many writes have yet to start their drain (`owed`);
for each drain its phase, the rows it holds, those it will mark or leave, and the row and handler it
is at; ghosts for how often each handler took each event (`runs`) and how often it was announced. One
drain is one call of `drain_event_outbox`, on any replica.

| Action | Code |
| --- | --- |
| `Write`, `Drained`, `Skip` | the commit of a write that stores its event, after which the same call drains (its error is dropped); or is gone, or cannot begin |
| `Asked` | `events().drain()`, or the drain of a write not counted here |
| `Claim` | of the two: `SELECT ... FOR UPDATE SKIP LOCKED`; rows with no attempt yet are those to announce |
| `Accept`, `Mark`, `Reject` | `emit`: handlers in order until one fails; then `delivered_at`, or an attempt and the next row |
| `Commit`, `Publish`, `Return` | the commit, and the announcements after it |
| `Cut`, `Fail` | the connection is lost while a handler runs: the locks go, the handlers go on with the row at hand, the drain notices at its next statement |
| `Stop` | the call ends early, before or after its commit |

That rows are disjoint is true of open transactions only. A drain that has lost its connection goes
on with a row another one holds or has delivered, though `drain.rs:5` says that two replicas never
both deliver a row, and it is at-least-once delivery that covers this. `RepeatsAreRetries` says what
is left: a handler takes an event once, and again at most once for each thing that failed.
`AnnouncedOnce` says that subscribers are not told twice.

A claim locks all free rows at once; Postgres locks one after the other, so two drains that begin
together may share them out, each a smaller batch. Handlers are the same in every process and at
least one: `emit` of an event nobody handles is a success (`events/bus.rs:83-89`), so a process that
has not registered its handlers marks events delivered that nobody took. A write inside `run_in_tx`
starts no drain; it is a `Write` whose drain is skipped. Rows whose operation cannot be parsed would
end a drain for all; the code never writes one.

### `RateLimit`

State: the clock, when each request that waits for the lock has read it (`call`), the buckets
(`live`, `tokens`, `refilled`), the last sweep, the scopes with their members and slots, and
ghosts: what each bucket has granted, and by how much calls that entered late turned its
`last_refill` back. A tick refills one part of a token; rates other than whole ticks per token
and the rounding of floating point are not modelled.

| Action | Code |
| --- | --- |
| `Read` | `consume_bounded` up to the lock: `Instant::now()`; the key is left open until the request enters, as nothing depends on it before |
| `Enter` | `_consume_at` under the lock: the sweep that is due, `reserve_admission` (`Refuse`), `Scopes::admit`, `Buckets::consume` (`Charge`), each with the sweeps it forces |
| `Tick` | time; no call waits longer than `Lag` |

A scope is its fallback bucket as well, which a request may ask for by itself, without a budget
(`ip:<addr>` of `key_fn.rs`).

Two conditions on the configuration are definitions, and hypotheses of theorems. The code enforces
neither.

- `TtlCovers`: what a request drops as idle is full, as the time to live of any request's
  configuration covers the refill of every bucket, and the slack of `bucket_ttl_secs` (a minute)
  covers `Lag`. A refill of more than the 24 hours the time to live is clamped to breaks it, and so
  do layers of different configurations on one store, since a sweep uses the configuration of the
  request that runs it. In both TLC violates `Paced`, so that `buckets.rs:72-76`, which calls the
  eviction exact and "not an approximation", is true under `TtlCovers` only. A refill of zero, which
  the code accepts and the model has no rate for, is a refill that never ends.
- `SweptInTime`: all keys have one time to live, longer than a sweep is late.

The budget is documented as `max_distinct` live buckets of a scope at every instant
(`ratelimit-bucket-cardinality.md:83`, and `:215-219` and `scopes.rs:18-20`, `64-66`, where slots
outlive their buckets and a transient of twice the number is closed). It is not so. A slot ages out
at its time to live, with the next request of its scope; the bucket it admitted stays until a sweep,
which runs once a minute (`buckets.rs:19-24`). Until then the scope has both the buckets that wait to
be dropped and those admitted in the slots that have become free: up to twice the number, which the
run reaches. `WithinBudget` states that bound, of all buckets in the map.

## Runs and bounds

A bound is a constant named `Max...`, or `Lag`, and a guard; no state is cut off by a constraint.

| Run | Shows | Bounds |
| --- | --- | --- |
| `sync_log` | `NothingBehindCursor`, its invariant `GateInv`, `CaughtUp`: no late commit, page boundary, fetch after the snapshot, lost answer, purge or resync loses a write of a row | two rows, scopes a and b, a client of scope a, pages of one, three transactions, two writes a row |
| `sync_log_live` | `CaughtUpWhileRowsStay`, `ConvergesWhileRowsStay`: a client of two scopes is caught up too, and ends up with the server's rows, as long as no row goes from one of its scopes to the other and a resync is one page | one row, three scopes, a client of two, pages of two, three transactions, two writes |
| `sync_session` | `AppliedOnce`, `NothingForgotten`, `RejectedForGood` for any host, which reaches every answer of the server, `sequence_gap` included | two mutations, batches of two, two registrations, clock to 4 with TTLs 1 and 3, a skew and a lock wait of 1, device clocks right or fast by one, two lost calls or failed transactions |
| `sync_session_live` | `UnsentContiguous`, `SeqsAligned`, `Drains` for the documented host | as above, a client TTL of 2, device clocks right or fast by two, three registrations, one fault |
| `sync_rebase` | `UndoLogExact`, its invariant `UndoInv`, `LocalIsRebased`, `UnsyncedIsPending` | two rows, two values, mutators of every kind but `replace`, a queue of three; the behaviours themselves are unbounded |
| `idempotency` | `ReplaysTheRun`, its invariant `HolderInv`, `NoRerunWhileLive`, and that either store implements the contract (`KeepsContract`) | three calls, two fingerprints, both stores, TTL 1, skew 1, clock to 3 |
| `backplane` | `NoSilentGap`, `InOrder`, `Hears` | two channels, two subscriptions, a buffer of one, two notifications; connections may be lost without bound |
| `event_outbox` | `DeliveredToAll`, `RepeatsAreRetries`, `AnnouncedOnce`, `Delivered` | two events of which the last handler never takes the older, two drains, two handlers, three faults |
| `rate_limit` | `Paced`, `WithinBudget`, `WithinCap`, `RefusedLeavesNothing` | three keys of one scope, one of another, the first's fallback asked for by itself, two callers, bursts of one token of two ticks, one key a scope, three buckets, a sweep every two ticks, clock to 3 |
| `sync_log_scopes`, `sync_log_livelock`, `backplane_gap` | the [findings](#what-the-runs-found) | as small as shows them |

Why this is enough. A late commit takes two overlapping transactions and a pull between their
commits; three ids let one of them be a push, or a third writer move an entry once more. Two
rows and a page limit of one split the log in pages; scope b makes rows enter and leave the
client's scope. In a session the interesting case is a mutation consumed under one registration
and pushed under the next: two registrations, two mutations (one consumed and one not), a
clock that runs past both TTLs, and two faults to lose an answer and deliver its call late. The
live run is one registration longer, so that one is lost and another expires, and has a slot for
each: that a principal who is out of slots gets one when the client TTL has passed is not shown, as
the clock has stopped by then. The
undo log's cases are about the first and later touches of one row and about two rows of one
mutator; three queued mutations give a touch, a second and a failed third.

Three calls are a holder that has lost its lease, the one that took it over and one that asks
what happened; with a TTL of one tick all three can follow each other before the clock stops. A
buffer of one overflows at the second notification; a second subscription and channel keep
others' traffic apart from the one that ends. Two drains are enough to meet at any row; the event
that is always refused comes first, so that what holds up a batch would hold up the other; three
faults lose a drain, a retry of it and a commit's answer. In the rate limiter the smallest bucket is
full, empty or dropped within the three ticks; a scope of one slot and three keys has two live
buckets between sweeps, and three buckets fill the map. The cap on scopes is not reached, as there
are two; `CapHolds` proves it for any number.

Deadlock is checked in `sync_rebase` and `event_outbox`, which never stop (a drain can always be
started), and in `rate_limit` (a call can always be made). It is not checked in the other runs:
their counters are bounded, or every call and subscription ends, so they do stop.

`sync_session` gives the client TTL the value `MutationTtl + Skew + LockWait`, and it takes all of it: with
one tick less, which `SyncPolicy::validate` accepts (it and `sync-engine.md:175` ask that the client
TTL be the longer), `AppliedOnce` is violated. The defaults leave days to spare. `CaughtUp` passes for a client of one scope; `sync_log_scopes` shows a
client of two, and `sync_log_live` that it takes a row that goes from one to the other: the rows
there come from a third scope and leave for it, and nothing is lost. `ConvergesWhileRowsStay` passes
as a resync is one page; `sync_log_livelock` shows one of two.

## Fairness

`SyncLog!Fairness`: a transaction in flight ends (Postgres's timeouts, which the design document
asks for), a push in progress commits, a host keeps pulling (the example's worker syncs on a
30 s timer and on every poke). `Materialize` and `ApplyPull` get strong fairness: an answer may
be lost any number of times, but a pull retried for ever is not lost every time.

`SyncSession!Fairness`: weak fairness of each step of the host's round and of the server's
answer, of the GC loop (`spawn_background`) and of time; strong fairness of a pull that finds
the ack past the gate and of a page that is the last, which says that neither the gate nor
`has_more` holds back a client that keeps pulling for ever. Nothing obliges a lost call to
arrive, a mutation to be made or a handler to accept.

`Backplane!Fairness`: the listener's task goes on while its connection is up (`Receive`, `Fetched`)
and notices its loss (`Notice`: of a peer that is gone without a word, `try_recv` learns from TCP, in
its own time), and a feed sends what it has (`Forward`, `Told`): both are tasks
that wait for nothing else. There is none on `Reconnect`, `Attach` or `Commit`: what a
subscription is owed it hears, or is told, even if the listener never comes back.

`EventOutbox!Fairness`: a write that has committed goes on to its drain (`Drained`) and a drain that runs
comes to its end. Nothing else starts one: `Asked` and later writes have no fairness, `Skip` is a
fault, and no fairness obliges a handler to accept. So an event whose drain was cut off, or refused
by a handler, stays undelivered when nothing is written after it, and `Delivered` says what is true: if
nothing fails the drains of the writes deliver every event the handlers take; if something did, they
do if drains go on being started (a service that goes on writing, or a timer that calls
`events().drain()`, which the code does not bring).

`IdempotencyService` and `RateLimit` state safety only.

## Proofs

TLAPS proves these for every value of the constants; the runs check the same definitions on the
instances above. Every invariant and every action property that a run checks is a theorem, under
the hypotheses named here; what is left to TLC alone is at the end.

`SyncLogProofs` (from `ConstantsAssumption` only: `NoScope` and `AckRow` are new values, scopes
and clients are disjoint, the page limit is positive):

- `TypeCorrect`: `Spec => []TypeOK`.
- `GateHolds`: `Spec => [](TypeOK /\ GateInv)`. `NothingBehindCursor` is about one step and is not
  inductive by itself: that a commit lands ahead of a cursor depends on what was true when its
  transaction began. `GateInv` says it: every open transaction is younger than every cursor held
  or about to be handed out (`OpenAhead`), every cursor is below the next id
  (`CursorsHandedOut`, so that a new transaction starts ahead), and the transaction of a push is
  open and its own (`PushesOpen`, so that the ack, too, is written by an open transaction).
- `NothingCommitsBehind`: `Spec => NothingBehindCursor`, from `GateInv` and the lemma
  `AddedByOpen`: every entry a step adds to the log has the id of a transaction open before it.
- `LogNamesRows`: `Spec => [](LogInv /\ DraftInv)`. The log has one entry a row and scope, an upsert
  exactly where the row is, and one for each row that is in a scope; what open transactions have
  drafted says the same of the rows they have locked, so that a commit keeps it (`CommitLog`), and
  a purge, which takes tombstones only, too (`PurgeLog`).
- `StayingRowsCaughtUp`: `Spec => CaughtUpWhileRowsStay`, for clients of any number of scopes.
  `CaughtUp` is strengthened to `FollowInv`, of each client: a row that has no entry ahead of the
  cursor, with the cursor not behind the horizon, is as the server has it in the tables the next
  page will be applied to (`Following`); and of a page under way the same holds at the cursor that
  comes with it, of the fetched row where the page names one and of the client's where it does not
  (`Paging`). A commit changes no row without an entry ahead of every cursor (`CommitAhead`, from
  `GateInv` and `DraftInv`), and a purge that hides one moves the horizon past it (`PurgeAhead`);
  a page leaves nothing out below its last entry (`PageIsWhole`). `RowsStay` says that the log
  never has a row in two scopes of one client. It is needed: without it two entries of a row are
  on a page and the later is not the one that was written last (finding 1).
- `OneScopeCaughtUp`: `Spec => []CaughtUp` if every client has one scope, a corollary.

`SyncSessionProofs` (from `PolicyAssumption`, which is what `SyncPolicy::validate` checks):

- `TypeCorrect`: `Spec => []TypeOK`, with `Counted`: each mutation is queued once, so that the queue
  is no longer than the number made and renumbering it stays within range. A contiguous push
  consumes no more than the last seq of its batch (`ConsumedBound`).
- `RejectionIsFinal`: `Spec => RejectedForGood`, by `SessionInv` and `Told`. `SessionInv` says where a
  mutation can be: a call speaks for the device's registration, and a call it gave up on for the
  same one or one that is gone (`Calls`); so what the server may still apply is `Known`, the queue
  and the batches of the two calls, and all of these carry one copy of a mutation (`OneCopy`).
  `Told` adds that a rejected mutation is out of the queue and, where a call still carries it, has
  a seq that was consumed.
- `AtMostOnce`: `Spec => []AppliedOnce` if `ClientTtl >= MutationTtl + Skew + LockWait`. `Once` strengthens the
  property: whatever of `Known` was applied is `Spent`, that is, past the mutation TTL, or consumed
  under the current registration by a call at most `LockWait` after its `last_seen_at`. The second case
  turns into the first when the registration is evicted (`EvictedOnce`), which is the one place
  the assumption is used; `PolicyAssumption` alone is not enough (see the bounds above).

`SyncQueueProofs` (from `PolicyAssumption` and the invariants above):

- `NothingIsForgotten`: `Spec => []NothingForgotten`, for any host, by `QueueInv`: the device's
  counters lag behind what the server consumed, which lags behind what the device has numbered
  (`Consumption`); what of the queue was consumed was decided (`Settled`); no two mutations known
  anywhere share a seq (`OneSeq`); and what is unsent is numbered without a gap from the higher of
  `pushed_seq` and the ack (`Regular`). The last is not inductive for every host. One that pulls
  although its push was not answered can lose its registration with an ack above `pushed_seq`; its
  queue is then renumbered from too high, and from there the server consumes nothing of it
  (`Stuck`): nothing is forgotten, and nothing gets through.
- `UnsentIsContiguous`, `SeqsAgree`, `RenumberedWhenPushedFirst`:
  `PushFirst => (Spec => []P)` with `P` one of `UnsentContiguous`, `SeqsAligned` and
  `RenumberedFromOne`, by `Steady`: the queue is `Regular`, no ack is ahead of `pushed_seq`, and
  the queue is in the order it was made. The other parts say why an ack cannot get ahead. What a
  call carries beyond `pushed_seq` is still queued and next (`Ahead`); while the host pushes, what a
  late call has new is in the batch it pushes again (`Rounds`), so the answer covers both
  (`Answered`); and while it pulls, the server has consumed no more than the device was told of,
  and a late call has nothing new for it (`Quiet`).

`SyncRebaseProofs` (from `RebaseAssumption`):

- `TypeCorrect`: `Spec => []TypeOK`, `INSERT OR REPLACE` included.
- `UndoLogKept`: `NoReplace => (Spec => []UndoInv)`, and from it `UndoIsExact`:
  `NoReplace => (Spec => []UndoLogExact)`. `UndoInv`
  says of each row that it is the server's if it is clean and has the server's in its shadow if
  it is dirty, and that only dirty rows have shadows. Each statement of a mutator keeps it
  (`UpdateExact`, `InsertExact`, `RekeyExact`), so each mutator does (`EffectExact`), so does a
  mutator under its savepoint (`RunExact`); a rewind restores the server's rows and leaves a
  clean log (`RewoundExact`). `NoReplace` is needed: SQLite removes the row in
  the way without firing its delete trigger, so with `replace` among the mutators `UndoLogExact`
  is violated.
- `LocalTablesRebased`: `NoReplace => (Spec => []LocalIsRebased)`. `View` is a recursion over the
  queue, and that it has a value at all would take an induction. The steps of the engine are that
  induction: after a rewind the replay of none of the queue is the server state (`ReplayOfNone`),
  and each mutation that runs, queued anew or replayed, makes a replay one longer out of any there
  was (`ReplayOfNext`); `ViewIsReplay` gives it to `View`. That the engine's run of a mutator shows
  what the reference's does is `RunsPlainly`: the effect on the table depends on the table alone.
- `MarksHaveMutations`: `Spec => []UnsyncedIsPending`, `INSERT OR REPLACE` included, as a mutation
  marks only rows it names (`RunMarks`), only those that have run since the last rewind have marked
  any (`MarkedByReplayed`), and what is left to replay is the end of the queue (`ReplayIsSuffix`).

`IdempotencyProofs` (from `ServiceAssumption`):

- `TypeCorrect`: `Spec => []TypeOK`.
- `HolderKnown`: `Spec => []HolderInv`, and `ReplaysAreRuns`: `Spec => []ReplaysTheRun`, inductive
  together. `HolderInv` says: every granted lease has
  run out, was released, or is the record's, with the same expiry; the record's owner was granted
  it and has the record's fingerprint; who runs, records or releases was granted, and who has not
  been answered was not.
- `NeverTwoHolders`: `Spec => NoRerunWhileLive`. A grant needs a free record, and by `HolderInv` an
  unreleased lease that has not run out is the record's, which is then not free.
- `ContractKept`: `Spec => KeepsContract`, the refinement: each action is one of `Idempotency`'s or a
  stutter, given `HolderInv` (a release by token finds the caller's own unanswered record).

`BackplaneProofs` (from `BackplaneAssumption`): `TypeCorrect`, `NoGapGoesUntold` (`Spec => []NoSilentGap`) and
`SentInOrder` (`Spec => InOrder`), by one invariant: what was sent, is unread, being read and on
the wire is in this order (`Ordered`), a feed that has no end in sight holds a receiver
(`Attached`), once the loss of a connection was noticed every feed it served is going to end
(`DownIsTold`), and the property itself.

`EventOutboxProofs` (from `EventOutboxAssumption`): `TypeCorrect`, `AtLeastOnce`
(`Spec => []DeliveredToAll`) and `AtMostOnceAnnounced` (`Spec => []AnnouncedOnce`), by one invariant: rows that open drains hold are undelivered and
disjoint (`Locked`), what a drain will mark, and of the row at hand the handlers already passed,
was accepted (`Taken`), and what a drain has yet to publish nobody else has or will: before its
commit it is untried and held, afterwards it is tried and in no other drain's hands (`Unannounced`).
`RepeatsArePaidFor` (`Spec => []RepeatsAreRetries`) counts on top of it, for each event and handler
(`Counted`): what it has taken, and what drains that go on without their connection may yet give it
(`Astray`, finitely many as drains are), is at most what has failed, and one more if the event is
delivered or in the hands of an open drain that is past that handler (`Kept`). A cut is a fault, and
pays for the drain that goes astray.

`RateLimitProofs` (from `RateLimitAssumption`):

- `GrantsArePaced`: `Spec => []Paced` if `TtlCovers`. The property is not inductive, as a bucket that is created
  anew is full again. The invariant `Paid` keeps account: what a live bucket has granted and still
  holds is covered by its burst and the time up to its last refill; what one that is not live has
  granted is covered by the time up to `Lag` ago, which every waiting call still has before it
  (`Recent`). A sweep moves a bucket from the first to the second (`StalePaid`, from
  `TtlCovers`), and a request that creates it again moves it back (`TakePays`).
- `BudgetHolds`: `Spec => []WithinBudget` if `SweptInTime`, by `BudgetInv`. A live bucket has a slot that
  does not age out before it is idle, or is idle already (`Covered`). Buckets charged within a time
  to live of each other held slots at once, so there are no more of them than distinct keys
  (`Windowed`); and no bucket was charged so long before the newest that it is in neither of two such
  groups, as a sweep would have dropped it (`Fresh`). Twice the number is the two groups.
- `TypeCorrect`: `Spec => []TypeOK`, and `CapHolds`: `Spec => [](TypeOK /\ WithinCap)`.
- `RefusalsLeaveNothing`: `Spec => RefusedLeavesNothing` if `MaxDistinct > 0`. With none, a key
  is charged to its scope's bucket and enters a scope that holds no slot.

Only model-checked: every liveness property (`ConvergesWhileRowsStay`, `Drains`, `Hears`, `Delivered`), since
fairness and `ENABLED` are outside what TLAPS proves.

## What the runs found

Each is a run that violates one property stating what a comment or document of the repository
says; `PROJECT.json` quotes it.

1. `sync_log_scopes`: positions order transactions by id, not by when they wrote, so for a
   client of two scopes the tombstone of the scope a row left can come after the upsert of the
   scope it joined, and the client loses a live row.
2. `sync_log_livelock`: only cursor zero is exempt from the horizon check. A resync of more than
   one page whose first page ends behind the horizon starts over for ever.
3. `backplane_gap`: a subscription opened after the listener has reported a lost connection and
   before it listens again is live at once, misses what other replicas commit until then, and is
   never told. `NoSilentGap`, which passes, is about the subscriptions that went live under a
   connection.

Other limits of the code that shaped the models, each stated where the model assumes it away: a
client TTL must exceed the mutation TTL by the skew and the longest wait for a lock; layers that
share a rate-limit store must agree on their configuration, and a scope may have twice its budget of
buckets between sweeps; two replicas may both run an event's handlers when a connection is lost; local mutators must not use `INSERT OR REPLACE`; and a host must have
its push answered before it pulls, as the documented one does (`PushFirst`). A host that does not
may have mutations cleared by an ack that `pushed_seq` has not reached; when the registration then
expires, `reset_registration`, which subtracts `pushed_seq`, leaves the rest numbered from above 1
(`client/recovery.rs` says from 1), the server answers every push with `sequence_gap`, and the
device retries for ever. `RenumberedWhenPushedFirst` proves the documented host safe. By the same movement
of entries as in 1, an ack can arrive before the rows it acknowledges, and a page can leave a client
with part of a transaction's rows, though `server/pull.rs` says it never applies half of one.
When the answer that reports a rejection is lost, the retry says `AlreadyApplied`, the ack clears the
mutation and the user never learns of it: `NothingForgotten` counts it as decided, and
`RejectedForGood` is about what the device lists. It lists as rejected, too, what was in flight when
its registration expired, whose fate it cannot know (`client/recovery.rs:43-46`): that may have been
applied, and a user who enters it again may have it twice. `RejectedForGood` only excludes that it
is applied later on. In `SyncRebase` likewise, `LocalIsRebased` and `UndoLogExact` are of mutators without
`INSERT OR REPLACE`, though `client/ddl.rs:3` is of any local mutator.

## What is not modelled

Of the sync engine: a change of a row's primary key within its scope; pokes and their streams (hosts
also pull on a timer, so a poke only makes a pull earlier; `PgListener::recv` reconnects without telling the streams); concurrent registrations
and their cap; authentication and the principal binding; size limits; a principal whose scopes
change; foreign keys and schema upgrades on the device; models a build does not know; wire formats.
The `hazards` with a `note` say where each would bite.

Of idempotency: requests without a key and operations that take no part, which bypass it; the
encoding of headers and bodies. Of events: procedure topics, the registry of handlers, which is
filled at start-up, read policies and filters; notifications that do not parse; processes without handlers; backplanes
other than Postgres's and the local one.
Of rate limiting: the Redis script, the derivation of keys in the layer and its policy for a store
that fails; a cap that is off.

Of the rest of the repository: the nonce stores, `cratestack-outbox`, MCP admission and the
transports are candidates of later work; the compiler, its generators, the SQL rendering,
migrations, codecs and the studio are left out for good: they keep no run-time state, and make up
most of the repository's lines, which is why the models map to a small share of them.

## Plan

1. An abstract specification of what the device promises its application, refined by `SyncRebase`.
2. The rate limiter's Redis script beside the in-memory store, with an abstract bucket both refine.
3. `SyncRegister` and `SyncPoke`: the cap under concurrent registrations, and NOTIFY against the
   gate with the worker's timer as the last resort; stream slots.
4. The nonce stores and `cratestack-outbox`.
5. A composition of `SyncLog` and `SyncRebase` for a device that pushes what it replays, if its
   state space allows.
