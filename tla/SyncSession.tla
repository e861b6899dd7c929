----------------------------- MODULE SyncSession -----------------------------
(***************************************************************************)
(* One device and the sync server: the queue of mutations the device made  *)
(* offline, registration and its time to live, and the push that replays   *)
(* the queue through calls that fail, are lost or arrive late.             *)
(*                                                                         *)
(* Modelled from client/flow.rs, client/recovery.rs, client/mod.rs and     *)
(* client/store.rs, server/push.rs, server/clients.rs, server/gc.rs and    *)
(* policy.rs. The host is the loop of the example's worker.js and of the   *)
(* engine's documentation; with PushFirst FALSE, any host. Rows are left   *)
(* to SyncLog: here a pull brings the device its ack and nothing else.     *)
(***************************************************************************)
EXTENDS Integers, FiniteSets

CONSTANTS
  MutationTtl, ClientTtl, Skew,  \* mutation_ttl, client_ttl, max_clock_skew
  LockWait,      \* bound: ticks a transaction waits for a lock after it began
  ClockError,    \* what the device's clock may be off by when it is read
  BatchLimit,    \* mutations the host puts in one push
  MaxPending,    \* max_pending_mutations
  MaxClients,    \* max_clients_per_principal
  PushFirst,     \* the host pulls only once it has pushed
  MaxMutation,   \* bound: mutations the device makes
  MaxClientId,   \* bound: registrations
  MaxClock,      \* bound: the server's clock
  MaxFaults      \* bound: lost calls and failed transactions

ASSUME PolicyAssumption ==
  /\ MutationTtl \in Nat \ {0}
  /\ ClientTtl \in Nat
  /\ ClientTtl > MutationTtl            \* SyncPolicy::validate
  /\ Skew \in Nat
  /\ LockWait \in Nat
  /\ ClockError \subseteq Int
  /\ BatchLimit \in Nat \ {0}
  /\ MaxPending \in Nat
  /\ MaxClients \in Nat \ {0}
  /\ PushFirst \in BOOLEAN
  /\ {MaxMutation, MaxClientId, MaxClock, MaxFaults} \subseteq Nat

VARIABLES
  \* The server: rows of cratestack_sync_clients, and the acks in the log.
  now, issued, registered, lastSeq, seenAt, ackLog,
  \* The device: cratestack_sync_meta, _pending and _rejected.
  clientId, nextSeq, pushedSeq, ackSeq, pending, rejected,
  \* The host: the phase of its round, the call it waits for and the answer,
  \* and a call it gave up on that may still arrive.
  phase, call, answer, late,
  \* Ghosts: mutations made, how often each was applied, which were refused.
  made, effects, refused,
  faults

serverVars == <<issued, registered, lastSeq, seenAt, ackLog, effects, refused>>
deviceVars == <<clientId, nextSeq, pushedSeq, ackSeq, pending, rejected>>
hostVars == <<phase, call, answer, late>>
vars == <<now, serverVars, deviceVars, hostVars, made, faults>>

-----------------------------------------------------------------------------

ClientId == 1 .. MaxClientId

\* A mutation is known by the order the device made it in.
Mutation == 1 .. MaxMutation

\* A queued mutation: its seq, and created_at by the device's clock.
Pending == [seq : Mutation, mutation : Mutation, at : Int]

\* Seqs count the mutations of one registration.
Seq == 0 .. MaxMutation

NoClient == 0

NoCall == [kind |-> "none"]

Register == [kind |-> "register"]

Push(id, batch) == [kind |-> "push", id |-> id, batch |-> batch]

Pull(id) == [kind |-> "pull", id |-> id]

Call == {NoCall, Register}
          \cup [kind : {"push"}, id : ClientId, batch : SUBSET Pending]
          \cup [kind : {"pull"}, id : ClientId]

NoAnswer == [kind |-> "none"]

\* Recovery::Retry: an infrastructure failure, a rate limit, a full cap.
Retry == [kind |-> "retry"]

ClientExpired == [kind |-> "client_expired"]

SequenceGap(last) == [kind |-> "sequence_gap", last |-> last]

Registered(id) == [kind |-> "registered", id |-> id]

\* last_mutation_seq, and the seqs this push rejected; any other seq of the
\* batch came back Applied or AlreadyApplied, which the device treats alike.
Pushed(last, rejects) ==
  [kind |-> "pushed", last |-> last, rejects |-> rejects]

Pulled(ack) == [kind |-> "pulled", ack |-> ack]

Answer == {NoAnswer, Retry, ClientExpired}
            \cup [kind : {"sequence_gap"}, last : Seq]
            \cup [kind : {"registered"}, id : ClientId]
            \cup [kind : {"pushed"}, last : Seq, rejects : SUBSET Seq]
            \cup [kind : {"pulled"}, ack : Seq]

-----------------------------------------------------------------------------
(* The server. Each operation below is one Postgres transaction, serialized *)
(* on the client row it locks; `a` is what it answers.                      *)

Failed == faults < MaxFaults /\ faults' = faults + 1

\* A transaction that fails is rolled back.
Fails(a) == Failed /\ a = Retry /\ UNCHANGED serverVars

\* last_seen_at is when the transaction began, before it waited for its lock. It is
\* set and judged by Postgres's clock, mutations by the application's: what one is
\* ahead of the other, always the same here, is in neither interval.
Seen(id) ==
  \E t \in 0 .. now : now - t <= LockWait /\ seenAt' = [seenAt EXCEPT ![id] = t]

\* SyncServer::register, counting under the advisory lock.
ServeRegister(a) ==
  \/ /\ Cardinality(registered) >= MaxClients
     /\ a = Retry
     /\ UNCHANGED <<serverVars, faults>>
  \/ /\ Cardinality(registered) < MaxClients
     /\ issued < MaxClientId
     /\ issued' = issued + 1
     /\ registered' = registered \cup {issued + 1}
     /\ Seen(issued + 1)
     /\ a = Registered(issued + 1)
     /\ UNCHANGED <<lastSeq, ackLog, effects, refused, faults>>
  \/ Fails(a)

\* Mutant of Screened: no mutation TTL.
PostDated(p) == p.at > now + Skew

\* SyncServer::screen: post-dated, or older than the mutation TTL.
Screened(p) == p.at > now + Skew \/ now - p.at > MutationTtl

Fresh(r) == {p \in r.batch : p.seq > lastSeq[r.id]}

\* check_contiguous: the fresh seqs continue from the last one consumed.
Contiguous(r) ==
  {p.seq : p \in Fresh(r)} = lastSeq[r.id] + 1 .. lastSeq[r.id]
                                                + Cardinality(Fresh(r))

\* Mutant of Consumed: a rejection does not consume its seq.
ConsumedIfApplied(r, rejects) ==
  lastSeq[r.id] + Cardinality(Fresh(r) \ rejects)

\* next_seq after the batch: applied or rejected, each takes its seq.
Consumed(r, rejects) == lastSeq[r.id] + Cardinality(Fresh(r))

\* Each fresh mutation in its savepoint; handlers reject the ones in `no`.
Replay(r, no, a) ==
  LET rejects == {p \in Fresh(r) : Screened(p) \/ p \in no}
      applied == {p.mutation : p \in Fresh(r) \ rejects}
      last == Consumed(r, rejects)
  IN  /\ effects' = [m \in Mutation |->
                       IF m \in applied THEN effects[m] + 1 ELSE effects[m]]
      /\ refused' = refused \cup {p.mutation : p \in rejects}
      /\ lastSeq' = [lastSeq EXCEPT ![r.id] = last]
      /\ ackLog' = IF Fresh(r) = {} THEN ackLog
                   ELSE [ackLog EXCEPT ![r.id] = last]
      /\ a = Pushed(last, {p.seq : p \in rejects})

\* SyncServer::push. An error rolls back authorize's refresh of last_seen_at
\* with the rest of the transaction.
ServePush(r, a) ==
  \/ /\ r.id \notin registered
     /\ a = ClientExpired
     /\ UNCHANGED <<serverVars, faults>>
  \/ /\ r.id \in registered
     /\ ~ Contiguous(r)
     /\ a = SequenceGap(lastSeq[r.id])
     /\ UNCHANGED <<serverVars, faults>>
  \/ /\ r.id \in registered
     /\ Contiguous(r)
     /\ \E no \in SUBSET Fresh(r) : Replay(r, no, a)
     /\ Seen(r.id)
     /\ UNCHANGED <<issued, registered, faults>>
  \/ Fails(a)                                    \* or MutationError::Fatal

\* SyncServer::pull. The page brings the client's ack, unless the gate or the
\* page limit still holds it back.
ServePull(r, a) ==
  \/ /\ r.id \notin registered
     /\ a = ClientExpired
     /\ UNCHANGED <<serverVars, faults>>
  \/ /\ r.id \in registered
     /\ a \in {Pulled(ackLog[r.id]), Pulled(0)}
     /\ Seen(r.id)
     /\ UNCHANGED <<issued, registered, lastSeq, ackLog, effects, refused,
                    faults>>
  \/ Fails(a)

Handle(r, a) ==
  \/ r.kind = "register" /\ ServeRegister(a)
  \/ r.kind = "push" /\ ServePush(r, a)
  \/ r.kind = "pull" /\ ServePull(r, a)

\* The server handles the call the host waits for.
Serve ==
  /\ answer = NoAnswer
  /\ Handle(call, answer')
  /\ UNCHANGED <<now, deviceVars, phase, call, late, made>>

\* It handles, or never gets, a call the host gave up on: nobody reads the
\* answer.
ServeLate ==
  /\ late # NoCall
  /\ \E a \in Answer : Handle(late, a)
  /\ late' = NoCall
  /\ UNCHANGED <<now, deviceVars, phase, call, answer, made>>

LoseLate ==
  /\ late # NoCall
  /\ late' = NoCall
  /\ UNCHANGED <<now, serverVars, deviceVars, phase, call, answer, made,
                 faults>>

\* EVICT_CLIENTS, with the acks of the clients it evicts.
Idle == {id \in registered : now - seenAt[id] > ClientTtl}

Evict ==
  /\ Idle # {}
  /\ registered' = registered \ Idle
  /\ ackLog' = [id \in ClientId |-> IF id \in Idle THEN 0 ELSE ackLog[id]]
  /\ UNCHANGED <<now, issued, lastSeq, seenAt, effects, refused, deviceVars,
                 hostVars, made, faults>>

Tick ==
  /\ now < MaxClock
  /\ now' = now + 1
  /\ UNCHANGED <<serverVars, deviceVars, hostVars, made, faults>>

-----------------------------------------------------------------------------
(* The device. *)

\* SyncEngine::mutate; an INSERT of a seq already queued fails.
Mutate ==
  /\ made < MaxMutation
  /\ Cardinality(pending) < MaxPending
  /\ \A p \in pending : p.seq # nextSeq
  /\ \E e \in ClockError :
       pending' = pending \cup {[seq |-> nextSeq, mutation |-> made + 1,
                                 at |-> now + e]}
  /\ nextSeq' = nextSeq + 1
  /\ made' = made + 1
  /\ UNCHANGED <<now, serverVars, clientId, pushedSeq, ackSeq, rejected,
                 hostVars, faults>>

Unsent == {p \in pending : p.seq > pushedSeq}

\* push_request: the first BatchLimit unsent mutations.
Batch ==
  {p \in Unsent : Cardinality({q \in Unsent : q.seq < p.seq}) < BatchLimit}

Send(r) ==
  /\ call = NoCall
  /\ call' = r
  /\ UNCHANGED <<now, serverVars, deviceVars, answer, late, made, faults>>

SendRegister ==
  /\ clientId = NoClient
  /\ Send(Register)
  /\ UNCHANGED phase

SendPush ==
  /\ clientId # NoClient
  /\ PushFirst => phase = "push"
  /\ Unsent # {}
  /\ Send(Push(clientId, Batch))
  /\ UNCHANGED phase

\* Mutant of PullDue: the host pulls before it has pushed.
PullAnyTime == TRUE

\* The host's round has come to its pulls.
PullDue == PushFirst => phase = "pull" \/ Unsent = {}

SendPull ==
  /\ clientId # NoClient
  /\ PullDue
  /\ Send(Pull(clientId))
  /\ phase' = "pull"

\* The host sees a network error and ends its round. The call may have been
\* handled, may still be, or may never arrive.
GiveUp ==
  /\ call # NoCall
  /\ Failed
  /\ late' = IF answer = NoAnswer THEN call ELSE late
  /\ call' = NoCall
  /\ answer' = NoAnswer
  /\ phase' = "push"
  /\ UNCHANGED <<now, serverVars, deviceVars, made>>

\* The host reads an answer, and its round goes on at `next`.
Receive(next) ==
  /\ call' = NoCall
  /\ answer' = NoAnswer
  /\ phase' = next
  /\ UNCHANGED <<now, serverVars, late, made, faults>>

ApplyRegister ==
  /\ answer.kind = "registered"
  /\ clientId' = answer.id
  /\ pushedSeq' = 0
  /\ ackSeq' = 0
  /\ Receive("push")
  /\ UNCHANGED <<nextSeq, pending, rejected>>

\* store::reject for every p of S.
Reject(S) ==
  /\ pending' = pending \ S
  /\ rejected' = rejected \cup {p.mutation : p \in S}

\* Mutant of PushedUpTo: PUSHED_SEQ stays.
NotPushed(last) == pushedSeq

PushedUpTo(last) == IF last > pushedSeq THEN last ELSE pushedSeq

\* apply_push; the host then pushes the next batch or goes on to pull.
ApplyPush ==
  /\ answer.kind = "pushed"
  /\ Reject({p \in pending : p.seq \in answer.rejects})
  /\ pushedSeq' = PushedUpTo(answer.last)
  /\ \E next \in {"push", "pull"} : Receive(next)
  /\ UNCHANGED <<clientId, nextSeq, ackSeq>>

\* apply_pull; the host pulls again while the server has more.
ApplyPull ==
  LET ack == IF answer.ack > ackSeq THEN answer.ack ELSE ackSeq
  IN  /\ answer.kind = "pulled"
      /\ pending' = {p \in pending : p.seq > ack}
      /\ ackSeq' = ack
      /\ \E next \in {"push", "pull"} : Receive(next)
      /\ UNCHANGED <<clientId, nextSeq, pushedSeq, rejected>>

\* Mutant of Renumbered: the numbers of the old registration.
NotRenumbered == Unsent

\* Mutant of Renumbered: the queue goes with the registration.
QueueDropped == {}

\* Mutant of Renumbered: off by one.
RenumberedFromZero == {[p EXCEPT !.seq = @ - pushedSeq - 1] : p \in Unsent}

\* reset_registration: surface what was consumed and never acknowledged, and
\* renumber the rest for the next registration.
Renumbered == {[p EXCEPT !.seq = @ - pushedSeq] : p \in Unsent}

ResetRegistration ==
  /\ pending' = Renumbered
  /\ rejected' = rejected \cup {p.mutation : p \in pending \ Unsent}
  /\ nextSeq' = Cardinality(Unsent) + 1
  /\ clientId' = NoClient
  /\ pushedSeq' = 0
  /\ ackSeq' = 0

\* SyncEngine::recover. worker.js starts its round again.
Recover ==
  /\ \/ /\ answer.kind = "client_expired"
        /\ ResetRegistration
     \/ /\ answer.kind = "sequence_gap"
        /\ pushedSeq' = answer.last
        /\ UNCHANGED <<clientId, nextSeq, ackSeq, pending, rejected>>
     \/ /\ answer.kind = "retry"
        /\ UNCHANGED deviceVars
  /\ Receive("push")

-----------------------------------------------------------------------------

Init ==
  /\ now = 0 /\ issued = 0 /\ registered = {}
  /\ lastSeq = [id \in ClientId |-> 0]
  /\ seenAt = [id \in ClientId |-> 0]
  /\ ackLog = [id \in ClientId |-> 0]
  /\ clientId = NoClient /\ nextSeq = 1 /\ pushedSeq = 0 /\ ackSeq = 0
  /\ pending = {} /\ rejected = {}
  /\ phase = "push" /\ call = NoCall /\ answer = NoAnswer /\ late = NoCall
  /\ made = 0 /\ effects = [m \in Mutation |-> 0] /\ refused = {}
  /\ faults = 0

Next ==
  \/ Serve \/ ServeLate \/ LoseLate \/ Evict \/ Tick
  \/ Mutate
  \/ SendRegister \/ SendPush \/ SendPull \/ GiveUp
  \/ ApplyRegister \/ ApplyPush \/ ApplyPull \/ Recover

Spec == Init /\ [][Next]_vars

-----------------------------------------------------------------------------
(* Properties. *)

\* Every variable holds a value of its type.
TypeOK ==
  /\ now \in 0 .. MaxClock /\ issued \in 0 .. MaxClientId
  /\ registered \subseteq 1 .. issued
  /\ lastSeq \in [ClientId -> Seq]
  /\ seenAt \in [ClientId -> 0 .. MaxClock]
  /\ ackLog \in [ClientId -> Seq]
  /\ clientId \in ClientId \cup {NoClient}
  /\ nextSeq \in 1 .. MaxMutation + 1 /\ pushedSeq \in Seq /\ ackSeq \in Seq
  /\ pending \subseteq Pending
  /\ rejected \subseteq Mutation
  /\ phase \in {"push", "pull"}
  /\ call \in Call /\ late \in Call /\ answer \in Answer
  /\ made \in 0 .. MaxMutation
  /\ effects \in [Mutation -> Nat] /\ refused \subseteq Mutation
  /\ faults \in 0 .. MaxFaults

\* No mutation is applied twice: not by a retry after a lost answer, not by a
\* late call, not by the same mutation pushed again under a new registration
\* (policy.rs on client_ttl; server/push.rs on retries).
AppliedOnce == \A m \in Mutation : effects[m] <= 1

\* A mutation the device has surfaced as rejected is never applied afterwards.
\* It may have been before: what reset_registration surfaces was consumed with
\* its fate unknown, so entering that again may make it happen twice
\* (client/recovery.rs on reset_registration).
RejectedForGood ==
  [][\A m \in rejected : effects'[m] = effects[m]]_vars

Decided(m) == effects[m] > 0 \/ m \in refused

\* A mutation leaves the device's queue only after the server decided it, or
\* to the rejected list the user sees. A rejection whose answer is lost leaves it
\* decided, by the ack of a later pull, without the user being told.
NothingForgotten ==
  \A m \in 1 .. made : \/ \E p \in pending : p.mutation = m
                       \/ m \in rejected
                       \/ Decided(m)

\* What is still to be pushed is numbered from pushed_seq + 1 with no gap, in
\* the order it was made; after an eviction, from 1 (client/recovery.rs).
UnsentContiguous ==
  /\ {p.seq : p \in Unsent} = pushedSeq + 1 .. nextSeq - 1
  /\ \A p, q \in pending : p.seq < q.seq <=> p.mutation < q.mutation

\* A registered device and the server agree on what was consumed, up to one
\* push whose answer is not in yet; so a push of this host never gaps.
SeqsAligned ==
  clientId \in registered =>
    /\ pushedSeq <= lastSeq[clientId]
    /\ lastSeq[clientId] < nextSeq
    /\ ackSeq <= pushedSeq

\* Every queued mutation eventually leaves the queue.
Drains ==
  \A m \in Mutation :
    (\E p \in pending : p.mutation = m) ~> ~ (\E p \in pending : p.mutation = m)

\* A pull that finds the ack past the gate, and a page that is the last.
ServeAck ==
  Serve /\ call.kind = "pull" /\ answer' = Pulled(ackLog[call.id])

ApplyLastPage == ApplyPull /\ phase' = "push"

\* The host's loop runs (worker.js: every 30 s, on every poke, and 250 ms
\* after an error), the server answers, GC runs, and neither the gate nor a
\* further page holds back for ever a client that keeps pulling.
Fairness ==
  /\ WF_vars(Serve)
  /\ WF_vars(SendRegister) /\ WF_vars(SendPush) /\ WF_vars(SendPull)
  /\ WF_vars(ApplyRegister) /\ WF_vars(ApplyPush) /\ WF_vars(ApplyPull)
  /\ WF_vars(Recover)
  /\ WF_vars(Evict)
  /\ WF_vars(Tick)
  /\ SF_vars(ServeAck)
  /\ SF_vars(ApplyLastPage)

FairSpec == Spec /\ Fairness
=============================================================================
