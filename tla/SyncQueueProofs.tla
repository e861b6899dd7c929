--------------------------- MODULE SyncQueueProofs ---------------------------
(***************************************************************************)
(* Proofs about the seqs of a device's queue. For any host: no mutation    *)
(* leaves the queue before the server has decided it or the user is told   *)
(* of it. For the host that pushes first: what is unsent is numbered with  *)
(* no gap, from 1 after a lost registration, and the device and the server *)
(* agree on what was consumed.                                             *)
(***************************************************************************)
EXTENDS SyncSessionProofs

-----------------------------------------------------------------------------
(* What the device takes to be consumed. *)

\* The last seq the server consumed of this registration.
Last == lastSeq[clientId]

\* A client's ack is of what it consumed, and a new client consumed nothing.
Rows ==
  /\ \A id \in ClientId : ackLog[id] <= lastSeq[id]
  /\ \A id \in ClientId : id > issued => lastSeq[id] = 0
  /\ answer.kind = "registered" => lastSeq[answer.id] = 0

\* The device's counters, and the answer it will take them from, lag behind
\* what the server consumed, which lags behind what the device numbered.
Consumption ==
  IF clientId = NoClient
    THEN /\ pushedSeq = 0 /\ ackSeq = 0
         /\ answer.kind \notin {"pushed", "sequence_gap", "pulled"}
    ELSE /\ pushedSeq <= Last /\ ackSeq <= Last /\ Last < nextSeq
         /\ answer.kind \in {"pushed", "sequence_gap"} => answer.last <= Last
         /\ answer.kind = "sequence_gap" => pushedSeq <= answer.last
         /\ answer.kind = "pushed" =>
              \A s \in answer.rejects : s <= answer.last
         /\ answer.kind = "pulled" => answer.ack <= Last

\* The last seq the device need not send.
Low == IF pushedSeq > ackSeq THEN pushedSeq ELSE ackSeq

\* The unsent mutations are numbered from there on with no gap.
Regular ==
  /\ {p.seq : p \in Unsent} = Low + 1 .. nextSeq - 1
  /\ \A p \in Known : p.seq < nextSeq
  /\ Low < nextSeq

\* A host that pulled before it pushed can lose its registration while it has
\* an ack above pushed_seq. The queue is then renumbered from too high, and
\* the server takes none of it: nothing is pushed, but nothing is lost.
Stuck ==
  /\ pushedSeq = 0 /\ ackSeq = 0 /\ nextSeq >= 2
  /\ clientId # NoClient => Last = 0
  /\ \A p \in pending : p.seq >= 2
  /\ Flying(call) \cup Flying(late) \subseteq pending

\* For a host that has not pulled ahead of its pushes it stays so.
StaysRegular == Regular /\ ackSeq <= pushedSeq => Regular'

OneSeq == \A p, q \in Known : p.seq = q.seq => p = q

\* What the server consumed of the queue, it decided.
Settled ==
  \A p \in pending :
    clientId # NoClient /\ p.seq <= Last => Decided(p.mutation)

QueueInv ==
  /\ Rows /\ Consumption /\ (Regular \/ Stuck)
  /\ OneSeq /\ Settled /\ NothingForgotten

\* The numbers these compare.
LEMMA QueueTypes ==
  ASSUME SessionInv
  PROVE  /\ TypeOK /\ Calls /\ OneCopy /\ Finite /\ Counted
         /\ pushedSeq \in Int /\ ackSeq \in Int /\ nextSeq \in Int
         /\ 0 <= pushedSeq /\ 0 <= ackSeq /\ 1 <= nextSeq
         /\ issued \in Int /\ made \in Int /\ clientId \in Int
         /\ \A id \in ClientId : /\ id \in Int /\ id # NoClient
                                 /\ lastSeq[id] \in Int /\ 0 <= lastSeq[id]
                                 /\ ackLog[id] \in Int
         /\ clientId # NoClient => clientId \in ClientId
         /\ \A p \in Known : /\ p.seq \in Int /\ 1 <= p.seq
                             /\ p.mutation \in Mutation /\ p.mutation \in Int
         /\ Unsent \subseteq pending /\ pending \subseteq Known
         /\ Flying(call) \subseteq Known /\ Flying(late) \subseteq Known
<1> USE PolicyAssumption
<1>1. TypeOK /\ Calls /\ OneCopy /\ Finite /\ Counted
  BY DEF SessionInv, TypeInv
<1>2. \A p \in Known : /\ p.seq \in Int /\ 1 <= p.seq
                       /\ p.mutation \in Mutation /\ p.mutation \in Int
  BY <1>1, KnownType DEF Pending, Mutation
<1>3. \A id \in ClientId : /\ id \in Int /\ id # NoClient
                           /\ lastSeq[id] \in Int /\ 0 <= lastSeq[id]
                           /\ ackLog[id] \in Int
  BY <1>1 DEF TypeOK, Seq, ClientId, NoClient
<1>4. /\ pushedSeq \in Int /\ ackSeq \in Int /\ nextSeq \in Int
      /\ 0 <= pushedSeq /\ 0 <= ackSeq /\ 1 <= nextSeq
      /\ issued \in Int /\ made \in Int /\ clientId \in Int
      /\ clientId # NoClient => clientId \in ClientId
  BY <1>1 DEF TypeOK, Seq, ClientId, NoClient
<1>5. QED
  BY <1>1, <1>2, <1>3, <1>4 DEF Unsent, Known

LEMMA AnswerNumbers ==
  ASSUME TypeOK
  PROVE  /\ answer.kind \in {"pushed", "sequence_gap"} => answer.last \in Int
         /\ answer.kind = "pushed" => \A s \in answer.rejects : s \in Int
         /\ answer.kind = "pulled" => answer.ack \in Int /\ answer.ack >= 0
         /\ answer.kind = "registered" => answer.id \in ClientId
BY AnswerKinds, PolicyAssumption DEF TypeOK, Seq

LEMMA AnswerFields ==
  /\ \A s : SequenceGap(s).last = s /\ Pulled(s).ack = s
  /\ \A s, S : Pushed(s, S).last = s
BY DEF SequenceGap, Pulled, Pushed

-----------------------------------------------------------------------------
(* What the server does with a call. *)

\* Handling a call decides a mutation for every seq it consumes, and forgets
\* no decision.
Decides(r) ==
  /\ \A m \in Mutation : Decided(m) => Decided(m)'
  /\ \A id \in ClientId :
       /\ lastSeq'[id] \in Int /\ lastSeq[id] <= lastSeq'[id]
       /\ lastSeq'[id] # lastSeq[id] =>
            r.kind = "push" /\ r.id = id /\ id \in registered
       /\ \A s \in lastSeq[id] + 1 .. lastSeq'[id] :
            \E q \in r.batch : q.seq = s /\ Decided(q.mutation)'

\* It leaves the rows as they should be.
RowsAfter(a) ==
  /\ \A id \in ClientId : ackLog'[id] <= lastSeq'[id]
  /\ \A id \in ClientId : id > issued' => lastSeq'[id] = 0
  /\ a.kind = "registered" => lastSeq'[a.id] = 0

\* And its answer tells how far it consumed.
Tells(r, a) ==
  /\ a.kind = "pushed" =>
       /\ r.kind = "push" /\ r.id \in registered /\ a.last = lastSeq'[r.id]
       /\ \A s \in a.rejects : s <= a.last
       /\ \A p \in r.batch : p.seq <= a.last
  /\ a.kind = "sequence_gap" =>
       /\ r.kind = "push" /\ r.id \in registered
       /\ a.last = lastSeq[r.id] /\ lastSeq' = lastSeq
  /\ a.kind = "pulled" =>
       r.kind = "pull" /\ r.id \in registered /\ a.ack <= ackLog[r.id]

\* A push that is replayed.
LEMMA ReplayDecides ==
  ASSUME SessionInv, Rows, NEW r \in {call, late}, NEW a, r.kind = "push",
         r.id \in registered, Contiguous(r),
         NEW no \in SUBSET Fresh(r), Replay(r, no, a), UNCHANGED issued
  PROVE  Decides(r) /\ RowsAfter(a) /\ Tells(r, a)
<1> DEFINE rejects == {p \in Fresh(r) : Screened(p) \/ p \in no}
           applied == {p.mutation : p \in Fresh(r) \ rejects}
           n == Cardinality(Fresh(r))
           last == lastSeq[r.id] + n
<1>0. /\ r \in Call /\ IsFiniteSet(r.batch) /\ TypeOK
      /\ r.id \in ClientId /\ r.batch \subseteq Pending
  BY QueueTypes, CallKinds DEF TypeOK, Finite
<1>1. /\ effects' = [m \in Mutation |-> IF m \in applied THEN effects[m] + 1
                                                       ELSE effects[m]]
      /\ refused' = refused \cup {p.mutation : p \in rejects}
      /\ lastSeq' = [lastSeq EXCEPT ![r.id] = last]
      /\ \/ ackLog' = ackLog
         \/ ackLog' = [ackLog EXCEPT ![r.id] = last]
      /\ a = Pushed(last, {p.seq : p \in rejects})
  BY DEF Replay, Consumed
<1>2. {p.seq : p \in Fresh(r)} = lastSeq[r.id] + 1 .. last
  BY DEF Contiguous
<1>3. /\ lastSeq[r.id] <= last /\ last \in Int
      /\ \A p \in Fresh(r) : p.seq <= last
  BY <1>0, ConsumedBound, PolicyAssumption DEF Consumed, Seq
<1>4. /\ \A p \in r.batch : p.seq \in Int /\ p.mutation \in Mutation
      /\ \A p \in r.batch \ Fresh(r) : p.seq <= lastSeq[r.id]
      /\ Fresh(r) \subseteq r.batch
  <2>1. \A p \in r.batch : p.seq \in Int /\ p.mutation \in Mutation
    BY <1>0 DEF Pending, Mutation
  <2>2. lastSeq[r.id] \in Int
    BY <1>0, QueueTypes
  <2>3. QED
    BY <2>1, <2>2 DEF Fresh
<1>5. \A p \in r.batch : p.seq <= last
  <2>1. lastSeq[r.id] \in Int
    BY <1>0, QueueTypes
  <2>2. QED
    BY <1>3, <1>4, <2>1
<1>6. /\ effects \in [Mutation -> Nat]
      /\ \A m \in Mutation : effects[m] \in Nat
  BY <1>0 DEF TypeOK
<1>7. \A m \in Mutation : Decided(m) => Decided(m)'
  BY <1>1, <1>6 DEF Decided
<1>8. \A q \in Fresh(r) : Decided(q.mutation)'
  <2> SUFFICES ASSUME NEW q \in Fresh(r) PROVE Decided(q.mutation)'
    OBVIOUS
  <2>1. q.mutation \in Mutation
    BY <1>4
  <2>2. CASE q \in rejects
    BY <1>1, <2>2 DEF Decided
  <2>3. CASE q \notin rejects
    <3>1. q.mutation \in applied
      BY <2>3
    <3> HIDE DEF applied
    <3>2. effects'[q.mutation] = effects[q.mutation] + 1
      BY <1>1, <2>1, <3>1
    <3>3. QED
      BY <1>6, <2>1, <3>2 DEF Decided
  <2>4. QED
    BY <2>2, <2>3
<1> HIDE DEF rejects, applied, n, last
<1>9. \A id \in ClientId : lastSeq'[id] = IF id = r.id THEN last ELSE lastSeq[id]
  BY <1>0, <1>1 DEF TypeOK
<1>10. \A s \in lastSeq[r.id] + 1 .. last :
         \E q \in r.batch : q.seq = s /\ Decided(q.mutation)'
  <2> SUFFICES ASSUME NEW s \in lastSeq[r.id] + 1 .. last
               PROVE  \E q \in r.batch : q.seq = s /\ Decided(q.mutation)'
    OBVIOUS
  <2>1. PICK q \in Fresh(r) : q.seq = s
    BY <1>2
  <2>2. QED
    BY <1>4, <1>8, <2>1
<1>11. Decides(r)
  <2>1. ASSUME NEW id \in ClientId
        PROVE  /\ lastSeq'[id] \in Int /\ lastSeq[id] <= lastSeq'[id]
               /\ lastSeq'[id] # lastSeq[id] => r.id = id
               /\ \A s \in lastSeq[id] + 1 .. lastSeq'[id] :
                    \E q \in r.batch : q.seq = s /\ Decided(q.mutation)'
    <3>1. CASE id = r.id
      BY <1>3, <1>9, <1>10, <3>1
    <3>2. CASE id # r.id
      BY <1>9, <3>2, QueueTypes
    <3>3. QED
      BY <3>1, <3>2
  <2>2. QED
    BY <1>7, <2>1 DEF Decides
<1>12. \A id \in ClientId : ackLog'[id] <= lastSeq'[id]
  BY <1>0, <1>1, <1>3, <1>9, QueueTypes DEF Rows, TypeOK
<1>13. r.id <= issued
  BY <1>0, QueueTypes DEF TypeOK
<1>14. RowsAfter(a)
  <2>1. a.kind = "pushed"
    BY <1>1, AnswerContents
  <2>2. \A id \in ClientId : id > issued' => lastSeq'[id] = 0
    BY <1>9, <1>13, QueueTypes DEF Rows
  <2>3. QED
    BY <1>12, <2>1, <2>2 DEF RowsAfter
<1>15. Tells(r, a)
  <2>1. /\ a.kind = "pushed" /\ a.last = last
        /\ a.rejects = {p.seq : p \in rejects}
    BY <1>1, AnswerContents, AnswerFields
  <2>2. \A p \in rejects : p.seq <= last
    BY <1>3 DEF rejects
  <2>3. QED
    BY <1>0, <1>5, <1>9, <2>1, <2>2 DEF Tells
<1>16. QED
  BY <1>11, <1>14, <1>15

\* Any call.
LEMMA HandleDecides ==
  ASSUME SessionInv, Rows, NEW r \in {call, late}, NEW a, Handle(r, a)
  PROVE  Decides(r) /\ RowsAfter(a) /\ Tells(r, a)
<1>0. r \in Call /\ TypeOK
  BY QueueTypes DEF TypeOK
<1>1. ASSUME UNCHANGED <<lastSeq, effects, refused>> PROVE Decides(r)
  BY <1>1, QueueTypes DEF Decides, Decided
<1>2. ASSUME UNCHANGED <<issued, lastSeq, ackLog>>, a.kind # "registered"
      PROVE  RowsAfter(a)
  BY <1>2 DEF Rows, RowsAfter
<1>f. CASE Fails(a)
  <2>1. UNCHANGED serverVars /\ a = Retry
    BY <1>f DEF Fails
  <2>2. QED
    BY <1>1, <1>2, <2>1, AnswerContents DEF serverVars, Tells
<1>3. CASE r.kind = "register" /\ ServeRegister(a)
  <2>1. CASE UNCHANGED serverVars /\ a = Retry
    BY <1>1, <1>2, <2>1, AnswerContents DEF serverVars, Tells
  <2>2. CASE /\ issued < MaxClientId /\ issued' = issued + 1
             /\ a = Registered(issued + 1)
             /\ UNCHANGED <<lastSeq, ackLog, effects, refused>>
    <3>1. issued + 1 \in ClientId
      BY <1>0, <2>2, PolicyAssumption DEF TypeOK, ClientId
    <3>2. a.kind = "registered" /\ a.id = issued + 1
      BY <2>2, AnswerContents
    <3>3. RowsAfter(a)
      BY <2>2, <3>1, <3>2, QueueTypes DEF Rows, RowsAfter
    <3>4. QED
      BY <1>1, <2>2, <3>2, <3>3 DEF Tells
  <2>3. QED
    BY <1>3, <1>f, <2>1, <2>2 DEF ServeRegister
<1>4. CASE r.kind = "push" /\ ServePush(r, a)
  <2>1. CASE UNCHANGED serverVars /\ a \in {ClientExpired, Retry}
    BY <1>1, <1>2, <2>1, AnswerContents DEF serverVars, Tells
  <2>2. CASE /\ r.id \in registered /\ UNCHANGED serverVars
             /\ a = SequenceGap(lastSeq[r.id])
    <3>1. a.kind = "sequence_gap" /\ a.last = lastSeq[r.id]
      BY <2>2, AnswerContents, AnswerFields
    <3>2. QED
      BY <1>1, <1>2, <1>4, <2>2, <3>1 DEF serverVars, Tells
  <2>3. QED
    BY <1>4, <1>f, <2>1, <2>2, ReplayDecides DEF ServePush
<1>5. CASE r.kind = "pull" /\ ServePull(r, a)
  <2>1. CASE UNCHANGED serverVars /\ a = ClientExpired
    BY <1>1, <1>2, <2>1, AnswerContents DEF serverVars, Tells
  <2>2. CASE /\ r.id \in registered /\ a \in {Pulled(ackLog[r.id]), Pulled(0)}
             /\ UNCHANGED <<issued, lastSeq, ackLog, effects, refused>>
    <3>1. a.kind = "pulled" /\ a.ack \in {ackLog[r.id], 0}
      BY <2>2, AnswerContents, AnswerFields
    <3>2. ackLog[r.id] \in Nat
      BY <1>0, <1>5, CallKinds, PolicyAssumption DEF TypeOK, Seq
    <3>3. QED
      BY <1>1, <1>2, <1>5, <2>2, <3>1, <3>2 DEF Tells
  <2>3. QED
    BY <1>5, <1>f, <2>1, <2>2 DEF ServePull
<1>6. QED
  BY <1>3, <1>4, <1>5 DEF Handle
\* Handling a call of the device moves its seqs forward, over mutations that
\* are queued or in flight, and decides those.
LEMMA HandledQueue ==
  ASSUME SessionInv, QueueInv, NEW r \in {call, late}, NEW a, Handle(r, a),
         OnlyTakes,
         UNCHANGED <<clientId, nextSeq, pushedSeq, ackSeq, rejected, made>>
  PROVE  /\ clientId # NoClient => /\ Last' \in Int /\ Last <= Last'
                                   /\ Last' < nextSeq
         /\ Regular' \/ Stuck'
         /\ Regular => Regular'
         /\ OneSeq' /\ Settled' /\ NothingForgotten'
<1> USE DEF Last
<1>1. /\ Decides(r) /\ Known' \subseteq Known /\ pending' = pending
      /\ Calls /\ (r = call \/ r = late)
  BY HandleDecides, QueueTypes DEF QueueInv, OnlyTakes, Known
<1>2. ASSUME clientId # NoClient, NEW s \in Last + 1 .. Last'
      PROVE  \E q \in Flying(r) : q.seq = s /\ Decided(q.mutation)'
  <2>1. clientId \in ClientId /\ Last \in Int /\ Last' \in Int
    BY <1>1, <1>2, QueueTypes DEF Decides
  <2>2. r.kind = "push" /\ r.id \in registered
    BY <1>1, <1>2, <2>1 DEF Decides
  <2>3. QED
    BY <1>1, <1>2, <2>1, <2>2 DEF Decides, Flying
<1>3. clientId # NoClient => Last \in Int /\ Last' \in Int /\ Last <= Last'
  BY <1>1, QueueTypes DEF Decides
<1>4. ASSUME clientId # NoClient, Last' # Last
      PROVE  Regular /\ Last' < nextSeq
  <2>1. PICK q \in Flying(r) : q.seq = Last'
    BY <1>2, <1>3, <1>4
  <2>2. PICK q1 \in Flying(r) : q1.seq = Last + 1
    BY <1>2, <1>3, <1>4
  <2>3. ~ Stuck
    BY <1>1, <1>3, <1>4, <2>2 DEF Stuck
  <2>4. QED
    BY <1>1, <2>1, <2>3, QueueTypes DEF QueueInv, Regular
<1>5. clientId # NoClient => Last' < nextSeq
  BY <1>4 DEF QueueInv, Consumption
<1>6. (Regular' \/ Stuck') /\ (Regular => Regular')
  <2>1. Regular => Regular'
    BY <1>1 DEF Regular, Low, Unsent
  <2>2. ASSUME Stuck PROVE Regular' \/ Stuck'
    <3>1. clientId # NoClient => Last' = 0 \/ Regular
      BY <1>4, <2>2 DEF Stuck
    <3>2. CASE clientId # NoClient => Last' = 0
      BY <1>1, <2>2, <3>2 DEF Stuck, OnlyTakes
    <3>3. QED
      BY <2>1, <3>1, <3>2
  <2>3. QED
    BY <2>1, <2>2 DEF QueueInv
<1>7. OneSeq'
  BY <1>1 DEF QueueInv, OneSeq
<1>8. Settled'
  <2> SUFFICES ASSUME NEW p \in pending, clientId # NoClient, p.seq <= Last'
               PROVE  Decided(p.mutation)'
    BY <1>1 DEF Settled
  <2>1. p \in Known /\ p.seq \in Int /\ p.mutation \in Mutation
    BY QueueTypes
  <2>2. CASE p.seq <= Last
    BY <1>1, <2>1, <2>2 DEF QueueInv, Settled, Decides
  <2>3. CASE ~ (p.seq <= Last)
    <3>1. PICK q \in Flying(r) : q.seq = p.seq /\ Decided(q.mutation)'
      BY <1>2, <1>3, <2>1, <2>3
    <3>2. q = p
      BY <1>1, <2>1, <3>1, QueueTypes DEF QueueInv, OneSeq
    <3>3. QED
      BY <3>1, <3>2
  <2>4. QED
    BY <2>2, <2>3
<1>9. NothingForgotten'
  <2>1. \A m \in 1 .. made : m \in Mutation
    BY QueueTypes, PolicyAssumption DEF TypeOK, Mutation
  <2>2. QED
    BY <1>1, <2>1 DEF QueueInv, NothingForgotten, Decides
<1>10. QED
  BY <1>3, <1>5, <1>6, <1>7, <1>8, <1>9

\* The server's steps keep the queue in order.
LEMMA ServerQueue ==
  ASSUME SessionInv, QueueInv, Serve \/ ServeLate \/ LoseLate \/ Evict \/ Tick
  PROVE  QueueInv' /\ StaysRegular
<1> USE DEF Last
<1>0. /\ OnlyTakes /\ Known' \subseteq Known
      /\ UNCHANGED <<clientId, nextSeq, pushedSeq, ackSeq, pending, rejected,
                     made>>
  BY ServerSession
     DEF OnlyTakes, Known, Serve, ServeLate, LoseLate, Evict, Tick, deviceVars
<1>1. CASE Serve
  <2>1. Handle(call, answer') /\ answer = NoAnswer
    BY <1>1 DEF Serve
  <2>2. /\ clientId # NoClient => /\ Last' \in Int /\ Last <= Last'
                                  /\ Last' < nextSeq
        /\ Regular' \/ Stuck'
        /\ Regular => Regular'
        /\ OneSeq' /\ Settled' /\ NothingForgotten'
    BY <1>0, <2>1, HandledQueue
  <2>3. RowsAfter(answer') /\ Tells(call, answer')
    BY <2>1, HandleDecides DEF QueueInv
  <2>4. call.kind \in {"push", "pull"} => call.id = clientId /\ clientId # NoClient
    BY QueueTypes, CallKinds DEF TypeOK, Calls
  <2>5. Consumption'
    <3>1. CASE clientId = NoClient
      BY <1>0, <2>3, <2>4, <3>1 DEF QueueInv, Consumption, Tells
    <3>2. CASE clientId # NoClient
      <4>1. answer'.kind = "pushed" =>
              /\ answer'.last = Last'
              /\ \A s \in answer'.rejects : s <= answer'.last
        BY <1>0, <2>3, <2>4 DEF Tells
      <4>2. answer'.kind = "sequence_gap" =>
              answer'.last = Last /\ Last' = Last
        BY <1>0, <2>3, <2>4 DEF Tells
      <4>3. answer'.kind = "pulled" => answer'.ack <= Last'
        <5>1. ackLog[clientId] <= Last
          BY <3>2, QueueTypes DEF QueueInv, Rows
        <5>2. ServerTyped' /\ answer' \in Answer
          BY <2>1, QueueTypes, HandleType DEF TypeOK, Finite
        <5>3. answer'.kind = "pulled" => answer'.ack \in Int
          BY <5>2, AnswerKinds, PolicyAssumption DEF Seq
        <5>4. QED
          BY <2>2, <2>3, <2>4, <3>2, <5>1, <5>3, QueueTypes DEF Tells
      <4>4. /\ pushedSeq <= Last /\ ackSeq <= Last
        BY <3>2 DEF QueueInv, Consumption
      <4>5. Last \in Int /\ pushedSeq \in Int /\ ackSeq \in Int /\ nextSeq \in Int
        BY <3>2, QueueTypes
      <4>6. QED
        BY <1>0, <2>2, <3>2, <4>1, <4>2, <4>3, <4>4, <4>5 DEF Consumption
    <3>3. QED
      BY <3>1, <3>2
  <2>6. QED
    BY <2>2, <2>3, <2>5 DEF QueueInv, Rows, RowsAfter, StaysRegular
<1>2. CASE ServeLate
  <2>1. PICK a \in Answer : Handle(late, a)
    BY <1>2 DEF ServeLate
  <2>2. /\ clientId # NoClient => /\ Last' \in Int /\ Last <= Last'
                                  /\ Last' < nextSeq
        /\ Regular' \/ Stuck'
        /\ Regular => Regular'
        /\ OneSeq' /\ Settled' /\ NothingForgotten'
    BY <1>0, <2>1, HandledQueue
  <2>3. Decides(late) /\ RowsAfter(a) /\ answer' = answer
    BY <1>2, <2>1, HandleDecides DEF QueueInv, ServeLate
  <2>4. answer.kind = "registered" => lastSeq'[answer.id] = lastSeq[answer.id]
    <3>1. answer.kind = "registered" => answer.id \in ClientId
      BY AnswerNumbers, QueueTypes
    <3>2. QED
      BY <2>3, <3>1, QueueTypes DEF Decides, Calls
  <2>5. Consumption'
    BY <1>0, <2>2, <2>3, QueueTypes, AnswerNumbers DEF QueueInv, Consumption
  <2>6. QED
    BY <2>2, <2>3, <2>4, <2>5 DEF QueueInv, Rows, RowsAfter, StaysRegular
<1>3. CASE LoseLate \/ Evict \/ Tick
  <2>1. /\ UNCHANGED <<issued, lastSeq, effects, refused, answer>>
        /\ \A id \in ClientId : ackLog'[id] \in {ackLog[id], 0}
    BY <1>3, QueueTypes
       DEF LoseLate, Evict, Tick, serverVars, hostVars, TypeOK
  <2>2. Rows'
    BY <2>1, QueueTypes DEF QueueInv, Rows
  <2>3. (Regular' \/ Stuck') /\ (Regular => Regular')
    BY <1>0, <2>1
       DEF QueueInv, Regular, Stuck, Low, Unsent, OnlyTakes
  <2>4. QED
    BY <1>0, <2>1, <2>2, <2>3
       DEF StaysRegular, QueueInv, Consumption, OneSeq, Settled, NothingForgotten, Decided
<1>4. QED
  BY <1>1, <1>2, <1>3

-----------------------------------------------------------------------------
(* What the device does with its queue. *)

LEMMA KindsOf ==
  /\ NoAnswer.kind = "none" /\ NoCall.kind = "none"
  /\ Register.kind = "register"
  /\ \A id : Pull(id).kind = "pull" /\ Pull(id).id = id
  /\ \A id, b : /\ Push(id, b).kind = "push" /\ Push(id, b).id = id
                /\ Push(id, b).batch = b
BY DEF NoAnswer, NoCall, Register, Pull, Push

\* None of its steps touches the server.
LEMMA DeviceKeeps ==
  ASSUME \/ Mutate \/ SendRegister \/ SendPush \/ SendPull \/ GiveUp
         \/ ApplyRegister \/ ApplyPush \/ ApplyPull \/ Recover
  PROVE  UNCHANGED <<issued, registered, lastSeq, seenAt, ackLog, effects,
                     refused>>
BY DEF Mutate, SendRegister, SendPush, SendPull, Send, GiveUp, ApplyRegister,
       ApplyPush, ApplyPull, Recover, Receive, serverVars

\* A call is sent or given up, or the next mutation is to be sent later.
LEMMA QueueKept ==
  ASSUME SessionInv, QueueInv,
         UNCHANGED <<issued, registered, lastSeq, ackLog, effects, refused,
                     clientId, nextSeq, pushedSeq, ackSeq, pending, rejected,
                     made>>,
         Flying(call)' \cup Flying(late)'
           \subseteq pending \cup Flying(call) \cup Flying(late),
         answer' \in {answer, NoAnswer}
  PROVE  QueueInv' /\ StaysRegular
<1> USE DEF Last
<1>1. Known' \subseteq Known
  BY DEF Known
<1>2. Rows' /\ Consumption'
  BY KindsOf DEF QueueInv, Rows, Consumption
<1>3. Regular => Regular'
  BY <1>1 DEF Regular, Low, Unsent
<1>4. Stuck => Stuck'
  BY DEF Stuck
<1>5. QED
  BY <1>1, <1>2, <1>3, <1>4
     DEF StaysRegular, QueueInv, OneSeq, Settled, NothingForgotten, Decided

\* A mutation joins the queue with a seq of its own.
LEMMA MutateQueue ==
  ASSUME SessionInv, QueueInv, Mutate
  PROVE  QueueInv' /\ StaysRegular
<1> USE DEF Last
<1>1. PICK e \in ClockError :
        pending' = pending \cup {[seq |-> nextSeq, mutation |-> made + 1,
                                  at |-> now + e]}
  BY DEF Mutate
<1> DEFINE new == [seq |-> nextSeq, mutation |-> made + 1, at |-> now + e]
<1>2. new.seq = nextSeq /\ new.mutation = made + 1
  OBVIOUS
<1> HIDE DEF new
<1>3. /\ pending' = pending \cup {new}
      /\ nextSeq' = nextSeq + 1 /\ made' = made + 1
      /\ \A p \in pending : p.seq # nextSeq
      /\ UNCHANGED <<issued, registered, lastSeq, ackLog, effects, refused,
                     clientId, pushedSeq, ackSeq, rejected, call, late,
                     answer>>
  BY <1>1 DEF new, Mutate, serverVars, hostVars
<1>4. Known' = Known \cup {new}
  BY <1>3 DEF Known, Flying
<1>5. Rows' /\ Consumption'
  BY <1>3, QueueTypes DEF QueueInv, Rows, Consumption
<1>6. Regular => Regular'
  <2> SUFFICES ASSUME Regular PROVE Regular'
    OBVIOUS
  <2>1. Low \in Int /\ pushedSeq <= Low /\ Low' = Low
    BY <1>3, QueueTypes DEF Low
  <2>2. new.seq > pushedSeq
    BY <1>2, <2>1, QueueTypes DEF Regular
  <2>3. Unsent' = Unsent \cup {new}
    BY <1>3, <2>2 DEF Unsent
  <2>4. {p.seq : p \in Unsent'} = {p.seq : p \in Unsent} \cup {nextSeq}
    BY <1>2, <2>3
  <2>5. {p.seq : p \in Unsent'} = Low + 1 .. nextSeq' - 1
    BY <1>3, <2>1, <2>4, QueueTypes DEF Regular
  <2>6. \A p \in Known' : p.seq < nextSeq'
    BY <1>2, <1>3, <1>4, QueueTypes DEF Regular
  <2>7. QED
    BY <1>3, <2>1, <2>5, <2>6, QueueTypes DEF Regular
<1>7. Stuck => Stuck'
  BY <1>2, <1>3, QueueTypes DEF Stuck, Flying
<1>8. \A p \in Known : p.seq # nextSeq
  BY <1>3, QueueTypes DEF QueueInv, Regular, Stuck, Known
<1>9. OneSeq'
  BY <1>2, <1>4, <1>8 DEF QueueInv, OneSeq
<1>10. Settled'
  <2>1. clientId # NoClient => ~ (new.seq <= Last)
    BY <1>2, QueueTypes DEF QueueInv, Consumption
  <2>2. QED
    BY <1>3, <2>1 DEF QueueInv, Settled, Decided
<1>11. NothingForgotten'
  <2>1. \A m \in 1 .. made' : m \in 1 .. made \/ m = made + 1
    BY <1>3, QueueTypes
  <2>2. QED
    BY <1>2, <1>3, <2>1 DEF QueueInv, NothingForgotten, Decided
<1>12. QED
  BY <1>5, <1>6, <1>7, <1>9, <1>10, <1>11 DEF QueueInv, StaysRegular

\* A new registration starts where the device is: at zero.
LEMMA RegisterQueue ==
  ASSUME SessionInv, QueueInv, ApplyRegister
  PROVE  QueueInv' /\ StaysRegular
<1> USE DEF Last
<1>1. /\ answer.kind = "registered" /\ clientId' = answer.id
      /\ pushedSeq' = 0 /\ ackSeq' = 0 /\ call' = NoCall /\ answer' = NoAnswer
      /\ UNCHANGED <<issued, registered, lastSeq, ackLog, effects, refused,
                     nextSeq, pending, rejected, late, made>>
  BY DEF ApplyRegister, Receive, serverVars
<1>2. /\ answer.id \in ClientId /\ clientId = NoClient
      /\ clientId \notin registered
  BY <1>1, AnswerNumbers, QueueTypes, PolicyAssumption
     DEF Calls, TypeOK, NoClient
<1>3. lastSeq[answer.id] = 0 /\ pushedSeq = 0 /\ ackSeq = 0
  BY <1>1, <1>2 DEF QueueInv, Rows, Consumption
<1>4. Flying(call)' = {} /\ Flying(late)' = {}
  BY <1>1, <1>2, KindsOf, NothingFlies, QueueTypes DEF Flying
<1>5. Rows' /\ Consumption'
  BY <1>1, <1>2, <1>3, KindsOf, QueueTypes DEF QueueInv, Rows, Consumption
<1>6. Known' \subseteq Known
  BY <1>1, <1>4 DEF Known
<1>7. Regular => Regular'
  BY <1>1, <1>3, <1>6 DEF Regular, Low, Unsent
<1>8. Stuck => Stuck'
  BY <1>1, <1>3, <1>4 DEF Stuck
<1>9. Settled'
  BY <1>1, <1>3, QueueTypes DEF Settled
<1>10. QED
  BY <1>1, <1>5, <1>6, <1>7, <1>8, <1>9
     DEF StaysRegular, QueueInv, OneSeq, NothingForgotten, Decided

\* What is above a number, of things numbered with no gap, is too.
LEMMA RestOfInterval ==
  ASSUME NEW lo \in Int, NEW hi \in Int, NEW n \in Int, lo <= hi, NEW S,
         {p.seq : p \in S} = lo + 1 .. n - 1
  PROVE  {p.seq : p \in {p \in S : p.seq > hi}} = hi + 1 .. n - 1
<1>1. ASSUME NEW s \in hi + 1 .. n - 1
      PROVE  \E p \in {p \in S : p.seq > hi} : p.seq = s
  <2>1. s \in lo + 1 .. n - 1 /\ s > hi
    OBVIOUS
  <2>2. QED
    BY <2>1
<1>2. ASSUME NEW p \in S, p.seq > hi PROVE p.seq \in hi + 1 .. n - 1
  <2>1. p.seq \in lo + 1 .. n - 1
    OBVIOUS
  <2>2. QED
    BY <1>2, <2>1
<1>3. QED
  BY <1>1, <1>2

\* The device learns how far its mutations were consumed, and drops some of
\* those from the queue: the ones decided, or told of as rejected.
LEMMA ReadQueue ==
  ASSUME SessionInv, QueueInv, ApplyPush \/ ApplyPull \/ Recover,
         answer.kind \in {"pushed", "pulled", "sequence_gap"},
         clientId' = clientId, pending' \subseteq pending,
         pushedSeq <= pushedSeq', pushedSeq' <= Last, pushedSeq' \in Int,
         ackSeq <= ackSeq', ackSeq' <= Last, ackSeq' \in Int,
         rejected \subseteq rejected', UNCHANGED nextSeq,
         \A p \in pending \ pending' :
           (p.mutation \in rejected' /\ p.seq <= pushedSeq') \/ p.seq <= ackSeq',
         \A p \in pending \ pending' : p.seq <= Last,
         \A p \in pending' : p.seq > ackSeq' \/ ackSeq' = ackSeq
  PROVE  QueueInv' /\ StaysRegular
<1> USE DEF Last
<1>1. /\ call' = NoCall /\ answer' = NoAnswer
      /\ UNCHANGED <<issued, registered, lastSeq, ackLog, effects, refused,
                     late, made>>
  BY DEF ApplyPush, ApplyPull, Recover, Receive, serverVars
<1>2. clientId # NoClient /\ Last < nextSeq /\ Last \in Int
  BY QueueTypes DEF QueueInv, Consumption
<1>3. Flying(call)' = {} /\ Flying(late)' = Flying(late)
  BY <1>1, KindsOf DEF Flying
<1>4. Known' \subseteq Known
  BY <1>3 DEF Known
<1>5. Rows' /\ Consumption'
  BY <1>1, <1>2, KindsOf DEF QueueInv, Rows, Consumption
<1>6. Regular => Regular'
  <2> SUFFICES ASSUME Regular PROVE Regular'
    OBVIOUS
  <2>1. /\ Low \in Int /\ Low' \in Int /\ Low <= Low' /\ Low' < nextSeq
        /\ pushedSeq' <= Low' /\ ackSeq' <= Low'
        /\ Low' = pushedSeq' \/ Low' = ackSeq'
        /\ ackSeq <= Low /\ pushedSeq <= Low
        /\ Low = pushedSeq \/ Low = ackSeq
    BY <1>2, QueueTypes DEF Low
  <2>2. \A p \in Unsent : p.seq > Low /\ p.seq \in Int
    BY <2>1, QueueTypes DEF Regular
  <2>3. Unsent' = {p \in Unsent : p.seq > Low'}
    <3>1. ASSUME NEW p \in Unsent' PROVE p \in Unsent /\ p.seq > Low'
      <4>1. p \in pending' /\ p \in pending /\ p.seq > pushedSeq' /\ p.seq \in Int
        BY <3>1, QueueTypes DEF Unsent
      <4>2. p \in Unsent
        BY <4>1, QueueTypes DEF Unsent
      <4>3. p.seq > ackSeq'
        BY <2>1, <2>2, <4>1, <4>2
      <4>4. QED
        BY <2>1, <4>1, <4>2, <4>3
    <3>2. ASSUME NEW p \in Unsent, p.seq > Low' PROVE p \in Unsent'
      <4>1. p \in pending /\ p.seq > pushedSeq' /\ p.seq > ackSeq' /\ p.seq \in Int
        BY <2>1, <2>2, <3>2 DEF Unsent
      <4>2. p \in pending'
        BY <4>1
      <4>3. QED
        BY <4>1, <4>2 DEF Unsent
    <3>3. QED
      BY <3>1, <3>2
  <2>4. PICK lo \in Int, hi \in Int :
          /\ lo = Low /\ hi = Low' /\ lo <= hi
    BY <2>1
  <2>5. nextSeq \in Int /\ {p.seq : p \in Unsent} = lo + 1 .. nextSeq - 1
    BY <2>4, QueueTypes DEF Regular
  <2>6. Unsent' = {p \in Unsent : p.seq > hi}
    BY <2>3, <2>4
  <2>7. {p.seq : p \in Unsent'} = hi + 1 .. nextSeq - 1
    BY <2>4, <2>5, <2>6, RestOfInterval
  <2>8. QED
    BY <1>4, <2>1, <2>4, <2>7 DEF Regular
<1>7. Stuck => Stuck'
  <2> SUFFICES ASSUME Stuck PROVE Stuck'
    OBVIOUS
  <2>1. Last = 0 /\ pushedSeq' = 0 /\ ackSeq' = 0
    BY <1>2, QueueTypes DEF Stuck
  <2>2. pending' = pending
    <3>1. \A p \in pending : p.seq \in Int /\ p.seq >= 2
      BY QueueTypes DEF Stuck
    <3>2. \A p \in pending : p \in pending'
      BY <2>1, <3>1
    <3>3. QED
      BY <3>2
  <2>3. QED
    BY <1>1, <1>3, <2>1, <2>2 DEF Stuck
<1>8. OneSeq' /\ Settled'
  BY <1>1, <1>4 DEF QueueInv, OneSeq, Settled, Decided
<1>9. NothingForgotten'
  <2>1. ASSUME NEW p \in pending \ pending'
        PROVE  p.mutation \in rejected' \/ Decided(p.mutation)
    BY <1>2, <2>1 DEF QueueInv, Settled
  <2>2. QED
    BY <1>1, <2>1 DEF QueueInv, NothingForgotten, Decided
<1>10. QED
  BY <1>5, <1>6, <1>7, <1>8, <1>9 DEF QueueInv, StaysRegular

\* Applying an answer, or the server's word for a gap, is reading the queue.
LEMMA PushedQueue ==
  ASSUME SessionInv, QueueInv, ApplyPush
  PROVE  QueueInv' /\ StaysRegular
<1> USE DEF Last
<1>1. /\ answer.kind = "pushed"
      /\ pending' = pending \ {p \in pending : p.seq \in answer.rejects}
      /\ rejected' = rejected \cup
           {p.mutation : p \in {p \in pending : p.seq \in answer.rejects}}
      /\ pushedSeq' = IF answer.last > pushedSeq THEN answer.last ELSE pushedSeq
      /\ UNCHANGED <<clientId, nextSeq, ackSeq>>
  BY DEF ApplyPush, Reject, PushedUpTo
<1>2. /\ answer.last \in Int /\ answer.last <= Last /\ Last \in Int
      /\ pushedSeq <= Last /\ ackSeq <= Last
      /\ \A s \in answer.rejects : s \in Int /\ s <= answer.last
  BY <1>1, AnswerNumbers, QueueTypes DEF QueueInv, Consumption
<1>3. /\ pushedSeq \in Int /\ ackSeq \in Int /\ pushedSeq' \in Int
      /\ pushedSeq <= pushedSeq' /\ answer.last <= pushedSeq'
      /\ pushedSeq' <= Last
  BY <1>1, <1>2, QueueTypes
<1>4. \A p \in pending \ pending' :
        p.mutation \in rejected' /\ p.seq <= pushedSeq' /\ p.seq <= Last
  BY <1>1, <1>2, <1>3
<1>5. QED
  BY <1>1, <1>2, <1>3, <1>4, ReadQueue

LEMMA PulledQueue ==
  ASSUME SessionInv, QueueInv, ApplyPull
  PROVE  QueueInv' /\ StaysRegular
<1> USE DEF Last
<1>1. /\ answer.kind = "pulled"
      /\ ackSeq' = IF answer.ack > ackSeq THEN answer.ack ELSE ackSeq
      /\ pending' = {p \in pending : p.seq > ackSeq'}
      /\ UNCHANGED <<clientId, nextSeq, pushedSeq, rejected>>
  BY DEF ApplyPull
<1>2. /\ answer.ack \in Int /\ answer.ack <= Last /\ Last \in Int
      /\ pushedSeq <= Last /\ ackSeq <= Last
      /\ pushedSeq \in Int /\ ackSeq \in Int
      /\ \A p \in pending : p.seq \in Int
  BY <1>1, AnswerNumbers, QueueTypes DEF QueueInv, Consumption
<1>3. ackSeq' \in Int /\ ackSeq <= ackSeq' /\ ackSeq' <= Last
  BY <1>1, <1>2
<1>4. \A p \in pending \ pending' : p.seq <= ackSeq' /\ p.seq <= Last
  BY <1>1, <1>2, <1>3
<1>5. QED
  BY <1>1, <1>2, <1>3, <1>4, ReadQueue

LEMMA GapQueue ==
  ASSUME SessionInv, QueueInv, Recover, answer.kind = "sequence_gap"
  PROVE  QueueInv' /\ StaysRegular
<1> USE DEF Last
<1>1. /\ pushedSeq' = answer.last
      /\ UNCHANGED <<clientId, nextSeq, ackSeq, pending, rejected>>
  BY DEF Recover
<1>2. /\ answer.last \in Int /\ answer.last <= Last /\ pushedSeq <= answer.last
      /\ ackSeq <= Last /\ ackSeq \in Int
  BY AnswerNumbers, QueueTypes DEF QueueInv, Consumption
<1>3. QED
  BY <1>1, <1>2, ReadQueue

\* Things numbered with no gap are counted by their numbers.
LEMMA Numbered ==
  ASSUME NEW lo \in Int, NEW n \in Int, lo <= n, NEW S,
         {p.seq : p \in S} = lo + 1 .. n,
         \A p, q \in S : p.seq = q.seq => p = q
  PROVE  IsFiniteSet(S) /\ Cardinality(S) = n - lo
<1> DEFINE f == [p \in S |-> p.seq]
<1>1. f \in Injection(S, lo + 1 .. n) /\ f \in Surjection(S, lo + 1 .. n)
  BY DEF Injection, IsInjective, Surjection
<1>2. IsFiniteSet(lo + 1 .. n) /\ Cardinality(lo + 1 .. n) = n - lo
  <2>1. lo + 1 \in Int
    OBVIOUS
  <2>2. /\ IsFiniteSet(lo + 1 .. n)
        /\ Cardinality(lo + 1 .. n)
             = IF lo + 1 > n THEN 0 ELSE n - (lo + 1) + 1
    BY <2>1, FS_Interval
  <2>3. QED
    BY <2>2
<1>3. QED
  BY <1>1, <1>2, FS_Injection

\* The device's registration is gone: it tells of what the server consumed,
\* and numbers the rest of the queue from one.
LEMMA ResetQueue ==
  ASSUME SessionInv, QueueInv, Recover, answer.kind = "client_expired"
  PROVE  QueueInv' /\ StaysRegular
<1> USE DEF Last
<1>1. /\ pending' = {[p EXCEPT !.seq = @ - pushedSeq] : p \in Unsent}
      /\ rejected' = rejected \cup {p.mutation : p \in pending \ Unsent}
      /\ nextSeq' = Cardinality(Unsent) + 1
      /\ clientId' = NoClient /\ pushedSeq' = 0 /\ ackSeq' = 0
      /\ call' = NoCall /\ answer' = NoAnswer
      /\ UNCHANGED <<issued, registered, lastSeq, ackLog, effects, refused,
                     late, made>>
  BY DEF Recover, ResetRegistration, Renumbered, Receive, serverVars
<1>2. /\ Flying(call)' = {} /\ Flying(late)' = {} /\ Known' = pending'
  <2>1. clientId \notin registered /\ TypeOK /\ Calls
    BY QueueTypes DEF Calls
  <2>2. QED
    BY <1>1, <2>1, NothingFlies, KindsOf DEF Flying, Known
<1>3. Rows' /\ Consumption'
  BY <1>1, KindsOf DEF QueueInv, Rows, Consumption
<1>4. /\ IsFiniteSet(Unsent) /\ Cardinality(Unsent) \in Nat
      /\ Cardinality(Unsent) = 0 => Unsent = {}
  BY UnsentBound, FS_EmptySet DEF SessionInv
<1>5. \A p \in Unsent :
        /\ p \in Known /\ p.seq \in Int /\ p.seq > pushedSeq
        /\ [p EXCEPT !.seq = @ - pushedSeq].seq = p.seq - pushedSeq
        /\ [p EXCEPT !.seq = @ - pushedSeq].mutation = p.mutation
  <2>1. \A p \in Unsent : p \in Pending
    BY QueueTypes DEF TypeOK
  <2>2. \A p \in Unsent : p \in Known /\ p.seq \in Int /\ p.seq > pushedSeq
    BY QueueTypes DEF Unsent
  <2>3. QED
    BY <2>1, <2>2 DEF Pending
<1>6. /\ \A q \in pending' : \E p \in Unsent :
           /\ q = [p EXCEPT !.seq = @ - pushedSeq]
           /\ q.seq = p.seq - pushedSeq /\ q.mutation = p.mutation
      /\ \A p \in Unsent : \E q \in pending' :
           q.seq = p.seq - pushedSeq /\ q.mutation = p.mutation
  BY <1>1, <1>5
<1>7. OneSeq'
  <2> SUFFICES ASSUME NEW q1 \in pending', NEW q2 \in pending', q1.seq = q2.seq
               PROVE  q1 = q2
    BY <1>2 DEF OneSeq
  <2>1. PICK p1 \in Unsent : /\ q1 = [p1 EXCEPT !.seq = @ - pushedSeq]
                             /\ q1.seq = p1.seq - pushedSeq
    BY <1>6
  <2>2. PICK p2 \in Unsent : /\ q2 = [p2 EXCEPT !.seq = @ - pushedSeq]
                             /\ q2.seq = p2.seq - pushedSeq
    BY <1>6
  <2>3. p1.seq = p2.seq
    BY <1>5, <2>1, <2>2, QueueTypes
  <2>4. p1 = p2
    BY <1>5, <2>3 DEF QueueInv, OneSeq
  <2>5. QED
    BY <2>1, <2>2, <2>4
<1>8. ASSUME Regular, ackSeq <= pushedSeq PROVE Regular'
  <2>1. Low = pushedSeq /\ Low' = 0 /\ pushedSeq \in Int /\ nextSeq \in Int
    BY <1>1, <1>8, QueueTypes DEF Low
  <2>2. /\ {p.seq : p \in Unsent} = pushedSeq + 1 .. nextSeq - 1
        /\ pushedSeq <= nextSeq - 1
    BY <1>8, <2>1 DEF Regular
  <2>3. Cardinality(Unsent) = nextSeq - 1 - pushedSeq
    BY <1>5, <2>1, <2>2, Numbered DEF QueueInv, OneSeq
  <2>4. nextSeq' = nextSeq - pushedSeq
    BY <1>1, <2>1, <2>3
  <2>5. \A q \in pending' : q.seq \in 1 .. nextSeq' - 1
    <3> SUFFICES ASSUME NEW q \in pending' PROVE q.seq \in 1 .. nextSeq' - 1
      OBVIOUS
    <3>1. PICK p \in Unsent : q.seq = p.seq - pushedSeq
      BY <1>6
    <3>2. p.seq \in pushedSeq + 1 .. nextSeq - 1
      BY <2>2
    <3>3. QED
      BY <2>1, <2>4, <3>1, <3>2
  <2>6. \A s \in 1 .. nextSeq' - 1 : \E q \in pending' : q.seq = s
    <3> SUFFICES ASSUME NEW s \in 1 .. nextSeq' - 1
                 PROVE  \E q \in pending' : q.seq = s
      OBVIOUS
    <3>1. s + pushedSeq \in pushedSeq + 1 .. nextSeq - 1
      BY <2>1, <2>4
    <3>2. PICK p \in Unsent : p.seq = s + pushedSeq
      BY <2>2, <3>1
    <3>3. QED
      BY <1>6, <2>1, <3>2
  <2>7. Unsent' = pending'
    BY <1>1, <2>5 DEF Unsent
  <2>8. {q.seq : q \in pending'} = 1 .. nextSeq' - 1
    BY <2>5, <2>6
  <2>9. Low' < nextSeq' /\ \A q \in pending' : q.seq < nextSeq'
    BY <2>1, <2>2, <2>4, <2>5
  <2>10. QED
    BY <1>2, <2>1, <2>7, <2>8, <2>9 DEF Regular
<1>9. ASSUME Unsent = {} PROVE Regular'
  <2>1. pending' = {} /\ nextSeq' = 1
    BY <1>1, <1>9, FS_EmptySet
  <2>2. QED
    <3>1. Unsent' = {} /\ Low' = 0
      BY <1>1, <2>1 DEF Unsent, Low
    <3>2. {p.seq : p \in Unsent'} = Low' + 1 .. nextSeq' - 1
      BY <2>1, <3>1
    <3>3. QED
      BY <1>2, <2>1, <3>1, <3>2 DEF Regular
<1>10. ASSUME Unsent # {}, \A p \in Unsent : p.seq - pushedSeq >= 2
       PROVE  Stuck'
  <2>1. nextSeq' >= 2
    BY <1>1, <1>4, <1>10
  <2>2. \A q \in pending' : q.seq >= 2
    BY <1>6, <1>10
  <2>3. QED
    BY <1>1, <1>2, <2>1, <2>2 DEF Stuck
<1>11. Regular' \/ Stuck'
  <2>1. CASE Regular /\ ~ (ackSeq <= pushedSeq)
    <3>1. Low = ackSeq /\ Low \in Int /\ ackSeq > pushedSeq /\ pushedSeq \in Int
      BY <2>1, QueueTypes DEF Low
    <3>2. \A p \in Unsent : p.seq \in ackSeq + 1 .. nextSeq - 1
      BY <2>1, <3>1 DEF Regular
    <3>3. \A p \in Unsent : p.seq - pushedSeq >= 2
      BY <1>5, <3>1, <3>2, QueueTypes
    <3>4. QED
      BY <1>9, <1>10, <3>3
  <2>2. CASE Stuck
    <3>1. \A p \in Unsent : p.seq - pushedSeq >= 2
      BY <1>5, <2>2 DEF Stuck, Unsent
    <3>2. QED
      BY <1>9, <1>10, <3>1
  <2>3. QED
    BY <1>8, <2>1, <2>2 DEF QueueInv
<1>12. NothingForgotten'
  <2> SUFFICES ASSUME NEW m \in 1 .. made
               PROVE  \/ \E q \in pending' : q.mutation = m
                      \/ m \in rejected' \/ Decided(m)'
    BY <1>1 DEF NothingForgotten
  <2>1. CASE \E p \in pending : p.mutation = m
    <3>1. PICK p \in pending : p.mutation = m
      BY <2>1
    <3>2. CASE p \in Unsent
      BY <1>6, <3>1, <3>2
    <3>3. CASE p \notin Unsent
      BY <1>1, <3>1, <3>3
    <3>4. QED
      BY <3>2, <3>3
  <2>2. CASE m \in rejected
    BY <1>1, <2>2
  <2>3. CASE Decided(m)
    BY <1>1, <2>3 DEF Decided
  <2>4. QED
    BY <2>1, <2>2, <2>3 DEF QueueInv, NothingForgotten
<1>13. Settled'
  BY <1>1 DEF Settled
<1>14. QED
  BY <1>3, <1>7, <1>8, <1>11, <1>12, <1>13 DEF QueueInv, StaysRegular

\* The device's steps keep the queue in order.
LEMMA DeviceQueue ==
  ASSUME SessionInv, QueueInv,
         \/ Mutate \/ SendRegister \/ SendPush \/ SendPull \/ GiveUp
         \/ ApplyRegister \/ ApplyPush \/ ApplyPull \/ Recover
  PROVE  QueueInv' /\ StaysRegular
<1>1. CASE SendRegister \/ SendPush \/ SendPull
  <2>1. UNCHANGED <<issued, registered, lastSeq, ackLog, effects, refused,
                    clientId, nextSeq, pushedSeq, ackSeq, pending, rejected,
                    made, late, answer>>
    BY <1>1
       DEF SendRegister, SendPush, SendPull, Send, serverVars, deviceVars
  <2>2. \/ call' = Register
        \/ call' = Push(clientId, Batch)
        \/ call' = Pull(clientId)
    BY <1>1 DEF SendRegister, SendPush, SendPull, Send
  <2>3. Flying(call)' \subseteq pending
    <3>1. call' = Push(clientId, Batch) => Flying(call)' \subseteq Batch
      BY KindsOf DEF Flying
    <3>2. call' # Push(clientId, Batch) => Flying(call)' = {}
      BY <2>2, KindsOf DEF Flying
    <3>3. QED
      BY <3>1, <3>2 DEF Batch, Unsent
  <2>4. Flying(late)' = Flying(late)
    BY <2>1 DEF Flying
  <2>5. QED
    BY <2>1, <2>3, <2>4, QueueKept
<1>2. CASE GiveUp
  <2>1. UNCHANGED <<issued, registered, lastSeq, ackLog, effects, refused,
                    clientId, nextSeq, pushedSeq, ackSeq, pending, rejected,
                    made>>
    BY <1>2 DEF GiveUp, serverVars, deviceVars
  <2>2. late' \in {call, late} /\ call' = NoCall /\ answer' = NoAnswer
    BY <1>2 DEF GiveUp
  <2>3. Flying(call)' = {} /\ Flying(late)' \subseteq Flying(call) \cup Flying(late)
    BY <2>1, <2>2, KindsOf DEF Flying
  <2>4. QED
    BY <2>1, <2>2, <2>3, QueueKept
<1>3. CASE Recover
  <2>1. CASE answer.kind = "retry"
    <3>1. /\ UNCHANGED <<clientId, nextSeq, pushedSeq, ackSeq, pending, rejected>>
          /\ call' = NoCall /\ answer' = NoAnswer
          /\ UNCHANGED <<issued, registered, lastSeq, ackLog, effects, refused,
                         made, late>>
      BY <1>3, <2>1 DEF Recover, Receive, deviceVars, serverVars
    <3>2. Flying(call)' = {} /\ Flying(late)' = Flying(late)
      BY <3>1, KindsOf DEF Flying
    <3>3. QED
      BY <3>1, <3>2, QueueKept
  <2>2. QED
    BY <1>3, <2>1, GapQueue, ResetQueue DEF Recover
<1>4. QED
  BY <1>1, <1>2, <1>3, MutateQueue, RegisterQueue, PushedQueue, PulledQueue

LEMMA InitQueue == Init => QueueInv
<1> SUFFICES ASSUME Init PROVE QueueInv
  OBVIOUS
<1>1. Flying(call) = {} /\ Flying(late) = {} /\ Known = {} /\ Unsent = {}
  BY KindsOf DEF Init, Flying, Known, Unsent
<1>2. Rows /\ Consumption
  BY KindsOf DEF Init, Rows, Consumption
<1>3. Regular
  BY <1>1 DEF Init, Regular, Low
<1>4. OneSeq /\ Settled /\ NothingForgotten
  BY <1>1 DEF Init, OneSeq, Settled, NothingForgotten
<1>5. QED
  BY <1>2, <1>3, <1>4 DEF QueueInv

\* Every reachable state has its queue in order, whatever the host does.
LEMMA QueueInvariant == Spec => []QueueInv
<1>1. SessionInv /\ QueueInv /\ UNCHANGED vars => QueueInv'
  BY DEF QueueInv, Rows, Consumption, Regular, Stuck, OneSeq, Settled,
         NothingForgotten, Decided, Known, Flying, Unsent, Low, Last, vars,
         serverVars, deviceVars, hostVars
<1>2. SessionInv /\ QueueInv /\ [Next]_vars => QueueInv'
  BY <1>1, ServerQueue, DeviceQueue DEF Next
<1>3. QED
  BY <1>2, InitQueue, SessionInvariant, PTL DEF Spec

\* No mutation is lost: whatever the order of the host's calls, however many
\* are lost or late, and however often the registration is evicted and the
\* queue renumbered, a mutation leaves the queue only after the server has
\* decided it or onto the list of rejections the user is told of.
THEOREM NothingIsForgotten == Spec => []NothingForgotten
BY QueueInvariant, PTL DEF QueueInv

-----------------------------------------------------------------------------
(* The host that pushes before it pulls.                                    *)

\* The queue is in the order its mutations were made in.
MadeInOrder ==
  \A p, q \in pending : p.seq < q.seq <=> p.mutation < q.mutation

\* What a call still has to push is what the next push would carry.
Ahead ==
  \A p \in Flying(call) \cup Flying(late) :
    p.seq > pushedSeq => p \in pending /\ p.seq <= pushedSeq + BatchLimit

\* A round is of one kind of call, and a push repeats the late one.
Rounds ==
  /\ call.kind = "push" =>
       /\ phase = "push"
       /\ \A p \in Flying(late) : p.seq <= pushedSeq \/ p \in call.batch
  /\ call.kind = "pull" => phase = "pull"

\* The answer to a push covers its batch and whatever the late one consumes;
\* the ack a pull brings is not ahead of what was pushed.
Answered ==
  /\ answer.kind = "pushed" =>
       /\ call.kind = "push"
       /\ \A p \in call.batch : p.seq <= answer.last
       /\ clientId \in registered => answer.last = Last
  /\ answer.kind = "pulled" => phase = "pull" /\ answer.ack <= pushedSeq

\* While the host pulls, the server consumes nothing it was not told of.
Quiet ==
  phase = "pull" /\ clientId \in registered =>
    Last <= pushedSeq /\ \A p \in Flying(late) : p.seq <= pushedSeq

Steady ==
  /\ Regular /\ ackSeq <= pushedSeq
  /\ MadeInOrder /\ Ahead /\ Rounds /\ Answered /\ Quiet

\* Its queue, in numbers.
LEMMA SteadyUnsent ==
  ASSUME SessionInv, QueueInv, Regular, ackSeq <= pushedSeq
  PROVE  /\ {p.seq : p \in Unsent} = pushedSeq + 1 .. nextSeq - 1
         /\ pushedSeq < nextSeq
         /\ \A p \in Known : p.seq <= nextSeq - 1
<1>1. Low = pushedSeq
  BY QueueTypes DEF Low
<1>2. QED
  BY <1>1, QueueTypes DEF Regular

\* A push carries what is numbered from pushed_seq + 1 up to its limit.
LEMMA BatchIsNext ==
  ASSUME SessionInv, QueueInv, Steady, NEW p \in Unsent
  PROVE  p \in Batch <=> p.seq <= pushedSeq + BatchLimit
<1> DEFINE before == {q \in Unsent : q.seq < p.seq}
<1>1. /\ pushedSeq \in Int /\ nextSeq \in Int /\ BatchLimit \in Int
      /\ p.seq \in Int /\ p.seq > pushedSeq
  BY QueueTypes, PolicyAssumption DEF Unsent
<1>2. {q.seq : q \in Unsent} = pushedSeq + 1 .. nextSeq - 1
  BY SteadyUnsent DEF Steady
<1>3. p.seq - 1 \in Int /\ pushedSeq <= p.seq - 1
  BY <1>1
<1>4. {q.seq : q \in before} = pushedSeq + 1 .. p.seq - 1
  <2>1. ASSUME NEW q \in before PROVE q.seq \in pushedSeq + 1 .. p.seq - 1
    <3>1. q.seq \in pushedSeq + 1 .. nextSeq - 1 /\ q.seq < p.seq
      BY <1>2
    <3>2. QED
      BY <1>1, <3>1
  <2>2. ASSUME NEW s \in pushedSeq + 1 .. p.seq - 1
        PROVE  \E q \in before : q.seq = s
    <3>1. p.seq \in pushedSeq + 1 .. nextSeq - 1
      BY <1>2
    <3>2. s \in pushedSeq + 1 .. nextSeq - 1 /\ s < p.seq
      BY <1>1, <3>1
    <3>3. QED
      BY <1>2, <3>2
  <2>3. QED
    BY <2>1, <2>2
<1>5. \A q, r \in before : q.seq = r.seq => q = r
  BY QueueTypes DEF QueueInv, OneSeq
<1> HIDE DEF before
<1>6. Cardinality(before) = p.seq - 1 - pushedSeq
  BY <1>1, <1>3, <1>4, <1>5, Numbered
<1>7. p \in Batch <=> Cardinality(before) < BatchLimit
  BY DEF Batch, before
<1>8. QED
  BY <1>1, <1>6, <1>7

\* Handling a late push consumes nothing the device's next answer does not
\* tell of.
LEMMA LateIsTold ==
  ASSUME SessionInv, QueueInv, Steady, Decides(late),
         clientId # NoClient, clientId' = clientId, Last' # Last
  PROVE  /\ clientId \in registered
         /\ ~ (phase = "pull") /\ answer.kind # "pushed"
<1> USE DEF Last
<1>1. /\ clientId \in ClientId /\ Last \in Int /\ Last' \in Int
      /\ Last <= Last' /\ pushedSeq \in Int /\ pushedSeq <= Last
  BY QueueTypes DEF Decides, QueueInv, Consumption
<1>2. /\ late.kind = "push" /\ late.id = clientId /\ clientId \in registered
      /\ Flying(late) = late.batch
  BY <1>1 DEF Decides, Flying
<1>3. PICK q \in Flying(late) : q.seq = Last + 1
  BY <1>1, <1>2 DEF Decides
<1>4. ~ (q.seq <= pushedSeq) /\ ~ (q.seq <= Last)
  BY <1>1, <1>3
<1>5. phase # "pull"
  BY <1>2, <1>4 DEF Steady, Quiet
<1>6. answer.kind # "pushed"
  BY <1>2, <1>4 DEF Steady, Rounds, Answered
<1>7. QED
  BY <1>2, <1>5, <1>6

\* The server's steps.
LEMMA ServerSteady ==
  ASSUME SessionInv, QueueInv, Steady,
         Serve \/ ServeLate \/ LoseLate \/ Evict \/ Tick
  PROVE  Steady'
<1> USE DEF Last
<1>0. /\ OnlyTakes
      /\ UNCHANGED <<clientId, nextSeq, pushedSeq, ackSeq, pending, phase>>
      /\ Regular'
  BY ServerSession, ServerQueue
     DEF Serve, ServeLate, LoseLate, Evict, Tick, deviceVars, hostVars,
         Steady, StaysRegular
<1>1. ackSeq' <= pushedSeq' /\ MadeInOrder' /\ Ahead'
  BY <1>0 DEF Steady, MadeInOrder, Ahead, OnlyTakes
<1>2. Rounds'
  BY <1>0
     DEF Steady, Rounds, OnlyTakes, Serve, ServeLate, LoseLate, Evict, Tick,
         hostVars
<1>3. CASE Serve
  <2>1. Handle(call, answer') /\ call' = call
    BY <1>3 DEF Serve
  <2>2. Decides(call) /\ Tells(call, answer')
    BY <2>1, HandleDecides DEF QueueInv
  <2>3. call.kind \in {"push", "pull"} => call.id = clientId /\ clientId # NoClient
    BY QueueTypes, CallKinds DEF TypeOK, Calls
  <2>4. clientId \in registered' => clientId \in registered
    <3>1. RowsKept
      BY <2>1, HandleFrame, QueueTypes DEF TypeOK, Finite
    <3>2. QED
      BY <3>1, QueueTypes DEF RowsKept, Calls
  <2>5. Quiet'
    <3> SUFFICES ASSUME phase = "pull", clientId \in registered
                 PROVE  /\ Last' <= pushedSeq
                        /\ \A p \in Flying(late) : p.seq <= pushedSeq
      BY <1>0, <2>4 DEF Quiet, OnlyTakes
    <3>1. call.kind # "push"
      BY DEF Steady, Rounds
    <3>2. Last' = Last
      <4>1. clientId \in ClientId
        BY QueueTypes, PolicyAssumption DEF TypeOK, NoClient
      <4>2. QED
        BY <1>0, <2>2, <3>1, <4>1 DEF Decides
    <3>3. QED
      BY <3>2 DEF Steady, Quiet
  <2>6. Answered'
    <3>1. answer'.kind = "pushed" =>
            /\ call.kind = "push"
            /\ \A p \in call.batch : p.seq <= answer'.last
            /\ answer'.last = Last'
      BY <1>0, <2>2, <2>3 DEF Tells
    <3>2. ASSUME answer'.kind = "pulled"
          PROVE  phase = "pull" /\ answer'.ack <= pushedSeq
      <4>1. /\ call.kind = "pull" /\ clientId \in registered
            /\ answer'.ack <= ackLog[clientId]
        BY <2>2, <2>3, <3>2 DEF Tells
      <4>2. phase = "pull" /\ Last <= pushedSeq
        BY <4>1 DEF Steady, Rounds, Quiet
      <4>3. clientId \in ClientId /\ ackLog[clientId] <= Last
        BY <2>3, <4>1, QueueTypes DEF QueueInv, Rows
      <4>4. answer'.ack \in Int
        <5>1. answer' \in Answer
          BY <2>1, QueueTypes, HandleType DEF TypeOK, Finite
        <5>2. QED
          BY <3>2, <5>1, AnswerKinds, PolicyAssumption DEF Seq
      <4>5. QED
        BY <4>1, <4>2, <4>3, <4>4, QueueTypes
    <3>3. QED
      BY <1>0, <2>1, <3>1, <3>2 DEF Answered
  <2>7. QED
    BY <1>0, <1>1, <1>2, <2>5, <2>6 DEF Steady
<1>4. CASE ServeLate
  <2>1. PICK a \in Answer : Handle(late, a)
    BY <1>4 DEF ServeLate
  <2>2. Decides(late) /\ UNCHANGED <<call, answer>>
    BY <1>4, <2>1, HandleDecides DEF QueueInv, ServeLate
  <2>3. clientId \in registered' => clientId \in registered
    <3>1. RowsKept
      BY <2>1, HandleFrame, QueueTypes DEF TypeOK, Finite
    <3>2. QED
      BY <3>1, QueueTypes DEF RowsKept, Calls
  <2>4. clientId \in registered => clientId # NoClient
    BY QueueTypes, PolicyAssumption DEF TypeOK, NoClient
  <2>5. Quiet'
    BY <1>0, <2>2, <2>3, <2>4, LateIsTold DEF Steady, Quiet, OnlyTakes
  <2>6. Answered'
    BY <1>0, <2>2, <2>3, <2>4, LateIsTold DEF Steady, Answered
  <2>7. QED
    BY <1>0, <1>1, <1>2, <2>5, <2>6 DEF Steady
<1>5. CASE LoseLate \/ Evict \/ Tick
  <2>1. /\ UNCHANGED <<lastSeq, call, answer>>
        /\ registered' \subseteq registered
    BY <1>5 DEF LoseLate, Evict, Tick, serverVars, hostVars
  <2>2. Quiet' /\ Answered'
    BY <1>0, <2>1 DEF Steady, Quiet, Answered, OnlyTakes
  <2>3. QED
    BY <1>0, <1>1, <1>2, <2>2 DEF Steady
<1>6. QED
  BY <1>3, <1>4, <1>5

\* A mutation joins the queue at its end.
LEMMA MutateSteady ==
  ASSUME SessionInv, QueueInv, Steady, Mutate
  PROVE  MadeInOrder'
<1>1. PICK e \in ClockError :
        pending' = pending \cup {[seq |-> nextSeq, mutation |-> made + 1,
                                  at |-> now + e]}
  BY DEF Mutate
<1> DEFINE new == [seq |-> nextSeq, mutation |-> made + 1, at |-> now + e]
<1>2. new.seq = nextSeq /\ new.mutation = made + 1
  OBVIOUS
<1> HIDE DEF new
<1>3. pending' = pending \cup {new}
  BY <1>1 DEF new
<1>4. \A p \in pending :
        /\ p.seq \in Int /\ p.mutation \in Int
        /\ p.seq < new.seq /\ p.mutation < new.mutation
  <2>1. \A p \in pending : p.seq < nextSeq /\ p.mutation <= made
    BY QueueTypes DEF Steady, Regular, Counted
  <2>2. QED
    BY <1>2, <2>1, QueueTypes
<1>5. new.seq \in Int /\ new.mutation \in Int
  BY <1>2, QueueTypes
<1>6. ASSUME NEW p \in pending', NEW q \in pending'
      PROVE  p.seq < q.seq <=> p.mutation < q.mutation
  <2>1. CASE p \in pending /\ q \in pending
    BY <2>1 DEF Steady, MadeInOrder
  <2>2. CASE p \in pending /\ q = new
    BY <1>4, <2>2
  <2>3. CASE p = new /\ q \in pending
    BY <1>4, <1>5, <2>3
  <2>4. CASE p = new /\ q = new
    BY <1>5, <2>4
  <2>5. QED
    BY <1>3, <1>6, <2>1, <2>2, <2>3, <2>4
<1>7. QED
  BY <1>6 DEF MadeInOrder

\* Renumbering keeps the order.
LEMMA ResetSteady ==
  ASSUME SessionInv, QueueInv, Steady, ResetRegistration
  PROVE  MadeInOrder'
<1>1. \A q \in pending' :
        \E p \in Unsent : q.seq = p.seq - pushedSeq /\ q.mutation = p.mutation
  <2>1. \A p \in Unsent : p \in Pending
    BY QueueTypes DEF TypeOK
  <2>2. QED
    BY <2>1 DEF ResetRegistration, Renumbered, Pending
<1>2. \A p \in Unsent : p \in pending /\ p.seq \in Int
  BY QueueTypes DEF Unsent
<1>3. ASSUME NEW q1 \in pending', NEW q2 \in pending'
      PROVE  q1.seq < q2.seq <=> q1.mutation < q2.mutation
  <2>1. PICK p1 \in Unsent :
          q1.seq = p1.seq - pushedSeq /\ q1.mutation = p1.mutation
    BY <1>1
  <2>2. PICK p2 \in Unsent :
          q2.seq = p2.seq - pushedSeq /\ q2.mutation = p2.mutation
    BY <1>1
  <2>3. q1.seq < q2.seq <=> p1.seq < p2.seq
    BY <1>2, <2>1, <2>2, QueueTypes
  <2>4. QED
    BY <1>2, <2>1, <2>2, <2>3 DEF Steady, MadeInOrder
<1>4. QED
  BY <1>3 DEF MadeInOrder

\* A call is sent.
LEMMA SendSteady ==
  ASSUME PushFirst, SessionInv, QueueInv, Steady,
         SendRegister \/ SendPush \/ SendPull
  PROVE  Steady'
<1> USE DEF Last
<1>1. /\ UNCHANGED <<issued, registered, lastSeq, ackLog, effects, refused,
                     clientId, nextSeq, pushedSeq, ackSeq, pending, rejected,
                     made, late, answer>>
      /\ call = NoCall
  BY DEF SendRegister, SendPush, SendPull, Send, serverVars, deviceVars
<1>2. Flying(late)' = Flying(late)
  BY <1>1 DEF Flying
<1>3. Regular'
  BY DeviceQueue DEF Steady, StaysRegular
<1>4. ackSeq' <= pushedSeq' /\ MadeInOrder'
  BY <1>1 DEF Steady, MadeInOrder
<1>5. answer.kind # "pushed"
  BY <1>1, KindsOf DEF Steady, Answered
<1>6. CASE SendRegister
  <2>1. call' = Register /\ phase' = phase
    BY <1>6 DEF SendRegister, Send
  <2>2. Flying(call)' = {} /\ call'.kind = "register"
    BY <2>1, KindsOf DEF Flying
  <2>3. Ahead' /\ Rounds' /\ Answered' /\ Quiet'
    BY <1>1, <1>2, <1>5, <2>1, <2>2
       DEF Steady, Ahead, Rounds, Answered, Quiet
  <2>4. QED
    BY <1>3, <1>4, <2>3 DEF Steady
<1>7. CASE SendPush
  <2>1. /\ call' = Push(clientId, Batch) /\ phase' = phase /\ phase = "push"
    BY <1>7 DEF SendPush, Send
  <2>2. /\ Flying(call)' \subseteq Batch /\ call'.kind = "push"
        /\ call'.batch = Batch
    BY <2>1, KindsOf DEF Flying
  <2>3. Batch \subseteq Unsent /\ Unsent \subseteq pending
    BY DEF Batch, Unsent
  <2>4. Ahead'
    BY <1>1, <1>2, <2>2, <2>3, BatchIsNext DEF Steady, Ahead
  <2>5. \A p \in Flying(late) : p.seq <= pushedSeq \/ p \in Batch
    <3> SUFFICES ASSUME NEW p \in Flying(late), ~ (p.seq <= pushedSeq)
                 PROVE  p \in Batch
      OBVIOUS
    <3>1. p.seq > pushedSeq
      BY QueueTypes
    <3>2. p \in Unsent /\ p.seq <= pushedSeq + BatchLimit
      BY <3>1 DEF Steady, Ahead, Unsent
    <3>3. QED
      BY <3>2, BatchIsNext
  <2>6. Rounds' /\ Answered' /\ Quiet'
    BY <1>1, <1>2, <1>5, <2>1, <2>2, <2>5
       DEF Steady, Rounds, Answered, Quiet
  <2>7. QED
    BY <1>3, <1>4, <2>4, <2>6 DEF Steady
<1>8. CASE SendPull
  <2>1. call' = Pull(clientId) /\ phase' = "pull" /\ PullDue
    BY <1>8 DEF SendPull, Send
  <2>2. Flying(call)' = {} /\ call'.kind = "pull"
    BY <2>1, KindsOf DEF Flying
  <2>3. Ahead' /\ Rounds' /\ Answered'
    BY <1>1, <1>2, <1>5, <2>1, <2>2 DEF Steady, Ahead, Rounds, Answered
  <2>4. Quiet'
    <3>1. CASE phase = "pull"
      BY <1>1, <1>2, <3>1 DEF Steady, Quiet
    <3>2. CASE Unsent = {}
      <4>1. /\ pushedSeq + 1 .. nextSeq - 1 = {}
            /\ \A p \in Known : p.seq <= nextSeq - 1
        BY <3>2, SteadyUnsent DEF Steady
      <4>2. nextSeq - 1 <= pushedSeq
        BY <4>1, QueueTypes
      <4>3. ASSUME clientId \in registered PROVE Last <= pushedSeq
        <5>1. clientId # NoClient
          BY <4>3, QueueTypes, PolicyAssumption DEF TypeOK, NoClient
        <5>2. QED
          BY <4>2, <5>1, QueueTypes DEF QueueInv, Consumption
      <4>4. \A p \in Flying(late) : p.seq <= pushedSeq
        BY <4>1, <4>2, QueueTypes
      <4>5. QED
        BY <1>1, <1>2, <4>3, <4>4 DEF Quiet
    <3>3. QED
      BY <2>1, <3>1, <3>2 DEF PullDue
  <2>5. QED
    BY <1>3, <1>4, <2>3, <2>4 DEF Steady
<1>9. QED
  BY <1>6, <1>7, <1>8

\* The other steps of the device and its host.
LEMMA DeviceSteady ==
  ASSUME SessionInv, QueueInv, Steady,
         \/ Mutate \/ GiveUp
         \/ ApplyRegister \/ ApplyPush \/ ApplyPull \/ Recover
  PROVE  Steady'
<1> USE DEF Last
<1>0. /\ UNCHANGED <<issued, registered, lastSeq, ackLog, effects, refused>>
      /\ Regular'
  BY DeviceKeeps, DeviceQueue DEF Steady, StaysRegular
<1>a. ASSUME call' = NoCall, answer' = NoAnswer, Ahead', ackSeq' <= pushedSeq',
             MadeInOrder', Quiet'
      PROVE  Steady'
  BY <1>0, <1>a, KindsOf DEF Steady, Rounds, Answered
<1>1. CASE Mutate
  <2>1. /\ UNCHANGED <<clientId, pushedSeq, ackSeq, call, answer, late, phase>>
        /\ pending \subseteq pending'
    BY <1>1 DEF Mutate, hostVars
  <2>2. Flying(call)' = Flying(call) /\ Flying(late)' = Flying(late)
    BY <1>0, <2>1 DEF Flying
  <2>3. Ahead' /\ Rounds' /\ Answered' /\ Quiet'
    BY <1>0, <2>1, <2>2 DEF Steady, Ahead, Rounds, Answered, Quiet
  <2>4. QED
    BY <1>0, <1>1, <2>1, <2>3, MutateSteady DEF Steady
<1>2. CASE GiveUp
  <2>1. /\ UNCHANGED <<clientId, pushedSeq, ackSeq, pending>>
        /\ call' = NoCall /\ answer' = NoAnswer /\ phase' = "push"
        /\ late' \in {call, late}
    BY <1>2 DEF GiveUp, deviceVars
  <2>2. /\ Flying(call)' = {}
        /\ Flying(late)' \subseteq Flying(call) \cup Flying(late)
    BY <1>0, <2>1, KindsOf DEF Flying
  <2>3. Ahead' /\ MadeInOrder' /\ Quiet'
    BY <2>1, <2>2 DEF Steady, Ahead, MadeInOrder, Quiet
  <2>4. QED
    BY <1>a, <2>1, <2>3 DEF Steady
<1>3. CASE ApplyRegister
  <2>1. /\ UNCHANGED <<pending, late>>
        /\ pushedSeq' = 0 /\ ackSeq' = 0
        /\ call' = NoCall /\ answer' = NoAnswer /\ phase' = "push"
    BY <1>3 DEF ApplyRegister, Receive
  <2>2. clientId \notin registered
    BY <1>3, QueueTypes, PolicyAssumption
       DEF ApplyRegister, Calls, TypeOK, NoClient
  <2>3. Flying(call)' = {} /\ Flying(late)' = {}
    BY <1>0, <2>1, <2>2, KindsOf, NothingFlies, QueueTypes DEF Flying
  <2>4. Ahead' /\ MadeInOrder' /\ Quiet'
    BY <2>1, <2>3 DEF Steady, Ahead, MadeInOrder, Quiet
  <2>5. QED
    BY <1>a, <2>1, <2>4
<1>4. CASE ApplyPush
  <2>1. /\ answer.kind = "pushed"
        /\ pending' = pending \ {p \in pending : p.seq \in answer.rejects}
        /\ pushedSeq' = IF answer.last > pushedSeq THEN answer.last
                                                   ELSE pushedSeq
        /\ UNCHANGED <<clientId, ackSeq, late>>
        /\ call' = NoCall /\ answer' = NoAnswer
    BY <1>4 DEF ApplyPush, Reject, PushedUpTo, Receive
  <2>2. /\ answer.last \in Int /\ pushedSeq \in Int /\ ackSeq \in Int
        /\ \A s \in answer.rejects : s <= answer.last
        /\ \A p \in call.batch : p.seq <= answer.last
        /\ clientId \in registered => answer.last = Last
    BY <2>1, AnswerNumbers, QueueTypes
       DEF QueueInv, Consumption, Steady, Answered
  <2>3. /\ pushedSeq' \in Int /\ pushedSeq <= pushedSeq'
        /\ answer.last <= pushedSeq'
    BY <2>1, <2>2
  <2>4. Flying(call)' = {} /\ Flying(late)' = Flying(late)
    BY <1>0, <2>1, KindsOf DEF Flying
  <2>5. \A p \in Known : p.seq \in Int
    BY QueueTypes
  <2>6. ASSUME NEW p \in Flying(late), p.seq > pushedSeq'
        PROVE  p \in pending' /\ p.seq <= pushedSeq' + BatchLimit
    <3>1. p \in pending /\ p.seq <= pushedSeq + BatchLimit /\ p.seq \in Int
      BY <2>2, <2>3, <2>6, QueueTypes DEF Steady, Ahead
    <3>2. p.seq \notin answer.rejects
      BY <2>2, <2>3, <2>6, <3>1, <2>1, AnswerNumbers, QueueTypes
    <3>3. QED
      BY <2>1, <2>2, <2>3, <3>1, <3>2, PolicyAssumption
  <2>7. Ahead'
    BY <2>4, <2>6 DEF Ahead
  <2>8. MadeInOrder'
    BY <2>1 DEF Steady, MadeInOrder
  <2>9. Quiet'
    <3>1. clientId \in registered => Last <= pushedSeq'
      BY <2>2, <2>3
    <3>2. call.kind = "push"
      BY <2>1 DEF Steady, Answered
    <3>3. \A p \in Flying(late) : p.seq <= pushedSeq'
      <4> SUFFICES ASSUME NEW p \in Flying(late) PROVE p.seq <= pushedSeq'
        OBVIOUS
      <4>1. p.seq <= pushedSeq \/ p.seq <= answer.last
        BY <2>2, <3>2 DEF Steady, Rounds
      <4>2. p.seq \in Int
        BY QueueTypes
      <4>3. QED
        BY <2>2, <2>3, <4>1, <4>2
    <3>4. QED
      BY <1>0, <2>1, <2>4, <3>1, <3>3 DEF Quiet
  <2>10. ackSeq' <= pushedSeq'
    BY <2>1, <2>2, <2>3 DEF Steady
  <2>11. QED
    BY <1>a, <2>1, <2>7, <2>8, <2>9, <2>10
<1>5. CASE ApplyPull
  <2>1. /\ answer.kind = "pulled"
        /\ ackSeq' = IF answer.ack > ackSeq THEN answer.ack ELSE ackSeq
        /\ pending' = {p \in pending : p.seq > ackSeq'}
        /\ UNCHANGED <<clientId, pushedSeq, late>>
        /\ call' = NoCall /\ answer' = NoAnswer
    BY <1>5 DEF ApplyPull, Receive
  <2>2. phase = "pull" /\ ackSeq' <= pushedSeq /\ ackSeq' \in Int
    BY <2>1, AnswerNumbers, QueueTypes DEF Steady, Answered
  <2>3. Flying(call)' = {} /\ Flying(late)' = Flying(late)
    BY <1>0, <2>1, KindsOf DEF Flying
  <2>4. Ahead'
    <3>1. ASSUME NEW p \in Flying(late), p.seq > pushedSeq
          PROVE  p \in pending' /\ p.seq <= pushedSeq + BatchLimit
      <4>1. p \in pending /\ p.seq <= pushedSeq + BatchLimit /\ p.seq \in Int
        BY <3>1, QueueTypes DEF Steady, Ahead
      <4>2. p.seq > ackSeq'
        BY <2>2, <3>1, <4>1, QueueTypes
      <4>3. QED
        BY <2>1, <4>1, <4>2
    <3>2. QED
      BY <2>1, <2>3, <3>1 DEF Ahead
  <2>5. MadeInOrder'
    BY <2>1 DEF Steady, MadeInOrder
  <2>6. Quiet'
    BY <1>0, <2>1, <2>2, <2>3 DEF Steady, Quiet
  <2>7. QED
    BY <1>a, <2>1, <2>2, <2>4, <2>5, <2>6
<1>6. CASE Recover
  <2>1. /\ call' = NoCall /\ answer' = NoAnswer /\ phase' = "push"
        /\ late' = late
    BY <1>6 DEF Recover, Receive
  <2>2. Flying(call)' = {} /\ Flying(late)' = Flying(late)
    BY <1>0, <2>1, KindsOf DEF Flying
  <2>3. Quiet'
    BY <2>1 DEF Quiet
  <2>4. CASE answer.kind = "client_expired" /\ ResetRegistration
    <3>1. Flying(late)' = {}
      BY <2>2, <2>4, NothingFlies, QueueTypes DEF Calls
    <3>2. Ahead' /\ ackSeq' <= pushedSeq'
      BY <2>2, <2>4, <3>1 DEF Ahead, ResetRegistration
    <3>3. QED
      BY <1>a, <2>1, <2>3, <2>4, <3>2, ResetSteady
  <2>5. CASE /\ answer.kind = "sequence_gap" /\ pushedSeq' = answer.last
             /\ UNCHANGED <<clientId, nextSeq, ackSeq, pending, rejected>>
    <3>1. /\ answer.last \in Int /\ pushedSeq <= pushedSeq' /\ pushedSeq' \in Int
          /\ pushedSeq \in Int
      BY <2>5, AnswerNumbers, QueueTypes DEF QueueInv, Consumption
    <3>2. ASSUME NEW p \in Flying(late), p.seq > pushedSeq'
          PROVE  p \in pending' /\ p.seq <= pushedSeq' + BatchLimit
      <4>1. p.seq \in Int /\ p.seq > pushedSeq
        BY <3>1, <3>2, QueueTypes
      <4>2. p \in pending /\ p.seq <= pushedSeq + BatchLimit
        BY <4>1 DEF Steady, Ahead
      <4>3. QED
        BY <2>5, <3>1, <4>1, <4>2, PolicyAssumption
    <3>3. Ahead' /\ MadeInOrder'
      BY <2>2, <2>5, <3>2 DEF Steady, Ahead, MadeInOrder
    <3>4. ackSeq' <= pushedSeq'
      BY <2>5, <3>1, QueueTypes DEF Steady
    <3>5. QED
      BY <1>a, <2>1, <2>3, <3>3, <3>4
  <2>6. CASE UNCHANGED deviceVars
    BY <1>a, <2>1, <2>2, <2>3, <2>6
       DEF Steady, Ahead, MadeInOrder, deviceVars
  <2>7. QED
    BY <1>6, <2>4, <2>5, <2>6 DEF Recover
<1>7. QED
  BY <1>1, <1>2, <1>3, <1>4, <1>5, <1>6

\* Every reachable state of a host that pushes first.
LEMMA SteadyInvariant == PushFirst => (Spec => []Steady)
<1> SUFFICES ASSUME PushFirst PROVE Spec => []Steady
  OBVIOUS
<1>1. Init => Steady
  <2> SUFFICES ASSUME Init PROVE Steady
    OBVIOUS
  <2>1. Flying(call) = {} /\ Flying(late) = {} /\ Known = {} /\ Unsent = {}
    BY KindsOf DEF Init, Flying, Known, Unsent
  <2>2. Regular
    BY <2>1 DEF Init, Regular, Low
  <2>3. Ahead /\ Rounds /\ Answered /\ Quiet
    BY <2>1, KindsOf DEF Init, Ahead, Rounds, Answered, Quiet
  <2>4. QED
    BY <2>2, <2>3 DEF Init, Steady, MadeInOrder
<1>2. SessionInv /\ QueueInv /\ Steady /\ UNCHANGED vars => Steady'
  BY DEF Steady, Regular, MadeInOrder, Ahead, Rounds, Answered, Quiet, Known,
         Flying, Unsent, Low, Last, vars, serverVars, deviceVars, hostVars
<1>3. SessionInv /\ QueueInv /\ Steady /\ [Next]_vars => Steady'
  BY <1>2, ServerSteady, SendSteady, DeviceSteady DEF Next
<1>4. QED
  BY <1>1, <1>3, SessionInvariant, QueueInvariant, PTL DEF Spec

\* A host that pushes before it pulls always has its unsent mutations numbered
\* from pushed_seq + 1 with no gap and in the order they were made, across
\* every rejection, lost answer, eviction and renumbering.
THEOREM UnsentIsContiguous == PushFirst => (Spec => []UnsentContiguous)
<1>1. SessionInv /\ QueueInv /\ Steady => UnsentContiguous
  BY SteadyUnsent DEF Steady, MadeInOrder, UnsentContiguous
<1>2. QED
  BY <1>1, SessionInvariant, QueueInvariant, SteadyInvariant, PTL

\* Such a host's device and the server agree on what was consumed, up to one
\* push whose answer is not in yet.
THEOREM SeqsAgree == PushFirst => (Spec => []SeqsAligned)
<1>1. SessionInv /\ QueueInv /\ Steady => SeqsAligned
  BY QueueTypes, PolicyAssumption
     DEF QueueInv, Consumption, Steady, SeqsAligned, TypeOK, NoClient, Last
<1>2. QED
  BY <1>1, SessionInvariant, QueueInvariant, SteadyInvariant, PTL

\* A device that lost its registration has its queue numbered from 1: "The rest
\* are renumbered from 1 for the new registration" (client/recovery.rs).
RenumberedFromOne ==
  clientId = NoClient => {p.seq : p \in pending} = 1 .. nextSeq - 1

\* So it is for a host that pushes before it pulls; for a host that pulls although its push was not answered
\* this is false (`Stuck`).
THEOREM RenumberedWhenPushedFirst == PushFirst => (Spec => []RenumberedFromOne)
<1>1. SessionInv /\ QueueInv /\ Steady => RenumberedFromOne
  <2> SUFFICES ASSUME SessionInv, QueueInv, Steady, clientId = NoClient
               PROVE  {p.seq : p \in pending} = 1 .. nextSeq - 1
    BY DEF RenumberedFromOne
  <2>1. pushedSeq = 0 /\ ackSeq = 0
    BY DEF QueueInv, Consumption
  <2>2. Low = 0
    BY <2>1 DEF Low
  <2>3. Unsent = pending
    BY <2>1, QueueTypes DEF Unsent
  <2>4. {p.seq : p \in Unsent} = Low + 1 .. nextSeq - 1
    BY DEF Steady, Regular
  <2>5. QED
    BY <2>2, <2>3, <2>4
<1>2. QED
  BY <1>1, SessionInvariant, QueueInvariant, SteadyInvariant, PTL
=============================================================================
