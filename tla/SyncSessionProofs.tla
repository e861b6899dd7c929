-------------------------- MODULE SyncSessionProofs --------------------------
(***************************************************************************)
(* Proofs about a device's session, for any host, clock, batch size, caps  *)
(* and bounds: type correctness; that no mutation is applied twice, if a   *)
(* client outlives its mutations by the tolerated skew; and that a         *)
(* mutation reported as rejected is never applied afterwards.              *)
(***************************************************************************)
EXTENDS SyncSession, FiniteSetTheorems, TLAPS

-----------------------------------------------------------------------------
(* Types. *)

\* Queues and batches are finite, so that counting them means something.
Finite ==
  /\ IsFiniteSet(pending)
  /\ call.kind = "push" => IsFiniteSet(call.batch)
  /\ late.kind = "push" => IsFiniteSet(late.batch)

\* Every mutation is queued once at most, and numbers do not outrun them.
Counted ==
  /\ nextSeq <= made + 1
  /\ \A p \in pending : p.mutation <= made
  /\ \A p, q \in pending : p.mutation = q.mutation => p = q

TypeInv == TypeOK /\ Finite /\ Counted

\* Calls and answers by their kind.
LEMMA CallKinds ==
  ASSUME NEW r \in Call
  PROVE  /\ r.kind \in {"none", "register", "push", "pull"}
         /\ r.kind = "none" => r = NoCall
         /\ r.kind = "register" => r = Register
         /\ r.kind \in {"push", "pull"} => r.id \in ClientId
         /\ r.kind = "push" => r.batch \subseteq Pending
BY DEF Call, NoCall, Register

LEMMA AnswerKinds ==
  ASSUME NEW a \in Answer
  PROVE  /\ a.kind = "registered" => a.id \in ClientId
         /\ a.kind = "sequence_gap" => a.last \in Seq
         /\ a.kind = "pushed" => a.last \in Seq /\ a.rejects \subseteq Seq
         /\ a.kind = "pulled" => a.ack \in Seq
BY DEF Answer, NoAnswer, Retry, ClientExpired

LEMMA CallTypes ==
  /\ NoCall \in Call /\ Register \in Call
  /\ \A id \in ClientId : Pull(id) \in Call
  /\ \A id \in ClientId, b \in SUBSET Pending : Push(id, b) \in Call
BY DEF Call, NoCall, Register, Pull, Push

LEMMA AnswerTypes ==
  /\ NoAnswer \in Answer /\ Retry \in Answer /\ ClientExpired \in Answer
  /\ \A s \in Seq : SequenceGap(s) \in Answer /\ Pulled(s) \in Answer
  /\ \A id \in ClientId : Registered(id) \in Answer
  /\ \A s \in Seq, S \in SUBSET Seq : Pushed(s, S) \in Answer
BY DEF Answer, NoAnswer, Retry, ClientExpired, SequenceGap, Pulled,
       Registered, Pushed

\* A contiguous push consumes seqs of its batch, up to the last of them.
LEMMA ConsumedBound ==
  ASSUME TypeOK, NEW r \in Call, r.kind = "push", IsFiniteSet(r.batch),
         Contiguous(r), NEW S
  PROVE  /\ Consumed(r, S) \in Seq
         /\ Consumed(r, S) >= lastSeq[r.id]
         /\ \A p \in Fresh(r) : p.seq <= Consumed(r, S)
<1> DEFINE n == Cardinality(Fresh(r))
<1>1. r.id \in ClientId /\ r.batch \subseteq Pending
  BY CallKinds
<1>2. n \in Nat
  <2>1. Fresh(r) \in SUBSET r.batch
    BY DEF Fresh
  <2>2. QED
    BY <2>1, FS_Subset, FS_CardinalityType
<1>3. lastSeq[r.id] \in Seq /\ MaxMutation \in Nat
  BY <1>1, PolicyAssumption DEF TypeOK
<1>4. \A p \in Fresh(r) : p.seq \in Mutation
  BY <1>1 DEF Fresh, Pending
<1>5. {p.seq : p \in Fresh(r)} = lastSeq[r.id] + 1 .. lastSeq[r.id] + n
  BY DEF Contiguous
<1> HIDE DEF n
<1>6. lastSeq[r.id] + n \in Seq
  <2>1. CASE n = 0
    BY <2>1, <1>3 DEF Seq
  <2>2. CASE n > 0
    <3>1. lastSeq[r.id] + n \in lastSeq[r.id] + 1 .. lastSeq[r.id] + n
      BY <2>2, <1>2, <1>3 DEF Seq
    <3>2. PICK p \in Fresh(r) : p.seq = lastSeq[r.id] + n
      BY <3>1, <1>5
    <3>3. QED
      BY <3>2, <1>3, <1>4 DEF Seq, Mutation
  <2>3. QED
    BY <2>1, <2>2, <1>2
<1>7. \A p \in Fresh(r) : p.seq <= lastSeq[r.id] + n
  BY <1>2, <1>3, <1>5 DEF Seq
<1>8. Consumed(r, S) = lastSeq[r.id] + n
  BY DEF Consumed, n
<1>9. QED
  BY <1>2, <1>3, <1>6, <1>7, <1>8 DEF Seq

\* There are no more unsent mutations than mutations.
LEMMA UnsentBound ==
  ASSUME TypeInv
  PROVE  /\ IsFiniteSet(Unsent)
         /\ Cardinality(Unsent) \in Nat
         /\ Cardinality(Unsent) <= made
<1> DEFINE f == [p \in Unsent |-> p.mutation]
<1>1. made \in Nat
  BY PolicyAssumption DEF TypeInv, TypeOK
<1>2. IsFiniteSet(1 .. made) /\ Cardinality(1 .. made) = made
  BY <1>1, FS_Interval
<1>3. \A p \in Unsent : p.mutation \in 1 .. made
  BY <1>1 DEF TypeInv, TypeOK, Counted, Unsent, Pending, Mutation
<1>4. \A p, q \in Unsent : p.mutation = q.mutation => p = q
  BY DEF TypeInv, Counted, Unsent
<1>5. f \in Injection(Unsent, 1 .. made)
  BY <1>3, <1>4 DEF Injection, IsInjective
<1>6. IsFiniteSet(Unsent) /\ Cardinality(Unsent) <= Cardinality(1 .. made)
  BY <1>2, <1>5, FS_Injection
<1>7. QED
  BY <1>2, <1>6, FS_CardinalityType

\* The conjuncts of TypeOK about what the server writes.
ServerTyped ==
  /\ issued \in 0 .. MaxClientId
  /\ registered \subseteq 1 .. issued
  /\ lastSeq \in [ClientId -> Seq]
  /\ seenAt \in [ClientId -> 0 .. MaxClock]
  /\ ackLog \in [ClientId -> Seq]
  /\ effects \in [Mutation -> Nat] /\ refused \subseteq Mutation
  /\ faults \in 0 .. MaxFaults

\* last_seen_at of one client is set to a time that is not long past.
LEMMA SeenType ==
  ASSUME TypeOK, NEW c \in ClientId, Seen(c)
  PROVE  /\ seenAt' \in [ClientId -> 0 .. MaxClock]
         /\ \A id \in ClientId :
              \/ seenAt'[id] = seenAt[id]
              \/ id = c /\ seenAt'[id] <= now /\ now <= seenAt'[id] + LockWait
         /\ seenAt'[c] <= now /\ now <= seenAt'[c] + LockWait
<1>1. PICK t \in 0 .. now : now - t <= LockWait /\ seenAt' = [seenAt EXCEPT ![c] = t]
  BY DEF Seen
<1>2. now \in 0 .. MaxClock /\ seenAt \in [ClientId -> 0 .. MaxClock] /\ LockWait \in Nat
  BY PolicyAssumption DEF TypeOK
<1>3. t \in 0 .. MaxClock
  BY <1>1, <1>2, PolicyAssumption
<1> QED BY <1>1, <1>2, <1>3

\* Whatever the server does with a call, its rows keep their types and what
\* it says is an answer.
LEMMA HandleType ==
  ASSUME TypeOK, NEW r \in Call, NEW a, Handle(r, a),
         r.kind = "push" => IsFiniteSet(r.batch)
  PROVE  ServerTyped' /\ a \in Answer
<1> USE PolicyAssumption
<1>0. ServerTyped
  BY DEF TypeOK, ServerTyped
<1>1. CASE UNCHANGED serverVars /\ Failed /\ a = Retry
  BY <1>0, <1>1, AnswerTypes DEF ServerTyped, serverVars, Failed
<1>2. CASE UNCHANGED <<serverVars, faults>> /\ a = ClientExpired
  BY <1>0, <1>2, AnswerTypes DEF ServerTyped, serverVars
<1>3. CASE r.kind = "register" /\ ServeRegister(a)
  <2>1. CASE UNCHANGED <<serverVars, faults>> /\ a = Retry
    BY <1>0, <2>1, AnswerTypes DEF ServerTyped, serverVars
  <2>2. CASE /\ issued < MaxClientId
             /\ issued' = issued + 1
             /\ registered' = registered \cup {issued + 1}
             /\ Seen(issued + 1)
             /\ a = Registered(issued + 1)
             /\ UNCHANGED <<lastSeq, ackLog, effects, refused, faults>>
    <3>1. issued + 1 \in ClientId
      BY <2>2 DEF TypeOK, ClientId
    <3>2. ServerTyped'
      BY <1>0, <2>2, <3>1, SeenType DEF TypeOK, ServerTyped
    <3>3. QED
      BY <2>2, <3>1, <3>2, AnswerTypes
  <2>3. QED
    BY <1>1, <1>3, <2>1, <2>2 DEF ServeRegister, Fails
<1>4. CASE r.kind = "push" /\ ServePush(r, a)
  <2>1. r.id \in ClientId /\ r.batch \subseteq Pending
    BY <1>4, CallKinds
  <2>2. CASE UNCHANGED <<serverVars, faults>> /\ a = SequenceGap(lastSeq[r.id])
    BY <1>0, <2>1, <2>2, AnswerTypes DEF ServerTyped, serverVars
  <2>3. ASSUME Contiguous(r), NEW no \in SUBSET Fresh(r), Replay(r, no, a),
               Seen(r.id), UNCHANGED <<issued, registered, faults>>
        PROVE  ServerTyped' /\ a \in Answer
    <3> DEFINE rejects == {p \in Fresh(r) : Screened(p) \/ p \in no}
               applied == {p.mutation : p \in Fresh(r) \ rejects}
               last == Consumed(r, rejects)
    <3>1. last \in Seq
      BY <1>4, <2>3, ConsumedBound
    <3>2. \A p \in Fresh(r) : p.seq \in Seq /\ p.mutation \in Mutation
      BY <2>1 DEF Fresh, Pending, Seq, Mutation
    <3>3. effects' = [m \in Mutation |-> IF m \in applied THEN effects[m] + 1
                                                        ELSE effects[m]]
      BY <2>3 DEF Replay
    <3>4. /\ refused' = refused \cup {p.mutation : p \in rejects}
          /\ lastSeq' = [lastSeq EXCEPT ![r.id] = last]
          /\ \/ ackLog' = ackLog
             \/ ackLog' = [ackLog EXCEPT ![r.id] = last]
          /\ a = Pushed(last, {p.seq : p \in rejects})
      BY <2>3 DEF Replay
    <3>5. \A p \in rejects : p.seq \in Seq /\ p.mutation \in Mutation
      BY <3>2
    <3> HIDE DEF rejects, applied, last
    <3>6. effects' \in [Mutation -> Nat]
      BY <1>0, <3>3 DEF ServerTyped
    <3>7. refused' \subseteq Mutation
      BY <1>0, <3>4, <3>5 DEF ServerTyped
    <3>8. lastSeq' \in [ClientId -> Seq] /\ ackLog' \in [ClientId -> Seq]
      BY <1>0, <2>1, <3>1, <3>4 DEF ServerTyped
    <3>9. {p.seq : p \in rejects} \in SUBSET Seq
      BY <3>5
    <3>10. a \in Answer
      BY <3>1, <3>4, <3>9, AnswerTypes
    <3>11. QED
      BY <1>0, <2>1, <2>3, <3>6, <3>7, <3>8, <3>10, SeenType DEF TypeOK, ServerTyped
  <2>4. QED
    BY <1>1, <1>2, <1>4, <2>2, <2>3 DEF ServePush, Fails
<1>5. CASE r.kind = "pull" /\ ServePull(r, a)
  <2>1. r.id \in ClientId
    BY <1>5, CallKinds
  <2>2. CASE /\ a \in {Pulled(ackLog[r.id]), Pulled(0)}
             /\ Seen(r.id)
             /\ UNCHANGED <<issued, registered, lastSeq, ackLog, effects,
                            refused, faults>>
    <3>1. 0 \in Seq /\ ackLog[r.id] \in Seq
      BY <1>0, <2>1 DEF ServerTyped, Seq
    <3>2. ServerTyped'
      BY <1>0, <2>1, <2>2, SeenType DEF TypeOK, ServerTyped
    <3>3. QED
      BY <2>2, <3>1, <3>2, AnswerTypes
  <2>3. QED
    BY <1>1, <1>2, <1>5, <2>2 DEF ServePull, Fails
<1>6. QED
  BY <1>3, <1>4, <1>5 DEF Handle

\* The initial state is well typed.
LEMMA InitType == Init => TypeInv
<1> SUFFICES ASSUME Init PROVE TypeInv
  OBVIOUS
<1>1. TypeOK
  BY PolicyAssumption, CallTypes, AnswerTypes
     DEF Init, TypeOK, Seq, NoClient
<1>2. Finite
  BY FS_EmptySet DEF Init, Finite, NoCall
<1>3. Counted
  BY DEF Init, Counted
<1>4. QED
  BY <1>1, <1>2, <1>3 DEF TypeInv

\* The server's steps keep the types.
LEMMA ServerType ==
  ASSUME TypeInv, Serve \/ ServeLate \/ LoseLate \/ Evict \/ Tick
  PROVE  TypeInv'
<1> USE PolicyAssumption
<1>1. CASE Serve
  <2>1. ServerTyped' /\ answer' \in Answer
    BY <1>1, HandleType DEF Serve, TypeInv, TypeOK, Finite
  <2>2. QED
    BY <1>1, <2>1
       DEF Serve, TypeInv, TypeOK, ServerTyped, Finite, Counted, deviceVars
<1>2. CASE ServeLate
  <2>1. ServerTyped'
    BY <1>2, HandleType DEF ServeLate, TypeInv, TypeOK, Finite
  <2>2. QED
    BY <1>2, <2>1, CallTypes
       DEF ServeLate, TypeInv, TypeOK, ServerTyped, Finite, Counted,
           deviceVars, NoCall
<1>3. CASE LoseLate
  BY <1>3, CallTypes
     DEF LoseLate, TypeInv, TypeOK, Finite, Counted, deviceVars, serverVars,
         NoCall
<1>4. CASE Evict
  <2>1. (ackLog \in [ClientId -> Seq])'
    BY <1>4 DEF Evict, TypeInv, TypeOK, Seq
  <2>2. QED
    BY <1>4, <2>1
       DEF Evict, TypeInv, TypeOK, Finite, Counted, deviceVars, hostVars
<1>5. CASE Tick
  BY <1>5
     DEF Tick, TypeInv, TypeOK, Finite, Counted, deviceVars, serverVars,
         hostVars
<1>6. QED
  BY <1>1, <1>2, <1>3, <1>4, <1>5

\* A client that loses its registration renumbers its queue from one.
LEMMA ResetType ==
  ASSUME TypeInv, ResetRegistration, UNCHANGED made
  PROVE  /\ (nextSeq \in 1 .. MaxMutation + 1)' /\ (pushedSeq \in Seq)'
         /\ (ackSeq \in Seq)' /\ (clientId \in ClientId \cup {NoClient})'
         /\ (pending \subseteq Pending)' /\ (rejected \subseteq Mutation)'
         /\ IsFiniteSet(pending)'
         /\ Counted'
<1> USE PolicyAssumption
<1>1. Cardinality(Unsent) \in Nat /\ Cardinality(Unsent) <= made
  BY UnsentBound
<1>2. pushedSeq \in Seq /\ made \in 0 .. MaxMutation
  BY DEF TypeInv, TypeOK
<1>3. \A p \in Unsent : p \in Pending /\ p \in pending /\ p.seq > pushedSeq
  BY DEF TypeInv, TypeOK, Unsent
<1>4. \A p \in Unsent :
        [p EXCEPT !.seq = @ - pushedSeq]
          = [seq |-> p.seq - pushedSeq, mutation |-> p.mutation, at |-> p.at]
  BY <1>3 DEF Pending
<1>5. \A q \in pending' :
        /\ q \in Pending
        /\ \E p \in Unsent : /\ q.mutation = p.mutation /\ q.at = p.at
                             /\ q = [p EXCEPT !.seq = @ - pushedSeq]
  <2> SUFFICES ASSUME NEW q \in pending'
               PROVE  /\ q \in Pending
                      /\ \E p \in Unsent :
                           /\ q.mutation = p.mutation /\ q.at = p.at
                           /\ q = [p EXCEPT !.seq = @ - pushedSeq]
    OBVIOUS
  <2>1. PICK p \in Unsent : q = [p EXCEPT !.seq = @ - pushedSeq]
    BY DEF ResetRegistration, Renumbered
  <2>2. q = [seq |-> p.seq - pushedSeq, mutation |-> p.mutation, at |-> p.at]
    BY <1>4, <2>1
  <2>3. p.seq - pushedSeq \in Mutation
    BY <1>2, <1>3 DEF Pending, Seq, Mutation
  <2>4. p.mutation \in Mutation /\ p.at \in Int
    BY <1>3 DEF Pending
  <2>5. QED
    BY <2>1, <2>2, <2>3, <2>4 DEF Pending
<1>6. IsFiniteSet(pending')
  <2> DEFINE g == [p \in Unsent |-> [p EXCEPT !.seq = @ - pushedSeq]]
  <2>1. g \in Surjection(Unsent, pending')
    BY DEF Surjection, ResetRegistration, Renumbered
  <2>2. QED
    BY <2>1, UnsentBound, FS_Surjection
<1>7. rejected' \subseteq Mutation
  BY DEF ResetRegistration, TypeInv, TypeOK, Pending
<1>8. Counted'
  <2>1. nextSeq' <= made' + 1
    BY <1>1, <1>2 DEF ResetRegistration
  <2>2. \A q \in pending' : q.mutation <= made'
    BY <1>3, <1>5 DEF TypeInv, Counted
  <2>3. \A p, q \in Unsent : p.mutation = q.mutation => p = q
    BY <1>3 DEF TypeInv, Counted
  <2>4. \A p, q \in pending' : p.mutation = q.mutation => p = q
    BY <1>5, <2>3
  <2>5. QED
    BY <2>1, <2>2, <2>4 DEF Counted
<1>9. QED
  BY <1>1, <1>2, <1>5, <1>6, <1>7, <1>8
     DEF ResetRegistration, Seq

\* The steps of the device and its host keep the types.
LEMMA DeviceType ==
  ASSUME TypeInv,
         \/ Mutate \/ SendRegister \/ SendPush \/ SendPull \/ GiveUp
         \/ ApplyRegister \/ ApplyPush \/ ApplyPull \/ Recover
  PROVE  TypeInv'
<1> USE PolicyAssumption
<1>1. CASE Mutate
  <2>1. PICK e \in ClockError :
          pending' = pending \cup {[seq |-> nextSeq, mutation |-> made + 1,
                                    at |-> now + e]}
    BY <1>1 DEF Mutate
  <2> DEFINE new == [seq |-> nextSeq, mutation |-> made + 1, at |-> now + e]
  <2>2. new \in Pending
    BY <1>1 DEF TypeInv, TypeOK, Counted, Mutate, Pending, Mutation
  <2>3. new.mutation = made + 1
    OBVIOUS
  <2> HIDE DEF new
  <2>4. pending' = pending \cup {new}
    BY <2>1 DEF new
  <2>5. TypeOK'
    BY <1>1, <2>2, <2>4
       DEF TypeInv, TypeOK, Counted, Mutate, serverVars, hostVars
  <2>6. Finite'
    BY <1>1, <2>4, FS_AddElement DEF TypeInv, Finite, Mutate, hostVars
  <2>7. Counted'
    <3>1. made \in Int /\ made' = made + 1 /\ nextSeq \in Int
            /\ nextSeq' = nextSeq + 1
      BY <1>1 DEF TypeInv, TypeOK, Mutate
    <3>2. \A p \in pending : p.mutation \in Int /\ p.mutation <= made
      BY DEF TypeInv, TypeOK, Counted, Pending, Mutation
    <3>3. QED
      BY <2>3, <2>4, <3>1, <3>2 DEF TypeInv, Counted
  <2>8. QED
    BY <2>5, <2>6, <2>7 DEF TypeInv
<1>2. CASE SendRegister
  BY <1>2, CallTypes
     DEF SendRegister, Send, TypeInv, TypeOK, Finite, Counted, serverVars,
         deviceVars, Register
<1>3. CASE SendPush
  <2>1. Batch \in SUBSET pending
    BY DEF Batch, Unsent
  <2>2. IsFiniteSet(Batch)
    BY <2>1, FS_Subset DEF TypeInv, Finite
  <2>3. Push(clientId, Batch) \in Call
    BY <1>3, <2>1, CallTypes DEF TypeInv, TypeOK, SendPush
  <2>4. QED
    BY <1>3, <2>2, <2>3
       DEF SendPush, Send, TypeInv, TypeOK, Finite, Counted, serverVars,
           deviceVars, Push
<1>4. CASE SendPull
  <2>1. Pull(clientId) \in Call
    BY <1>4, CallTypes DEF TypeInv, TypeOK, SendPull
  <2>2. QED
    BY <1>4, <2>1
       DEF SendPull, Send, TypeInv, TypeOK, Finite, Counted, serverVars,
           deviceVars, Pull
<1>5. CASE GiveUp
  BY <1>5, CallTypes, AnswerTypes
     DEF GiveUp, Failed, TypeInv, TypeOK, Finite, Counted, serverVars,
         deviceVars, NoCall
<1>6. CASE ApplyRegister
  BY <1>6, CallTypes, AnswerTypes, AnswerKinds
     DEF ApplyRegister, Receive, TypeInv, TypeOK, Finite, Counted,
         serverVars, NoCall, Seq
<1>7. CASE ApplyPush
  <2>1. IsFiniteSet(pending') /\ pending' \subseteq pending
    BY <1>7, FS_Subset DEF ApplyPush, Reject, TypeInv, Finite
  <2>2. rejected' \subseteq Mutation
    BY <1>7 DEF ApplyPush, Reject, TypeInv, TypeOK, Pending
  <2>3. pushedSeq' \in Seq
    BY <1>7, AnswerKinds DEF ApplyPush, PushedUpTo, TypeInv, TypeOK
  <2>4. QED
    BY <1>7, <2>1, <2>2, <2>3, CallTypes, AnswerTypes
       DEF ApplyPush, Receive, TypeInv, TypeOK, Finite, Counted,
           serverVars, NoCall
<1>8. CASE ApplyPull
  <2>1. IsFiniteSet(pending') /\ pending' \subseteq pending
    BY <1>8, FS_Subset DEF ApplyPull, TypeInv, Finite
  <2>2. ackSeq' \in Seq
    BY <1>8, AnswerKinds DEF ApplyPull, TypeInv, TypeOK
  <2>3. QED
    BY <1>8, <2>1, <2>2, CallTypes, AnswerTypes
       DEF ApplyPull, Receive, TypeInv, TypeOK, Finite, Counted,
           serverVars, NoCall
<1>9. CASE Recover
  <2>1. CASE ResetRegistration
    BY <1>9, <2>1, ResetType, CallTypes, AnswerTypes
       DEF Recover, Receive, TypeInv, TypeOK, Finite, serverVars, NoCall
  <2>2. CASE answer.kind = "sequence_gap" /\ pushedSeq' = answer.last
             /\ UNCHANGED <<clientId, nextSeq, ackSeq, pending, rejected>>
    BY <1>9, <2>2, CallTypes, AnswerTypes, AnswerKinds
       DEF Recover, Receive, TypeInv, TypeOK, Finite, Counted, serverVars,
           NoCall
  <2>3. CASE UNCHANGED deviceVars
    BY <1>9, <2>3, CallTypes, AnswerTypes
       DEF Recover, Receive, TypeInv, TypeOK, Finite, Counted, serverVars,
           deviceVars, NoCall
  <2>4. QED
    BY <1>9, <2>1, <2>2, <2>3 DEF Recover
<1>10. QED
  BY <1>1, <1>2, <1>3, <1>4, <1>5, <1>6, <1>7, <1>8, <1>9

\* Every reachable state is well typed.
LEMMA TypeInvariant == Spec => []TypeInv
<1>1. TypeInv /\ UNCHANGED vars => TypeInv'
  BY DEF TypeInv, TypeOK, Finite, Counted, vars, serverVars, deviceVars,
         hostVars
<1>2. TypeInv /\ [Next]_vars => TypeInv'
  BY <1>1, ServerType, DeviceType DEF Next
<1>3. QED
  BY <1>2, InitType, PTL DEF Spec

\* Every variable always holds a value of its type: no number the device or
\* the server computes leaves its range, and no batch is infinite.
THEOREM TypeCorrect == Spec => []TypeOK
BY TypeInvariant, PTL DEF TypeInv

-----------------------------------------------------------------------------
(* Where the mutations are.                                                 *)

\* The mutations a call would still put to a registered client's queue.
Flying(r) ==
  IF r.kind = "push" THEN IF r.id \in registered THEN r.batch ELSE {} ELSE {}

\* The mutations the server may still be asked to apply.
Known == pending \cup Flying(call) \cup Flying(late)

\* A call of the device speaks for its registration, and one it gave up on
\* for the same registration or for one that is gone.
Calls ==
  /\ clientId <= issued
  /\ call.kind = "register" => clientId = NoClient
  /\ call.kind \in {"push", "pull"} => call.id = clientId
  /\ late.kind = "push" => /\ late.id <= issued
                           /\ late.id \in registered => late.id = clientId
  /\ answer.kind = "registered" => clientId = NoClient /\ answer.id <= issued
  /\ answer.kind = "client_expired" => clientId \notin registered

\* A mutation keeps one seq and one created_at within a registration, however
\* many calls carry it.
OneCopy ==
  /\ \A p \in Known : p.mutation <= made
  /\ \A p, q \in Known : p.mutation = q.mutation => p = q

SessionInv == TypeInv /\ Calls /\ OneCopy

\* A rejected mutation has left the queue, and a call that still carries it
\* carries a seq the server has consumed.
Told ==
  /\ \A p \in pending : p.mutation \notin rejected
  /\ \A p \in Flying(call) \cup Flying(late) :
       p.mutation \in rejected => p.seq <= lastSeq[clientId]
  /\ \A m \in rejected : m <= made
  /\ answer.kind = "pushed" /\ clientId \in registered =>
       \A s \in answer.rejects : s <= lastSeq[clientId]

\* The server will not apply p again: it is too old, or its seq is consumed
\* under a registration that outlives it.
Spent(p) ==
  \/ now - p.at > MutationTtl
  \/ /\ clientId \in registered
     /\ p.seq <= lastSeq[clientId]
     /\ p.at <= seenAt[clientId] + Skew + LockWait
     /\ p.at <= now + Skew

\* What was applied and may still be pushed will not be applied again.
Once ==
  /\ AppliedOnce
  /\ \A m \in Mutation : m > made => effects[m] = 0
  /\ \A id \in ClientId : seenAt[id] <= now
  /\ \A p \in Known : effects[p.mutation] = 0 \/ Spent(p)

\* What each answer says.
LEMMA AnswerContents ==
  /\ Retry.kind = "retry" /\ ClientExpired.kind = "client_expired"
  /\ \A s : SequenceGap(s).kind = "sequence_gap" /\ Pulled(s).kind = "pulled"
  /\ \A id : Registered(id).kind = "registered" /\ Registered(id).id = id
  /\ \A s, S : Pushed(s, S).kind = "pushed" /\ Pushed(s, S).rejects = S
BY DEF Retry, ClientExpired, SequenceGap, Registered, Pushed, Pulled

\* Handling a call registers one new client at most, and takes back no seq.
RowsKept ==
  /\ issued <= issued'
  /\ \A id \in Int : id <= issued => (id \in registered' <=> id \in registered)
  /\ \A id \in ClientId : lastSeq[id] <= lastSeq'[id]
  /\ \A id \in ClientId :
       \/ seenAt'[id] = seenAt[id]
       \/ seenAt'[id] <= now /\ now <= seenAt'[id] + LockWait

\* What the answer a to the call r is true of.
Truthful(r, a) ==
  /\ a.kind = "registered" => r.kind = "register" /\ a.id <= issued'
  /\ a.kind = "client_expired" =>
       r.kind \in {"push", "pull"} /\ r.id \notin registered'
  /\ a.kind = "pushed" =>
       /\ r.kind = "push" /\ r.id \in registered
       /\ \A s \in a.rejects : s <= lastSeq'[r.id]

\* The server keeps its rows, and answers truthfully.
LEMMA HandleFrame ==
  ASSUME TypeOK, NEW r \in Call, NEW a, Handle(r, a),
         r.kind = "push" => IsFiniteSet(r.batch)
  PROVE  RowsKept /\ Truthful(r, a)
<1>0. /\ issued \in Nat /\ registered \subseteq 1 .. issued
      /\ DOMAIN lastSeq = ClientId /\ DOMAIN seenAt = ClientId
      /\ \A id \in ClientId : lastSeq[id] \in Int
      /\ Seq \subseteq Int
  BY PolicyAssumption DEF TypeOK, Seq
<1>a. UNCHANGED serverVars => RowsKept
  BY <1>0 DEF serverVars, RowsKept
<1>b. Fails(a) => RowsKept /\ Truthful(r, a)
  BY <1>a, AnswerContents DEF Fails, Truthful
<1>1. CASE r.kind = "register" /\ ServeRegister(a)
  <2>1. CASE UNCHANGED serverVars /\ a = Retry
    BY <1>a, <2>1, AnswerContents DEF Truthful
  <2>2. CASE /\ issued' = issued + 1
             /\ registered' = registered \cup {issued + 1}
             /\ issued + 1 \in ClientId /\ Seen(issued + 1)
             /\ a = Registered(issued + 1)
             /\ lastSeq' = lastSeq
    <3>1. RowsKept
      BY <1>0, <2>2, SeenType DEF RowsKept
    <3>2. a.kind = "registered" /\ a.id = issued'
      BY <2>2, AnswerContents
    <3>3. QED
      BY <1>0, <1>1, <2>2, <3>1, <3>2 DEF Truthful
  <2>3. QED
    BY <1>0, <1>b, <1>1, <2>1, <2>2, PolicyAssumption DEF ServeRegister, ClientId
<1>2. CASE r.kind = "push" /\ ServePush(r, a)
  <2>1. r.id \in ClientId
    BY <1>2, CallKinds
  <2>2. CASE r.id \notin registered /\ a = ClientExpired /\ UNCHANGED serverVars
    BY <1>a, <1>2, <2>2, AnswerContents DEF Truthful, serverVars
  <2>3. CASE a = SequenceGap(lastSeq[r.id]) /\ UNCHANGED serverVars
    BY <1>a, <2>3, AnswerContents DEF Truthful
  <2>5. ASSUME r.id \in registered, Contiguous(r), NEW no \in SUBSET Fresh(r),
               Replay(r, no, a), Seen(r.id), UNCHANGED <<issued, registered>>
        PROVE  RowsKept /\ Truthful(r, a)
    <3> DEFINE rejects == {p \in Fresh(r) : Screened(p) \/ p \in no}
               last == Consumed(r, rejects)
    <3>1. /\ lastSeq' = [lastSeq EXCEPT ![r.id] = last]
          /\ a = Pushed(last, {p.seq : p \in rejects})
      BY <2>5 DEF Replay
    <3>2. /\ last \in Seq /\ last >= lastSeq[r.id]
          /\ \A p \in rejects : p.seq <= last
      BY <1>2, <2>5, ConsumedBound
    <3> HIDE DEF rejects, last
    <3>3. \A id \in ClientId : lastSeq[id] <= lastSeq'[id]
      BY <1>0, <2>1, <3>1, <3>2
    <3>4. RowsKept
      BY <1>0, <2>1, <2>5, <3>3, SeenType DEF RowsKept
    <3>5. a.kind = "pushed" /\ \A s \in a.rejects : s <= lastSeq'[r.id]
      BY <1>0, <2>1, <3>1, <3>2, AnswerContents
    <3>6. QED
      BY <1>2, <2>5, <3>4, <3>5 DEF Truthful
  <2>6. QED
    BY <1>b, <1>2, <2>2, <2>3, <2>5 DEF ServePush
<1>3. CASE r.kind = "pull" /\ ServePull(r, a)
  <2>1. CASE r.id \notin registered /\ a = ClientExpired /\ UNCHANGED serverVars
    BY <1>a, <1>3, <2>1, AnswerContents DEF Truthful, serverVars
  <2>2. CASE /\ a \in {Pulled(ackLog[r.id]), Pulled(0)}
             /\ r.id \in ClientId /\ Seen(r.id)
             /\ UNCHANGED <<issued, registered, lastSeq>>
    <3>1. RowsKept
      BY <1>0, <2>2, SeenType DEF RowsKept
    <3>2. a.kind = "pulled"
      BY <2>2, AnswerContents
    <3>3. QED
      BY <3>1, <3>2 DEF Truthful
  <2>3. QED
    BY <1>b, <1>3, <2>1, <2>2, CallKinds DEF ServePull
<1>4. QED
  BY <1>1, <1>2, <1>3 DEF Handle

\* A registered client's mutations in flight are in calls of its own.
LEMMA FlyingIsMine ==
  ASSUME TypeOK, Calls, NEW r, r = call \/ r = late, Flying(r) # {}
  PROVE  /\ r \in Call /\ r.kind = "push" /\ r.id = clientId
         /\ clientId \in registered /\ clientId \in ClientId
         /\ Flying(r) = r.batch
BY CallKinds DEF TypeOK, Calls, Flying

\* Every mutation known is a mutation.
LEMMA KnownType ==
  ASSUME TypeOK
  PROVE  Known \subseteq Pending
BY CallKinds DEF TypeOK, Known, Flying

\* A step that adds nothing to what is known leaves one copy of each.
LEMMA FewerCopies ==
  ASSUME TypeOK, OneCopy, Known' \subseteq Known, made \in Nat, made' \in Nat,
         made <= made'
  PROVE  OneCopy'
<1>1. \A p \in Known : p.mutation \in Int
  BY KnownType DEF Pending, Mutation
<1>2. QED
  BY <1>1 DEF OneCopy

\* Nothing joins what is queued or in flight.
OnlyTakes ==
  /\ pending' = pending
  /\ Flying(call)' \subseteq Flying(call)
  /\ Flying(late)' \subseteq Flying(late)

\* The server's steps only take from what is known.
LEMMA ServerSession ==
  ASSUME SessionInv, Serve \/ ServeLate \/ LoseLate \/ Evict \/ Tick
  PROVE  Calls' /\ OnlyTakes
<1>0. /\ TypeOK /\ Finite /\ call \in Call /\ late \in Call
      /\ issued \in Nat /\ clientId \in Nat
      /\ registered \subseteq 1 .. issued
      /\ ClientId \subseteq Int
  BY PolicyAssumption DEF SessionInv, TypeInv, TypeOK, ClientId, NoClient
<1>a. /\ call.kind = "push" => call.id \in Int
      /\ late.kind = "push" => late.id \in Int
  BY <1>0, CallKinds
<1>1. CASE Serve
  <2>1. UNCHANGED <<clientId, pending, call, late>>
    BY <1>1 DEF Serve, deviceVars
  <2>2. /\ issued <= issued' /\ issued' \in Int
        /\ \A id \in Int :
             id <= issued => (id \in registered' <=> id \in registered)
        /\ answer'.kind = "registered" =>
             call.kind = "register" /\ answer'.id <= issued'
        /\ answer'.kind = "client_expired" =>
             call.kind \in {"push", "pull"} /\ call.id \notin registered'
    <3>1. Handle(call, answer') /\ (call.kind = "push" => IsFiniteSet(call.batch))
      BY <1>0, <1>1 DEF Serve, Finite
    <3>2. issued' \in Int
      BY <1>0, <3>1, HandleType, PolicyAssumption DEF ServerTyped
    <3>3. QED
      BY <1>0, <3>1, <3>2, HandleFrame DEF RowsKept, Truthful
  <2>3. Calls'
    BY <1>0, <1>a, <2>1, <2>2 DEF SessionInv, Calls
  <2>4. OnlyTakes
    BY <1>0, <1>a, <2>1, <2>2 DEF SessionInv, Calls, OnlyTakes, Flying
  <2>5. QED
    BY <2>3, <2>4
<1>2. CASE ServeLate
  <2>1. UNCHANGED <<clientId, pending, call, answer>> /\ late' = NoCall
    BY <1>2 DEF ServeLate, deviceVars
  <2>2. /\ issued <= issued' /\ issued' \in Int
        /\ \A id \in Int :
             id <= issued => (id \in registered' <=> id \in registered)
    <3>1. PICK a \in Answer : Handle(late, a)
      BY <1>2 DEF ServeLate
    <3>2. late.kind = "push" => IsFiniteSet(late.batch)
      BY <1>0 DEF Finite
    <3>3. issued' \in Int
      BY <1>0, <3>1, <3>2, HandleType, PolicyAssumption DEF ServerTyped
    <3>4. QED
      BY <1>0, <3>1, <3>2, <3>3, HandleFrame DEF RowsKept
  <2>3. answer.kind = "registered" => answer.id \in Int
    BY <1>0, AnswerKinds DEF TypeOK
  <2>4. Calls'
    BY <1>0, <1>a, <2>1, <2>2, <2>3 DEF SessionInv, Calls, NoCall
  <2>5. OnlyTakes
    BY <1>0, <1>a, <2>1, <2>2 DEF SessionInv, Calls, OnlyTakes, Flying, NoCall
  <2>6. QED
    BY <2>4, <2>5
<1>3. CASE LoseLate
  BY <1>3 DEF LoseLate, deviceVars, serverVars, SessionInv, Calls, OnlyTakes,
              Flying, NoCall
<1>4. CASE Evict
  BY <1>4 DEF Evict, deviceVars, hostVars, SessionInv, Calls, OnlyTakes,
              Flying
<1>5. CASE Tick
  BY <1>5 DEF Tick, deviceVars, hostVars, serverVars, SessionInv, Calls,
              OnlyTakes, Flying
<1>6. QED
  BY <1>1, <1>2, <1>3, <1>4, <1>5

\* A client whose registration is gone has nothing in flight.
LEMMA NothingFlies ==
  ASSUME TypeOK, Calls, clientId \notin registered
  PROVE  Flying(call) = {} /\ Flying(late) = {}
BY FlyingIsMine

\* The device makes new mutations known, and renumbers them only when its
\* registration is gone.
DeviceKnows ==
  \/ Known' \subseteq Known /\ UNCHANGED <<clientId, made>>
  \/ /\ UNCHANGED clientId /\ made' = made + 1
     /\ \E new \in Pending :
          new.mutation = made + 1 /\ Known' = Known \cup {new}
  \/ /\ clientId \notin registered /\ UNCHANGED made
     /\ \A q \in Known' :
          \E p \in Known : q.mutation = p.mutation /\ q.at = p.at

\* What the device's steps do to what is known.
LEMMA DeviceSession ==
  ASSUME SessionInv,
         \/ Mutate \/ SendRegister \/ SendPush \/ SendPull \/ GiveUp
         \/ ApplyRegister \/ ApplyPush \/ ApplyPull \/ Recover
  PROVE  Calls' /\ OneCopy' /\ DeviceKnows
<1>0. /\ TypeOK /\ Calls /\ OneCopy
      /\ made \in Nat /\ NoClient \notin registered
      /\ \A p \in Known : p.mutation \in Int
  <2>1. /\ TypeOK /\ Calls /\ OneCopy
        /\ made \in Nat /\ NoClient \notin registered
    BY PolicyAssumption DEF SessionInv, TypeInv, TypeOK, NoClient
  <2>2. \A p \in Known : p.mutation \in Int
    BY <2>1, KnownType DEF Pending, Mutation
  <2>3. QED
    BY <2>1, <2>2
<1>a. Known' \subseteq Known /\ made' = made =>
        OneCopy' /\ (UNCHANGED clientId => DeviceKnows)
  BY <1>0, FewerCopies DEF DeviceKnows
<1>b. /\ NoAnswer.kind = "none" /\ NoCall.kind = "none"
      /\ Register.kind = "register"
      /\ \A id : Pull(id).kind = "pull" /\ Pull(id).id = id
      /\ \A id, b : /\ Push(id, b).kind = "push" /\ Push(id, b).id = id
                    /\ Push(id, b).batch = b
  BY DEF NoAnswer, NoCall, Register, Pull, Push
<1>1. CASE Mutate
  <2>1. PICK e \in ClockError :
          pending' = pending \cup {[seq |-> nextSeq, mutation |-> made + 1,
                                    at |-> now + e]}
    BY <1>1 DEF Mutate
  <2> DEFINE new == [seq |-> nextSeq, mutation |-> made + 1, at |-> now + e]
  <2>2. new.mutation = made + 1
    OBVIOUS
  <2> HIDE DEF new
  <2>3. pending' = pending \cup {new} /\ made' = made + 1
        /\ UNCHANGED <<issued, registered, clientId, call, late, answer>>
    BY <1>1, <2>1 DEF new, Mutate, serverVars, hostVars
  <2>4. Known' = Known \cup {new}
    BY <2>3 DEF Known, Flying
  <2>5. OneCopy'
    BY <1>0, <2>2, <2>3, <2>4 DEF OneCopy
  <2>6. new \in Pending
    BY <1>0, <1>1, PolicyAssumption
       DEF new, TypeOK, SessionInv, TypeInv, Counted, Mutate, Pending, Mutation
  <2>7. QED
    BY <1>0, <2>2, <2>3, <2>4, <2>5, <2>6 DEF Calls, DeviceKnows
<1>2. CASE SendRegister
  <2>1. call' = Register /\ clientId = NoClient
        /\ UNCHANGED <<issued, registered, clientId, pending, late, answer,
                       made>>
    BY <1>2 DEF SendRegister, Send, serverVars, deviceVars
  <2>2. QED
    BY <1>0, <1>a, <1>b, <2>1 DEF Calls, Known, Flying
<1>3. CASE SendPush
  <2>1. call' = Push(clientId, Batch) /\ Batch \subseteq pending
        /\ UNCHANGED <<issued, registered, clientId, pending, late, answer,
                       made>>
    BY <1>3 DEF SendPush, Send, serverVars, deviceVars, Batch, Unsent
  <2>2. QED
    BY <1>0, <1>a, <1>b, <2>1 DEF Calls, Known, Flying
<1>4. CASE SendPull
  <2>1. call' = Pull(clientId)
        /\ UNCHANGED <<issued, registered, clientId, pending, late, answer,
                       made>>
    BY <1>4 DEF SendPull, Send, serverVars, deviceVars
  <2>2. QED
    BY <1>0, <1>a, <1>b, <2>1 DEF Calls, Known, Flying
<1>5. CASE GiveUp
  <2>1. call' = NoCall /\ answer' = NoAnswer /\ late' \in {call, late}
        /\ UNCHANGED <<issued, registered, clientId, pending, made>>
    BY <1>5 DEF GiveUp, serverVars, deviceVars
  <2>2. Known' \subseteq Known
    BY <1>b, <2>1 DEF Known, Flying
  <2>3. QED
    BY <1>0, <1>a, <1>b, <2>1, <2>2 DEF Calls
<1>6. CASE ApplyRegister
  <2>1. call' = NoCall /\ answer' = NoAnswer /\ clientId' = answer.id
        /\ answer.kind = "registered"
        /\ UNCHANGED <<issued, registered, pending, late, made>>
    BY <1>6 DEF ApplyRegister, Receive, serverVars
  <2>2. Known' \subseteq Known
    BY <1>b, <2>1 DEF Known, Flying
  <2>3. late.kind = "push" => late.id \notin registered
    BY <1>0, <2>1 DEF Calls
  <2>4. clientId \notin registered
    BY <1>0, <2>1 DEF Calls
  <2>5. QED
    BY <1>0, <1>a, <1>b, <2>1, <2>2, <2>3, <2>4 DEF Calls, DeviceKnows
<1>7. CASE pending' \subseteq pending /\ UNCHANGED clientId
           /\ (ApplyPush \/ ApplyPull \/ Recover)
  <2>1. call' = NoCall /\ answer' = NoAnswer
        /\ UNCHANGED <<issued, registered, late, made>>
    BY <1>7 DEF ApplyPush, ApplyPull, Recover, Receive, serverVars
  <2>2. Known' \subseteq Known
    BY <1>7, <1>b, <2>1 DEF Known, Flying
  <2>3. QED
    BY <1>0, <1>7, <1>a, <1>b, <2>1, <2>2 DEF Calls
<1>8. CASE answer.kind = "client_expired" /\ Recover
  <2>1. call' = NoCall /\ answer' = NoAnswer /\ ResetRegistration
        /\ UNCHANGED <<issued, registered, late, made>>
    BY <1>8 DEF Recover, Receive, serverVars
  <2>2. clientId \notin registered /\ clientId' = NoClient
    BY <1>0, <1>8, <2>1 DEF Calls, ResetRegistration
  <2>3. Known' = pending'
    <3>1. Flying(call)' = {} /\ Flying(late)' = {}
      BY <1>0, <1>b, <2>1, <2>2, NothingFlies DEF Flying
    <3>2. QED
      BY <3>1 DEF Known
  <2>4. Counted'
    BY <2>1, ResetType DEF SessionInv
  <2>5. Calls'
    BY <1>0, <1>b, <2>1, <2>2, PolicyAssumption
       DEF Calls, NoClient, TypeOK
  <2>6. DeviceKnows
    <3>1. \A p \in Unsent : p \in Known /\ p \in Pending
      BY <1>0 DEF TypeOK, Known, Unsent
    <3>2. \A q \in pending' :
            \E p \in Unsent : q.mutation = p.mutation /\ q.at = p.at
      BY <2>1, <3>1 DEF ResetRegistration, Renumbered, Pending
    <3>3. QED
      BY <2>1, <2>2, <2>3, <3>1, <3>2 DEF DeviceKnows
  <2>7. QED
    BY <2>3, <2>4, <2>5, <2>6 DEF Counted, OneCopy
<1>9. QED
  <2>1. ApplyPush \/ ApplyPull \/ Recover
          => \/ pending' \subseteq pending /\ UNCHANGED clientId
             \/ answer.kind = "client_expired" /\ Recover
    BY DEF ApplyPush, ApplyPull, Recover, Reject, deviceVars
  <2>2. QED
    BY <1>1, <1>2, <1>3, <1>4, <1>5, <1>6, <1>7, <1>8, <2>1

\* One copy of every mutation, in calls of the current registration.
LEMMA SessionInvariant == Spec => []SessionInv
<1>1. Init => Calls /\ OneCopy
  BY DEF Init, Calls, OneCopy, Known, Flying, NoCall, NoAnswer, NoClient
<1>2. SessionInv /\ UNCHANGED vars => Calls' /\ OneCopy'
  BY DEF SessionInv, Calls, OneCopy, Known, Flying, vars, serverVars,
         deviceVars, hostVars
<1>3. SessionInv /\ Next => Calls' /\ OneCopy'
  <2> SUFFICES ASSUME SessionInv, Next PROVE Calls' /\ OneCopy'
    OBVIOUS
  <2>1. CASE Serve \/ ServeLate \/ LoseLate \/ Evict \/ Tick
    <3>1. Calls' /\ Known' \subseteq Known
      BY <2>1, ServerSession DEF OnlyTakes, Known
    <3>2. made \in Nat /\ made' = made
      BY <2>1, PolicyAssumption
         DEF SessionInv, TypeInv, TypeOK, Serve, ServeLate, LoseLate, Evict,
             Tick
    <3>3. QED
      BY <3>1, <3>2, FewerCopies DEF SessionInv, TypeInv
  <2>2. QED
    BY <2>1, DeviceSession DEF Next
<1>4. TypeInv /\ TypeInv' /\ SessionInv /\ [Next]_vars => SessionInv'
  BY <1>2, <1>3 DEF SessionInv
<1>5. Init => SessionInv
  BY <1>1, InitType DEF SessionInv
<1>6. QED
  BY <1>4, <1>5, TypeInvariant, PTL DEF Spec

-----------------------------------------------------------------------------
(* What a step applies.                                                     *)

\* A mutation is applied from a call of the current registration, with a seq
\* not yet consumed and a created_at within the mutation TTL.
LEMMA AppliedMeans ==
  ASSUME SessionInv, NEW r, r = call \/ r = late, NEW a, Handle(r, a),
         NEW m \in Mutation, effects'[m] # effects[m]
  PROVE  /\ effects'[m] = effects[m] + 1
         /\ clientId \in ClientId /\ clientId \in registered
         /\ registered' = registered /\ now <= seenAt'[clientId] + LockWait
         /\ \E p \in Flying(r) :
              /\ p.mutation = m
              /\ lastSeq[clientId] < p.seq /\ p.seq <= lastSeq'[clientId]
              /\ ~ Screened(p)
<1>0. /\ TypeOK /\ Calls /\ r \in Call
      /\ r.kind = "push" => IsFiniteSet(r.batch)
  BY DEF SessionInv, TypeInv, TypeOK, Finite
<1>1. effects' # effects
  OBVIOUS
<1>2. r.kind = "push" /\ ServePush(r, a)
  BY <1>1 DEF Handle, ServeRegister, ServePull, Fails, serverVars
<1>3. PICK no \in SUBSET Fresh(r) : Replay(r, no, a)
  BY <1>1, <1>2 DEF ServePush, Fails, serverVars
<1>4. r.id \in registered /\ Contiguous(r) /\ registered' = registered
      /\ Seen(r.id)
  BY <1>1, <1>2 DEF ServePush, Fails, serverVars
<1>5. r.id = clientId /\ clientId \in ClientId
  BY <1>0, <1>2, <1>4, CallKinds DEF Calls
<1> DEFINE rejects == {p \in Fresh(r) : Screened(p) \/ p \in no}
           applied == {p.mutation : p \in Fresh(r) \ rejects}
           last == Consumed(r, rejects)
<1>6. /\ effects' = [i \in Mutation |-> IF i \in applied THEN effects[i] + 1
                                                       ELSE effects[i]]
      /\ lastSeq' = [lastSeq EXCEPT ![r.id] = last]
  BY <1>3 DEF Replay
<1>7. \A p \in Fresh(r) : p.seq <= last
  BY <1>0, <1>2, <1>4, ConsumedBound
<1>8. PICK p \in Fresh(r) \ rejects : p.mutation = m
  BY <1>6
<1>9. p \in Flying(r) /\ p.seq > lastSeq[clientId] /\ ~ Screened(p)
  BY <1>2, <1>4, <1>5, <1>8 DEF Fresh, Flying
<1> HIDE DEF rejects, applied, last
<1>10. m \in applied
  BY <1>8 DEF applied
<1>11. lastSeq'[clientId] = last /\ now <= seenAt'[clientId] + LockWait
  BY <1>0, <1>4, <1>5, <1>6, SeenType DEF TypeOK
<1>12. lastSeq[clientId] < p.seq
  <2>1. p \in Pending
    BY <1>0, <1>2, <1>8, CallKinds DEF Fresh
  <2>2. lastSeq[clientId] \in Int /\ p.seq \in Int
    BY <1>0, <1>5, <2>1, PolicyAssumption DEF TypeOK, Seq, Pending, Mutation
  <2>3. QED
    BY <1>9, <2>2
<1>13. QED
  BY <1>4, <1>5, <1>6, <1>7, <1>8, <1>9, <1>10, <1>11, <1>12

\* What it means for a registered client that a call of its was handled.
LEMMA HandledMine ==
  ASSUME SessionInv, NEW r \in {call, late}, NEW a, Handle(r, a)
  PROVE  /\ clientId \in registered' <=> clientId \in registered
         /\ clientId \in registered =>
              /\ clientId \in ClientId
              /\ lastSeq[clientId] \in Int /\ lastSeq'[clientId] \in Int
              /\ lastSeq[clientId] <= lastSeq'[clientId]
         /\ \A id \in ClientId :
              /\ seenAt'[id] \in Int
              /\ \/ seenAt'[id] = seenAt[id]
                 \/ seenAt'[id] <= now /\ now <= seenAt'[id] + LockWait
         /\ Truthful(r, a)
<1>1. r \in Call /\ (r.kind = "push" => IsFiniteSet(r.batch)) /\ TypeOK
  BY DEF SessionInv, TypeInv, TypeOK, Finite
<1>2. RowsKept /\ Truthful(r, a) /\ ServerTyped'
  BY <1>1, HandleFrame, HandleType
<1>3. \A id \in ClientId :
        lastSeq[id] \in Int /\ lastSeq'[id] \in Int /\ seenAt'[id] \in Int
  BY <1>1, <1>2, PolicyAssumption DEF TypeOK, ServerTyped, Seq
<1>4. /\ clientId \in Int /\ clientId <= issued
      /\ clientId \in registered => clientId \in ClientId
  BY <1>1, PolicyAssumption DEF SessionInv, Calls, TypeOK, ClientId, NoClient
<1>5. QED
  BY <1>2, <1>3, <1>4 DEF RowsKept

-----------------------------------------------------------------------------
(* Rejection.                                                               *)

\* The numbers Told compares.
LEMMA ToldTypes ==
  ASSUME SessionInv
  PROVE  /\ TypeOK /\ Calls /\ OneCopy
         /\ made \in Int /\ rejected \subseteq Int
         /\ clientId \in registered =>
              clientId \in ClientId /\ lastSeq[clientId] \in Int
         /\ \A p \in Known : p.seq \in Int /\ p.mutation \in Int
         /\ answer.kind = "pushed" => \A s \in answer.rejects : s \in Int
<1> USE PolicyAssumption
<1>1. TypeOK /\ Calls /\ OneCopy
  BY DEF SessionInv, TypeInv
<1>2. \A p \in Known : p.seq \in Int /\ p.mutation \in Int
  BY <1>1, KnownType DEF Pending, Mutation
<1>3. made \in Int /\ rejected \subseteq Int
  BY <1>1 DEF TypeOK, Mutation
<1>4. clientId \in registered => clientId \in ClientId
  BY <1>1 DEF TypeOK, ClientId, NoClient
<1>5. /\ \A id \in ClientId : lastSeq[id] \in Int
      /\ answer.kind = "pushed" => \A s \in answer.rejects : s \in Int
  BY <1>1, AnswerKinds DEF TypeOK, Seq
<1>6. QED
  BY <1>1, <1>2, <1>3, <1>4, <1>5

\* The server's steps leave Told true: they consume seqs and give none back.
LEMMA ServerTold ==
  ASSUME SessionInv, Told, Serve \/ ServeLate \/ LoseLate \/ Evict \/ Tick
  PROVE  Told'
<1>1. /\ OnlyTakes /\ UNCHANGED <<clientId, rejected, made>>
  BY ServerSession
     DEF Serve, ServeLate, LoseLate, Evict, Tick, deviceVars
<1>2. clientId \in registered =>
        lastSeq'[clientId] \in Int /\ lastSeq[clientId] <= lastSeq'[clientId]
  <2>1. CASE Serve \/ ServeLate
    BY <2>1, HandledMine DEF Serve, ServeLate
  <2>2. CASE LoseLate \/ Evict \/ Tick
    BY <2>2, ToldTypes DEF LoseLate, Evict, Tick, serverVars
  <2>3. QED
    BY <2>1, <2>2
<1>3. answer'.kind = "pushed" /\ clientId \in registered' =>
        \A s \in answer'.rejects : s <= lastSeq'[clientId]
  <2>1. CASE Serve
    BY <2>1, HandledMine DEF Serve, Truthful, SessionInv, Calls
  <2>2. CASE UNCHANGED answer /\ (clientId \in registered' =>
                                   clientId \in registered)
    BY <1>2, <2>2, ToldTypes DEF Told
  <2>3. CASE ServeLate
    BY <2>2, <2>3, HandledMine DEF ServeLate
  <2>4. CASE LoseLate \/ Evict \/ Tick
    BY <2>2, <2>4 DEF LoseLate, Evict, Tick, serverVars, hostVars
  <2>5. QED
    BY <2>1, <2>3, <2>4
<1>4. \A p \in Flying(call)' \cup Flying(late)' :
        p.mutation \in rejected => p.seq <= lastSeq'[clientId]
  <2> SUFFICES ASSUME NEW p \in Flying(call)' \cup Flying(late)',
                      p.mutation \in rejected
               PROVE  p.seq <= lastSeq'[clientId]
    OBVIOUS
  <2>1. p \in Flying(call) \cup Flying(late)
    BY <1>1 DEF OnlyTakes
  <2>2. p.seq \in Int /\ p.seq <= lastSeq[clientId]
    BY <2>1, ToldTypes DEF Told, Known
  <2>3. clientId \in registered
    BY <2>1, FlyingIsMine, ToldTypes
  <2>4. QED
    BY <1>2, <2>2, <2>3, ToldTypes
<1>5. QED
  BY <1>1, <1>3, <1>4 DEF Told, OnlyTakes

\* So do the device's: what it reports has a consumed seq, and leaves the
\* queue for good.
LEMMA DeviceTold ==
  ASSUME SessionInv, Told,
         \/ Mutate \/ SendRegister \/ SendPush \/ SendPull \/ GiveUp
         \/ ApplyRegister \/ ApplyPush \/ ApplyPull \/ Recover
  PROVE  Told'
<1>b. /\ NoAnswer.kind = "none" /\ NoCall.kind = "none"
      /\ Register.kind = "register"
      /\ \A id : Pull(id).kind = "pull"
      /\ \A id, b : /\ Push(id, b).kind = "push" /\ Push(id, b).id = id
                    /\ Push(id, b).batch = b
  BY DEF NoAnswer, NoCall, Register, Pull, Push
<1>c. /\ Flying(NoCall) = {} /\ Flying(NoCall)' = {}
  BY <1>b DEF Flying
<1>1. CASE Mutate
  <2>1. PICK e \in ClockError :
          pending' = pending \cup {[seq |-> nextSeq, mutation |-> made + 1,
                                    at |-> now + e]}
    BY <1>1 DEF Mutate
  <2> DEFINE new == [seq |-> nextSeq, mutation |-> made + 1, at |-> now + e]
  <2>2. new.mutation = made + 1
    OBVIOUS
  <2> HIDE DEF new
  <2>3. pending' = pending \cup {new} /\ made' = made + 1
        /\ UNCHANGED <<registered, clientId, lastSeq, rejected, call, late,
                       answer>>
    BY <1>1, <2>1 DEF new, Mutate, serverVars, hostVars
  <2>4. new.mutation \notin rejected
    BY <2>2, ToldTypes DEF Told
  <2>5. QED
    BY <2>3, <2>4, ToldTypes DEF Told, Flying
<1>2. CASE SendRegister \/ SendPull
  <2>1. call' \in {Register, Pull(clientId)}
        /\ UNCHANGED <<registered, clientId, lastSeq, rejected, pending, late,
                       answer, made>>
    BY <1>2 DEF SendRegister, SendPull, Send, serverVars, deviceVars
  <2>2. Flying(call)' = {}
    BY <1>b, <2>1 DEF Flying
  <2>3. QED
    BY <2>1, <2>2 DEF Told, Flying
<1>3. CASE SendPush
  <2>1. call' = Push(clientId, Batch) /\ Batch \subseteq pending
        /\ UNCHANGED <<registered, clientId, lastSeq, rejected, pending, late,
                       answer, made>>
    BY <1>3 DEF SendPush, Send, serverVars, deviceVars, Batch, Unsent
  <2>2. Flying(call)' \subseteq pending
    BY <1>b, <2>1 DEF Flying
  <2>3. QED
    BY <2>1, <2>2 DEF Told, Flying
<1>4. CASE GiveUp
  <2>1. call' = NoCall /\ answer' = NoAnswer /\ late' \in {call, late}
        /\ UNCHANGED <<registered, clientId, lastSeq, rejected, pending,
                       made>>
    BY <1>4 DEF GiveUp, serverVars, deviceVars
  <2>2. Flying(call)' = {} /\ Flying(late)' \in {Flying(call), Flying(late)}
    BY <1>b, <2>1 DEF Flying
  <2>3. QED
    BY <1>b, <2>1, <2>2 DEF Told
<1>5. CASE ApplyRegister
  <2>1. call' = NoCall /\ answer' = NoAnswer /\ answer.kind = "registered"
        /\ UNCHANGED <<registered, lastSeq, rejected, pending, late, made>>
    BY <1>5 DEF ApplyRegister, Receive, serverVars
  <2>2. clientId \notin registered
    BY <2>1, PolicyAssumption, ToldTypes DEF Calls, TypeOK, NoClient
  <2>3. Flying(call)' = {} /\ Flying(late)' = {}
    BY <1>b, <2>1, <2>2, NothingFlies, ToldTypes DEF Flying
  <2>4. QED
    BY <1>b, <2>1, <2>3 DEF Told
<1>6. CASE ApplyPush
  <2> DEFINE S == {p \in pending : p.seq \in answer.rejects}
  <2>1. call' = NoCall /\ answer' = NoAnswer /\ answer.kind = "pushed"
        /\ pending' = pending \ S
        /\ rejected' = rejected \cup {p.mutation : p \in S}
        /\ UNCHANGED <<registered, clientId, lastSeq, late, made>>
    BY <1>6 DEF ApplyPush, Receive, Reject, serverVars
  <2>2. \A p \in S, q \in Known : p.mutation = q.mutation => p = q
    BY ToldTypes DEF OneCopy, Known
  <2>3. \A p \in pending' : p.mutation \notin rejected'
    BY <2>1, <2>2 DEF Told, Known
  <2>4. Flying(call)' = {} /\ Flying(late)' = Flying(late)
    BY <1>b, <2>1 DEF Flying
  <2>5. \A p \in Flying(late) :
          p.mutation \in rejected' => p.seq <= lastSeq[clientId]
    <3> SUFFICES ASSUME NEW p \in Flying(late), p.mutation \in rejected',
                        p.mutation \notin rejected
                 PROVE  p.seq <= lastSeq[clientId]
      BY DEF Told
    <3>1. p \in S
      BY <2>1, <2>2 DEF Known
    <3>2. clientId \in registered
      BY FlyingIsMine, ToldTypes
    <3>3. QED
      BY <2>1, <3>1, <3>2 DEF Told
  <2>6. \A m \in rejected' : m <= made'
    BY <2>1, ToldTypes DEF Told, OneCopy, Known
  <2>7. QED
    BY <1>b, <2>1, <2>3, <2>4, <2>5, <2>6 DEF Told
<1>7. CASE pending' \subseteq pending /\ rejected' = rejected
           /\ UNCHANGED clientId /\ (ApplyPull \/ Recover)
  <2>1. call' = NoCall /\ answer' = NoAnswer
        /\ UNCHANGED <<registered, lastSeq, late, made>>
    BY <1>7 DEF ApplyPull, Recover, Receive, serverVars
  <2>2. Flying(call)' = {} /\ Flying(late)' = Flying(late)
    BY <1>b, <2>1 DEF Flying
  <2>3. QED
    BY <1>7, <1>b, <2>1, <2>2 DEF Told
<1>8. CASE answer.kind = "client_expired" /\ Recover
  <2>1. call' = NoCall /\ answer' = NoAnswer /\ ResetRegistration
        /\ UNCHANGED <<registered, late, made>>
    BY <1>8 DEF Recover, Receive, serverVars
  <2>2. clientId \notin registered /\ clientId' = NoClient
    BY <1>8, <2>1, ToldTypes DEF Calls, ResetRegistration
  <2>3. Flying(call)' = {} /\ Flying(late)' = {}
    BY <1>b, <2>1, <2>2, NothingFlies, ToldTypes DEF Flying
  <2>4. rejected' = rejected \cup {p.mutation : p \in pending \ Unsent}
    BY <2>1 DEF ResetRegistration
  <2>5. \A q \in pending' : \E p \in Unsent : q.mutation = p.mutation
    <3>1. \A p \in Unsent : p \in Pending
      BY ToldTypes DEF TypeOK, Unsent
    <3>2. QED
      BY <2>1, <3>1 DEF ResetRegistration, Renumbered, Pending
  <2>6. \A p \in Unsent, q \in pending \ Unsent : p.mutation # q.mutation
    BY ToldTypes DEF OneCopy, Known, Unsent
  <2>7. \A q \in pending' : q.mutation \notin rejected'
    BY <2>4, <2>5, <2>6 DEF Told, Unsent
  <2>8. \A m \in rejected' : m <= made'
    BY <2>1, <2>4, ToldTypes DEF Told, OneCopy, Known
  <2>9. QED
    BY <1>b, <2>1, <2>3, <2>7, <2>8 DEF Told
<1>9. QED
  <2>1. ApplyPull \/ Recover
          => \/ pending' \subseteq pending /\ rejected' = rejected
                  /\ UNCHANGED clientId
             \/ answer.kind = "client_expired" /\ Recover
    BY DEF ApplyPull, Recover, deviceVars
  <2>2. QED
    BY <1>1, <1>2, <1>3, <1>4, <1>5, <1>6, <1>7, <1>8, <2>1

\* A mutation reported as rejected is never applied afterwards, by a retry, a
\* late call or another registration, so the user may enter it again
\* (client/store.rs, reject; server/push.rs, seqs consumed by rejections).
THEOREM RejectionIsFinal == Spec => RejectedForGood
<1>1. Init => Told
  BY DEF Init, Told, Flying, NoCall, NoAnswer
<1>2. SessionInv /\ Told /\ [Next]_vars => Told'
  <2>1. Told /\ UNCHANGED vars => Told'
    BY DEF Told, Flying, vars, serverVars, deviceVars, hostVars
  <2>2. QED
    BY <2>1, ServerTold, DeviceTold DEF Next
<1>3. SessionInv /\ Told /\ [Next]_vars
        => [\A m \in rejected : effects'[m] = effects[m]]_vars
  <2> SUFFICES ASSUME SessionInv, Told, Next, NEW m \in rejected
               PROVE  effects'[m] = effects[m]
    OBVIOUS
  <2>1. m \in Mutation
    BY DEF SessionInv, TypeInv, TypeOK
  <2>2. ASSUME NEW r \in {call, late}, NEW a, Handle(r, a)
        PROVE  effects'[m] = effects[m]
    <3> SUFFICES ASSUME effects'[m] # effects[m]
                 PROVE  FALSE
      OBVIOUS
    <3>1. PICK p \in Flying(r) : p.mutation = m /\ lastSeq[clientId] < p.seq
      BY <2>1, <2>2, AppliedMeans
    <3>2. p \in Known /\ p.seq <= lastSeq[clientId]
      BY <2>2, <3>1 DEF Told, Known
    <3>3. clientId \in registered
      BY <2>1, <2>2, AppliedMeans
    <3>4. QED
      BY <3>1, <3>2, <3>3, ToldTypes
  <2>3. CASE Serve \/ ServeLate
    BY <2>2, <2>3 DEF Serve, ServeLate
  <2>4. CASE ~ (Serve \/ ServeLate)
    BY <2>4 DEF Next, LoseLate, Evict, Tick, Mutate, SendRegister, SendPush,
                SendPull, Send, GiveUp, ApplyRegister, ApplyPush, ApplyPull,
                Recover, Receive, serverVars
  <2>5. QED
    BY <2>3, <2>4
<1>4. QED
  BY <1>1, <1>2, <1>3, SessionInvariant, PTL DEF RejectedForGood, Spec

-----------------------------------------------------------------------------
(* Applied at most once.                                                    *)

\* The times and numbers Once compares.
LEMMA OnceTypes ==
  ASSUME SessionInv
  PROVE  /\ TypeOK /\ Calls /\ OneCopy
         /\ now \in Int /\ made \in Int
         /\ {MutationTtl, ClientTtl, Skew, LockWait} \subseteq Int
         /\ \A id \in ClientId : lastSeq[id] \in Int /\ seenAt[id] \in Int
         /\ clientId \in registered => clientId \in ClientId
         /\ \A p \in Known : /\ p.seq \in Int /\ p.at \in Int
                             /\ p.mutation \in Mutation /\ p.mutation \in Int
         /\ \A m \in Mutation : effects[m] \in Nat /\ m \in Int
<1> USE PolicyAssumption
<1>1. TypeOK /\ Calls /\ OneCopy
  BY DEF SessionInv, TypeInv
<1>2. \A p \in Known : /\ p.seq \in Int /\ p.at \in Int
                       /\ p.mutation \in Mutation /\ p.mutation \in Int
  BY <1>1, KnownType DEF Pending, Mutation
<1>3. \A id \in ClientId : lastSeq[id] \in Int /\ seenAt[id] \in Int
  BY <1>1 DEF TypeOK, Seq
<1>4. /\ now \in Int /\ made \in Int
      /\ clientId \in registered => clientId \in ClientId
  BY <1>1 DEF TypeOK, ClientId, NoClient
<1>5. \A m \in Mutation : effects[m] \in Nat /\ m \in Int
  BY <1>1 DEF TypeOK, Mutation
<1>6. {MutationTtl, ClientTtl, Skew, LockWait} \subseteq Int
  OBVIOUS
<1>7. QED
  BY <1>1, <1>2, <1>3, <1>4, <1>5, <1>6

\* A mutation that is spent stays so while its registration lasts and its
\* seqs are not given back.
LEMMA StillSpent ==
  ASSUME SessionInv, NEW p \in Known, Spent(p),
         now' \in Int, now <= now', UNCHANGED clientId,
         clientId \in registered =>
           /\ clientId \in registered'
           /\ lastSeq'[clientId] \in Int
           /\ lastSeq[clientId] <= lastSeq'[clientId]
           /\ seenAt'[clientId] \in Int
           /\ \/ seenAt'[clientId] = seenAt[clientId]
              \/ now <= seenAt'[clientId] + LockWait
  PROVE  Spent(p)'
BY OnceTypes, PolicyAssumption DEF Spent

\* A call that is handled applies only what was never applied.
LEMMA HandledOnce ==
  ASSUME SessionInv, Once, NEW r \in {call, late}, NEW a, Handle(r, a),
         Known' \subseteq Known, UNCHANGED <<now, clientId, made>>
  PROVE  Once'
<1>0. /\ clientId \in registered' <=> clientId \in registered
      /\ clientId \in registered =>
           /\ clientId \in ClientId
           /\ lastSeq'[clientId] \in Int
           /\ lastSeq[clientId] <= lastSeq'[clientId]
      /\ \A id \in ClientId :
           /\ seenAt'[id] \in Int
           /\ \/ seenAt'[id] = seenAt[id]
              \/ seenAt'[id] <= now /\ now <= seenAt'[id] + LockWait
  BY HandledMine
<1>1. ASSUME NEW m \in Mutation, effects'[m] # effects[m]
      PROVE  effects[m] = 0 /\ effects'[m] = 1 /\ m <= made
  <2>1. PICK p \in Flying(r) :
          p.mutation = m /\ lastSeq[clientId] < p.seq /\ ~ Screened(p)
    BY <1>1, AppliedMeans
  <2>2. p \in Known
    BY <2>1 DEF Known
  <2>3. clientId \in ClientId
    BY <1>1, AppliedMeans
  <2>4. ~ Spent(p)
    BY <2>1, <2>2, <2>3, OnceTypes DEF Spent, Screened
  <2>5. effects[m] = 0
    BY <2>1, <2>2, <2>4 DEF Once
  <2>6. effects'[m] = effects[m] + 1
    BY <1>1, AppliedMeans
  <2>7. QED
    BY <2>1, <2>2, <2>5, <2>6, OnceTypes DEF OneCopy
<1>2. AppliedOnce'
  BY <1>1 DEF Once, AppliedOnce
<1>3. \A m \in Mutation : m > made' => effects'[m] = 0
  BY <1>1, OnceTypes DEF Once
<1>4. \A id \in ClientId : seenAt'[id] <= now'
  BY <1>0, OnceTypes DEF Once
<1>5. ASSUME NEW q \in Known'
      PROVE  effects'[q.mutation] = 0 \/ Spent(q)'
  <2>1. q \in Known /\ q.mutation \in Mutation
    BY OnceTypes
  <2>2. CASE effects'[q.mutation] # effects[q.mutation]
    <3>1. PICK p \in Flying(r) :
            /\ p.mutation = q.mutation
            /\ p.seq <= lastSeq'[clientId] /\ ~ Screened(p)
      BY <2>1, <2>2, AppliedMeans
    <3>2. p = q
      BY <2>1, <3>1, OnceTypes DEF OneCopy, Known
    <3>3. /\ clientId \in registered' /\ clientId \in ClientId
          /\ now <= seenAt'[clientId] + LockWait
      BY <2>1, <2>2, AppliedMeans
    <3>4. QED
      BY <1>0, <2>1, <3>1, <3>2, <3>3, OnceTypes, PolicyAssumption
         DEF Spent, Screened
  <2>3. CASE effects'[q.mutation] = effects[q.mutation]
    <3>1. CASE effects[q.mutation] = 0
      BY <2>3, <3>1
    <3>2. CASE Spent(q)
      <4>1. clientId \in registered =>
              /\ seenAt'[clientId] \in Int
              /\ \/ seenAt'[clientId] = seenAt[clientId]
                 \/ now <= seenAt'[clientId] + LockWait
        BY <1>0, OnceTypes DEF Once
      <4>2. QED
        BY <1>0, <2>1, <3>2, <4>1, StillSpent, OnceTypes
    <3>3. QED
      BY <2>1, <3>1, <3>2 DEF Once
  <2>4. QED
    BY <2>2, <2>3
<1>6. QED
  BY <1>2, <1>3, <1>4, <1>5 DEF Once

\* An eviction forgets the seqs only of mutations that are too old by then.
LEMMA EvictedOnce ==
  ASSUME SessionInv, Once, Evict, ClientTtl >= MutationTtl + Skew + LockWait
  PROVE  Once'
<1>1. /\ Known' \subseteq Known
      /\ UNCHANGED <<now, clientId, lastSeq, seenAt, effects, made>>
      /\ registered' = registered \ Idle
  BY ServerSession DEF Evict, OnlyTakes, Known, deviceVars
<1>2. ASSUME NEW p \in Known, Spent(p) PROVE Spent(p)'
  <2>1. CASE clientId \in Idle
    <3>1. /\ now - seenAt[clientId] > ClientTtl /\ clientId \in registered
      BY <2>1 DEF Idle
    <3>2. now - p.at > MutationTtl
      BY <1>2, <3>1, OnceTypes, PolicyAssumption DEF Spent
    <3>3. QED
      BY <1>1, <3>2 DEF Spent
  <2>2. CASE clientId \notin Idle
    BY <1>1, <1>2, <2>2 DEF Spent
  <2>3. QED
    BY <2>1, <2>2
<1>3. QED
  BY <1>1, <1>2, OnceTypes DEF Once, AppliedOnce

\* The device's steps bring back nothing that was applied.
LEMMA DeviceOnce ==
  ASSUME SessionInv, Once,
         \/ Mutate \/ SendRegister \/ SendPush \/ SendPull \/ GiveUp
         \/ ApplyRegister \/ ApplyPush \/ ApplyPull \/ Recover
  PROVE  Once'
<1>1. UNCHANGED <<now, registered, lastSeq, seenAt, effects>>
  BY DEF Mutate, SendRegister, SendPush, SendPull, Send, GiveUp,
         ApplyRegister, ApplyPush, ApplyPull, Recover, Receive, serverVars
<1>2. DeviceKnows
  BY DeviceSession
<1>3. made' = made \/ made' = made + 1
  BY <1>2 DEF DeviceKnows
<1>4. \A m \in Mutation : m > made' => effects[m] = 0
  BY <1>3, OnceTypes DEF Once
<1>5. \A q \in Known' : effects[q.mutation] = 0 \/ Spent(q)'
  <2>1. CASE Known' \subseteq Known /\ UNCHANGED clientId
    BY <1>1, <2>1 DEF Once, Spent
  <2>2. CASE /\ UNCHANGED clientId
             /\ \E new \in Pending :
                  new.mutation = made + 1 /\ Known' = Known \cup {new}
    <3>1. PICK new \in Pending :
            new.mutation = made + 1 /\ Known' = Known \cup {new}
      BY <2>2
    <3>2. new.mutation \in Mutation /\ new.mutation > made
      BY <3>1, OnceTypes DEF Pending
    <3>3. effects[new.mutation] = 0
      BY <3>2 DEF Once
    <3>4. QED
      BY <1>1, <2>2, <3>1, <3>3 DEF Once, Spent
  <2>3. CASE /\ clientId \notin registered
             /\ \A q \in Known' :
                  \E p \in Known : q.mutation = p.mutation /\ q.at = p.at
    BY <1>1, <2>3 DEF Once, Spent
  <2>4. QED
    BY <1>2, <2>1, <2>2, <2>3 DEF DeviceKnows
<1>6. QED
  BY <1>1, <1>4, <1>5 DEF Once, AppliedOnce

\* No mutation is applied twice, whatever is lost, late, retried or pushed
\* again after an eviction, if a registration outlives its mutations by the
\* tolerated skew and what a transaction may wait for its lock (policy.rs on
\* client_ttl, which checks less than this; server/push.rs, screen and
\* check_contiguous).
THEOREM AtMostOnce ==
  ASSUME ClientTtl >= MutationTtl + Skew + LockWait
  PROVE  Spec => []AppliedOnce
<1>1. Init => Once
  BY PolicyAssumption
     DEF Init, Once, AppliedOnce, Known, Flying, NoCall
<1>2. SessionInv /\ Once /\ [Next]_vars => Once'
  <2>1. Once /\ UNCHANGED vars => Once'
    BY DEF Once, AppliedOnce, Known, Flying, Spent, vars, serverVars,
           deviceVars, hostVars
  <2> SUFFICES ASSUME SessionInv, Once, Next PROVE Once'
    BY <2>1
  <2>2. CASE Serve \/ ServeLate
    <3>1. Known' \subseteq Known /\ UNCHANGED <<now, clientId, made>>
      BY <2>2, ServerSession
         DEF OnlyTakes, Known, Serve, ServeLate, deviceVars
    <3>2. QED
      BY <2>2, <3>1, HandledOnce DEF Serve, ServeLate
  <2>3. CASE LoseLate
    <3>1. Known' \subseteq Known
      BY <2>3, ServerSession DEF OnlyTakes, Known
    <3>2. QED
      BY <2>3, <3>1
         DEF LoseLate, Once, AppliedOnce, Spent, serverVars, deviceVars
  <2>4. CASE Evict
    BY <2>4, EvictedOnce
  <2>5. CASE Tick
    <3>1. Known' \subseteq Known
      BY <2>5, ServerSession DEF OnlyTakes, Known
    <3>2. /\ now' = now + 1
          /\ UNCHANGED <<clientId, registered, lastSeq, seenAt, effects, made>>
      BY <2>5 DEF Tick, serverVars, deviceVars
    <3>3. \A p \in Known : Spent(p) => Spent(p)'
      BY <3>2, OnceTypes DEF Spent
    <3>4. \A id \in ClientId : seenAt'[id] <= now'
      BY <3>2, OnceTypes DEF Once
    <3>5. QED
      BY <3>1, <3>2, <3>3, <3>4 DEF Once, AppliedOnce
  <2>6. QED
    BY <2>2, <2>3, <2>4, <2>5, DeviceOnce DEF Next
<1>3. Once => AppliedOnce
  BY DEF Once
<1>4. QED
  BY <1>1, <1>2, <1>3, SessionInvariant, PTL DEF Spec
=============================================================================
