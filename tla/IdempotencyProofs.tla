------------------------ MODULE IdempotencyProofs ------------------------
(***************************************************************************)
(* For any calls, fingerprints, TTL and clock skew, and either store: a    *)
(* key is never handed out twice while a reservation is live, a replayed   *)
(* answer is that of the run that held the record, and the two stores      *)
(* behind the HTTP layer do only what the trait promises.                  *)
(***************************************************************************)
EXTENDS IdempotencyService, TLAPS

Inv == TypeOK /\ HolderInv /\ ReplaysTheRun

\* A record is not the absence of one.
LEMMA RecordIsRecord == \A s \in Slot : s # NoSlot /\ s.owner # NoCall
<1> TAKE s \in Slot
<1>1. s.owner \in Call
  BY DEF Slot
<1>2. s.owner # NoCall
  BY <1>1, ServiceAssumption
<1>3. NoSlot.owner = NoCall
  BY DEF NoSlot
<1> QED BY <1>2, <1>3

LEMMA ExpiryIsInt == \A t \in Nat : Expiry(t) \subseteq Int
  BY ServiceAssumption DEF Expiry

-----------------------------------------------------------------------------
(* Types. *)

LEMMA InitTypeOK == Init => TypeOK
  BY DEF Init, TypeOK, Step

LEMMA TakeTypeOK ==
  ASSUME NEW c \in Call, TypeOK, Take(c)
  PROVE  TypeOK'
<1>1. PICK e \in Expiry(now) : slot' = Record(c, e) /\ lease' = [lease EXCEPT ![c] = e]
  BY DEF Take
<1>2. e \in Int
  BY <1>1, ExpiryIsInt DEF TypeOK
<1>3. slot' \in Slot
  BY <1>1, <1>2 DEF Record, Slot, TypeOK
<1>4. lease' \in [Call -> Int]
  BY <1>1, <1>2 DEF TypeOK
<1>5. step' \in [Call -> Step]
  BY DEF Take, Moves, TypeOK, Step
<1> QED BY <1>3, <1>4, <1>5 DEF Take, TypeOK

LEMMA ClassifyTypeOK ==
  ASSUME NEW c \in Call, TypeOK, slot # NoSlot, Classify(c)
  PROVE  TypeOK'
<1>1. slot.answer \in Call \cup {NoCall}
  BY DEF TypeOK, Slot
<1>2. step' \in [Call -> Step] /\ replayOf' \in [Call -> Call \cup {NoCall}]
  BY <1>1 DEF Classify, Moves, TypeOK, Step
<1> QED BY <1>2 DEF Classify, TypeOK

LEMMA NextTypeOK == TypeOK /\ [Next]_vars => TypeOK'
<1> SUFFICES ASSUME TypeOK, [Next]_vars PROVE TypeOK'
  OBVIOUS
<1>1. CASE Tick
  BY <1>1 DEF Tick, TypeOK, ghosts
<1>2. CASE GarbageCollect
  BY <1>2 DEF GarbageCollect, TypeOK, ghosts
<1>3. ASSUME NEW c \in Call, RedisReserve(c) PROVE TypeOK'
  BY <1>3, TakeTypeOK, ClassifyTypeOK DEF RedisReserve, Visible
<1>4. ASSUME NEW c \in Call, SqlUpsert(c) PROVE TypeOK'
  <2>1. CASE Free /\ Take(c)
    BY <2>1, TakeTypeOK
  <2>2. CASE Moves(c, "reading") /\ UNCHANGED <<backend, now, slot, asked, ghosts>>
    BY <2>2 DEF Moves, TypeOK, ghosts, Step
  <2> QED BY <1>4, <2>1, <2>2 DEF SqlUpsert
<1>5. ASSUME NEW c \in Call, SqlRead(c) PROVE TypeOK'
  <2>1. CASE slot # NoSlot /\ Classify(c)
    BY <2>1, ClassifyTypeOK
  <2>2. CASE Moves(c, "in_flight") /\ UNCHANGED <<backend, now, slot, asked, ghosts>>
    BY <2>2 DEF Moves, TypeOK, ghosts, Step
  <2> QED BY <1>5, <2>1, <2>2 DEF SqlRead
<1>6. ASSUME NEW c \in Call, StoreDown(c) \/ HandlerReturns(c) \/ Vanish(c) PROVE TypeOK'
  BY <1>6 DEF StoreDown, HandlerReturns, Vanish, Moves, TypeOK, ghosts, Step
<1>7. ASSUME NEW c \in Call, Complete(c) PROVE TypeOK'
  <2>1. slot' \in Slot \cup {NoSlot}
    <3>1. CASE slot' = slot
      BY <3>1 DEF TypeOK
    <3>2. CASE MayComplete(c) /\ slot' = [slot EXCEPT !.answer = c]
      BY <3>2 DEF MayComplete, Visible, TypeOK, Slot
    <3> QED BY <1>7, <3>1, <3>2 DEF Complete
  <2> QED BY <1>7, <2>1 DEF Complete, Moves, TypeOK, ghosts, Step
<1>8. ASSUME NEW c \in Call, Release(c) PROVE TypeOK'
  BY <1>8 DEF Release, Moves, TypeOK, Step
<1>9. CASE UNCHANGED vars
  BY <1>9 DEF vars, ghosts, TypeOK
<1> QED BY <1>1, <1>2, <1>3, <1>4, <1>5, <1>6, <1>7, <1>8, <1>9 DEF Next

\* Clock, record, calls and ghosts stay in their types, whatever the store.
THEOREM TypeCorrect == Spec => []TypeOK
  BY InitTypeOK, NextTypeOK, PTL DEF Spec

-----------------------------------------------------------------------------
(* The reservation belongs to its holder. *)

\* What a reservation needs: the record, if any, has run out.
Lapsed == slot # NoSlot => slot.exp <= now

LEMMA InitInv == Init => HolderInv /\ ReplaysTheRun
  BY DEF Init, HolderInv, ReplaysTheRun

\* A reservation replaces a record whose lease is over, so no live lease is
\* lost, and the new record is its call's.
LEMMA TakeInv ==
  ASSUME NEW c \in Call, Inv, Take(c), Lapsed, step[c] = "idle"
  PROVE  HolderInv' /\ ReplaysTheRun'
<1>1. PICK e \in Expiry(now) : slot' = Record(c, e) /\ lease' = [lease EXCEPT ![c] = e]
  BY DEF Take
<1>2. slot' = [owner |-> c, hash |-> asked[c], exp |-> e, answer |-> NoCall]
  BY <1>1 DEF Record
<1>3. c \notin granted /\ c \notin released /\ granted' = granted \cup {c}
  BY DEF Inv, HolderInv, Take, TypeOK
<1>4. lease'[c] = e /\ \A d \in Call \ {c} : lease'[d] = lease[d]
  BY <1>1 DEF Inv, TypeOK
<1>5. slot'.owner = c /\ slot'.exp = e /\ slot'.hash = asked[c] /\ slot'.answer = NoCall
  BY <1>2
<1>6. slot' # NoSlot
  BY <1>2, <1>5, ServiceAssumption DEF NoSlot
<1>7. /\ \A d \in Call \ {c} : step'[d] = step[d]
      /\ step'[c] \in {"running", "failed"}
      /\ UNCHANGED <<now, asked, released, ran, replayOf>>
  BY DEF Take, Moves, Inv, TypeOK
<1>8. \A d \in granted' : lease'[d] <= now' \/ d \in released' \/ (slot'.owner = d /\ slot'.exp = lease'[d])
  <2> SUFFICES ASSUME NEW d \in granted, d \notin released PROVE lease'[d] <= now'
    BY <1>3, <1>4, <1>5, <1>7
  <2>1. lease[d] <= now
    BY DEF Inv, HolderInv, Lapsed
  <2> QED BY <2>1, <1>3, <1>4, <1>7 DEF Inv, TypeOK
<1>9. /\ \A d \in Call : step'[d] \in {"idle", "reading"} => d \notin granted'
      /\ \A d \in Call : step'[d] \in {"running", "recording", "releasing"} => d \in granted'
      /\ \A d \in Call : step'[d] \in {"recording", "releasing"} => d \in ran'
  BY <1>3, <1>7 DEF Inv, HolderInv
<1>10. HolderInv'
  BY <1>3, <1>4, <1>5, <1>6, <1>7, <1>8, <1>9 DEF Inv, HolderInv
<1>11. ReplaysTheRun'
  BY <1>3, <1>5, <1>7, <1>10 DEF Inv, ReplaysTheRun, HolderInv
<1> QED BY <1>10, <1>11

\* A call told of a record is given the answer of the record's holder.
LEMMA ClassifyInv ==
  ASSUME NEW c \in Call, Inv, Classify(c), slot # NoSlot, step[c] \in {"idle", "reading"}
  PROVE  HolderInv' /\ ReplaysTheRun'
<1>1. /\ \A d \in Call \ {c} : step'[d] = step[d] /\ replayOf'[d] = replayOf[d]
      /\ step'[c] \in {"conflict", "in_flight", "replayed"}
      /\ step'[c] = "replayed" => replayOf'[c] = slot.answer /\ slot.answer # NoCall /\ slot.hash = asked[c]
      /\ UNCHANGED <<now, slot, asked, granted, lease, released, ran>>
  BY DEF Classify, Moves, Inv, TypeOK
<1>2. slot.answer # NoCall => slot.answer # c
  BY DEF Inv, HolderInv
<1>3. slot.answer # NoCall => slot.answer \in Call
  BY DEF Inv, TypeOK, Slot
<1>4. HolderInv'
  BY <1>1, <1>2, <1>3 DEF Inv, HolderInv
<1>5. step'[c] = "replayed" => replayOf'[c] \in ran' \cap granted' /\ asked'[replayOf'[c]] = asked'[c]
  BY <1>1 DEF Inv, HolderInv, ReplaysTheRun
<1>6. ReplaysTheRun'
  BY <1>1, <1>5 DEF Inv, ReplaysTheRun
<1> QED BY <1>4, <1>6

\* A step of a call that leaves the record alone.
LEMMA MoveInv ==
  ASSUME NEW c \in Call, Inv, NEW s \in Step, Moves(c, s),
         UNCHANGED <<now, slot, asked, granted, lease, released, replayOf>>,
         ran \subseteq ran', ran' \subseteq Call,
         slot # NoSlot => slot.answer # c,
         s \notin {"idle", "replayed"},
         s = "reading" => c \notin granted,
         s \in {"running", "recording", "releasing"} => c \in granted,
         s \in {"recording", "releasing"} => c \in ran'
  PROVE  HolderInv' /\ ReplaysTheRun'
<1>1. step' = [step EXCEPT ![c] = s] /\ step'[c] = s /\ \A d \in Call \ {c} : step'[d] = step[d]
  BY DEF Moves, Inv, TypeOK
<1>2. slot # NoSlot /\ slot.answer # NoCall => slot.answer \in Call
  BY DEF Inv, TypeOK, Slot
<1>3. HolderInv'
  BY <1>1, <1>2 DEF Inv, HolderInv
<1>4. ReplaysTheRun'
  BY <1>1 DEF Inv, ReplaysTheRun
<1> QED BY <1>3, <1>4

\* The record of a call that is still on its way has no answer of its own.
LEMMA NoAnswerYet ==
  ASSUME NEW c \in Call, Inv, slot # NoSlot, step[c] # "answered"
  PROVE  slot.answer # c
  BY ServiceAssumption DEF Inv, HolderInv

LEMMA NextInv == Inv /\ [Next]_vars => HolderInv' /\ ReplaysTheRun'
<1> SUFFICES ASSUME Inv, [Next]_vars PROVE HolderInv' /\ ReplaysTheRun'
  OBVIOUS
<1>1. CASE Tick
  <2>1. now \in Nat /\ lease \in [Call -> Int] /\ granted \subseteq Call
    BY DEF Inv, TypeOK
  <2>2. \A d \in granted : lease[d] <= now => lease[d] <= now'
    BY <1>1, <2>1 DEF Tick
  <2> QED BY <1>1, <2>2 DEF Tick, ghosts, Inv, HolderInv, ReplaysTheRun
<1>2. CASE GarbageCollect
  <2>1. slot # NoSlot /\ slot.exp <= now /\ slot' = NoSlot
    BY <1>2 DEF GarbageCollect, Inv, TypeOK, Slot
  <2>2. UNCHANGED <<now, asked, step, granted, lease, released, ran, replayOf>>
    BY <1>2 DEF GarbageCollect, ghosts
  <2>3. \A d \in granted : lease[d] <= now \/ d \in released
    BY <2>1 DEF Inv, HolderInv
  <2> QED BY <2>1, <2>2, <2>3 DEF Inv, HolderInv, ReplaysTheRun
<1>3. ASSUME NEW c \in Call, RedisReserve(c) PROVE HolderInv' /\ ReplaysTheRun'
  <2>1. CASE Visible
    BY <1>3, <2>1, ClassifyInv DEF RedisReserve, Visible
  <2>2. CASE ~ Visible
    <3>1. Lapsed
      BY <1>3, <2>2 DEF RedisReserve, Visible, Lapsed, Inv, TypeOK, Slot
    <3> QED BY <1>3, <2>2, <3>1, TakeInv DEF RedisReserve
  <2> QED BY <2>1, <2>2
<1>4. ASSUME NEW c \in Call, SqlUpsert(c) PROVE HolderInv' /\ ReplaysTheRun'
  <2>1. CASE Free /\ Take(c)
    BY <1>4, <2>1, TakeInv DEF SqlUpsert, Free, Lapsed
  <2>2. CASE Moves(c, "reading") /\ UNCHANGED <<backend, now, slot, asked, ghosts>>
    <3>1. c \notin granted
      BY <1>4 DEF SqlUpsert, Inv, HolderInv
    <3> QED BY <1>4, <2>2, <3>1, MoveInv, NoAnswerYet DEF SqlUpsert, ghosts, Inv, TypeOK, Step
  <2> QED BY <1>4, <2>1, <2>2 DEF SqlUpsert
<1>5. ASSUME NEW c \in Call, SqlRead(c) PROVE HolderInv' /\ ReplaysTheRun'
  <2>1. CASE slot # NoSlot /\ Classify(c)
    BY <1>5, <2>1, ClassifyInv DEF SqlRead
  <2>2. CASE Moves(c, "in_flight") /\ UNCHANGED <<backend, now, slot, asked, ghosts>>
    BY <1>5, <2>2, MoveInv, NoAnswerYet DEF SqlRead, ghosts, Inv, TypeOK, Step
  <2> QED BY <1>5, <2>1, <2>2 DEF SqlRead
<1>6. ASSUME NEW c \in Call, StoreDown(c) PROVE HolderInv' /\ ReplaysTheRun'
  BY <1>6, MoveInv, NoAnswerYet DEF StoreDown, ghosts, Inv, TypeOK, Step
<1>7. ASSUME NEW c \in Call, HandlerReturns(c) PROVE HolderInv' /\ ReplaysTheRun'
  <2>1. PICK s \in {"recording", "releasing"} : Moves(c, s)
    BY <1>7 DEF HandlerReturns
  <2>2. c \in granted
    BY <1>7 DEF HandlerReturns, Inv, HolderInv
  <2> QED BY <1>7, <2>1, <2>2, MoveInv, NoAnswerYet DEF HandlerReturns, Inv, TypeOK, Step
<1>8. ASSUME NEW c \in Call, Vanish(c) PROVE HolderInv' /\ ReplaysTheRun'
  BY <1>8, MoveInv, NoAnswerYet DEF Vanish, ghosts, Inv, TypeOK, Step
<1>9. ASSUME NEW c \in Call, Complete(c) PROVE HolderInv' /\ ReplaysTheRun'
  <2>1. c \in ran /\ c \in granted /\ Moves(c, "answered")
        /\ UNCHANGED <<now, asked, granted, lease, released, ran, replayOf>>
    BY <1>9 DEF Complete, ghosts, Inv, HolderInv
  <2>2. CASE slot' = slot
    BY <1>9, <2>1, <2>2, MoveInv, NoAnswerYet DEF Complete, Inv, TypeOK, Step
  <2>3. CASE MayComplete(c) /\ slot' = [slot EXCEPT !.answer = c]
    <3>1. slot \in Slot /\ slot # NoSlot /\ slot.owner = c
      BY <2>3 DEF MayComplete, Visible, Inv, TypeOK
    <3>2. /\ slot'.owner = c /\ slot'.hash = slot.hash /\ slot'.exp = slot.exp
          /\ slot'.answer = c /\ slot' \in Slot
      BY <2>3, <3>1 DEF Slot
    <3>3. slot' # NoSlot
      BY <3>2, RecordIsRecord
    <3>4. step'[c] = "answered" /\ \A d \in Call \ {c} : step'[d] = step[d]
      BY <2>1 DEF Moves, Inv, TypeOK
    <3>5. HolderInv'
      BY <2>1, <3>1, <3>2, <3>3, <3>4 DEF Inv, HolderInv
    <3>6. ReplaysTheRun'
      BY <2>1, <3>2, <3>4 DEF Inv, ReplaysTheRun
    <3> QED BY <3>5, <3>6
  <2> QED BY <1>9, <2>2, <2>3 DEF Complete
<1>10. ASSUME NEW c \in Call, Release(c) PROVE HolderInv' /\ ReplaysTheRun'
  <2>1. c \in ran /\ c \in granted /\ Moves(c, "answered")
        /\ UNCHANGED <<now, asked, granted, lease, ran, replayOf>>
    BY <1>10 DEF Release, Inv, HolderInv
  <2>2. CASE UNCHANGED <<slot, released>>
    BY <1>10, <2>1, <2>2, MoveInv, NoAnswerYet DEF Release, Inv, TypeOK, Step
  <2>3. CASE MayRelease(c) /\ slot' = NoSlot /\ released' = released \cup {c}
    <3>1. slot # NoSlot /\ slot.owner = c
      BY <2>3 DEF MayRelease, Visible
    <3>2. \A d \in granted : lease[d] <= now \/ d \in released'
      BY <2>3, <3>1 DEF Inv, HolderInv
    <3>3. step'[c] = "answered" /\ \A d \in Call \ {c} : step'[d] = step[d]
      BY <2>1 DEF Moves, Inv, TypeOK
    <3>4. HolderInv'
      BY <2>1, <2>3, <3>2, <3>3 DEF Inv, HolderInv
    <3>5. ReplaysTheRun'
      BY <2>1, <2>3, <3>3 DEF Inv, ReplaysTheRun
    <3> QED BY <3>4, <3>5
  <2> QED BY <1>10, <2>2, <2>3 DEF Release
<1>11. CASE UNCHANGED vars
  BY <1>11 DEF vars, ghosts, Inv, HolderInv, ReplaysTheRun
<1> QED BY <1>1, <1>2, <1>3, <1>4, <1>5, <1>6, <1>7, <1>8, <1>9, <1>10, <1>11 DEF Next

\* A reservation that has neither run out nor been given back is the record's,
\* and only its holder is at work under it, whatever calls race, stall past
\* their lease or vanish (idempotency stores, reserve, complete and release).
THEOREM HolderKnown == Spec => []HolderInv
<1>1. Init => Inv
  BY InitTypeOK, InitInv DEF Inv
<1>2. Inv /\ [Next]_vars => Inv'
  BY NextTypeOK, NextInv DEF Inv
<1>3. Inv => HolderInv
  BY DEF Inv
<1> QED BY <1>1, <1>2, <1>3, PTL DEF Spec

\* A replayed answer is that of the run that held the record it was read from.
THEOREM ReplaysAreRuns == Spec => []ReplaysTheRun
<1>1. Init => Inv
  BY InitTypeOK, InitInv DEF Inv
<1>2. Inv /\ [Next]_vars => Inv'
  BY NextTypeOK, NextInv DEF Inv
<1>3. Inv => ReplaysTheRun
  BY DEF Inv
<1> QED BY <1>1, <1>2, <1>3, PTL DEF Spec

\* A key goes to a second holder only when the first's lease is over or was
\* given back.
THEOREM NeverTwoHolders == Spec => NoRerunWhileLive
<1> DEFINE Step1 == \A c \in granted' \ granted : \A d \in granted :
                      lease[d] <= now \/ d \in released
<1>1. ASSUME Inv, NEW c \in Call, Take(c), Lapsed, step[c] = "idle"
      PROVE  Step1
  BY <1>1 DEF Inv, HolderInv, Lapsed, TypeOK, Take
<1>2. Inv /\ [Next]_vars => [Step1]_vars
  <2> SUFFICES ASSUME Inv, Next PROVE Step1
    OBVIOUS
  <2>1. ASSUME NEW c \in Call, RedisReserve(c), ~ Visible PROVE Step1
    <3>1. Lapsed
      BY <2>1 DEF RedisReserve, Visible, Lapsed, Inv, TypeOK, Slot
    <3> QED BY <1>1, <2>1, <3>1 DEF RedisReserve
  <2>2. ASSUME NEW c \in Call, SqlUpsert(c), Take(c), Free PROVE Step1
    BY <1>1, <2>2 DEF SqlUpsert, Free, Lapsed
  <2>3. CASE granted' = granted
    BY <2>3
  <2> QED BY <2>1, <2>2, <2>3 DEF Next, Tick, GarbageCollect, RedisReserve, Classify,
             SqlUpsert, SqlRead, StoreDown, HandlerReturns, Vanish, Complete, Release, ghosts
<1>3. Init => Inv
  BY InitTypeOK, InitInv DEF Inv
<1>4. Inv /\ [Next]_vars => Inv'
  BY NextTypeOK, NextInv DEF Inv
<1> QED BY <1>2, <1>3, <1>4, PTL DEF Spec, NoRerunWhileLive

-----------------------------------------------------------------------------
(* The contract. *)

LEMMA ToldIs ==
  ASSUME TypeOK, NEW c \in Call
  PROVE  /\ step[c] \in {"idle", "reading"} => Told(c) = "nothing"
         /\ step[c] \in {"running", "recording", "releasing", "gone"} => Told(c) = "reserved"
         /\ step[c] = "answered" => Told(c) = "done"
         /\ step[c] = "replayed" => Told(c) = "replay"
         /\ step[c] \in {"conflict", "in_flight", "failed"} => Told(c) = step[c]
  BY DEF Told

\* What a move of one call looks like from outside.
LEMMA MoveTold ==
  ASSUME TypeOK, TypeOK', NEW c \in Call, NEW s \in Step, Moves(c, s)
  PROVE  [d \in Call |-> Told(d)]' = [[d \in Call |-> Told(d)] EXCEPT ![c] = Told(c)']
<1>1. \A d \in Call \ {c} : step'[d] = step[d]
  BY DEF Moves, TypeOK
<1>2. \A d \in Call \ {c} : Told(d)' = Told(d)
  BY <1>1 DEF Told
<1> QED BY <1>2

\* And which calls have found the key taken.
LEMMA MoveSeen ==
  ASSUME TypeOK, NEW c \in Call, NEW s \in Step, Moves(c, s)
  PROVE  {d \in Call : step[d] = "reading"}' =
           IF s = "reading" THEN {d \in Call : step[d] = "reading"} \cup {c}
                            ELSE {d \in Call : step[d] = "reading"} \ {c}
  BY DEF Moves, TypeOK

LEMMA InitContract == Init => Contract!Init
  BY DEF Init, Contract!Init, NoSlot, Contract!NoSlot, Told

\* A reservation is the contract's, its answer delivered or lost.
LEMMA TakeContract ==
  ASSUME TypeOK, TypeOK', NEW c \in Call, Take(c), Lapsed, step[c] = "idle"
  PROVE  Contract!Reserve(c)
<1>1. PICK s \in {"running", "failed"} : Moves(c, s)
  BY DEF Take
<1>2. step'[c] = s
  BY <1>1 DEF Moves, TypeOK
<1>3. Told(c)' = IF s = "running" THEN "reserved" ELSE "failed"
  BY <1>2 DEF Told
<1>4. Contract!Tell(c, Told(c)')
  BY <1>1, MoveTold DEF Contract!Tell, Step
<1>5. \E e \in Contract!Expiry(now) :
        slot' = [owner |-> c, hash |-> asked[c], exp |-> e, answer |-> NoCall]
  BY DEF Take, Record, Expiry, Contract!Expiry
<1>6. Contract!Asks(c) /\ Contract!Free /\ c \notin {d \in Call : step[d] = "reading"}
  BY ToldIs DEF Contract!Asks, Contract!Free, Lapsed, NoSlot, Contract!NoSlot
<1>7. {d \in Call : step[d] = "reading"}' = {d \in Call : step[d] = "reading"}
  BY <1>1, <1>6, MoveSeen DEF Step
<1> QED BY <1>3, <1>4, <1>5, <1>6, <1>7 DEF Contract!Reserve, Take

\* What a call is told of a live record, or of one it saw live.
LEMMA ClassifyContract ==
  ASSUME Inv, TypeOK', NEW c \in Call, Classify(c), slot # NoSlot,
         step[c] \in {"idle", "reading"},
         step[c] = "reading" \/ slot.exp > now
  PROVE  Contract!Answer(c)
<1>1. PICK s \in {"conflict", "in_flight", "replayed"} :
        /\ Moves(c, s)
        /\ s = "conflict" => slot.hash # asked[c]
        /\ s = "in_flight" => slot.hash = asked[c] /\ slot.answer = NoCall
        /\ s = "replayed" => slot.hash = asked[c] /\ slot.answer # NoCall
  BY DEF Classify
<1>2. step'[c] = s
  BY <1>1 DEF Moves, Inv, TypeOK
<1>3. Told(c)' = IF s = "replayed" THEN "replay" ELSE s
  BY <1>2 DEF Told
<1>4. Contract!Tell(c, Told(c)')
  BY <1>1, MoveTold DEF Contract!Tell, Step, Inv
<1>5. {d \in Call : step[d] = "reading"}' = {d \in Call : step[d] = "reading"} \ {c}
  BY <1>1, MoveSeen DEF Step, Inv
<1>6. Contract!Asks(c)
  BY ToldIs DEF Contract!Asks, Inv
<1>7. ~ Contract!Free \/ c \in {d \in Call : step[d] = "reading"}
  BY DEF Contract!Free, NoSlot, Contract!NoSlot, Inv, TypeOK, Slot
<1>8. slot # Contract!NoSlot /\ (Contract!InFlight <=> slot.answer = NoCall)
  BY DEF Contract!InFlight, NoSlot, Contract!NoSlot
<1>9. UNCHANGED <<now, slot, asked>>
  BY DEF Classify
<1> QED BY <1>1, <1>3, <1>4, <1>5, <1>6, <1>7, <1>8, <1>9 DEF Contract!Answer

\* Moves inside a call that its client cannot see.
LEMMA QuietContract ==
  ASSUME TypeOK, TypeOK', NEW c \in Call, NEW s \in Step, Moves(c, s),
         step[c] \in {"running", "recording", "releasing"},
         s \in {"recording", "releasing", "gone"},
         UNCHANGED <<now, slot, asked>>
  PROVE  UNCHANGED Contract!vars
<1>1. step'[c] = s
  BY DEF Moves, TypeOK
<1>2. Told(c)' = "reserved" /\ Told(c) = "reserved"
  BY <1>1, ToldIs DEF Told
<1>3. [d \in Call |-> Told(d)]' = [d \in Call |-> Told(d)]
  BY <1>2, MoveTold
<1>4. {d \in Call : step[d] = "reading"}' = {d \in Call : step[d] = "reading"}
  BY MoveSeen
<1> QED BY <1>3, <1>4 DEF Contract!vars

LEMMA NextContract ==
  Inv /\ TypeOK' /\ [Next]_vars => [Contract!Next]_Contract!vars
<1> SUFFICES ASSUME Inv, TypeOK', [Next]_vars PROVE [Contract!Next]_Contract!vars
  OBVIOUS
<1> USE DEF Inv
<1>1. CASE Tick
  <2>1. [d \in Call |-> Told(d)]' = [d \in Call |-> Told(d)]
        /\ {d \in Call : step[d] = "reading"}' = {d \in Call : step[d] = "reading"}
    BY <1>1 DEF Tick, Told
  <2> QED BY <1>1, <2>1 DEF Tick, Contract!Tick, Contract!Next
<1>2. CASE GarbageCollect
  <2>1. [d \in Call |-> Told(d)]' = [d \in Call |-> Told(d)]
        /\ {d \in Call : step[d] = "reading"}' = {d \in Call : step[d] = "reading"}
    BY <1>2 DEF GarbageCollect, Told
  <2>2. slot.exp <= now
    BY <1>2 DEF GarbageCollect, TypeOK, Slot
  <2> QED BY <1>2, <2>1, <2>2
      DEF GarbageCollect, Contract!Forget, Contract!Next, NoSlot, Contract!NoSlot
<1>3. ASSUME NEW c \in Call, RedisReserve(c) PROVE Contract!Next
  <2>1. CASE Visible
    BY <1>3, <2>1, ClassifyContract DEF RedisReserve, Visible, Contract!Next
  <2>2. CASE ~ Visible
    <3>1. Lapsed
      BY <1>3, <2>2 DEF RedisReserve, Visible, Lapsed, TypeOK, Slot
    <3> QED BY <1>3, <2>2, <3>1, TakeContract DEF RedisReserve, Contract!Next
  <2> QED BY <2>1, <2>2
<1>4. ASSUME NEW c \in Call, SqlUpsert(c) PROVE Contract!Next
  <2>1. CASE Free /\ Take(c)
    BY <1>4, <2>1, TakeContract DEF SqlUpsert, Free, Lapsed, Contract!Next
  <2>2. CASE ~ Free /\ Moves(c, "reading") /\ UNCHANGED <<backend, now, slot, asked, ghosts>>
    <3>1. step'[c] = "reading"
      BY <2>2 DEF Moves, TypeOK
    <3>2. Told(c)' = "nothing" /\ Told(c) = "nothing"
      BY <1>4, <3>1, ToldIs DEF SqlUpsert, Told
    <3>3. [d \in Call |-> Told(d)]' = [d \in Call |-> Told(d)]
      BY <2>2, <3>2, MoveTold DEF Step
    <3>4. {d \in Call : step[d] = "reading"}' = {d \in Call : step[d] = "reading"} \cup {c}
      BY <2>2, MoveSeen DEF Step
    <3>5. Contract!Asks(c) /\ ~ Contract!Free
      BY <2>2, <3>2 DEF Contract!Asks, Contract!Free, Free, NoSlot, Contract!NoSlot
    <3> QED BY <2>2, <3>3, <3>4, <3>5 DEF Contract!FindTaken, Contract!Next
  <2> QED BY <1>4, <2>1, <2>2 DEF SqlUpsert
<1>5. ASSUME NEW c \in Call, SqlRead(c) PROVE Contract!Next
  <2>1. CASE slot # NoSlot /\ Classify(c)
    BY <1>5, <2>1, ClassifyContract DEF SqlRead, Contract!Next
  <2>2. CASE slot = NoSlot /\ Moves(c, "in_flight") /\ UNCHANGED <<backend, now, slot, asked, ghosts>>
    <3>1. step'[c] = "in_flight"
      BY <2>2 DEF Moves, TypeOK
    <3>2. Told(c)' = "in_flight"
      BY <3>1 DEF Told
    <3>3. Contract!Tell(c, "in_flight")
      BY <2>2, <3>2, MoveTold DEF Step, Contract!Tell
    <3>4. {d \in Call : step[d] = "reading"}' = {d \in Call : step[d] = "reading"} \ {c}
      BY <2>2, MoveSeen DEF Step
    <3>5. Contract!Asks(c) /\ c \in {d \in Call : step[d] = "reading"}
      BY <1>5, ToldIs DEF SqlRead, Contract!Asks
    <3> QED BY <2>2, <3>3, <3>4, <3>5 DEF Contract!Answer, Contract!Next, NoSlot, Contract!NoSlot
  <2> QED BY <1>5, <2>1, <2>2 DEF SqlRead
<1>6. ASSUME NEW c \in Call, StoreDown(c) PROVE Contract!Next
  <2>1. step'[c] = "failed"
    BY <1>6 DEF StoreDown, Moves, TypeOK
  <2>2. Contract!Tell(c, "failed")
    BY <1>6, <2>1, MoveTold DEF StoreDown, Step, Told, Contract!Tell
  <2>3. {d \in Call : step[d] = "reading"}' = {d \in Call : step[d] = "reading"} \ {c}
    BY <1>6, MoveSeen DEF StoreDown, Step
  <2>4. Contract!Asks(c)
    BY <1>6, ToldIs DEF StoreDown, Contract!Asks
  <2> QED BY <1>6, <2>2, <2>3, <2>4 DEF StoreDown, Contract!Fail, Contract!Next
<1>7. ASSUME NEW c \in Call, HandlerReturns(c) \/ Vanish(c) PROVE UNCHANGED Contract!vars
  BY <1>7, QuietContract DEF HandlerReturns, Vanish, ghosts, Step
<1>8. ASSUME NEW c \in Call, Complete(c) \/ Release(c) PROVE Contract!Next
  <2>1. Moves(c, "answered") /\ step[c] \in {"recording", "releasing"} /\ UNCHANGED <<now, asked>>
    BY <1>8 DEF Complete, Release
  <2>2. step'[c] = "answered"
    BY <2>1 DEF Moves, TypeOK
  <2>3. Contract!Tell(c, "done")
    BY <2>1, <2>2, MoveTold DEF Step, Told, Contract!Tell
  <2>4. {d \in Call : step[d] = "reading"}' = {d \in Call : step[d] = "reading"}
    BY <2>1, MoveSeen DEF Step
  <2>5. [d \in Call |-> Told(d)][c] = "reserved"
    BY <2>1, ToldIs
  <2>6. CASE slot' = slot
    BY <2>1, <2>3, <2>4, <2>5, <2>6 DEF Contract!Complete, Contract!Next
  <2>7. CASE MayComplete(c) /\ slot' = [slot EXCEPT !.answer = c]
    <3>1. slot # NoSlot /\ slot.owner = c /\ slot.answer = NoCall
      <4>1. slot # NoSlot /\ slot.owner = c
        BY <2>7 DEF MayComplete, Visible
      <4>2. slot.answer # c
        BY <2>1, <4>1, NoAnswerYet
      <4> QED BY <4>1, <4>2 DEF ReplaysTheRun
    <3>2. Contract!InFlight
      BY <3>1 DEF Contract!InFlight, NoSlot, Contract!NoSlot
    <3> QED BY <2>1, <2>3, <2>4, <2>5, <2>7, <3>1, <3>2 DEF Contract!Complete, Contract!Next
  <2>8. CASE MayRelease(c) /\ slot' = NoSlot
    BY <2>1, <2>3, <2>4, <2>5, <2>8
       DEF MayRelease, Visible, Contract!Release, Contract!InFlight, Contract!Next, NoSlot, Contract!NoSlot
  <2> QED BY <1>8, <2>6, <2>7, <2>8 DEF Complete, Release
<1>9. CASE UNCHANGED vars
  BY <1>9 DEF vars, ghosts, Contract!vars, Told
<1> QED BY <1>1, <1>2, <1>3, <1>4, <1>5, <1>6, <1>7, <1>8, <1>9 DEF Next

\* Either store, called by the HTTP layer with handlers that are slow, fail
\* or vanish, refines the trait's contract.
THEOREM ContractKept == Spec => KeepsContract
<1>1. Init => Inv
  BY InitTypeOK, InitInv DEF Inv
<1>2. Inv /\ [Next]_vars => Inv'
  BY NextTypeOK, NextInv DEF Inv
<1>3. Inv' => TypeOK'
  BY DEF Inv
<1> QED BY <1>1, <1>2, <1>3, InitContract, NextContract, PTL
    DEF Spec, KeepsContract, Contract!Spec
=============================================================================
