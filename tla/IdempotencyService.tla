------------------------- MODULE IdempotencyService -------------------------
(***************************************************************************)
(* Idempotent requests as the HTTP layer serves them (cratestack-axum,     *)
(* idempotency/), through the executor (cratestack-exec) and one of the    *)
(* two stores: Redis, a script per operation, or SQL, where a reservation  *)
(* is two statements.  Each call is one request with the same key; all of  *)
(* them may run at once, on servers whose clocks differ from the store's.  *)
(***************************************************************************)
EXTENDS Integers

CONSTANTS Call, NoCall, Hash, Ttl, Skew,
  Backends,  \* the stores to consider, of "redis" and "sql"
  MaxClock   \* bound: the clock stops here

ASSUME ServiceAssumption ==
  /\ NoCall \notin Call
  /\ Ttl \in Nat
  /\ Skew \in Nat
  /\ Backends \subseteq {"redis", "sql"}
  /\ MaxClock \in Nat

VARIABLES
  backend,   \* which store is deployed
  now,       \* the store's clock
  slot,      \* its record of the key, possibly expired
  asked,     \* the fingerprint of each call
  step,      \* where each call is
  granted,   \* ghost: calls the store has reserved the key for
  lease,     \* ghost: when the reservation of a granted call runs out
  released,  \* ghost: calls whose reservation was released
  ran,       \* ghost: calls whose handler ran to its end
  replayOf   \* ghost: the call whose answer a call was given

ghosts == <<granted, lease, released, ran, replayOf>>
vars == <<backend, now, slot, asked, step, ghosts>>

NoSlot == [owner |-> NoCall]

Slot == [owner : Call, hash : Hash, exp : Int, answer : Call \cup {NoCall}]

Step == {"idle", "reading", "running", "recording", "releasing",
         "answered", "replayed", "conflict", "in_flight", "failed", "gone"}

Expiry(t) == (t + Ttl - Skew) .. (t + Ttl + Skew)

\* Mutant of Free: a row without an answer may be taken over, too.
FreeUnanswered ==
  slot # NoSlot => slot.exp <= now \/ slot.answer = NoCall

Free == slot # NoSlot => slot.exp <= now

\* Mutant of Visible: a key that never expires.
VisibleForever == slot # NoSlot

\* What a script or statement finds: Redis hides a key from its expiry on.
Visible == slot # NoSlot /\ (backend = "redis" => slot.exp > now)

Moves(c, s) == step' = [step EXCEPT ![c] = s]

-----------------------------------------------------------------------------
Init ==
  /\ backend \in Backends
  /\ now = 0
  /\ slot = NoSlot
  /\ asked \in [Call -> Hash]
  /\ step = [c \in Call |-> "idle"]
  /\ granted = {}
  /\ lease = [c \in Call |-> 0]
  /\ released = {}
  /\ ran = {}
  /\ replayOf = [c \in Call |-> NoCall]

(* Reserving. *)

\* Mutant of Record: the token is not stored.
RecordNoToken(c, e) ==
  [owner |-> NoCall, hash |-> asked[c], exp |-> e, answer |-> NoCall]

Record(c, e) == [owner |-> c, hash |-> asked[c], exp |-> e, answer |-> NoCall]

\* The record taken by call c until its server's clock plus the TTL.
Take(c) ==
  /\ \E e \in Expiry(now) :
       /\ slot' = Record(c, e)
       /\ lease' = [lease EXCEPT ![c] = e]
  /\ granted' = granted \cup {c}
  /\ Moves(c, "running") \/ Moves(c, "failed")   \* or the answer is lost
  /\ UNCHANGED <<backend, now, asked, released, ran, replayOf>>

\* What the call is told of the record it found.
Classify(c) ==
  /\ \/ /\ slot.hash # asked[c]
        /\ Moves(c, "conflict")
        /\ UNCHANGED replayOf
     \/ /\ slot.hash = asked[c]
        /\ slot.answer = NoCall
        /\ Moves(c, "in_flight")
        /\ UNCHANGED replayOf
     \/ /\ slot.hash = asked[c]
        /\ slot.answer # NoCall
        /\ Moves(c, "replayed")
        /\ replayOf' = [replayOf EXCEPT ![c] = slot.answer]
  /\ UNCHANGED <<backend, now, slot, asked, granted, lease, released, ran>>

\* RESERVE_LUA: one script decides.
RedisReserve(c) ==
  /\ backend = "redis"
  /\ step[c] = "idle"
  /\ IF Visible THEN Classify(c) ELSE Take(c)

\* The upsert: inserts, takes over an expired row, or leaves a live one alone.
SqlUpsert(c) ==
  /\ backend = "sql"
  /\ step[c] = "idle"
  /\ \/ Free /\ Take(c)
     \/ /\ ~ Free
        /\ Moves(c, "reading")
        /\ UNCHANGED <<backend, now, slot, asked, ghosts>>

\* The SELECT after it, on a row that may have changed, expired or gone.
SqlRead(c) ==
  /\ step[c] = "reading"
  /\ \/ slot # NoSlot /\ Classify(c)
     \/ /\ slot = NoSlot
        /\ Moves(c, "in_flight")
        /\ UNCHANGED <<backend, now, slot, asked, ghosts>>

\* The store cannot be reached: the request is refused.
StoreDown(c) ==
  /\ step[c] \in {"idle", "reading"}
  /\ Moves(c, "failed")
  /\ UNCHANGED <<backend, now, slot, asked, ghosts>>

(* The handler. *)

\* It returns a response the layer records, or one it must not: an error of
\* the service, a stream, a body too large, an aborted transaction.
HandlerReturns(c) ==
  /\ step[c] = "running"
  /\ Moves(c, "recording") \/ Moves(c, "releasing")
  /\ ran' = ran \cup {c}
  /\ UNCHANGED <<backend, now, slot, asked, granted, lease, released, replayOf>>

\* A panic, a disconnected client or a server that dies drops the future.
Vanish(c) ==
  /\ step[c] \in {"running", "recording", "releasing"}
  /\ Moves(c, "gone")
  /\ UNCHANGED <<backend, now, slot, asked, ghosts>>

(* Giving up the reservation. *)

\* Mutant of MayComplete: no token check.
MayCompleteAny(c) == Visible /\ slot.answer = NoCall

\* COMPLETE_LUA asks for the token only, the UPDATE for an open row as well.
MayComplete(c) ==
  /\ Visible
  /\ slot.owner = c
  /\ backend = "sql" => slot.answer = NoCall

\* Mutant of MayRelease: no token check.
MayReleaseAny(c) == Visible /\ slot.answer = NoCall

\* RELEASE_LUA and the DELETE: the own, unanswered record.
MayRelease(c) == Visible /\ slot.owner = c /\ slot.answer = NoCall

\* A failing store is ignored: the response goes out all the same.
Complete(c) ==
  /\ step[c] = "recording"
  /\ \/ MayComplete(c) /\ slot' = [slot EXCEPT !.answer = c]
     \/ slot' = slot
  /\ Moves(c, "answered")
  /\ UNCHANGED <<backend, now, asked, ghosts>>

Release(c) ==
  /\ step[c] = "releasing"
  /\ \/ /\ MayRelease(c)
        /\ slot' = NoSlot
        /\ released' = released \cup {c}
     \/ UNCHANGED <<slot, released>>
  /\ Moves(c, "answered")
  /\ UNCHANGED <<backend, now, asked, granted, lease, ran, replayOf>>

(* Time. *)

Tick ==
  /\ now < MaxClock
  /\ now' = now + 1
  /\ UNCHANGED <<backend, slot, asked, step, ghosts>>

\* garbage_collect, which any server may run.
GarbageCollect ==
  /\ backend = "sql"
  /\ slot # NoSlot
  /\ slot.exp < now
  /\ slot' = NoSlot
  /\ UNCHANGED <<backend, now, asked, step, ghosts>>

Next ==
  \/ Tick
  \/ GarbageCollect
  \/ \E c \in Call :
       \/ RedisReserve(c) \/ SqlUpsert(c) \/ SqlRead(c) \/ StoreDown(c)
       \/ HandlerReturns(c) \/ Vanish(c)
       \/ Complete(c) \/ Release(c)

Spec == Init /\ [][Next]_vars

-----------------------------------------------------------------------------
TypeOK ==
  /\ backend \in Backends
  /\ now \in Nat
  /\ slot \in Slot \cup {NoSlot}
  /\ asked \in [Call -> Hash]
  /\ step \in [Call -> Step]
  /\ granted \subseteq Call
  /\ lease \in [Call -> Int]
  /\ released \subseteq Call
  /\ ran \subseteq Call
  /\ replayOf \in [Call -> Call \cup {NoCall}]

\* The key is handed out only when every earlier reservation has run out or
\* was released, whatever the holder is doing: a slow handler that completes,
\* gives up or vanishes late never lets a second one in beside a third
\* (reserve_or_fetch: "never two Reserved").
NoRerunWhileLive ==
  [][\A c \in granted' \ granted : \A d \in granted :
       lease[d] <= now \/ d \in released]_vars

\* A replayed answer is that of a run of the same request, recorded by the
\* holder of the record it was read from: a handler whose reservation was
\* taken over does not overwrite the newer run's answer.
ReplaysTheRun ==
  /\ slot # NoSlot => slot.answer \in {NoCall, slot.owner}
  /\ \A c \in Call : step[c] = "replayed" =>
       /\ replayOf[c] \in ran \cap granted
       /\ asked[replayOf[c]] = asked[c]

\* The strengthening both rest on: a reservation that has neither run out nor
\* been released is the record's, and only its holder is at work under it.
HolderInv ==
  /\ released \subseteq granted
  /\ \A c \in granted : \/ lease[c] <= now
                        \/ c \in released
                        \/ slot # NoSlot /\ slot.owner = c /\ slot.exp = lease[c]
  /\ slot # NoSlot => /\ slot.owner \in granted
                      /\ slot.exp = lease[slot.owner]
                      /\ slot.owner \notin released
                      /\ slot.hash = asked[slot.owner]
                      /\ slot.answer # NoCall =>
                           slot.answer \in ran /\ step[slot.answer] = "answered"
  /\ \A c \in Call : step[c] \in {"idle", "reading"} => c \notin granted
  /\ \A c \in Call : step[c] \in {"running", "recording", "releasing"} =>
       c \in granted
  /\ \A c \in Call : step[c] \in {"recording", "releasing"} => c \in ran

-----------------------------------------------------------------------------
(* The store's contract, implemented. *)

Told(c) ==
  CASE step[c] \in {"idle", "reading"} -> "nothing"
    [] step[c] \in {"running", "recording", "releasing", "gone"} -> "reserved"
    [] step[c] = "answered" -> "done"
    [] step[c] = "replayed" -> "replay"
    [] OTHER -> step[c]

Contract == INSTANCE Idempotency WITH
  seen <- {c \in Call : step[c] = "reading"},
  told <- [c \in Call |-> Told(c)]

\* Either store, behind the HTTP layer, does only what the trait promises.
KeepsContract == Contract!Spec
=============================================================================
