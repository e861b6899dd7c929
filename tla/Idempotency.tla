---------------------------- MODULE Idempotency ----------------------------
(***************************************************************************)
(* What an IdempotencyStore promises its callers (the trait of             *)
(* cratestack-core, store/idempotency.rs), for one key of one principal:   *)
(* keys do not touch each other.  A call asks for the key once and is      *)
(* given it, or told what another call has done with it.  The reservation  *)
(* token of a call is fresh, so the call stands for its token.             *)
(***************************************************************************)
EXTENDS Integers

CONSTANTS
  Call,     \* the calls, retries included; a call is also its token
  NoCall,   \* no call
  Hash,     \* request fingerprints
  Ttl,      \* how long a caller asks to hold the key
  Skew      \* how far a caller's clock is from the store's

VARIABLES
  now,    \* the store's clock
  slot,   \* the record of the key
  asked,  \* the fingerprint each call came with
  seen,   \* calls that have found the key taken and await the answer
  told    \* what each call was told

vars == <<now, slot, asked, seen, told>>

NoSlot == [owner |-> NoCall]

Expiry(t) == (t + Ttl - Skew) .. (t + Ttl + Skew)

\* The key is free, or its reservation has run out.
Free == slot # NoSlot => slot.exp <= now

InFlight == slot # NoSlot /\ slot.answer = NoCall

Asks(c) == told[c] = "nothing"

Tell(c, what) == told' = [told EXCEPT ![c] = what]

-----------------------------------------------------------------------------
Init ==
  /\ now = 0
  /\ slot = NoSlot
  /\ asked \in [Call -> Hash]
  /\ seen = {}
  /\ told = [c \in Call |-> "nothing"]

\* The clock advances; an expired record may be forgotten at any time.
Tick == now' = now + 1 /\ UNCHANGED <<slot, asked, seen, told>>

Forget ==
  /\ slot # NoSlot
  /\ slot.exp <= now
  /\ slot' = NoSlot
  /\ UNCHANGED <<now, asked, seen, told>>

\* "Reserved": the call owns the record from here on, in the eyes of the
\* store even if the answer is lost on the way.
Reserve(c) ==
  /\ Asks(c)
  /\ c \notin seen
  /\ Free
  /\ \E e \in Expiry(now) :
       slot' = [owner |-> c, hash |-> asked[c], exp |-> e, answer |-> NoCall]
  /\ Tell(c, "reserved") \/ Tell(c, "failed")
  /\ UNCHANGED <<now, asked, seen>>

\* The call finds the key taken and is yet to be told by what.
FindTaken(c) ==
  /\ Asks(c)
  /\ ~ Free
  /\ seen' = seen \cup {c}
  /\ UNCHANGED <<now, slot, asked, told>>

\* The record answers a call while it is live, or when the call has seen it
\* live; "in flight" is also the answer when it has gone since.
Answer(c) ==
  /\ Asks(c)
  /\ ~ Free \/ c \in seen
  /\ \/ slot # NoSlot /\ slot.hash # asked[c] /\ Tell(c, "conflict")
     \/ slot # NoSlot /\ slot.hash = asked[c] /\ ~ InFlight /\ Tell(c, "replay")
     \/ slot # NoSlot /\ slot.hash = asked[c] /\ InFlight /\ Tell(c, "in_flight")
     \/ slot = NoSlot /\ Tell(c, "in_flight")
  /\ seen' = seen \ {c}
  /\ UNCHANGED <<now, slot, asked>>

\* The store could not be asked.
Fail(c) ==
  /\ Asks(c)
  /\ Tell(c, "failed")
  /\ seen' = seen \ {c}
  /\ UNCHANGED <<now, slot, asked>>

\* The holder gives up the key, with an answer or without.  Both are best
\* effort, and neither touches a record that is no longer the call's.
Complete(c) ==
  /\ told[c] = "reserved"
  /\ \/ slot' = slot
     \/ slot.owner = c /\ InFlight /\ slot' = [slot EXCEPT !.answer = c]
  /\ Tell(c, "done")
  /\ UNCHANGED <<now, asked, seen>>

Release(c) ==
  /\ told[c] = "reserved"
  /\ slot.owner = c
  /\ InFlight
  /\ slot' = NoSlot
  /\ Tell(c, "done")
  /\ UNCHANGED <<now, asked, seen>>

Next ==
  \/ Tick
  \/ Forget
  \/ \E c \in Call :
       Reserve(c) \/ FindTaken(c) \/ Answer(c) \/ Fail(c) \/ Complete(c) \/ Release(c)

Spec == Init /\ [][Next]_vars
=============================================================================
