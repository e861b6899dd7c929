----------------------------- MODULE RateLimit -----------------------------
(***************************************************************************)
(* The in-memory rate limiter of cratestack-axum: token buckets behind one *)
(* mutex (ratelimit/store.rs), their sweep and their cap (store/buckets.rs *)
(* and store/capacity.rs), and how many buckets of its own a scope may     *)
(* have at once (store/scopes.rs).  A call reads the clock before it takes *)
(* the lock, so calls may enter in another order than they read it.        *)
(*                                                                         *)
(* A tick refills one part of a token; a token of bucket b is Period[b]    *)
(* parts.                                                                  *)
(***************************************************************************)
EXTENDS Integers, FiniteSets

CONSTANTS
  Caller,         \* tasks that call consume_bounded
  Key,            \* buckets that requests ask for
  Scope,          \* budget scopes; a scope is also its fallback bucket, which
                  \* requests may ask for, too
  NoScope,        \* of a key whose requests carry no budget
  ScopeOf,        \* ScopeOf[k]: the scope key k is charged under
  Burst,          \* Burst[b]: tokens of a full bucket
  Period,         \* Period[b]: ticks that refill one
  Slack,          \* what bucket_ttl_secs adds to the time to refill
  MaxTtl,         \* what it clamps that to
  Window,         \* the budget's window, a floor for scope_ttl_secs
  MaxDistinct,    \* keys of a scope with a bucket of their own
  MaxBuckets,     \* cap on buckets, and on scopes
  SweepInterval,  \* ticks between sweeps that nothing forces
  Lag,            \* bound: ticks a call may wait for the lock
  MaxTime         \* bound: ticks

Bucket == Key \cup Scope

ASSUME RateLimitAssumption ==
  /\ NoScope \notin Scope
  /\ IsFiniteSet(Key) /\ IsFiniteSet(Scope)
  /\ ScopeOf \in [Key -> Scope \cup {NoScope}]
  /\ \A s \in Key \cap Scope : ScopeOf[s] = NoScope
  /\ Burst \in [Bucket -> Nat] /\ Period \in [Bucket -> Nat \ {0}]
  /\ Slack \in Nat /\ MaxTtl \in Nat \ {0} /\ Window \in Nat
  /\ MaxDistinct \in Nat /\ MaxBuckets \in Nat /\ SweepInterval \in Nat
  /\ Lag \in Nat /\ MaxTime \in Nat

VARIABLES
  clock,      \* Instant::now
  call,       \* when each caller that waits for the lock read the clock
  live,       \* buckets in the map
  tokens,     \* parts each holds, full for a bucket that is not live
  refilled,   \* last_refill of each, and 0 for one that is not live
  sweptAt,    \* last_sweep, -1 before the first request
  scopes,     \* scopes in the map
  members,    \* keys with a slot in their scope
  slot,       \* when each expires, and 0 for a key without one
  spent,      \* ghost: parts each bucket has granted
  reordered   \* ghost: ticks its refills were counted twice

buckets == <<live, tokens, refilled, sweptAt>>
admissions == <<scopes, members, slot>>
ghosts == <<spent, reordered>>
vars == <<clock, call, buckets, admissions, ghosts>>

Time == 0 .. MaxTime

Capacity(b) == Burst[b] * Period[b]

AtMost(n, bound) == IF n <= bound THEN n ELSE bound
AtLeast(n, bound) == IF n >= bound THEN n ELSE bound

\* bucket_ttl_secs, of the configuration of bucket b.
Ttl(b) == AtMost(Capacity(b) + Slack, MaxTtl)

\* Mutant of ScopeTtl: a slot that does not outlive the budget's window.
ScopeTtlWindow(b) == Window

\* scope_ttl_secs.
ScopeTtl(b) == AtLeast(Window, Ttl(b))

Idle == -1

Init ==
  /\ clock = 0
  /\ call = [c \in Caller |-> Idle]
  /\ live = {}
  /\ tokens = [b \in Bucket |-> Capacity(b)]
  /\ refilled = [b \in Bucket |-> 0]
  /\ sweptAt = -1
  /\ scopes = {} /\ members = {}
  /\ slot = [k \in Key |-> 0]
  /\ spent = [b \in Bucket |-> 0]
  /\ reordered = [b \in Bucket |-> 0]

-----------------------------------------------------------------------------
(* What a request for key k finds when it read the clock at `now`. *)

SweepDue(now) == sweptAt # -1 /\ now - sweptAt >= SweepInterval

\* Mutant of Stale: a fixed time, which does not refill every bucket.
StaleFixed(k, now) == {b \in live : now - refilled[b] >= Slack}

\* Buckets a sweep drops: idle for the time to live of the request's own
\* configuration.
Stale(k, now) == {b \in live : now - refilled[b] >= Ttl(k)}

\* Slots that have aged out.
Aged(now) == {m \in members : slot[m] <= now}

\* Mutant of Fits: one bucket more than the cap.
FitsOneMore(b, kept) == b \in kept \/ Cardinality(kept) <= MaxBuckets

Fits(b, kept) == b \in kept \/ Cardinality(kept) < MaxBuckets

\* What is kept of `kept` to make room for b: a full map is swept.
MakeRoom(b, k, now, kept) == IF Fits(b, kept) THEN kept ELSE kept \ Stale(k, now)

DueSweep(k, now) == IF SweepDue(now) THEN live \ Stale(k, now) ELSE live

\* The buckets when the request may have one: with a budget, room is made first.
LiveFor(k, now) ==
  IF ScopeOf[k] = NoScope THEN DueSweep(k, now)
                          ELSE MakeRoom(k, k, now, DueSweep(k, now))

\* Whether the scopes are swept: on schedule, or for a scope they do not have.
ScopesSwept(k, now) ==
  \/ SweepDue(now)
  \/ ScopeOf[k] \notin scopes \cup {NoScope} /\ Fits(k, LiveFor(k, now))

MembersFor(k, now) == IF ScopesSwept(k, now) THEN members \ Aged(now) ELSE members

ScopesFor(k, now) ==
  IF ScopesSwept(k, now) THEN {ScopeOf[m] : m \in MembersFor(k, now)} ELSE scopes

\* Mutant of HasRoom: a budget is charged before the caps are looked at.
RoomUnchecked(k, now) == TRUE

\* reserve_admission.
HasRoom(k, now) ==
  LET s == ScopeOf[k] IN
  s # NoScope =>
    /\ Fits(k, LiveFor(k, now))
    /\ s \in ScopesFor(k, now) \/ Cardinality(ScopesFor(k, now)) < MaxBuckets

\* The slots of its scope that still count.
Rivals(k, now) ==
  {m \in MembersFor(k, now) \ Aged(now) : ScopeOf[m] = ScopeOf[k]}

\* Whether it is charged to its own bucket, not to the fallback.
Own(k, now) ==
  \/ ScopeOf[k] = NoScope
  \/ k \in Rivals(k, now)
  \/ Cardinality(Rivals(k, now)) < MaxDistinct

ChargedTo(k, now) == IF Own(k, now) THEN k ELSE ScopeOf[k]

-----------------------------------------------------------------------------
\* What a request asks for is left open until it has the lock.
Read(c) ==
  /\ call[c] = Idle
  /\ call' = [call EXCEPT ![c] = clock]
  /\ UNCHANGED <<clock, buckets, admissions, ghosts>>

\* Buckets that are dropped are forgotten.
Keep(kept) ==
  /\ live' = kept
  /\ tokens' = [b \in Bucket |-> IF b \in kept THEN tokens[b] ELSE Capacity(b)]
  /\ refilled' = [b \in Bucket |-> IF b \in kept THEN refilled[b] ELSE 0]
  /\ UNCHANGED ghosts

\* Mutant of Level: a call that read an earlier clock takes back what refilled.
LevelSigned(b, kept, now) ==
  IF b \in kept THEN AtMost(tokens[b] + (now - refilled[b]), Capacity(b)) ELSE Capacity(b)

\* What bucket b holds at `now`: it is created full, and refills to that.
Level(b, kept, now) ==
  IF b \in kept THEN AtMost(tokens[b] + AtLeast(now - refilled[b], 0), Capacity(b))
                ELSE Capacity(b)

\* One token is taken from bucket b, if it holds one.
Take(b, kept, now) ==
  LET n == Level(b, kept, now)
      taken == IF n >= Period[b] THEN Period[b] ELSE 0
      back == IF b \in kept THEN AtLeast(refilled[b] - now, 0) ELSE 0
  IN  /\ live' = kept \cup {b}
      /\ tokens' = [x \in Bucket |-> IF x = b THEN n - taken
                                     ELSE IF x \in kept THEN tokens[x] ELSE Capacity(x)]
      /\ refilled' = [x \in Bucket |-> IF x = b THEN now
                                       ELSE IF x \in kept THEN refilled[x] ELSE 0]
      /\ spent' = [spent EXCEPT ![b] = spent[b] + taken]
      /\ reordered' = [reordered EXCEPT ![b] = reordered[b] + back]

\* last_sweep: the first request starts the interval.
Swept(now, forced) ==
  sweptAt' = IF sweptAt = -1 \/ SweepDue(now) \/ forced THEN now ELSE sweptAt

ForcedFor(k, now) == ScopeOf[k] # NoScope /\ ~ Fits(k, DueSweep(k, now))

\* The members that stay with their slots.
Remain(M) ==
  /\ members' = M
  /\ slot' = [m \in Key |-> IF m \in M THEN slot[m] ELSE 0]

\* Key k is given a slot, or has its own renewed.
Admit(k, now, M) ==
  /\ members' = M \cup {k}
  /\ slot' = [m \in Key |-> IF m = k THEN now + ScopeTtl(k)
                            ELSE IF m \in M THEN slot[m] ELSE 0]

\* Scopes::admit.
Account(k, now) ==
  LET left == {m \in MembersFor(k, now) : m \in Aged(now) => ScopeOf[m] # ScopeOf[k]}
  IN  IF ScopeOf[k] = NoScope
        THEN Remain(MembersFor(k, now)) /\ scopes' = ScopesFor(k, now)
        ELSE /\ scopes' = ScopesFor(k, now) \cup {ScopeOf[k]}
             /\ IF Own(k, now) THEN Admit(k, now, left) ELSE Remain(left)

\* A request the store has no room for is refused, with what it swept swept.
Refuse(k, now) ==
  /\ ~ HasRoom(k, now)
  /\ Keep(LiveFor(k, now))
  /\ Swept(now, ForcedFor(k, now))
  /\ Remain(MembersFor(k, now))
  /\ scopes' = ScopesFor(k, now)

\* One that has is charged, unless the bucket it is charged to has none.
Charge(k, now) ==
  LET b == ChargedTo(k, now)
      kept == MakeRoom(b, k, now, LiveFor(k, now))
  IN  /\ HasRoom(k, now)
      /\ Account(k, now)
      /\ Swept(now, ForcedFor(k, now) \/ ~ Fits(b, LiveFor(k, now)))
      /\ \/ Fits(b, kept) /\ Take(b, kept, now)
         \/ ~ Fits(b, kept) /\ Keep(kept)

\* InMemoryRateLimitStore::_consume_at, under the lock.
Enter(c, k) ==
  /\ call[c] # Idle
  /\ call' = [call EXCEPT ![c] = Idle]
  /\ Refuse(k, call[c]) \/ Charge(k, call[c])
  /\ UNCHANGED clock

\* No call waits for the lock longer than Lag.
Tick ==
  /\ clock < MaxTime
  /\ \A c \in Caller : call[c] # Idle => clock < call[c] + Lag
  /\ clock' = clock + 1
  /\ UNCHANGED <<call, buckets, admissions, ghosts>>

Next ==
  \/ \E c \in Caller : Read(c)
  \/ \E c \in Caller, k \in Key : Enter(c, k)
  \/ Tick

Spec == Init /\ [][Next]_vars

-----------------------------------------------------------------------------
\* Every variable keeps its type, a bucket holds no more than its capacity, and
\* a slot is one of a scope in the map.
TypeOK ==
  /\ clock \in Time
  /\ call \in [Caller -> Time \cup {Idle}]
  /\ live \subseteq Bucket
  /\ \A b \in Bucket : tokens[b] \in 0 .. Capacity(b)
  /\ refilled \in [Bucket -> Time]
  /\ sweptAt \in Time \cup {-1}
  /\ scopes \subseteq Scope
  /\ members \subseteq {k \in Key : ScopeOf[k] \in scopes}
  /\ slot \in [Key -> Nat]
  /\ spent \in [Bucket -> Nat]
  /\ reordered \in [Bucket -> Nat]

\* A bucket that is dropped as idle is full: the time to live of any request's
\* configuration, by which it drops buckets of any key, covers the refill of
\* every bucket. RateLimitConfig::new does not see to it.
TtlCovers == \A k \in Key, b \in Bucket : Ttl(k) >= Capacity(b) + Lag

\* A bucket grants no more than its burst and what time refills, whatever was
\* dropped and created again in between; calls that enter out of order add what
\* they turn last_refill back by.
Paced == \A b \in Bucket : spent[b] <= Capacity(b) + clock + reordered[b]

\* One time to live for all keys, longer than a sweep and the calls it meets may
\* be late.
SweptInTime ==
  \A j, k \in Key :
    /\ Ttl(j) = Ttl(k) /\ Ttl(k) > 0
    /\ SweepInterval + 2 * Lag <= Ttl(k) + 1 /\ 3 * Lag <= Ttl(k)

\* The buckets a scope has admitted, idle ones that no sweep has dropped included.
OwnBuckets(s) == {k \in Key \cap live : ScopeOf[k] = s}

\* A scope never has more than twice the buckets it may have distinct keys: a
\* slot may age out, and its bucket wait for the next sweep, but both only once
\* (scopes.rs and ratelimit-bucket-cardinality.md say max_distinct).
WithinBudget == \A s \in Scope : Cardinality(OwnBuckets(s)) <= 2 * MaxDistinct

\* The maps stay within the cap, each.
WithinCap == Cardinality(live) <= MaxBuckets /\ Cardinality(scopes) <= MaxBuckets

\* A request that gets no new bucket leaves no slot behind for a key without one,
\* and no scope without a slot (MaxDistinct > 0).
LeavesNothing ==
  live' \subseteq live
    => /\ members' \subseteq members \cup live
       /\ scopes' \subseteq scopes \cup {ScopeOf[k] : k \in members' \cap live}

RefusedLeavesNothing == [][LeavesNothing]_vars
=============================================================================
