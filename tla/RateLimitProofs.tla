-------------------------- MODULE RateLimitProofs --------------------------
(***************************************************************************)
(* For any keys, scopes and caps: the maps stay within their cap, and a    *)
(* request that gets no new bucket leaves nothing behind.  For a time to   *)
(* live that covers the refill of every bucket: dropping idle buckets      *)
(* never lets a bucket grant more than its burst and the time that passed. *)
(* For one time to live, longer than the sweep is late: no scope has more  *)
(* than twice the buckets its budget allows.                               *)
(***************************************************************************)
EXTENDS RateLimit, FiniteSetTheorems, TLAPS

LEMMA CapacityNat == \A b \in Bucket : Capacity(b) \in Nat /\ Period[b] \in Nat \ {0}
<1> SUFFICES ASSUME NEW b \in Bucket PROVE Capacity(b) \in Nat /\ Period[b] \in Nat \ {0}
  OBVIOUS
<1>1. Burst[b] \in Nat /\ Period[b] \in Nat \ {0}
  BY RateLimitAssumption
<1>2. \A m, n \in Nat : m * n \in Nat
  OBVIOUS
<1> QED BY <1>1, <1>2 DEF Capacity

LEMMA TtlNat == \A k \in Key : Ttl(k) \in Nat
  BY CapacityNat, RateLimitAssumption DEF Ttl, AtMost, Bucket

\* Buckets are only dropped when they have been idle for the time to live.
LEMMA DroppedIdle ==
  ASSUME NEW k \in Key, NEW now \in Nat, NEW b \in Bucket
  PROVE  LET kept == MakeRoom(b, k, now, LiveFor(k, now)) IN
         /\ kept \subseteq live
         /\ live \ kept \subseteq Stale(k, now)
         /\ LiveFor(k, now) \subseteq live
         /\ live \ LiveFor(k, now) \subseteq Stale(k, now)
<1>1. DueSweep(k, now) \subseteq live /\ live \ DueSweep(k, now) \subseteq Stale(k, now)
  BY DEF DueSweep
<1>2. LiveFor(k, now) \subseteq live /\ live \ LiveFor(k, now) \subseteq Stale(k, now)
  BY <1>1 DEF LiveFor, MakeRoom
<1> QED BY <1>2 DEF MakeRoom

-----------------------------------------------------------------------------
(* The types and the caps. *)

LEMMA InitCap == Init => TypeOK /\ WithinCap
<1> SUFFICES ASSUME Init PROVE TypeOK /\ WithinCap
  OBVIOUS
<1>1. Cardinality(live) = 0 /\ Cardinality(scopes) = 0
  BY FS_EmptySet DEF Init
<1>2. WithinCap
  BY <1>1, RateLimitAssumption DEF WithinCap
<1>3. TypeOK
  BY CapacityNat, RateLimitAssumption DEF Init, TypeOK, Time
<1> QED BY <1>2, <1>3

LEMMA FiniteBuckets == IsFiniteSet(Bucket)
  BY FS_Union, RateLimitAssumption DEF Bucket

\* A set that fits within the cap still does with fewer elements, or with one
\* more when it had room.
LEMMA CapKept ==
  ASSUME NEW U, IsFiniteSet(U), NEW M \in SUBSET U, Cardinality(M) <= MaxBuckets
  PROVE  /\ \A N \in SUBSET M : Cardinality(N) <= MaxBuckets
         /\ \A N \in SUBSET M, x \in U :
              x \in N \/ Cardinality(N) < MaxBuckets => Cardinality(N \cup {x}) <= MaxBuckets
<1>1. IsFiniteSet(M)
  BY FS_Subset
<1>2. ASSUME NEW N \in SUBSET M
      PROVE  IsFiniteSet(N) /\ Cardinality(N) \in Nat /\ Cardinality(N) <= MaxBuckets
  <2>1. IsFiniteSet(N) /\ Cardinality(N) <= Cardinality(M)
    BY <1>1, FS_Subset
  <2>2. Cardinality(N) \in Nat /\ Cardinality(M) \in Nat
    BY <1>1, <2>1, FS_CardinalityType
  <2> QED BY <2>1, <2>2, RateLimitAssumption
<1>3. ASSUME NEW N \in SUBSET M, NEW x \in U, x \in N \/ Cardinality(N) < MaxBuckets
      PROVE  Cardinality(N \cup {x}) <= MaxBuckets
  <2>1. CASE x \in N
    <3>1. N \cup {x} = N
      BY <2>1
    <3> QED BY <1>2, <3>1
  <2>2. CASE x \notin N
    <3>1. IsFiniteSet(N) /\ Cardinality(N) \in Nat
      BY <1>2
    <3>2. Cardinality(N \cup {x}) = Cardinality(N) + 1
      BY <2>2, <3>1, FS_AddElement
    <3> QED BY <1>3, <2>2, <3>1, <3>2, RateLimitAssumption
  <2> QED BY <2>1, <2>2
<1> QED BY <1>2, <1>3

\* What a request finds of the scopes are scopes in the map, with its members.
LEMMA ScopesFound ==
  ASSUME TypeOK, NEW k \in Key, NEW now \in Time
  PROVE  /\ ScopesFor(k, now) \subseteq scopes
         /\ \A m \in MembersFor(k, now) : m \in Key /\ ScopeOf[m] \in ScopesFor(k, now)
  BY DEF TypeOK, ScopesFor, MembersFor

\* What entering must establish of the types and the cap.
EnterTyped ==
  /\ live' \subseteq Bucket
  /\ \A b \in Bucket : tokens'[b] \in 0 .. Capacity(b)
  /\ refilled' \in [Bucket -> Time]
  /\ sweptAt' \in Time \cup {-1}
  /\ scopes' \subseteq Scope
  /\ members' \subseteq {k \in Key : ScopeOf[k] \in scopes'}
  /\ slot' \in [Key -> Nat]
  /\ spent' \in [Bucket -> Nat]
  /\ reordered' \in [Bucket -> Nat]
  /\ Cardinality(live') <= MaxBuckets /\ Cardinality(scopes') <= MaxBuckets

LEMMA KeepTyped ==
  ASSUME TypeOK, WithinCap, NEW kept \in SUBSET live, Keep(kept)
  PROVE  /\ live' \subseteq Bucket
         /\ \A b \in Bucket : tokens'[b] \in 0 .. Capacity(b)
         /\ refilled' \in [Bucket -> Time]
         /\ spent' \in [Bucket -> Nat] /\ reordered' \in [Bucket -> Nat]
         /\ Cardinality(live') <= MaxBuckets
<1>1. live' = kept
  BY DEF Keep
<1>2. Cardinality(live') <= MaxBuckets
  BY <1>1, CapKept, FiniteBuckets DEF TypeOK, WithinCap
<1>3. \A b \in Bucket : tokens'[b] \in 0 .. Capacity(b)
  BY CapacityNat DEF Keep, TypeOK
<1>4. 0 \in Time
  BY RateLimitAssumption DEF Time
<1> QED BY <1>1, <1>2, <1>3, <1>4 DEF Keep, ghosts, TypeOK

LEMMA TakeTyped ==
  ASSUME TypeOK, WithinCap, NEW b \in Bucket, NEW now \in Time,
         NEW kept \in SUBSET live, Fits(b, kept), Take(b, kept, now)
  PROVE  /\ live' \subseteq Bucket
         /\ \A x \in Bucket : tokens'[x] \in 0 .. Capacity(x)
         /\ refilled' \in [Bucket -> Time]
         /\ spent' \in [Bucket -> Nat] /\ reordered' \in [Bucket -> Nat]
         /\ Cardinality(live') <= MaxBuckets
<1> DEFINE n == Level(b, kept, now)
           taken == IF n >= Period[b] THEN Period[b] ELSE 0
           back == IF b \in kept THEN AtLeast(refilled[b] - now, 0) ELSE 0
<1>1. /\ live' = kept \cup {b}
      /\ tokens' = [x \in Bucket |-> IF x = b THEN n - taken
                                     ELSE IF x \in kept THEN tokens[x] ELSE Capacity(x)]
      /\ refilled' = [x \in Bucket |-> IF x = b THEN now
                                       ELSE IF x \in kept THEN refilled[x] ELSE 0]
      /\ spent' = [spent EXCEPT ![b] = spent[b] + taken]
      /\ reordered' = [reordered EXCEPT ![b] = reordered[b] + back]
  BY DEF Take
<1>2. /\ Capacity(b) \in Nat /\ Period[b] \in Nat \ {0} /\ MaxTime \in Nat
      /\ tokens[b] \in 0 .. Capacity(b) /\ refilled[b] \in Time /\ 0 \in Time
  BY CapacityNat, RateLimitAssumption DEF TypeOK, Time
<1>3. n \in 0 .. Capacity(b) /\ back \in Nat
  BY <1>2 DEF Level, AtMost, AtLeast, Time
<1>4. taken \in Nat /\ n - taken \in 0 .. Capacity(b)
  BY <1>2, <1>3
<1> HIDE DEF n, taken, back
<1>5. Cardinality(live') <= MaxBuckets
  BY <1>1, CapKept, FiniteBuckets DEF TypeOK, WithinCap, Fits
<1>6. \A x \in Bucket : tokens'[x] \in 0 .. Capacity(x)
  BY <1>1, <1>4, CapacityNat DEF TypeOK
<1>7. live' \subseteq Bucket /\ refilled' \in [Bucket -> Time]
  BY <1>1, <1>2 DEF TypeOK
<1>8. spent' \in [Bucket -> Nat] /\ reordered' \in [Bucket -> Nat]
  BY <1>1, <1>3, <1>4 DEF TypeOK
<1> QED BY <1>5, <1>6, <1>7, <1>8

LEMMA SweptTyped ==
  ASSUME TypeOK, NEW now \in Time, NEW forced, Swept(now, forced)
  PROVE  sweptAt' \in Time \cup {-1}
  BY DEF TypeOK, Swept

LEMMA RefuseTyped ==
  ASSUME TypeOK, WithinCap, NEW k \in Key, NEW now \in Time, Refuse(k, now)
  PROVE  EnterTyped
<1>1. /\ Keep(LiveFor(k, now)) /\ Swept(now, ForcedFor(k, now))
      /\ Remain(MembersFor(k, now)) /\ scopes' = ScopesFor(k, now)
  BY DEF Refuse
<1>2. LiveFor(k, now) \in SUBSET live
  BY DroppedIdle, RateLimitAssumption DEF Time, Bucket
<1>3. Cardinality(scopes') <= MaxBuckets
  BY <1>1, ScopesFound, CapKept, RateLimitAssumption DEF TypeOK, WithinCap
<1>4. scopes' \subseteq Scope /\ members' \subseteq {m \in Key : ScopeOf[m] \in scopes'}
  BY <1>1, ScopesFound DEF TypeOK, Remain
<1>5. slot' \in [Key -> Nat]
  BY <1>1 DEF Remain, TypeOK
<1>6. sweptAt' \in Time \cup {-1}
  BY <1>1, SweptTyped
<1> QED BY <1>1, <1>2, <1>3, <1>4, <1>5, <1>6, KeepTyped DEF EnterTyped

LEMMA ChargeTyped ==
  ASSUME TypeOK, WithinCap, NEW k \in Key, NEW now \in Time, Charge(k, now)
  PROVE  EnterTyped
<1> DEFINE b == ChargedTo(k, now)
           kept == MakeRoom(b, k, now, LiveFor(k, now))
           left == {m \in MembersFor(k, now) : m \in Aged(now) => ScopeOf[m] # ScopeOf[k]}
<1>0. now \in Nat
  BY RateLimitAssumption DEF Time
<1>1. /\ HasRoom(k, now) /\ Account(k, now)
      /\ Swept(now, ForcedFor(k, now) \/ ~ Fits(b, LiveFor(k, now)))
      /\ (Fits(b, kept) /\ Take(b, kept, now)) \/ Keep(kept)
  BY DEF Charge
<1>2. b \in Bucket
  BY RateLimitAssumption DEF ChargedTo, Own, Bucket
<1>3. kept \in SUBSET live
  BY <1>0, <1>2, DroppedIdle
<1>4. sweptAt' \in Time \cup {-1}
  BY <1>1, SweptTyped
<1>5. left \subseteq MembersFor(k, now)
  OBVIOUS
<1>6. ScopeTtl(k) \in Nat /\ (ScopeOf[k] # NoScope => ScopeOf[k] \in Scope)
  BY TtlNat, RateLimitAssumption DEF ScopeTtl, AtLeast
<1>7. /\ scopes' \subseteq Scope /\ members' \subseteq {m \in Key : ScopeOf[m] \in scopes'}
      /\ slot' \in [Key -> Nat] /\ Cardinality(scopes') <= MaxBuckets
  <2>1. CASE ScopeOf[k] = NoScope
    <3>1. Remain(MembersFor(k, now)) /\ scopes' = ScopesFor(k, now)
      BY <1>1, <2>1 DEF Account
    <3>2. Cardinality(scopes') <= MaxBuckets
      BY <3>1, ScopesFound, CapKept, RateLimitAssumption DEF TypeOK, WithinCap
    <3>3. scopes' \subseteq Scope /\ members' \subseteq {m \in Key : ScopeOf[m] \in scopes'}
      BY <3>1, ScopesFound DEF TypeOK, Remain
    <3> QED BY <3>1, <3>2, <3>3 DEF Remain, TypeOK
  <2>2. CASE ScopeOf[k] # NoScope
    <3>1. scopes' = ScopesFor(k, now) \cup {ScopeOf[k]}
      BY <1>1, <2>2 DEF Account
    <3>2. ScopeOf[k] \in ScopesFor(k, now) \/ Cardinality(ScopesFor(k, now)) < MaxBuckets
      BY <1>1, <2>2 DEF HasRoom
    <3>3. ScopesFor(k, now) \in SUBSET scopes /\ scopes \in SUBSET Scope
      BY ScopesFound DEF TypeOK
    <3>4. Cardinality(scopes') <= MaxBuckets
      BY <1>6, <2>2, <3>1, <3>2, <3>3, CapKept, RateLimitAssumption DEF WithinCap
    <3>5. Admit(k, now, left) \/ Remain(left)
      BY <1>1, <2>2 DEF Account
    <3> HIDE DEF left
    <3>6. members' \subseteq MembersFor(k, now) \cup {k}
      BY <1>5, <3>5 DEF Admit, Remain
    <3>7. members' \subseteq {m \in Key : ScopeOf[m] \in scopes'}
      BY <3>1, <3>6, ScopesFound
    <3>8. slot' \in [Key -> Nat]
      BY <1>0, <1>6, <3>5 DEF Admit, Remain, TypeOK
    <3> QED BY <1>6, <2>2, <3>1, <3>3, <3>4, <3>7, <3>8
  <2> QED BY <2>1, <2>2
<1> HIDE DEF b, kept, left
<1> QED BY <1>1, <1>2, <1>3, <1>4, <1>7, KeepTyped, TakeTyped DEF EnterTyped

LEMMA CapNext == TypeOK /\ WithinCap /\ [Next]_vars => TypeOK' /\ WithinCap'
<1> SUFFICES ASSUME TypeOK, WithinCap, [Next]_vars PROVE TypeOK' /\ WithinCap'
  OBVIOUS
<1>1. ASSUME NEW c \in Caller, Read(c) PROVE TypeOK' /\ WithinCap'
  <2>1. /\ call' = [call EXCEPT ![c] = clock]
        /\ UNCHANGED <<clock, live, tokens, refilled, sweptAt, scopes, members, slot,
                       spent, reordered>>
    BY <1>1 DEF Read, buckets, admissions, ghosts
  <2>2. call' \in [Caller -> Time \cup {Idle}]
    BY <2>1 DEF TypeOK
  <2> QED BY <2>1, <2>2 DEF TypeOK, WithinCap, Capacity
<1>2. ASSUME NEW c \in Caller, NEW k \in Key, Enter(c, k) PROVE TypeOK' /\ WithinCap'
  <2> DEFINE now == call[c]
  <2>1. /\ call[c] # Idle /\ clock' = clock
        /\ call' = [call EXCEPT ![c] = Idle]
        /\ Refuse(k, now) \/ Charge(k, now)
    BY <1>2 DEF Enter
  <2>2. now \in Time
    BY <2>1 DEF TypeOK
  <2>3. clock' \in Time /\ call' \in [Caller -> Time \cup {Idle}]
    BY <2>1 DEF TypeOK
  <2> HIDE DEF now
  <2>4. Refuse(k, now) => EnterTyped
    BY <2>2, RefuseTyped
  <2>5. Charge(k, now) => EnterTyped
    BY <2>2, ChargeTyped
  <2>6. EnterTyped
    BY <2>1, <2>4, <2>5
  <2> QED BY <2>3, <2>6 DEF EnterTyped, TypeOK, WithinCap, Capacity
<1>3. CASE Tick
  <2>1. /\ clock < MaxTime /\ clock' = clock + 1
        /\ UNCHANGED <<call, live, tokens, refilled, sweptAt, scopes, members, slot,
                       spent, reordered>>
    BY <1>3 DEF Tick, buckets, admissions, ghosts
  <2>2. clock' \in Time
    BY <2>1, RateLimitAssumption DEF TypeOK, Time
  <2> QED BY <2>1, <2>2 DEF TypeOK, WithinCap, Capacity
<1>4. CASE UNCHANGED vars
  BY <1>4 DEF vars, buckets, admissions, ghosts, TypeOK, WithinCap, Capacity
<1> QED BY <1>1, <1>2, <1>3, <1>4 DEF Next

\* Every variable keeps its type and the maps stay within the cap: a request is
\* charged only where there is room for what it may create (capacity.rs).
THEOREM CapHolds == Spec => [](TypeOK /\ WithinCap)
<1>1. Init => TypeOK /\ WithinCap
  BY InitCap
<1>2. (TypeOK /\ WithinCap) /\ [Next]_vars => (TypeOK /\ WithinCap)'
  BY CapNext
<1> QED BY <1>1, <1>2, PTL DEF Spec

\* Every variable keeps its type: a bucket's tokens stay within its capacity,
\* and every key counted in a scope belongs to a scope that is remembered
\* (store/capacity.rs).
THEOREM TypeCorrect == Spec => []TypeOK
BY CapHolds, PTL
-----------------------------------------------------------------------------
(* What a refusal leaves. *)

\* A request for key k that ends with no bucket it did not have adds at most the
\* slot of a key with a bucket, and its scope.
LEMMA EnterLeaves ==
  ASSUME TypeOK, MaxDistinct > 0, NEW k \in Key, NEW now \in Time,
         live' \subseteq live, Refuse(k, now) \/ Charge(k, now)
  PROVE  /\ members' \subseteq members \cup live
         /\ scopes' \subseteq scopes \cup {ScopeOf[j] : j \in members' \cap live}
<1>1. MembersFor(k, now) \subseteq members /\ ScopesFor(k, now) \subseteq scopes
  BY ScopesFound DEF MembersFor
<1>2. CASE members' = MembersFor(k, now) /\ scopes' = ScopesFor(k, now)
  BY <1>1, <1>2
<1>3. CASE ScopeOf[k] # NoScope /\ Charge(k, now)
  <2> DEFINE left == {m \in MembersFor(k, now) : m \in Aged(now) => ScopeOf[m] # ScopeOf[k]}
             kept == MakeRoom(ChargedTo(k, now), k, now, LiveFor(k, now))
  <2>1. /\ scopes' = ScopesFor(k, now) \cup {ScopeOf[k]}
        /\ IF Own(k, now) THEN Admit(k, now, left) ELSE Remain(left)
    BY <1>3 DEF Charge, Account
  <2>2. CASE Own(k, now)
    <3>1. Fits(k, LiveFor(k, now)) /\ ChargedTo(k, now) = k
      BY <1>3, <2>2 DEF Charge, HasRoom, ChargedTo
    <3>2. kept = LiveFor(k, now)
      BY <3>1 DEF MakeRoom
    <3>3. k \in live
      BY <1>3, <3>1, <3>2 DEF Charge, Take
    <3>4. members' = left \cup {k}
      BY <2>1, <2>2 DEF Admit
    <3> QED BY <1>1, <2>1, <3>3, <3>4
  <2>3. CASE ~ Own(k, now)
    <3>1. members' = left
      BY <2>1, <2>3 DEF Remain
    <3>2. Cardinality(Rivals(k, now)) # 0
      BY <1>3, <2>3, RateLimitAssumption DEF Own
    <3>3. PICK m \in Rivals(k, now) : TRUE
      BY <3>2, FS_EmptySet
    <3>4. m \in members /\ ScopeOf[m] = ScopeOf[k]
      BY <1>1, <3>3 DEF Rivals
    <3>5. ScopeOf[k] \in scopes
      BY <3>4 DEF TypeOK
    <3> QED BY <1>1, <2>1, <3>1, <3>5
  <2> QED BY <2>2, <2>3
<1> QED BY <1>2, <1>3 DEF Refuse, Charge, Account, Remain

\* A request that gets no new bucket leaves no slot behind for a key without one,
\* and no scope without a slot, whatever was swept for it, if a scope may have
\* any key at all: callers that are refused cannot fill the maps
\* (store/capacity.rs, reserve_admission).
THEOREM RefusalsLeaveNothing == ASSUME MaxDistinct > 0 PROVE Spec => RefusedLeavesNothing
<1>1. TypeOK /\ [Next]_vars => [LeavesNothing]_vars
  <2> SUFFICES ASSUME TypeOK, Next PROVE LeavesNothing
    OBVIOUS
  <2>1. ASSUME NEW c \in Caller, NEW k \in Key, Enter(c, k) PROVE LeavesNothing
    <3>1. call[c] \in Time /\ (Refuse(k, call[c]) \/ Charge(k, call[c]))
      BY <2>1 DEF Enter, TypeOK
    <3> QED BY <3>1, EnterLeaves DEF LeavesNothing
  <2>2. CASE UNCHANGED admissions
    BY <2>2 DEF admissions, LeavesNothing
  <2> QED BY <2>1, <2>2 DEF Next, Read, Tick
<1>2. QED
  BY <1>1, TypeCorrect, PTL DEF Spec, RefusedLeavesNothing

-----------------------------------------------------------------------------
\* No call is older than Lag.
Recent == \A c \in Caller : call[c] # Idle => call[c] <= clock /\ clock <= call[c] + Lag

Base == TypeOK /\ WithinCap /\ Recent

LEMMA BaseInit == Init => Base
  BY InitCap DEF Init, Base, Recent

LEMMA BaseNext == Base /\ [Next]_vars => Base'
<1> SUFFICES ASSUME Base, [Next]_vars PROVE Base'
  OBVIOUS
<1>1. TypeOK' /\ WithinCap'
  BY CapNext DEF Base
<1>2. clock \in Nat /\ Lag \in Nat
  BY RateLimitAssumption DEF Base, TypeOK, Time
<1>3. call \in [Caller -> Nat \cup {Idle}]
  BY RateLimitAssumption DEF Base, TypeOK, Time, Idle
<1>4. ASSUME NEW c \in Caller, Read(c) PROVE Recent'
  <2>1. call' = [call EXCEPT ![c] = clock] /\ clock' = clock
    BY <1>4 DEF Read
  <2> QED BY <1>2, <1>3, <2>1 DEF Base, Recent
<1>5. ASSUME NEW c \in Caller, NEW k \in Key, Enter(c, k) PROVE Recent'
  <2>1. call' = [call EXCEPT ![c] = Idle] /\ clock' = clock
    BY <1>5 DEF Enter
  <2> QED BY <1>3, <2>1 DEF Base, Recent
<1>6. CASE Tick
  <2>1. clock' = clock + 1 /\ call' = call
    BY <1>6 DEF Tick
  <2> QED BY <1>1, <1>2, <1>3, <1>6, <2>1 DEF Base, Recent, Tick, Idle
<1>7. CASE UNCHANGED vars
  BY <1>1, <1>7 DEF vars, Base, Recent
<1> QED BY <1>1, <1>4, <1>5, <1>6, <1>7 DEF Next, Base

\* What of the types the bounds need.
Types ==
  /\ clock \in Nat
  /\ call \in [Caller -> Nat \cup {Idle}]
  /\ live \subseteq Bucket
  /\ \A b \in Bucket : tokens[b] \in Nat
  /\ refilled \in [Bucket -> Nat]
  /\ sweptAt \in Nat \cup {-1}
  /\ slot \in [Key -> Nat]
  /\ spent \in [Bucket -> Nat]
  /\ reordered \in [Bucket -> Nat]

LEMMA BaseTypes == Base => Types
  BY CapacityNat, RateLimitAssumption DEF Base, TypeOK, Types, Time, Idle

\* What bucket b has granted is paid for: by time up to its last refill, with
\* its tokens still to be granted, or by time that any call still counts.
PaidUp(b) ==
  /\ b \in live => /\ refilled[b] <= clock
                   /\ tokens[b] + spent[b] <= Capacity(b) + refilled[b] + reordered[b]
  /\ b \notin live => spent[b] <= reordered[b] + AtLeast(clock - Lag, 0)

Paid == \A b \in Bucket : PaidUp(b)

Inv == Base /\ Types /\ Paid

LEMMA InitInv == Init => Inv
  BY BaseInit, BaseTypes, RateLimitAssumption DEF Init, Inv, Paid, PaidUp, AtLeast

\* A bucket that is dropped is paid up to the oldest call there may be.
LEMMA StalePaid ==
  ASSUME TtlCovers, Inv, NEW k \in Key, NEW now \in Nat, now <= clock, NEW b \in Stale(k, now)
  PROVE  spent[b] + Lag <= reordered[b] + now
<1>1. b \in Bucket /\ b \in live /\ now - refilled[b] >= Ttl(k)
  BY DEF Stale, Inv, Types
<1>2. Ttl(k) >= Capacity(b) + Lag
  BY <1>1 DEF TtlCovers
<1>3. tokens[b] + spent[b] <= Capacity(b) + refilled[b] + reordered[b]
  BY <1>1 DEF Inv, Paid, PaidUp
<1>4. /\ tokens[b] \in Nat /\ spent[b] \in Nat /\ refilled[b] \in Nat /\ reordered[b] \in Nat
      /\ Capacity(b) \in Nat /\ Lag \in Nat /\ Ttl(k) \in Nat
  BY <1>1, CapacityNat, TtlNat, RateLimitAssumption DEF Inv, Types
<1> QED BY <1>1, <1>2, <1>3, <1>4

\* Taking a token keeps a bucket paid.
LEMMA TakePays ==
  ASSUME TtlCovers, Inv, NEW k \in Key, NEW now \in Nat, now <= clock, clock <= now + Lag,
         NEW b \in Bucket, NEW kept \in SUBSET live, live \ kept \subseteq Stale(k, now),
         Take(b, kept, now), clock' = clock
  PROVE  Paid'
<1> DEFINE n == Level(b, kept, now)
           taken == IF n >= Period[b] THEN Period[b] ELSE 0
           back == IF b \in kept THEN AtLeast(refilled[b] - now, 0) ELSE 0
<1>0. /\ live' = kept \cup {b}
      /\ tokens' = [x \in Bucket |-> IF x = b THEN n - taken
                                     ELSE IF x \in kept THEN tokens[x] ELSE Capacity(x)]
      /\ refilled' = [x \in Bucket |-> IF x = b THEN now
                                       ELSE IF x \in kept THEN refilled[x] ELSE 0]
      /\ spent' = [spent EXCEPT ![b] = spent[b] + taken]
      /\ reordered' = [reordered EXCEPT ![b] = reordered[b] + back]
  BY DEF Take
<1>1. /\ Capacity(b) \in Nat /\ Period[b] \in Nat \ {0} /\ Lag \in Nat
      /\ tokens[b] \in Nat /\ refilled[b] \in Nat /\ spent[b] \in Nat /\ reordered[b] \in Nat
      /\ clock \in Nat
  BY CapacityNat, RateLimitAssumption DEF Inv, Types
<1>2. n \in Nat /\ back \in Nat
  BY <1>1 DEF Level, AtMost, AtLeast
<1>3. taken \in Nat /\ taken <= n
  BY <1>1, <1>2
<1>4. n + spent[b] <= Capacity(b) + now + reordered[b] + back
  <2>1. CASE b \in kept
    <3>1. tokens[b] + spent[b] <= Capacity(b) + refilled[b] + reordered[b]
      BY <2>1 DEF Inv, Paid, PaidUp
    <3>2. n <= tokens[b] + AtLeast(now - refilled[b], 0)
      BY <1>1, <2>1 DEF Level, AtMost, AtLeast
    <3>3. AtLeast(now - refilled[b], 0) + refilled[b] = now + AtLeast(refilled[b] - now, 0)
      BY <1>1 DEF AtLeast
    <3>4. AtLeast(now - refilled[b], 0) \in Nat /\ back = AtLeast(refilled[b] - now, 0)
      BY <1>1, <2>1 DEF AtLeast
    <3> HIDE DEF n, back
    <3> QED BY <1>1, <1>2, <3>1, <3>2, <3>3, <3>4
  <2>2. CASE b \notin kept
    <3>1. n = Capacity(b) /\ back = 0
      BY <2>2 DEF Level
    <3>2. spent[b] <= reordered[b] + now
      <4>1. CASE b \in live
        <5>1. spent[b] + Lag <= reordered[b] + now
          BY <2>2, <4>1, StalePaid
        <5> QED BY <1>1, <5>1
      <4>2. CASE b \notin live
        <5>1. spent[b] <= reordered[b] + AtLeast(clock - Lag, 0)
          BY <4>2 DEF Inv, Paid, PaidUp
        <5> QED BY <1>1, <5>1 DEF AtLeast
      <4> QED BY <4>1, <4>2
    <3> HIDE DEF n, back
    <3> QED BY <1>1, <3>1, <3>2
  <2> QED BY <2>1, <2>2
<1> HIDE DEF n, taken, back
<1>5. PaidUp(b)'
  <2>1. /\ b \in live' /\ tokens'[b] = n - taken /\ refilled'[b] = now
        /\ spent'[b] = spent[b] + taken /\ reordered'[b] = reordered[b] + back
    BY <1>0 DEF Inv, Types
  <2> QED BY <1>1, <1>2, <1>3, <1>4, <2>1 DEF PaidUp, Capacity
<1>6. ASSUME NEW x \in Bucket, x # b PROVE PaidUp(x)'
  <2>1. spent'[x] = spent[x] /\ reordered'[x] = reordered[x]
    BY <1>0, <1>6 DEF Inv, Types
  <2>2. CASE x \in kept
    BY <1>0, <1>6, <2>1, <2>2 DEF PaidUp, Inv, Paid, Capacity
  <2>3. CASE x \notin kept /\ x \in live
    <3>1. spent[x] + Lag <= reordered[x] + now
      BY <2>3, StalePaid
    <3>2. spent[x] \in Nat /\ reordered[x] \in Nat
      BY DEF Inv, Types
    <3> QED BY <1>0, <1>1, <1>6, <2>1, <2>3, <3>1, <3>2 DEF PaidUp, AtLeast
  <2>4. CASE x \notin live
    BY <1>0, <1>6, <2>1, <2>4 DEF PaidUp, Inv, Paid
  <2> QED BY <2>2, <2>3, <2>4
<1> QED BY <1>5, <1>6 DEF Paid

\* Dropping idle buckets keeps every bucket paid.
LEMMA KeepPays ==
  ASSUME TtlCovers, Inv, NEW k \in Key, NEW now \in Nat, now <= clock, clock <= now + Lag,
         NEW kept \in SUBSET live, live \ kept \subseteq Stale(k, now),
         Keep(kept), clock' = clock
  PROVE  Paid'
<1>1. /\ live' = kept
      /\ tokens' = [b \in Bucket |-> IF b \in kept THEN tokens[b] ELSE Capacity(b)]
      /\ refilled' = [b \in Bucket |-> IF b \in kept THEN refilled[b] ELSE 0]
      /\ spent' = spent /\ reordered' = reordered
  BY DEF Keep, ghosts
<1>2. ASSUME NEW x \in Bucket PROVE PaidUp(x)'
  <2>1. CASE x \in kept
    BY <1>1, <2>1 DEF PaidUp, Inv, Paid, Capacity
  <2>2. CASE x \notin kept /\ x \in live
    <3>1. spent[x] + Lag <= reordered[x] + now
      BY <2>2, StalePaid
    <3>2. spent[x] \in Nat /\ reordered[x] \in Nat /\ clock \in Nat /\ Lag \in Nat
      BY RateLimitAssumption DEF Inv, Types
    <3> QED BY <1>1, <2>2, <3>1, <3>2 DEF PaidUp, AtLeast
  <2>3. CASE x \notin live
    BY <1>1, <2>3 DEF PaidUp, Inv, Paid
  <2> QED BY <2>1, <2>2, <2>3
<1> QED BY <1>2 DEF Paid

LEMMA NextInv == ASSUME TtlCovers PROVE Inv /\ [Next]_vars => Inv'
<1> SUFFICES ASSUME Inv, [Next]_vars PROVE Inv'
  OBVIOUS
<1>1. Base' /\ Types'
  BY BaseNext, BaseTypes, PTL DEF Inv
<1>2. clock \in Nat /\ Lag \in Nat
  BY RateLimitAssumption DEF Inv, Types
<1>3. CASE UNCHANGED <<clock, live, tokens, refilled, spent, reordered>>
  BY <1>1, <1>3 DEF Inv, Paid, PaidUp, Capacity
<1>4. ASSUME NEW c \in Caller, NEW k \in Key, Enter(c, k) PROVE Paid'
  <2> DEFINE now == call[c]
  <2>1. now # Idle /\ clock' = clock /\ (Refuse(k, now) \/ Charge(k, now))
    BY <1>4 DEF Enter
  <2>2. now \in Nat /\ now <= clock /\ clock <= now + Lag
    BY <2>1 DEF Inv, Types, Base, Recent
  <2> HIDE DEF now
  <2>3. CASE Refuse(k, now)
    <3>1. Keep(LiveFor(k, now))
      BY <2>3 DEF Refuse
    <3>2. /\ LiveFor(k, now) \in SUBSET live
          /\ live \ LiveFor(k, now) \subseteq Stale(k, now)
      BY <2>2, DroppedIdle DEF Bucket
    <3> QED BY <2>1, <2>2, <3>1, <3>2, KeepPays
  <2>4. CASE Charge(k, now)
    <3> DEFINE b == ChargedTo(k, now)
               kept == MakeRoom(b, k, now, LiveFor(k, now))
    <3>1. Take(b, kept, now) \/ Keep(kept)
      BY <2>4 DEF Charge
    <3>2. b \in Bucket
      BY RateLimitAssumption DEF ChargedTo, Own, Bucket
    <3>3. kept \in SUBSET live /\ live \ kept \subseteq Stale(k, now)
      BY <2>2, <3>2, DroppedIdle
    <3> HIDE DEF b, kept
    <3> QED BY <2>1, <2>2, <3>1, <3>2, <3>3, KeepPays, TakePays
  <2> QED BY <2>1, <2>3, <2>4
<1>5. CASE Tick
  <2>1. clock' = clock + 1 /\ UNCHANGED <<live, tokens, refilled, spent, reordered>>
    BY <1>5 DEF Tick, buckets, ghosts
  <2>2. ASSUME NEW b \in Bucket PROVE PaidUp(b)'
    <3>1. PaidUp(b)
      BY DEF Inv, Paid
    <3>2. spent[b] \in Nat /\ reordered[b] \in Nat /\ refilled[b] \in Nat
      BY DEF Inv, Types
    <3>3. AtLeast(clock - Lag, 0) <= AtLeast(clock + 1 - Lag, 0)
      BY <1>2 DEF AtLeast
    <3>4. AtLeast(clock - Lag, 0) \in Nat /\ AtLeast(clock + 1 - Lag, 0) \in Nat
      BY <1>2 DEF AtLeast
    <3>5. AtLeast(clock' - Lag, 0) = AtLeast(clock + 1 - Lag, 0)
      BY <1>2, <2>1 DEF AtLeast
    <3>6. b \in live' => refilled'[b] <= clock' /\
             tokens'[b] + spent'[b] <= Capacity(b) + refilled'[b] + reordered'[b]
      BY <1>2, <2>1, <3>1, <3>2 DEF PaidUp
    <3>7. b \notin live' => spent'[b] <= reordered'[b] + AtLeast(clock' - Lag, 0)
      BY <2>1, <3>1, <3>2, <3>3, <3>4, <3>5 DEF PaidUp
    <3> QED BY <3>6, <3>7 DEF PaidUp, AtLeast, Capacity
  <2> QED BY <1>1, <2>2 DEF Inv, Paid
<1>6. ASSUME NEW c \in Caller, Read(c) PROVE Inv'
  BY <1>3, <1>6 DEF Read, buckets, ghosts
<1>7. CASE UNCHANGED vars
  BY <1>3, <1>7 DEF vars, buckets, ghosts
<1> QED BY <1>1, <1>4, <1>5, <1>6, <1>7 DEF Next, Inv

LEMMA InvPaced == Inv => Paced
<1> SUFFICES ASSUME Inv, NEW b \in Bucket PROVE spent[b] <= Capacity(b) + clock + reordered[b]
  BY DEF Paced
<1>1. /\ Capacity(b) \in Nat /\ Lag \in Nat /\ clock \in Nat /\ tokens[b] \in Nat
      /\ refilled[b] \in Nat /\ spent[b] \in Nat /\ reordered[b] \in Nat
  BY CapacityNat, RateLimitAssumption DEF Inv, Types
<1>2. PaidUp(b)
  BY DEF Inv, Paid
<1>3. AtLeast(clock - Lag, 0) <= clock /\ AtLeast(clock - Lag, 0) \in Nat
  BY <1>1 DEF AtLeast
<1> QED BY <1>1, <1>2, <1>3 DEF PaidUp

\* If what is idle for the time to live is full (TtlCovers), a bucket never grants
\* more than its burst and the time since the start, with what calls that entered
\* out of order turned its clock back by, whatever the sweeps dropped and requests
\* created again (Buckets::sweep).
THEOREM GrantsArePaced == ASSUME TtlCovers PROVE Spec => []Paced
<1>1. Init => Inv
  BY InitInv
<1>2. Inv /\ [Next]_vars => Inv'
  BY NextInv
<1>3. Inv => Paced
  BY InvPaced
<1> QED BY <1>1, <1>2, <1>3, PTL DEF Spec

-----------------------------------------------------------------------------
\* What a scope has slots for.
Slots(s) == {m \in members : ScopeOf[m] = s}

\* A key with a budget has a slot for as long as its bucket is not idle, and a
\* slot that will not expire before that.
Covered ==
  \A k \in Key : ScopeOf[k] # NoScope /\ k \in live =>
    /\ k \in members => slot[k] >= refilled[k] + Ttl(k)
    /\ k \notin members => clock >= refilled[k] + Ttl(k)

\* A bucket outlives the last sweep by its time to live, and was not charged
\* after the next one was due.
Fresh ==
  /\ sweptAt = -1 => live = {}
  /\ sweptAt <= clock
  /\ \A b \in live : refilled[b] <= clock
  /\ \A b \in live, k \in Key :
       /\ sweptAt < refilled[b] + Ttl(k)
       /\ refilled[b] < sweptAt + SweepInterval \/ refilled[b] <= sweptAt + Lag

\* Buckets charged within a time to live, less what a call may be late.
Near(K) == \A a, b \in K : refilled[a] + Lag < refilled[b] + Ttl(b)

\* No more of them than the budget allows, at whatever time that was.
Windowed ==
  \A s \in Scope : \A K \in SUBSET OwnBuckets(s) : Near(K) => Cardinality(K) <= MaxDistinct

BudgetInv ==
  /\ Base /\ Types
  /\ members \subseteq Key
  /\ Covered
  /\ \A s \in Scope : Cardinality(Slots(s)) <= MaxDistinct
  /\ Fresh
  /\ Windowed

LEMMA BudgetInit == Init => BudgetInv
<1> SUFFICES ASSUME Init PROVE BudgetInv
  OBVIOUS
<1>1. \A s \in Scope : Slots(s) = {} /\ OwnBuckets(s) = {}
  BY DEF Init, Slots, OwnBuckets
<1>2. \A s \in Scope : Cardinality(Slots(s)) <= MaxDistinct
  BY <1>1, FS_EmptySet, RateLimitAssumption
<1>3. Windowed
  <2> SUFFICES ASSUME NEW s \in Scope, NEW K \in SUBSET OwnBuckets(s)
               PROVE  Cardinality(K) <= MaxDistinct
    BY DEF Windowed
  <2>1. K = {}
    BY <1>1
  <2>2. Cardinality(K) = 0
    BY <2>1, FS_EmptySet
  <2> QED BY <2>2, RateLimitAssumption
<1>4. Covered /\ Fresh
  BY DEF Init, Covered, Fresh
<1> QED BY <1>2, <1>3, <1>4, BaseInit, BaseTypes DEF Init, BudgetInv

\* A scope with fewer slots is within its budget too.
LEMMA FewerSlots ==
  ASSUME NEW M \in SUBSET Key, NEW N \in SUBSET M, Cardinality(M) <= MaxDistinct
  PROVE  Cardinality(N) <= MaxDistinct
<1>1. IsFiniteSet(M)
  BY FS_Subset, RateLimitAssumption
<1>2. IsFiniteSet(N) /\ Cardinality(N) <= Cardinality(M)
  BY <1>1, FS_Subset
<1>3. Cardinality(M) \in Nat /\ Cardinality(N) \in Nat
  BY <1>1, <1>2, FS_CardinalityType
<1> QED BY <1>2, <1>3, RateLimitAssumption

\* Accounting for a request keeps every scope within its budget, renews the
\* slot of a key charged to its own bucket, and drops only slots that aged out.
LEMMA AccountKeeps ==
  ASSUME BudgetInv, NEW k \in Key, NEW now \in Nat, Account(k, now)
  PROVE  /\ members' \subseteq Key
         /\ \A s \in Scope : Cardinality(Slots(s)') <= MaxDistinct
         /\ ScopeOf[k] # NoScope /\ Own(k, now) =>
              k \in members' /\ slot'[k] = now + ScopeTtl(k)
         /\ \A m \in Key : m \in members' =>
              \/ slot'[m] = slot[m] /\ m \in members
              \/ m = k /\ Own(k, now) /\ slot'[m] = now + ScopeTtl(k)
         /\ \A m \in Key : m \in members \ members' => slot[m] <= now
<1> DEFINE left == {m \in MembersFor(k, now) : m \in Aged(now) => ScopeOf[m] # ScopeOf[k]}
<1>0. ScopeTtl(k) \in Nat
  BY TtlNat, RateLimitAssumption DEF ScopeTtl, AtLeast
<1>1. MembersFor(k, now) \subseteq members /\ members \ MembersFor(k, now) \subseteq Aged(now)
  BY DEF MembersFor
<1>2. left \subseteq members /\ members \ left \subseteq Aged(now)
  BY <1>1
<1>3. \A m \in Aged(now) : slot[m] <= now
  BY DEF Aged
<1>4. ASSUME NEW M \in SUBSET members, members \ M \subseteq Aged(now), Remain(M)
      PROVE  /\ members' \subseteq Key
             /\ \A s \in Scope : Cardinality(Slots(s)') <= MaxDistinct
             /\ \A m \in Key : m \in members' => slot'[m] = slot[m] /\ m \in members
             /\ \A m \in Key : m \in members \ members' => slot[m] <= now
  <2>1. members' = M /\ slot' = [m \in Key |-> IF m \in M THEN slot[m] ELSE 0]
    BY <1>4 DEF Remain
  <2>2. ASSUME NEW s \in Scope PROVE Cardinality(Slots(s)') <= MaxDistinct
    <3>1. Slots(s)' \subseteq Slots(s) /\ Slots(s) \subseteq Key
      BY <2>1 DEF Slots, BudgetInv
    <3>2. Cardinality(Slots(s)) <= MaxDistinct
      BY DEF BudgetInv
    <3> QED BY <3>1, <3>2, FewerSlots
  <2>3. members' \subseteq Key
    BY <2>1 DEF BudgetInv
  <2>4. \A m \in Key : m \in members' => slot'[m] = slot[m] /\ m \in members
    BY <2>1
  <2>5. \A m \in Key : m \in members \ members' => slot[m] <= now
    BY <1>3, <1>4, <2>1
  <2> QED BY <2>2, <2>3, <2>4, <2>5
<1>5. CASE ScopeOf[k] = NoScope
  <2>1. Remain(MembersFor(k, now))
    BY <1>5 DEF Account
  <2>2. /\ members' \subseteq Key
        /\ \A s \in Scope : Cardinality(Slots(s)') <= MaxDistinct
        /\ \A m \in Key : m \in members' => slot'[m] = slot[m] /\ m \in members
        /\ \A m \in Key : m \in members \ members' => slot[m] <= now
    BY <1>1, <1>4, <2>1, Zenon
  <2> HIDE DEF left
  <2> QED BY <1>5, <2>2, Zenon
<1>6. CASE ScopeOf[k] # NoScope /\ ~ Own(k, now)
  <2>1. Remain(left)
    BY <1>6 DEF Account
  <2> HIDE DEF left
  <2>2. /\ members' \subseteq Key
        /\ \A s \in Scope : Cardinality(Slots(s)') <= MaxDistinct
        /\ \A m \in Key : m \in members' => slot'[m] = slot[m] /\ m \in members
        /\ \A m \in Key : m \in members \ members' => slot[m] <= now
    BY <1>2, <1>4, <2>1, Zenon
  <2> QED BY <1>6, <2>2, Zenon
<1>7. CASE ScopeOf[k] # NoScope /\ Own(k, now)
  <2>1. Admit(k, now, left)
    BY <1>7 DEF Account
  <2>2. /\ members' = left \cup {k}
        /\ slot' = [m \in Key |-> IF m = k THEN now + ScopeTtl(k)
                                  ELSE IF m \in left THEN slot[m] ELSE 0]
    BY <2>1 DEF Admit
  <2>3. Rivals(k, now) = {m \in left : ScopeOf[m] = ScopeOf[k]}
    BY DEF Rivals
  <2>4. k \in Rivals(k, now) \/ Cardinality(Rivals(k, now)) < MaxDistinct
    BY <1>7 DEF Own
  <2>5. ASSUME NEW s \in Scope PROVE Cardinality(Slots(s)') <= MaxDistinct
    <3>1. Slots(s) \subseteq Key /\ Cardinality(Slots(s)) <= MaxDistinct
      BY DEF BudgetInv, Slots
    <3>2. CASE s # ScopeOf[k] \/ k \in Rivals(k, now)
      <4>1. Slots(s)' \subseteq Slots(s)
        <5>1. k \in Rivals(k, now) => k \in left
          BY <2>3
        <5> HIDE DEF left
        <5> QED BY <1>2, <2>2, <3>2, <5>1 DEF Slots
      <4> QED BY <3>1, <4>1, FewerSlots
    <3>3. CASE s = ScopeOf[k] /\ k \notin Rivals(k, now)
      <4> HIDE DEF left
      <4>1. Slots(s)' = Rivals(k, now) \cup {k}
        BY <2>2, <2>3, <3>3 DEF Slots
      <4>2. IsFiniteSet(Rivals(k, now))
        <5>1. Rivals(k, now) \subseteq Key
          BY <1>2, <2>3 DEF BudgetInv
        <5> QED BY <5>1, FS_Subset, RateLimitAssumption
      <4>3. Cardinality(Rivals(k, now) \cup {k}) = Cardinality(Rivals(k, now)) + 1
        BY <3>3, <4>2, FS_AddElement
      <4>4. Cardinality(Rivals(k, now)) \in Nat
        BY <4>2, FS_CardinalityType
      <4> QED BY <2>4, <3>3, <4>1, <4>3, <4>4, RateLimitAssumption
    <3> QED BY <3>2, <3>3
  <2> HIDE DEF left
  <2>6. members' \subseteq Key
    BY <1>0, <1>2, <2>2 DEF BudgetInv
  <2>7. k \in members' /\ slot'[k] = now + ScopeTtl(k)
    BY <2>2
  <2>8. \A m \in Key : m \in members' =>
          \/ slot'[m] = slot[m] /\ m \in members
          \/ m = k /\ Own(k, now) /\ slot'[m] = now + ScopeTtl(k)
    <3>1. ASSUME NEW m \in Key, m \in members', m # k
          PROVE  slot'[m] = slot[m] /\ m \in members
      <4>1. m \in left
        BY <2>2, <3>1
      <4> QED BY <1>2, <2>2, <3>1, <4>1
    <3> QED BY <1>7, <2>7, <3>1
  <2>9. \A m \in Key : m \in members \ members' => slot[m] <= now
    BY <1>2, <1>3, <2>2
  <2> QED BY <2>5, <2>6, <2>7, <2>8, <2>9
<1> QED BY <1>5, <1>6, <1>7

\* What entering must establish of the budgets.
BudgetKept ==
  /\ members' \subseteq Key
  /\ Covered'
  /\ \A s \in Scope : Cardinality(Slots(s)') <= MaxDistinct

\* A bucket that stays as it was, with a slot that was kept or had aged out,
\* stays covered.
LEMMA StaysCovered ==
  ASSUME BudgetInv, NEW m \in Key, NEW now \in Nat, now <= clock, clock' = clock,
         ScopeOf[m] # NoScope, m \in live, refilled'[m] = refilled[m],
         m \in members' => m \in members /\ slot'[m] = slot[m],
         m \in members \ members' => slot[m] <= now
  PROVE  /\ m \in members' => slot'[m] >= refilled'[m] + Ttl(m)
         /\ m \notin members' => clock' >= refilled'[m] + Ttl(m)
<1>1. /\ clock \in Nat /\ refilled[m] \in Nat /\ slot[m] \in Nat /\ Ttl(m) \in Nat
  BY TtlNat DEF BudgetInv, Types, Bucket
<1>2. /\ m \in members => slot[m] >= refilled[m] + Ttl(m)
      /\ m \notin members => clock >= refilled[m] + Ttl(m)
  BY DEF BudgetInv, Covered
<1> QED BY <1>1, <1>2

LEMMA RefuseKeeps ==
  ASSUME BudgetInv, NEW k \in Key, NEW now \in Nat, now <= clock, clock' = clock,
         Refuse(k, now)
  PROVE  BudgetKept
<1>1. /\ Keep(LiveFor(k, now)) /\ Remain(MembersFor(k, now))
  BY DEF Refuse
<1>2. MembersFor(k, now) \subseteq members /\ members \ MembersFor(k, now) \subseteq Aged(now)
  BY DEF MembersFor
<1>3. /\ members' = MembersFor(k, now)
      /\ slot' = [m \in Key |-> IF m \in MembersFor(k, now) THEN slot[m] ELSE 0]
  BY <1>1 DEF Remain
<1>4. members' \subseteq Key
  BY <1>2, <1>3 DEF BudgetInv
<1>5. ASSUME NEW s \in Scope PROVE Cardinality(Slots(s)') <= MaxDistinct
  <2>1. Slots(s)' \subseteq Slots(s) /\ Slots(s) \subseteq Key
    BY <1>2, <1>3 DEF Slots, BudgetInv
  <2>2. Cardinality(Slots(s)) <= MaxDistinct
    BY DEF BudgetInv
  <2> QED BY <2>1, <2>2, FewerSlots
<1>6. Covered'
  <2> SUFFICES ASSUME NEW m \in Key, ScopeOf[m] # NoScope, m \in live'
               PROVE  /\ m \in members' => slot'[m] >= refilled'[m] + Ttl(m)
                      /\ m \notin members' => clock' >= refilled'[m] + Ttl(m)
    BY DEF Covered, Ttl, AtMost, Capacity
  <2>1. m \in LiveFor(k, now) /\ refilled'[m] = refilled[m]
    BY <1>1 DEF Keep, Bucket
  <2>2. m \in live
    BY <2>1, DroppedIdle DEF Bucket
  <2>3. m \in members' => m \in members /\ slot'[m] = slot[m]
    BY <1>2, <1>3
  <2>4. m \in members \ members' => slot[m] <= now
    BY <1>2, <1>3 DEF Aged
  <2> QED BY <2>1, <2>2, <2>3, <2>4, StaysCovered
<1> QED BY <1>4, <1>5, <1>6 DEF BudgetKept

LEMMA ChargeKeeps ==
  ASSUME BudgetInv, NEW k \in Key, NEW now \in Nat, now <= clock, clock' = clock,
         Charge(k, now)
  PROVE  BudgetKept
<1> DEFINE b == ChargedTo(k, now)
           kept == MakeRoom(b, k, now, LiveFor(k, now))
<1>1. /\ Account(k, now)
      /\ Take(b, kept, now) \/ (Keep(kept) /\ b \notin kept)
  BY DEF Charge, Fits
<1>2. /\ b \in Bucket
      /\ b \in Key /\ ScopeOf[b] # NoScope => b = k /\ Own(k, now)
      /\ Own(k, now) => b = k
  BY RateLimitAssumption DEF ChargedTo, Own, Bucket
<1>3. kept \in SUBSET live
  BY <1>2, DroppedIdle
<1>4. /\ members' \subseteq Key
      /\ \A s \in Scope : Cardinality(Slots(s)') <= MaxDistinct
      /\ ScopeOf[k] # NoScope /\ Own(k, now) =>
           k \in members' /\ slot'[k] = now + ScopeTtl(k)
      /\ \A m \in Key : m \in members' =>
           \/ slot'[m] = slot[m] /\ m \in members
           \/ m = k /\ Own(k, now) /\ slot'[m] = now + ScopeTtl(k)
      /\ \A m \in Key : m \in members \ members' => slot[m] <= now
  BY <1>1, AccountKeeps
<1> HIDE DEF b, kept
<1>5. \A x \in Bucket : x \in live' =>
        \/ x # b /\ x \in kept /\ refilled'[x] = refilled[x]
        \/ x = b /\ refilled'[x] = now
  BY <1>1 DEF Keep, Take
<1>6. ScopeTtl(k) >= Ttl(k) /\ Ttl(k) \in Nat /\ ScopeTtl(k) \in Nat
  BY TtlNat, RateLimitAssumption DEF ScopeTtl, AtLeast
<1>7. Covered'
  <2> SUFFICES ASSUME NEW m \in Key, ScopeOf[m] # NoScope, m \in live'
               PROVE  /\ m \in members' => slot'[m] >= refilled'[m] + Ttl(m)
                      /\ m \notin members' => clock' >= refilled'[m] + Ttl(m)
    BY DEF Covered, Ttl, AtMost, Capacity
  <2>1. CASE m = b /\ refilled'[m] = now
    <3>1. m = k /\ m \in members' /\ slot'[m] = now + ScopeTtl(m)
      BY <1>2, <1>4, <2>1
    <3> QED BY <1>6, <2>1, <3>1
  <2>2. CASE m # b /\ m \in kept /\ refilled'[m] = refilled[m]
    <3>1. m \in members' => m \in members /\ slot'[m] = slot[m]
      BY <1>2, <1>4, <2>2
    <3>2. m \in members \ members' => slot[m] <= now
      BY <1>4
    <3>3. m \in live
      BY <1>3, <2>2
    <3> QED BY <2>2, <3>1, <3>2, <3>3, StaysCovered
  <2>3. m \in Bucket
    BY DEF Bucket
  <2> QED BY <1>5, <2>1, <2>2, <2>3
<1> QED BY <1>4, <1>7 DEF BudgetKept

\* Fewer buckets, charged when they were, are windowed too.
LEMMA FewerWindowed ==
  ASSUME Windowed, NEW s \in Scope, NEW K \in SUBSET OwnBuckets(s),
         \A a \in K : refilled'[a] = refilled[a], Near(K)'
  PROVE  Cardinality(K) <= MaxDistinct
<1>1. Near(K)
  BY DEF Near, Ttl, AtMost, Capacity
<1> QED BY <1>1 DEF Windowed

LEMMA RefuseWindowed ==
  ASSUME BudgetInv, NEW k \in Key, NEW now \in Nat, Refuse(k, now)
  PROVE  Windowed'
<1> SUFFICES ASSUME NEW s \in Scope, NEW K \in SUBSET OwnBuckets(s)', Near(K)'
             PROVE  Cardinality(K) <= MaxDistinct
  BY DEF Windowed
<1>1. Keep(LiveFor(k, now)) /\ LiveFor(k, now) \subseteq live
  BY DroppedIdle DEF Refuse, Bucket
<1>2. K \subseteq OwnBuckets(s) /\ \A a \in K : refilled'[a] = refilled[a]
  BY <1>1 DEF OwnBuckets, Keep, Bucket
<1> QED BY <1>2, FewerWindowed DEF BudgetInv

\* A key that was given its own bucket counted as rivals all that were charged
\* within a time to live of it.
LEMMA ChargeWindowed ==
  ASSUME BudgetInv, SweptInTime, NEW k \in Key, NEW now \in Nat, now <= clock,
         clock <= now + Lag, Charge(k, now)
  PROVE  Windowed'
<1> DEFINE b == ChargedTo(k, now)
           kept == MakeRoom(b, k, now, LiveFor(k, now))
<1> SUFFICES ASSUME NEW s \in Scope, NEW K \in SUBSET OwnBuckets(s)', Near(K)'
             PROVE  Cardinality(K) <= MaxDistinct
  BY DEF Windowed
<1>1. Take(b, kept, now) \/ Keep(kept)
  BY DEF Charge
<1>2. b \in Bucket /\ (b \in Key /\ ScopeOf[b] # NoScope => b = k /\ Own(k, now))
  BY RateLimitAssumption DEF ChargedTo, Own, Bucket
<1>3. kept \in SUBSET live
  BY <1>2, DroppedIdle
<1> HIDE DEF b, kept
<1>4. \A x \in Bucket : x \in live' =>
        \/ x \in kept /\ refilled'[x] = refilled[x]
        \/ x = b /\ refilled'[x] = now
  BY <1>1 DEF Keep, Take
<1>5. \A a \in K : a \in Key /\ a \in Bucket /\ a \in live' /\ ScopeOf[a] = s /\ s # NoScope
  BY RateLimitAssumption DEF OwnBuckets, Bucket
<1>6. CASE \A a \in K : a \in kept /\ refilled'[a] = refilled[a]
  <2>1. K \subseteq OwnBuckets(s)
    BY <1>3, <1>5, <1>6 DEF OwnBuckets
  <2> QED BY <1>6, <2>1, FewerWindowed DEF BudgetInv
<1>7. ASSUME NEW x \in K, ~ (x \in kept /\ refilled'[x] = refilled[x])
      PROVE  Cardinality(K) <= MaxDistinct
  <2>1. x = k /\ b = k /\ Own(k, now) /\ refilled'[k] = now /\ ScopeOf[k] = s
    BY <1>2, <1>4, <1>5, <1>7
  <2>2. ASSUME NEW a \in K, a # k PROVE a \in Rivals(k, now)
    <3>1. a \in kept /\ refilled'[a] = refilled[a] /\ a \in live
      BY <1>3, <1>4, <1>5, <2>1, <2>2
    <3>2. refilled'[k] + Lag < refilled'[a] + Ttl(a)
      BY <1>7, <2>1 DEF Near, Ttl, AtMost, Capacity
    <3>3. /\ clock \in Nat /\ refilled[a] \in Nat /\ slot[a] \in Nat /\ Ttl(a) \in Nat
          /\ Lag \in Nat
      BY <1>5, TtlNat, RateLimitAssumption DEF BudgetInv, Types
    <3>4. /\ a \in members => slot[a] >= refilled[a] + Ttl(a)
          /\ a \notin members => clock >= refilled[a] + Ttl(a)
      BY <1>5, <3>1 DEF BudgetInv, Covered
    <3>5. a \in members /\ slot[a] > now
      BY <2>1, <3>1, <3>2, <3>3, <3>4
    <3>6. a \notin Aged(now) /\ a \in MembersFor(k, now)
      BY <3>3, <3>5 DEF Aged, MembersFor
    <3> QED BY <1>5, <2>1, <3>6 DEF Rivals
  <2>3. Rivals(k, now) \subseteq Slots(s) /\ Slots(s) \subseteq Key
    BY <2>1 DEF Rivals, Slots, MembersFor, BudgetInv
  <2>4. Cardinality(Slots(s)) <= MaxDistinct
    BY DEF BudgetInv
  <2>5. CASE k \in Rivals(k, now)
    <3>1. K \subseteq Slots(s)
      BY <2>2, <2>3, <2>5
    <3> QED BY <2>3, <2>4, <3>1, FewerSlots
  <2>6. CASE k \notin Rivals(k, now)
    <3>1. Cardinality(Rivals(k, now)) < MaxDistinct
      BY <2>1, <2>6, <1>5 DEF Own
    <3>2. IsFiniteSet(Rivals(k, now))
      BY <2>3, FS_Subset, RateLimitAssumption
    <3>3. /\ Cardinality(Rivals(k, now) \cup {k}) = Cardinality(Rivals(k, now)) + 1
          /\ Cardinality(Rivals(k, now)) \in Nat
      BY <2>6, <3>2, FS_AddElement, FS_CardinalityType
    <3>4. Cardinality(Rivals(k, now) \cup {k}) <= MaxDistinct
      BY <3>1, <3>3, RateLimitAssumption
    <3>5. K \subseteq Rivals(k, now) \cup {k} /\ Rivals(k, now) \cup {k} \subseteq Key
      BY <2>2, <2>3
    <3> QED BY <3>4, <3>5, FewerSlots
  <2> QED BY <2>5, <2>6
<1> QED BY <1>6, <1>7

\* A sweep leaves only buckets that outlive it, and a request that does not sweep
\* came before a sweep was due.
LEMMA FreshKept ==
  ASSUME SweptInTime, Types, Fresh, NEW k \in Key, NEW now \in Nat, now <= clock,
         clock <= now + Lag, clock' = clock, NEW kept \in SUBSET live, live' \subseteq Bucket,
         NEW swept \in BOOLEAN,
         sweptAt' = IF sweptAt = -1 \/ swept THEN now ELSE sweptAt,
         ~ swept => ~ SweepDue(now),
         swept => kept \cap Stale(k, now) = {},
         \A x \in live' : \/ x \in kept /\ refilled'[x] = refilled[x]
                          \/ refilled'[x] = now
  PROVE  Fresh'
<1>1. /\ clock \in Nat /\ Lag \in Nat /\ SweepInterval \in Nat /\ sweptAt \in Nat \cup {-1}
      /\ refilled \in [Bucket -> Nat] /\ live \subseteq Bucket
  BY RateLimitAssumption DEF Types
<1>2. \A j \in Key : /\ Ttl(j) \in Nat /\ Ttl(j) = Ttl(k) /\ Ttl(j) > 0 /\ Lag < Ttl(j)
  BY <1>1, TtlNat DEF SweptInTime
<1>3. \A x \in kept, j \in Key :
        /\ x \in Bucket /\ refilled[x] \in Nat /\ refilled[x] <= clock
        /\ sweptAt < refilled[x] + Ttl(j)
        /\ refilled[x] < sweptAt + SweepInterval \/ refilled[x] <= sweptAt + Lag
  BY <1>1 DEF Fresh
<1>4. sweptAt <= clock /\ (sweptAt = -1 => live = {})
  BY DEF Fresh
<1>5. sweptAt' # -1 /\ sweptAt' <= clock'
  BY <1>1, <1>4
<1>6. ASSUME NEW x \in live', NEW j \in Key
      PROVE  /\ refilled'[x] <= clock' /\ sweptAt' < refilled'[x] + Ttl(j)
             /\ refilled'[x] < sweptAt' + SweepInterval \/ refilled'[x] <= sweptAt' + Lag
  <2>1. CASE sweptAt = -1 \/ swept
    <3>1. sweptAt' = now
      BY <2>1
    <3>2. CASE refilled'[x] = now
      BY <1>1, <1>2, <3>1, <3>2
    <3>3. CASE x \in kept /\ refilled'[x] = refilled[x]
      <4>1. x \in live /\ x \notin Stale(k, now)
        BY <1>4, <2>1, <3>3
      <4>2. refilled[x] + Ttl(j) > now
        BY <1>1, <1>2, <1>3, <3>3, <4>1 DEF Stale
      <4> QED BY <1>1, <1>2, <1>3, <3>1, <3>3, <4>2
    <3> QED BY <3>2, <3>3
  <2>2. CASE sweptAt # -1 /\ ~ swept
    <3>1. sweptAt' = sweptAt /\ now < sweptAt + SweepInterval
      BY <1>1, <2>2 DEF SweepDue
    <3>2. CASE refilled'[x] = now
      BY <1>1, <1>2, <1>4, <3>1, <3>2
    <3>3. CASE x \in kept /\ refilled'[x] = refilled[x]
      BY <1>1, <1>3, <3>1, <3>3
    <3> QED BY <3>2, <3>3
  <2> QED BY <2>1, <2>2
<1>7. \A x \in live' : refilled'[x] <= clock'
  BY <1>6
<1>8. \A x \in live', j \in Key :
        /\ sweptAt' < refilled'[x] + Ttl(j)
        /\ refilled'[x] < sweptAt' + SweepInterval \/ refilled'[x] <= sweptAt' + Lag
  BY <1>6
<1> QED BY <1>5, <1>7, <1>8 DEF Fresh, Ttl, AtMost, Capacity

LEMMA RefuseFresh ==
  ASSUME SweptInTime, BudgetInv, NEW k \in Key, NEW now \in Nat, now <= clock,
         clock <= now + Lag, clock' = clock, live' \subseteq Bucket, Refuse(k, now)
  PROVE  Fresh'
<1> DEFINE kept == LiveFor(k, now)
           swept == SweepDue(now) \/ ForcedFor(k, now)
<1>1. Keep(kept) /\ Swept(now, ForcedFor(k, now))
  BY DEF Refuse
<1>2. kept \in SUBSET live
  BY DroppedIdle DEF Bucket
<1>3. swept => kept \cap Stale(k, now) = {}
  BY DEF LiveFor, MakeRoom, DueSweep, ForcedFor
<1>4. sweptAt' = IF sweptAt = -1 \/ swept THEN now ELSE sweptAt
  BY <1>1 DEF Swept
<1>5. \A x \in live' : x \in kept /\ refilled'[x] = refilled[x]
  BY <1>1 DEF Keep
<1>6. swept \in BOOLEAN /\ (~ swept => ~ SweepDue(now))
  BY DEF SweepDue, ForcedFor
<1> HIDE DEF kept, swept
<1> QED BY <1>2, <1>3, <1>4, <1>5, <1>6, FreshKept DEF BudgetInv

LEMMA ChargeFresh ==
  ASSUME SweptInTime, BudgetInv, NEW k \in Key, NEW now \in Nat, now <= clock,
         clock <= now + Lag, clock' = clock, live' \subseteq Bucket, Charge(k, now)
  PROVE  Fresh'
<1> DEFINE b == ChargedTo(k, now)
           kept == MakeRoom(b, k, now, LiveFor(k, now))
           forced == ForcedFor(k, now) \/ ~ Fits(b, LiveFor(k, now))
           swept == SweepDue(now) \/ forced
<1>1. (Take(b, kept, now) \/ Keep(kept)) /\ Swept(now, forced)
  BY DEF Charge
<1>2. b \in Bucket
  BY RateLimitAssumption DEF ChargedTo, Own, Bucket
<1>3. kept \in SUBSET live
  BY <1>2, DroppedIdle
<1>4. swept => kept \cap Stale(k, now) = {}
  <2>1. kept \subseteq LiveFor(k, now)
    BY DEF MakeRoom
  <2>2. SweepDue(now) \/ ForcedFor(k, now) => LiveFor(k, now) \cap Stale(k, now) = {}
    BY DEF LiveFor, MakeRoom, DueSweep, ForcedFor
  <2>3. ~ Fits(b, LiveFor(k, now)) => kept \cap Stale(k, now) = {}
    BY DEF MakeRoom
  <2> QED BY <2>1, <2>2, <2>3
<1>5. sweptAt' = IF sweptAt = -1 \/ swept THEN now ELSE sweptAt
  BY <1>1 DEF Swept
<1>6. \A x \in Bucket : x \in live' =>
        \/ x \in kept /\ refilled'[x] = refilled[x]
        \/ refilled'[x] = now
  BY <1>1 DEF Keep, Take
<1>7. swept \in BOOLEAN /\ (~ swept => ~ SweepDue(now))
  BY DEF SweepDue, ForcedFor, Fits
<1> HIDE DEF b, kept, forced, swept
<1> QED BY <1>3, <1>4, <1>5, <1>6, <1>7, FreshKept DEF BudgetInv

LEMMA BudgetNext == ASSUME SweptInTime PROVE BudgetInv /\ [Next]_vars => BudgetInv'
<1> SUFFICES ASSUME BudgetInv, [Next]_vars PROVE BudgetInv'
  OBVIOUS
<1>0. Base' /\ Types'
  BY BaseNext, BaseTypes, PTL DEF BudgetInv
<1>1. CASE UNCHANGED <<live, refilled, sweptAt, members, slot>> /\ clock <= clock'
  <2>1. \A s \in Scope : Slots(s)' = Slots(s) /\ OwnBuckets(s)' = OwnBuckets(s)
    BY <1>1 DEF Slots, OwnBuckets
  <2>2. \A s \in Scope : Cardinality(Slots(s)') <= MaxDistinct
    BY <2>1 DEF BudgetInv
  <2>3. clock \in Nat /\ clock' \in Nat
    BY <1>0 DEF BudgetInv, Types
  <2>4. Covered'
    <3> SUFFICES ASSUME NEW m \in Key, ScopeOf[m] # NoScope, m \in live,
                        m \notin members
                 PROVE  clock' >= refilled[m] + Ttl(m)
      BY <1>1 DEF BudgetInv, Covered, Ttl, AtMost, Capacity
    <3>1. clock >= refilled[m] + Ttl(m)
      BY DEF BudgetInv, Covered
    <3>2. refilled[m] \in Nat /\ Ttl(m) \in Nat
      BY TtlNat DEF BudgetInv, Types, Bucket
    <3> QED BY <1>1, <2>3, <3>1, <3>2
  <2>5. Fresh'
    <3>1. sweptAt \in Nat \cup {-1} /\ sweptAt <= clock
      BY DEF BudgetInv, Types, Fresh
    <3>2. \A x \in live : refilled[x] \in Nat /\ refilled[x] <= clock
      BY DEF BudgetInv, Types, Fresh
    <3>3. sweptAt' <= clock' /\ \A x \in live' : refilled'[x] <= clock'
      BY <1>1, <2>3, <3>1, <3>2
    <3> QED BY <1>1, <3>3 DEF BudgetInv, Fresh, Ttl, AtMost, Capacity
  <2>6. Windowed'
    BY <1>1, <2>1 DEF BudgetInv, Windowed, Near, Ttl, AtMost, Capacity
  <2> QED BY <1>0, <1>1, <2>2, <2>4, <2>5, <2>6 DEF BudgetInv
<1>2. ASSUME NEW c \in Caller, NEW k \in Key, Enter(c, k) PROVE BudgetInv'
  <2> DEFINE now == call[c]
  <2>1. now # Idle /\ clock' = clock /\ (Refuse(k, now) \/ Charge(k, now))
    BY <1>2 DEF Enter
  <2>2. now \in Nat /\ now <= clock /\ clock <= now + Lag
    BY <2>1 DEF BudgetInv, Types, Base, Recent
  <2>3. live' \subseteq Bucket
    BY <1>0 DEF Types
  <2> HIDE DEF now
  <2>4. Refuse(k, now) => BudgetKept /\ Fresh' /\ Windowed'
    BY <2>1, <2>2, <2>3, RefuseKeeps, RefuseFresh, RefuseWindowed
  <2>5. Charge(k, now) => BudgetKept /\ Fresh' /\ Windowed'
    BY <2>1, <2>2, <2>3, ChargeKeeps, ChargeFresh, ChargeWindowed
  <2>6. BudgetKept /\ Fresh' /\ Windowed'
    BY <2>1, <2>4, <2>5
  <2> QED BY <1>0, <2>6 DEF BudgetInv, BudgetKept
<1>3. ASSUME NEW c \in Caller, Read(c) PROVE BudgetInv'
  <2>1. UNCHANGED <<live, refilled, sweptAt, members, slot, clock>>
    BY <1>3 DEF Read, buckets, admissions
  <2> QED BY <1>0, <1>1, <2>1 DEF Types
<1>4. CASE Tick
  <2>1. UNCHANGED <<live, refilled, sweptAt, members, slot>> /\ clock' = clock + 1
    BY <1>4 DEF Tick, buckets, admissions
  <2> QED BY <1>1, <2>1 DEF BudgetInv, Types
<1>5. CASE UNCHANGED vars
  <2>1. UNCHANGED <<live, refilled, sweptAt, members, slot, clock>>
    BY <1>5 DEF vars, buckets, admissions
  <2> QED BY <1>0, <1>1, <2>1 DEF Types
<1> QED BY <1>2, <1>3, <1>4, <1>5 DEF Next

LEMMA BudgetInvWithin == ASSUME SweptInTime PROVE BudgetInv => WithinBudget
<1> SUFFICES ASSUME BudgetInv, NEW s \in Scope
    PROVE Cardinality(OwnBuckets(s)) <= 2 * MaxDistinct
  BY DEF WithinBudget
<1> DEFINE Before == {a \in OwnBuckets(s) : refilled[a] + Lag <= sweptAt}
           Since == {a \in OwnBuckets(s) : refilled[a] + Lag > sweptAt}
<1>1. /\ clock \in Nat /\ Lag \in Nat /\ SweepInterval \in Nat /\ sweptAt \in Nat \cup {-1}
      /\ MaxDistinct \in Nat
  BY RateLimitAssumption DEF BudgetInv, Types
<1>2. \A a \in OwnBuckets(s) :
        /\ a \in Key /\ refilled[a] \in Nat /\ Ttl(a) \in Nat
        /\ sweptAt < refilled[a] + Ttl(a)
        /\ refilled[a] < sweptAt + SweepInterval \/ refilled[a] <= sweptAt + Lag
  BY TtlNat DEF OwnBuckets, Bucket, BudgetInv, Types, Fresh
<1>3. \A a \in Key : SweepInterval + 2 * Lag <= Ttl(a) + 1 /\ 3 * Lag <= Ttl(a) /\ Ttl(a) > 0
  BY DEF SweptInTime
<1>4. Near(Before)
  BY <1>1, <1>2 DEF Near
<1>5. Near(Since)
  <2> SUFFICES ASSUME NEW a \in Since, NEW c \in Since
               PROVE  refilled[a] + Lag < refilled[c] + Ttl(c)
    BY DEF Near
  <2>1. /\ refilled[a] \in Nat /\ refilled[c] \in Nat /\ Ttl(c) \in Nat
        /\ refilled[c] + Lag > sweptAt
        /\ refilled[a] < sweptAt + SweepInterval \/ refilled[a] <= sweptAt + Lag
        /\ SweepInterval + 2 * Lag <= Ttl(c) + 1 /\ 3 * Lag <= Ttl(c) /\ Ttl(c) > 0
    BY <1>2, <1>3
  <2> QED BY <1>1, <2>1
<1>6. Before \cup Since = OwnBuckets(s)
  BY <1>1, <1>2
<1>7. Before \subseteq OwnBuckets(s) /\ Since \subseteq OwnBuckets(s)
  OBVIOUS
<1> HIDE DEF Before, Since
<1>8. Cardinality(Before) <= MaxDistinct /\ Cardinality(Since) <= MaxDistinct
  BY <1>4, <1>5, <1>7 DEF BudgetInv, Windowed
<1>9. IsFiniteSet(Before) /\ IsFiniteSet(Since) /\ IsFiniteSet(Before \cap Since)
  <2>1. Before \subseteq Key /\ Since \subseteq Key
    BY <1>7 DEF OwnBuckets
  <2> QED BY <2>1, FS_Subset, RateLimitAssumption
<1>10. /\ Cardinality(OwnBuckets(s))
            = Cardinality(Before) + Cardinality(Since) - Cardinality(Before \cap Since)
       /\ Cardinality(Before) \in Nat /\ Cardinality(Since) \in Nat
       /\ Cardinality(Before \cap Since) \in Nat
  BY <1>6, <1>9, FS_Union, FS_CardinalityType
<1> QED BY <1>1, <1>8, <1>10

\* With one time to live, longer than the sweep is late (SweptInTime), a scope
\* never has more buckets than twice what its budget allows: those charged within
\* a time to live of each other held slots at once, and a sweep leaves room for no
\* more than two such groups (Scopes::admit, Buckets::maybe_sweep).
THEOREM BudgetHolds == ASSUME SweptInTime PROVE Spec => []WithinBudget
<1>1. Init => BudgetInv
  BY BudgetInit
<1>2. BudgetInv /\ [Next]_vars => BudgetInv'
  BY BudgetNext
<1>3. BudgetInv => WithinBudget
  BY BudgetInvWithin
<1> QED BY <1>1, <1>2, <1>3, PTL DEF Spec
=============================================================================
