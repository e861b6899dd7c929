---------------------------- MODULE SyncLogProofs ----------------------------
(***************************************************************************)
(* Proofs about the sync change log, for any rows, scopes, clients, page   *)
(* size and number of transactions: type correctness, that nothing is ever *)
(* committed behind a cursor, and that a client with no change of a row    *)
(* ahead of its cursor agrees with the server about it, as long as no row  *)
(* goes from one of its scopes to another.                                 *)
(***************************************************************************)
EXTENDS SyncLog, FiniteSetTheorems, TLAPS

-----------------------------------------------------------------------------
(* Types. *)

\* What the capture trigger records are changes.
LEMMA CapturedType ==
  ASSUME TypeOK, NEW t \in Txid, NEW k \in Row,
         NEW old \in Scope \cup {NoScope}, NEW new \in Scope \cup {NoScope}
  PROVE  Captured(t, k, old, new) \subseteq Change
BY ConstantsAssumption DEF TypeOK, Captured, Change

\* Positions of changes are positions.
LEMMA PositionType ==
  ASSUME NEW e \in Change
  PROVE  PositionOf(e) \in Position
BY DEF Change, PositionOf, Position, Txid

\* The end of a transaction keeps the types of what it resets.
LEMMA EndType ==
  ASSUME TypeOK, NEW t \in Txid, End(t)
  PROVE  /\ (open \subseteq Txid)'
         /\ (draft \subseteq Change)'
         /\ (lock \in [Row -> Txid \cup {0}])'
         /\ (dirty \in [Row -> [scope : Scope \cup {NoScope}, ver : Nat]])'
         /\ (nextSeq \in [Txid -> Nat])'
BY DEF TypeOK, End, NoRow

\* So does what a commit publishes.
LEMMA CommitType ==
  ASSUME TypeOK, NEW t \in Txid, NEW extra \in SUBSET Change,
         CommitWith(t, extra)
  PROVE  /\ (table \in [Row -> [scope : Scope \cup {NoScope}, ver : Nat]])'
         /\ (changes \subseteq Change)'
         /\ (open \subseteq Txid)'
         /\ (draft \subseteq Change)'
         /\ (lock \in [Row -> Txid \cup {0}])'
         /\ (dirty \in [Row -> [scope : Scope \cup {NoScope}, ver : Nat]])'
         /\ (nextSeq \in [Txid -> Nat])'
<1>1. End(t)
  BY DEF CommitWith
<1>2. (table \in [Row -> [scope : Scope \cup {NoScope}, ver : Nat]])'
  BY DEF TypeOK, CommitWith, Current
<1>3. (changes \subseteq Change)'
  BY DEF TypeOK, CommitWith, Recorded, Drafts
<1>4. QED
  BY <1>1, <1>2, <1>3, EndType

\* The initial state is well typed.
LEMMA InitType == Init => TypeOK
<1> SUFFICES ASSUME Init PROVE TypeOK
  OBVIOUS
<1> USE ConstantsAssumption DEF Init, NoRow, NoCopy, NoRows, Zero, Position
<1>1. Zero \in Position /\ NoRows \in [Row -> Copy]
  BY DEF Copy
<1>2. table \in [Row -> [scope : Scope \cup {NoScope}, ver : Nat]]
  OBVIOUS
<1>3. pull \in [Client -> [stage : {"idle", "paged", "fetched"},
                           page : SUBSET Change, cursor : Position,
                           rows : [Row -> Copy]]]
  BY <1>1 DEF Idle
<1>4. QED
  BY <1>1, <1>2, <1>3 DEF TypeOK, Txid

\* Every step of the server keeps the types.
LEMMA ServerType == TypeOK /\ ServerNext => TypeOK'
<1> SUFFICES ASSUME TypeOK, ServerNext PROVE TypeOK'
  OBVIOUS
<1>1. CASE Begin
  BY <1>1, ConstantsAssumption DEF TypeOK, Begin, clientVars, Txid
<1>2. ASSUME NEW c \in Client, BeginPush(c) PROVE TypeOK'
  BY <1>2, ConstantsAssumption DEF TypeOK, BeginPush, clientVars, Txid
<1>3. ASSUME NEW c \in Client, CommitPush(c) PROVE TypeOK'
  <2> DEFINE t == pushing[c]
             ack == [scope |-> c, row |-> AckRow, op |-> "upsert",
                     txid |-> t, seq |-> nextSeq[t],
                     inline |-> lastSeq[c] + 1]
  <2>1. t \in Txid
    BY <1>3 DEF TypeOK, CommitPush
  <2>2. {ack} \in SUBSET Change
    BY <2>1 DEF TypeOK, Change
  <2>3. CommitWith(t, {ack})
    BY <1>3 DEF CommitPush
  <2>4. UNCHANGED <<horizon, nextTxid, clientVars>>
        /\ (pushing \in [Client -> Txid \cup {0}])'
        /\ (lastSeq \in [Client -> Nat])'
    BY <1>3 DEF TypeOK, CommitPush
  <2> HIDE DEF ack
  <2>5. QED
    BY <2>1, <2>2, <2>3, <2>4, CommitType DEF TypeOK, clientVars
<1>4. ASSUME NEW t \in Txid, NEW k \in Row, NEW s \in Scope \cup {NoScope},
             Write(t, k, s)
      PROVE  TypeOK'
  <2>1. Current(t, k) \in [scope : Scope \cup {NoScope}, ver : Nat]
    BY DEF TypeOK, Current
  <2>2. Captured(t, k, Current(t, k).scope, s) \subseteq Change
    BY <2>1, CapturedType
  <2>3. (draft \subseteq Change)'
    BY <1>4, <2>2 DEF TypeOK, Write, Recorded, Drafts
  <2>4. (dirty \in [Row -> [scope : Scope \cup {NoScope}, ver : Nat]])'
    BY <1>4, <2>1 DEF TypeOK, Write
  <2>5. (lock \in [Row -> Txid \cup {0}])' /\ (nextSeq \in [Txid -> Nat])'
    BY <1>4 DEF TypeOK, Write
  <2>6. UNCHANGED <<table, changes, horizon, nextTxid, open, pushing,
                    lastSeq, clientVars>>
    BY <1>4 DEF Write
  <2>7. QED
    BY <2>3, <2>4, <2>5, <2>6 DEF TypeOK, clientVars
<1>5. ASSUME NEW t \in Txid, Commit(t) PROVE TypeOK'
  BY <1>5, CommitType DEF TypeOK, Commit, clientVars
<1>6. ASSUME NEW t \in Txid, Abort(t) PROVE TypeOK'
  BY <1>6, EndType DEF TypeOK, Abort, clientVars
<1>7. ASSUME NEW S \in SUBSET changes, Purge(S) PROVE TypeOK'
  <2>1. PICK e \in S : horizon' = IF Before(horizon, e) THEN PositionOf(e)
                                                        ELSE horizon
    BY <1>7 DEF Purge
  <2>2. horizon' \in Position
    BY <2>1, PositionType DEF TypeOK
  <2>3. QED
    BY <1>7, <2>2 DEF TypeOK, Purge, clientVars
<1>8. QED
  BY <1>1, <1>2, <1>3, <1>4, <1>5, <1>6, <1>7 DEF ServerNext

\* So does every step of a client.
LEMMA ClientType == TypeOK /\ ClientNext => TypeOK'
<1> SUFFICES ASSUME TypeOK, NEW c \in Client,
                    \/ PullPage(c) \/ Materialize(c) \/ LosePull(c)
                    \/ PullExpired(c) \/ ApplyPull(c)
             PROVE  TypeOK'
  BY DEF ClientNext
<1> DEFINE Pull == [stage : {"idle", "paged", "fetched"},
                    page : SUBSET Change, cursor : Position,
                    rows : [Row -> Copy]]
<1>a. Zero \in Position /\ NoRows \in [Row -> Copy] /\ Idle \in Pull
  BY DEF Zero, Position, NoRows, NoCopy, Copy, Idle
<1>1. CASE PullPage(c)
  <2>1. Page(c) \subseteq changes
    BY DEF Page, Eligible
  <2>2. ASSUME NEW S \in SUBSET changes, NEW p \in Position
        PROVE  Paged(S, p) \in Pull
    BY <1>a DEF TypeOK, Paged
  <2>3. pull' \in [Client -> Pull]
    <3>1. CASE pull' = [pull EXCEPT ![c] = Paged({}, cursor[c])]
      BY <3>1, <2>2 DEF TypeOK
    <3>2. ASSUME NEW e \in Page(c),
                 pull' = [pull EXCEPT ![c] = Paged(Page(c), PositionOf(e))]
          PROVE  pull' \in [Client -> Pull]
      <4>1. PositionOf(e) \in Position
        BY <2>1, PositionType DEF TypeOK
      <4>2. QED
        BY <2>1, <2>2, <3>2, <4>1 DEF TypeOK
    <3>3. QED
      BY <1>1, <3>1, <3>2 DEF PullPage
  <2>4. QED
    BY <1>1, <2>3 DEF PullPage, TypeOK, serverVars
<1>2. CASE Materialize(c)
  <2> DEFINE rows == [k \in Row |->
                        [live |-> table[k].scope \in ScopesOf[c],
                         ver |-> table[k].ver]]
  <2>1. rows \in [Row -> Copy]
    BY DEF TypeOK, Copy
  <2>2. pull' \in [Client -> Pull]
    BY <1>2, <2>1 DEF Materialize, TypeOK
  <2>3. QED
    BY <1>2, <2>2 DEF Materialize, TypeOK, serverVars
<1>3. CASE LosePull(c)
  BY <1>3, <1>a DEF LosePull, TypeOK, serverVars
<1>4. CASE PullExpired(c)
  BY <1>4, <1>a DEF PullExpired, TypeOK, serverVars
<1>5. CASE ApplyPull(c)
  <2> DEFINE p == pull[c]
             base == IF resync[c] THEN NoRows ELSE replica[c]
             rows == [k \in Row |-> IF \E e \in p.page : e.row = k
                                      THEN Applied(p, k) ELSE base[k]]
  <2>1. p \in Pull
    BY DEF TypeOK
  <2>2. rows \in [Row -> Copy]
    BY <1>a, <2>1 DEF TypeOK, Applied, Copy
  <2>3. replica' \in [Client -> [Row -> Copy]]
    BY <1>5, <2>2 DEF ApplyPull, TypeOK
  <2>4. acked' \in [Client -> Nat]
    BY <1>5, <2>1 DEF ApplyPull, TypeOK, Change
  <2>5. cursor' \in [Client -> Position] /\ resync' \in [Client -> BOOLEAN]
    BY <1>5, <2>1 DEF ApplyPull, TypeOK
  <2>6. pull' \in [Client -> Pull]
    BY <1>5, <1>a DEF ApplyPull, TypeOK
  <2>7. QED
    BY <1>5, <2>3, <2>4, <2>5, <2>6 DEF ApplyPull, TypeOK, serverVars
<1>6. QED
  BY <1>1, <1>2, <1>3, <1>4, <1>5

\* Every reachable state is well typed.
THEOREM TypeCorrect == Spec => []TypeOK
<1>1. TypeOK /\ UNCHANGED vars => TypeOK'
  BY DEF TypeOK, vars, serverVars, clientVars
<1>2. TypeOK /\ [Next]_vars => TypeOK'
  BY <1>1, ServerType, ClientType DEF Next
<1>3. QED
  BY <1>2, InitType, PTL DEF Spec

-----------------------------------------------------------------------------
(* The gate. *)

\* What a step adds to the log was written by a transaction then in flight.
LEMMA AddedByOpen ==
  ASSUME TypeOK, PushesOpen, [Next]_vars,
         NEW e \in changes' \ changes
  PROVE  e.txid \in open
<1>1. ASSUME NEW t \in open, NEW extra, CommitWith(t, extra),
             \A f \in extra : f.txid = t
      PROVE  e.txid \in open
  BY <1>1 DEF CommitWith, Recorded, Drafts
<1>2. ASSUME NEW c \in Client, CommitPush(c) PROVE e.txid \in open
  BY <1>1, <1>2 DEF CommitPush, PushesOpen
<1>3. ASSUME NEW t \in Txid, Commit(t) PROVE e.txid \in open
  BY <1>1, <1>3 DEF Commit
<1>4. ASSUME ServerNext PROVE e.txid \in open
  <2>1. CASE Begin
    BY <2>1 DEF Begin
  <2>2. ASSUME NEW c \in Client, BeginPush(c) PROVE FALSE
    BY <2>2 DEF BeginPush
  <2>3. ASSUME NEW t \in Txid, NEW k \in Row, NEW s \in Scope \cup {NoScope},
               Write(t, k, s)
        PROVE  FALSE
    BY <2>3 DEF Write
  <2>4. ASSUME NEW t \in Txid, Abort(t) PROVE FALSE
    BY <2>4 DEF Abort
  <2>5. ASSUME NEW S \in SUBSET changes, Purge(S) PROVE FALSE
    BY <2>5 DEF Purge
  <2>6. QED
    BY <1>2, <1>3, <1>4, <2>1, <2>2, <2>3, <2>4, <2>5 DEF ServerNext
<1>5. ASSUME ClientNext PROVE FALSE
  BY <1>5 DEF ClientNext, PullPage, Materialize, LosePull, PullExpired,
              ApplyPull, serverVars
<1>6. CASE UNCHANGED vars
  BY <1>6 DEF vars, serverVars
<1>7. QED
  BY <1>4, <1>5, <1>6 DEF Next

\* Where no transaction begins and no cursor moves, ending one keeps the gate.
LEMMA GateShrinks ==
  ASSUME TypeOK, GateInv, open' \subseteq open,
         UNCHANGED <<nextTxid, cursor, pull>>
  PROVE  OpenAhead' /\ CursorsHandedOut'
BY DEF TypeOK, GateInv, OpenAhead, CursorsHandedOut

\* The server's steps keep the gate: a new id is above every one handed out.
LEMMA ServerGate == TypeOK /\ GateInv /\ ServerNext => GateInv'
<1> SUFFICES ASSUME TypeOK, GateInv, ServerNext PROVE GateInv'
  OBVIOUS
<1>1. CASE Begin
  BY <1>1 DEF Begin, TypeOK, GateInv, OpenAhead, CursorsHandedOut, PushesOpen,
              clientVars, Txid, Position
<1>2. ASSUME NEW c \in Client, BeginPush(c) PROVE GateInv'
  <2>1. OpenAhead' /\ CursorsHandedOut'
    BY <1>2 DEF BeginPush, TypeOK, GateInv, OpenAhead, CursorsHandedOut,
                clientVars, Txid, Position
  <2>2. nextTxid \notin open
    BY DEF TypeOK, GateInv, OpenAhead, Txid
  <2>3. PushesOpen'
    BY <1>2, <2>2 DEF BeginPush, TypeOK, GateInv, PushesOpen
  <2>4. QED
    BY <2>1, <2>3 DEF GateInv
<1>3. ASSUME NEW c \in Client, CommitPush(c) PROVE GateInv'
  <2>1. open' = open \ {pushing[c]}
        /\ UNCHANGED <<nextTxid, cursor, pull>>
    BY <1>3 DEF CommitPush, CommitWith, End, clientVars
  <2>2. PushesOpen'
    BY <1>3, <2>1 DEF CommitPush, TypeOK, GateInv, PushesOpen
  <2>3. QED
    BY <2>1, <2>2, GateShrinks DEF GateInv
<1>4. ASSUME NEW t \in Txid, NEW k \in Row, NEW s \in Scope \cup {NoScope},
             Write(t, k, s)
      PROVE  GateInv'
  BY <1>4 DEF Write, GateInv, OpenAhead, CursorsHandedOut, PushesOpen,
              clientVars
<1>5. ASSUME NEW t \in Txid, Commit(t) PROVE GateInv'
  <2>1. open' = open \ {t} /\ UNCHANGED <<nextTxid, cursor, pull, pushing>>
    BY <1>5 DEF Commit, CommitWith, End, clientVars
  <2>2. PushesOpen'
    BY <1>5, <2>1 DEF Commit, GateInv, PushesOpen
  <2>3. QED
    BY <2>1, <2>2, GateShrinks DEF GateInv
<1>6. ASSUME NEW t \in Txid, Abort(t) PROVE GateInv'
  <2>1. open' = open \ {t} /\ UNCHANGED <<nextTxid, cursor, pull>>
    BY <1>6 DEF Abort, End, clientVars
  <2>2. PushesOpen'
    BY <1>6, <2>1 DEF Abort, TypeOK, GateInv, PushesOpen
  <2>3. QED
    BY <2>1, <2>2, GateShrinks DEF GateInv
<1>7. ASSUME NEW S \in SUBSET changes, Purge(S) PROVE GateInv'
  BY <1>7 DEF Purge, GateInv, OpenAhead, CursorsHandedOut, PushesOpen,
              clientVars
<1>8. QED
  BY <1>1, <1>2, <1>3, <1>4, <1>5, <1>6, <1>7 DEF ServerNext

\* The clients' steps keep it: a page ends below every transaction in flight.
LEMMA ClientGate == TypeOK /\ GateInv /\ ClientNext => GateInv'
<1> SUFFICES ASSUME TypeOK, GateInv, NEW c \in Client,
                    \/ PullPage(c) \/ Materialize(c) \/ LosePull(c)
                    \/ PullExpired(c) \/ ApplyPull(c)
             PROVE  GateInv'
  BY DEF ClientNext
<1>1. UNCHANGED serverVars
  BY DEF PullPage, Materialize, LosePull, PullExpired, ApplyPull
<1>2. PushesOpen'
  BY <1>1 DEF GateInv, PushesOpen, serverVars
<1> DEFINE Safe(n) == n < nextTxid /\ \A t \in open : n < t
<1>3. SUFFICES \A d \in Client : Safe(cursor'[d].txid)
                                /\ Safe(pull'[d].cursor.txid)
  BY <1>1, <1>2 DEF GateInv, OpenAhead, CursorsHandedOut, serverVars
<1>4. \A d \in Client : Safe(cursor[d].txid) /\ Safe(pull[d].cursor.txid)
  BY DEF GateInv, OpenAhead, CursorsHandedOut
<1>5. Safe(Zero.txid) /\ Idle.cursor = Zero
  BY DEF Zero, Idle, TypeOK, Txid
<1>6. CASE PullPage(c)
  <2>1. cursor' = cursor
    BY <1>6 DEF PullPage
  <2>2. ASSUME NEW page, NEW p, pull' = [pull EXCEPT ![c] = Paged(page, p)],
               Safe(p.txid)
        PROVE  \A d \in Client : Safe(pull'[d].cursor.txid)
    BY <1>4, <2>2 DEF TypeOK, Paged
  <2>3. ASSUME NEW e \in Page(c) PROVE Safe(PositionOf(e).txid)
    BY DEF Page, Eligible, BelowXmin, PositionOf
  <2>4. QED
    BY <1>4, <1>6, <2>1, <2>2, <2>3 DEF PullPage
<1>7. CASE Materialize(c)
  BY <1>4, <1>7 DEF Materialize, TypeOK
<1>8. CASE LosePull(c)
  BY <1>4, <1>5, <1>8 DEF LosePull, TypeOK
<1>9. CASE PullExpired(c)
  BY <1>4, <1>5, <1>9 DEF PullExpired, TypeOK
<1>10. CASE ApplyPull(c)
  BY <1>4, <1>5, <1>10 DEF ApplyPull, TypeOK
<1>11. QED
  BY <1>6, <1>7, <1>8, <1>9, <1>10

\* An open transaction is ahead of every cursor, in every reachable state.
THEOREM GateHolds == Spec => [](TypeOK /\ GateInv)
<1>1. Init => GateInv
  <2> SUFFICES ASSUME Init PROVE GateInv
    OBVIOUS
  <2>1. QED
    BY DEF Init, Idle, Zero, GateInv, OpenAhead, CursorsHandedOut, PushesOpen
<1>2. TypeOK /\ GateInv /\ UNCHANGED vars => GateInv'
  BY DEF vars, serverVars, clientVars, GateInv, OpenAhead, CursorsHandedOut,
         PushesOpen
<1>3. TypeOK /\ GateInv /\ [Next]_vars => GateInv'
  BY <1>2, ServerGate, ClientGate DEF Next
<1>4. QED
  BY <1>1, <1>3, TypeCorrect, PTL DEF Spec

\* No transaction ever commits a change behind a cursor some client holds or
\* is about to be handed (the gate of PAGE_SQL, server/pull.rs).
THEOREM NothingCommitsBehind == Spec => NothingBehindCursor
<1>1. TypeOK /\ GateInv /\ [Next]_vars =>
        [\A e \in changes' \ changes, c \in Client :
           /\ Before(cursor[c], e)
           /\ pull[c].stage # "idle" => Before(pull[c].cursor, e)]_vars
  <2> SUFFICES ASSUME TypeOK, GateInv, [Next]_vars,
                      NEW e \in changes' \ changes, NEW c \in Client
               PROVE  Before(cursor[c], e) /\ Before(pull[c].cursor, e)
    OBVIOUS
  <2>1. e.txid \in open
    BY AddedByOpen DEF GateInv
  <2>2. QED
    BY <2>1 DEF GateInv, OpenAhead, Before
<1>2. QED
  BY <1>1, GateHolds, PTL DEF NothingBehindCursor, Spec

-----------------------------------------------------------------------------
(* What the log says of the rows.                                           *)

\* One entry a row and scope, an upsert just where the row is.
LogInv ==
  /\ IsFiniteSet(changes)
  /\ \A e, f \in changes : SameKey(e, f) => e = f
  /\ \A e \in changes : e.row \in Row =>
       e.scope \in Scope /\ (e.op = "upsert" <=> table[e.row].scope = e.scope)
  /\ \A k \in Row : table[k].scope \in Scope =>
       \E e \in changes : e.row = k /\ e.scope = table[k].scope

\* An uncommitted row has its entry in the scope it left and in the one it is
\* in, drafted by the transaction that holds its lock.
DraftInv ==
  /\ IsFiniteSet(draft)
  /\ \A d, e \in draft : SameKey(d, e) => d = e
  /\ \A d \in draft :
       /\ d.row \in Row /\ d.scope \in Scope /\ lock[d.row] = d.txid
       /\ d.op = "upsert" <=> dirty[d.row].scope = d.scope
  /\ \A k \in Row : lock[k] # 0 =>
       \A s \in {table[k].scope, dirty[k].scope} \cap Scope :
         \E d \in draft : d.row = k /\ d.scope = s

\* A write drafts its entries and keeps the rest in order.
LEMMA WriteDrafts ==
  ASSUME TypeOK, DraftInv, NEW t \in Txid, NEW k \in Row,
         NEW s \in Scope \cup {NoScope}, Write(t, k, s)
  PROVE  DraftInv'
<1> DEFINE old == Current(t, k).scope
           new == Captured(t, k, old, s)
<1>1. /\ lock[k] \in {0, t} /\ (old # NoScope \/ s # NoScope)
      /\ lock' = [lock EXCEPT ![k] = t]
      /\ dirty' = [dirty EXCEPT ![k] =
                     [scope |-> s, ver |-> Current(t, k).ver + 1]]
      /\ draft' = (draft \ Drafts(t)) \cup Recorded(Drafts(t), new)
      /\ table' = table
  BY DEF Write
<1>2. /\ \A r \in Row : lock'[r] = IF r = k THEN t ELSE lock[r]
      /\ \A r \in Row :
           dirty'[r].scope = IF r = k THEN s ELSE dirty[r].scope
  BY <1>1 DEF TypeOK
<1>3. /\ \A e \in new : e.row = k /\ e.txid = t /\ e.scope \in Scope
      /\ \A e \in new : e.op = "upsert" <=> e.scope = s
      /\ \A e, f \in new : e.scope = f.scope => e = f
      /\ \A r \in {old, s} \cap Scope : \E e \in new : e.scope = r
      /\ IsFiniteSet(new)
  <2> DEFINE left == [scope |-> old, row |-> k, op |-> "delete", txid |-> t,
                      seq |-> nextSeq[t], inline |-> 0]
             here == [scope |-> s, row |-> k, op |-> "upsert", txid |-> t,
                      seq |-> nextSeq[t] + 1, inline |-> 0]
             A == IF old \in Scope /\ old # s THEN {left} ELSE {}
             B == IF s \in Scope THEN {here} ELSE {}
  <2>1. new = A \cup B
    BY DEF Captured
  <2>2. /\ left.row = k /\ left.txid = t /\ left.scope = old
        /\ left.op = "delete" /\ left.op # "upsert"
        /\ here.row = k /\ here.txid = t /\ here.scope = s
        /\ here.op = "upsert"
    OBVIOUS
  <2>3. IsFiniteSet(A) /\ IsFiniteSet(B)
    BY FS_EmptySet, FS_Singleton
  <2>4. IsFiniteSet(new)
    BY <2>1, <2>3, FS_Union
  <2> HIDE DEF left, here, new
  <2>5. QED
    BY <2>1, <2>2, <2>4
<1> HIDE DEF new
<1>4. \A f \in draft : f.row = k => f.txid = t /\ lock[k] = t
  BY <1>1 DEF DraftInv, TypeOK, Change, Txid
<1>5. \A f : f \in draft' <=> \/ f \in new
                              \/ f \in draft /\ ~ \E e \in new : SameKey(e, f)
  BY <1>1, <1>3, <1>4 DEF Recorded, Drafts, SameKey
<1>6. IsFiniteSet(draft')
  <2>1. draft' \subseteq draft \cup new
    BY <1>5
  <2>2. QED
    BY <1>3, <2>1, FS_Union, FS_Subset DEF DraftInv
<1>7. \A d, e \in draft' : SameKey(d, e) => d = e
  BY <1>3, <1>5 DEF DraftInv, SameKey
<1>8. ASSUME NEW d \in draft'
      PROVE  /\ d.row \in Row /\ d.scope \in Scope /\ lock'[d.row] = d.txid
             /\ d.op = "upsert" <=> dirty'[d.row].scope = d.scope
  <2>1. CASE d \in new
    BY <1>2, <1>3, <2>1
  <2>2. CASE d \in draft /\ d.row # k
    BY <1>2, <2>2 DEF DraftInv
  <2>3. CASE d \in draft /\ d.row = k /\ ~ \E e \in new : SameKey(e, d)
    <3>1. d.scope # s /\ d.scope # old
      BY <1>3, <2>3 DEF DraftInv, SameKey
    <3>2. dirty[k].scope = old
      BY <1>4, <2>3 DEF Current
    <3>3. QED
      BY <1>2, <1>4, <2>3, <3>1, <3>2 DEF DraftInv
  <2>4. QED
    BY <1>5, <2>1, <2>2, <2>3
<1>9. ASSUME NEW r \in Row, lock'[r] # 0,
             NEW q \in {table'[r].scope, dirty'[r].scope} \cap Scope
      PROVE  \E d \in draft' : d.row = r /\ d.scope = q
  <2>1. CASE r # k
    <3>1. PICK d \in draft : d.row = r /\ d.scope = q
      BY <1>1, <1>2, <1>9, <2>1 DEF DraftInv
    <3>2. QED
      BY <1>3, <1>5, <2>1, <3>1 DEF SameKey
  <2>2. CASE r = k /\ q \in {old, s}
    BY <1>3, <1>5, <2>2
  <2>3. CASE r = k /\ q \notin {old, s}
    <3>1. q = table[k].scope /\ lock[k] = t
      BY <1>1, <1>2, <1>9, <2>3 DEF Current
    <3>2. PICK d \in draft : d.row = k /\ d.scope = q
      BY <1>9, <3>1 DEF DraftInv, Txid
    <3>3. CASE \E e \in new : SameKey(e, d)
      BY <1>3, <1>5, <2>3, <3>2, <3>3 DEF SameKey
    <3>4. CASE ~ \E e \in new : SameKey(e, d)
      BY <1>5, <2>3, <3>2, <3>4
    <3>5. QED
      BY <3>3, <3>4
  <2>4. QED
    BY <2>1, <2>2, <2>3
<1>10. QED
  BY <1>6, <1>7, <1>8, <1>9 DEF DraftInv

\* The end of a transaction forgets its drafts and no other.
LEMMA EndDrafts ==
  ASSUME TypeOK, DraftInv, NEW t \in Txid, End(t),
         \A k \in Row : lock[k] # t => table'[k] = table[k]
  PROVE  DraftInv'
<1>1. /\ \A k \in Row : lock'[k] = IF lock[k] = t THEN 0 ELSE lock[k]
      /\ \A k \in Row : lock[k] # t => dirty'[k] = dirty[k]
      /\ draft' = {d \in draft : d.txid # t}
  BY DEF End, Drafts
<1>2. IsFiniteSet(draft')
  <2>1. draft' \in SUBSET draft
    BY <1>1
  <2>2. QED
    BY <2>1, FS_Subset DEF DraftInv
<1>3. \A d \in draft' : d \in draft /\ lock[d.row] # t
  BY <1>1 DEF DraftInv
<1>4. ASSUME NEW k \in Row, lock'[k] # 0,
             NEW s \in {table'[k].scope, dirty'[k].scope} \cap Scope
      PROVE  \E d \in draft' : d.row = k /\ d.scope = s
  <2>1. lock[k] # 0 /\ lock[k] # t /\ s \in {table[k].scope, dirty[k].scope}
    BY <1>1, <1>4
  <2>2. PICK d \in draft : d.row = k /\ d.scope = s
    BY <2>1 DEF DraftInv
  <2>3. d.txid # t
    BY <2>1, <2>2 DEF DraftInv
  <2>4. QED
    BY <1>1, <2>2, <2>3
<1>5. QED
  BY <1>1, <1>2, <1>3, <1>4 DEF DraftInv

\* What a commit changes is what its transaction drafted.
LEMMA CommitLog ==
  ASSUME TypeOK, LogInv, DraftInv, NEW t \in Txid,
         NEW extra \in SUBSET Change, IsFiniteSet(extra),
         \A e \in extra : e.row \notin Row /\ e.txid = t,
         \A e, f \in extra : e = f,
         CommitWith(t, extra)
  PROVE  LogInv' /\ DraftInv'
<1> DEFINE new == Drafts(t) \cup extra
<1>1. /\ \A k \in Row : table'[k] = IF lock[k] = t THEN dirty[k] ELSE table[k]
      /\ changes' = {f \in changes : \A e \in new : ~ SameKey(e, f)} \cup new
      /\ End(t)
  BY DEF CommitWith, Current, Recorded
<1>2. DraftInv'
  BY <1>1, EndDrafts
<1>3. \A d \in Drafts(t) : d \in draft /\ d.row \in Row /\ lock[d.row] = t
  BY DEF Drafts, DraftInv
<1>4. \A k \in Row, s \in Scope :
        lock[k] = t /\ s \in {table[k].scope, dirty[k].scope} =>
          \E d \in Drafts(t) : d.row = k /\ d.scope = s
  BY DEF Drafts, DraftInv, Txid
<1>5. IsFiniteSet(changes')
  <2>1. Drafts(t) \in SUBSET draft
    BY DEF Drafts
  <2>2. IsFiniteSet(new)
    BY <2>1, FS_Subset, FS_Union DEF DraftInv
  <2>3. changes' \subseteq changes \cup new
    BY <1>1
  <2>4. QED
    BY <2>2, <2>3, FS_Union, FS_Subset DEF LogInv
<1>6. \A e, f \in changes' : SameKey(e, f) => e = f
  <2>1. \A e, f \in new : SameKey(e, f) => e = f
    BY <1>3 DEF DraftInv, SameKey
  <2> HIDE DEF new
  <2>2. QED
    BY <1>1, <2>1 DEF LogInv, SameKey
<1>7. ASSUME NEW e \in changes', e.row \in Row
      PROVE  /\ e.scope \in Scope
             /\ e.op = "upsert" <=> table'[e.row].scope = e.scope
  <2>1. CASE e \in new
    BY <1>1, <1>3, <1>7, <2>1 DEF DraftInv
  <2>2. CASE e \in changes /\ \A f \in new : ~ SameKey(f, e)
    <3>1. /\ e.scope \in Scope
          /\ e.op = "upsert" <=> table[e.row].scope = e.scope
      BY <1>7, <2>2 DEF LogInv
    <3>2. CASE lock[e.row] # t
      BY <1>1, <1>7, <3>1, <3>2
    <3>3. CASE lock[e.row] = t
      <4>1. e.scope \notin {table[e.row].scope, dirty[e.row].scope}
        BY <1>4, <1>7, <2>2, <3>1, <3>3 DEF SameKey
      <4>2. QED
        BY <1>1, <1>7, <3>1, <3>3, <4>1
    <3>4. QED
      BY <3>2, <3>3
  <2>3. QED
    BY <1>1, <2>1, <2>2
<1>8. ASSUME NEW k \in Row, table'[k].scope \in Scope
      PROVE  \E e \in changes' : e.row = k /\ e.scope = table'[k].scope
  <2>1. CASE lock[k] = t
    BY <1>1, <1>4, <1>8, <2>1
  <2>2. CASE lock[k] # t
    <3>1. PICK e \in changes : e.row = k /\ e.scope = table[k].scope
      BY <1>1, <1>8, <2>2 DEF LogInv
    <3>2. \A f \in new : ~ SameKey(f, e)
      BY <1>3, <2>2, <3>1 DEF SameKey
    <3>3. QED
      BY <1>1, <2>2, <3>1, <3>2
  <2>3. QED
    BY <2>1, <2>2
<1>9. QED
  BY <1>2, <1>5, <1>6, <1>7, <1>8 DEF LogInv

\* A purge takes tombstones only.
LEMMA PurgeLog ==
  ASSUME TypeOK, LogInv, DraftInv, NEW S \in SUBSET changes, Purge(S)
  PROVE  LogInv' /\ DraftInv'
<1>1. /\ changes' = changes \ S /\ UNCHANGED <<table, lock, dirty, draft>>
      /\ \A e \in S : e.op # "upsert"
  BY DEF Purge
<1>2. IsFiniteSet(changes')
  <2>1. changes' \in SUBSET changes
    BY <1>1
  <2>2. QED
    BY <2>1, FS_Subset DEF LogInv
<1>3. \A k \in Row : table[k].scope \in Scope =>
        \E e \in changes' : e.row = k /\ e.scope = table[k].scope
  BY <1>1 DEF LogInv
<1>4. LogInv'
  BY <1>1, <1>2, <1>3 DEF LogInv
<1>5. DraftInv'
  BY <1>1 DEF DraftInv
<1>6. QED
  BY <1>4, <1>5

\* The log is as it should be, in every reachable state.
LEMMA LogStep ==
  ASSUME TypeOK, PushesOpen, LogInv, DraftInv, [Next]_vars
  PROVE  LogInv' /\ DraftInv'
<1>1. ASSUME UNCHANGED <<table, changes, lock, dirty, draft>>
      PROVE  LogInv' /\ DraftInv'
  BY <1>1 DEF LogInv, DraftInv
<1>2. ASSUME NEW c \in Client, CommitPush(c) PROVE LogInv' /\ DraftInv'
  <2> DEFINE t == pushing[c]
             ack == [scope |-> c, row |-> AckRow, op |-> "upsert", txid |-> t,
                     seq |-> nextSeq[t], inline |-> lastSeq[c] + 1]
  <2>1. t \in Txid /\ CommitWith(t, {ack})
    BY <1>2 DEF CommitPush, TypeOK
  <2>2. ack \in Change /\ ack.row \notin Row /\ ack.txid = t
    BY <2>1, ConstantsAssumption DEF TypeOK, Change
  <2> HIDE DEF ack
  <2>3. QED
    BY <2>1, <2>2, CommitLog, FS_Singleton
<1>3. ASSUME NEW t \in Txid, Commit(t) PROVE LogInv' /\ DraftInv'
  BY <1>3, CommitLog, FS_EmptySet DEF Commit
<1>4. ASSUME NEW t \in Txid, NEW k \in Row, NEW s \in Scope \cup {NoScope},
             Write(t, k, s)
      PROVE  LogInv' /\ DraftInv'
  BY <1>4, WriteDrafts DEF Write, LogInv
<1>5. ASSUME NEW t \in Txid, Abort(t) PROVE LogInv' /\ DraftInv'
  BY <1>5, EndDrafts DEF Abort, LogInv
<1>6. ASSUME ServerNext PROVE LogInv' /\ DraftInv'
  BY <1>1, <1>2, <1>3, <1>4, <1>5, <1>6, PurgeLog
     DEF ServerNext, Begin, BeginPush
<1>7. ASSUME ClientNext PROVE LogInv' /\ DraftInv'
  BY <1>1, <1>7 DEF ClientNext, PullPage, Materialize, LosePull, PullExpired,
                    ApplyPull, serverVars
<1>8. CASE UNCHANGED vars
  BY <1>1, <1>8 DEF vars, serverVars
<1>9. QED
  BY <1>6, <1>7, <1>8 DEF Next

\* In every reachable state the log names each row where it is, and nowhere
\* else but by a tombstone.
THEOREM LogNamesRows == Spec => [](LogInv /\ DraftInv)
<1>1. Init => LogInv /\ DraftInv
  BY FS_EmptySet, ConstantsAssumption DEF Init, LogInv, DraftInv, NoRow
<1>2. TypeOK /\ GateInv /\ LogInv /\ DraftInv /\ [Next]_vars
        => LogInv' /\ DraftInv'
  BY LogStep DEF GateInv
<1>3. QED
  BY <1>1, <1>2, GateHolds, PTL DEF Spec

-----------------------------------------------------------------------------
(* Where a client stands.                                                   *)

OneScope(c) == \A r, s \in ScopesOf[c] : r = s

\* Nothing the client may see of row k is ahead of position p, as far as the
\* log, purged up to the horizon, still tells.
Clear(c, p, k) ==
  /\ p = Zero \/ ~ Before(p, horizon)
  /\ \A e \in changes : e.row = k /\ e.scope \in ScopesOf[c] => ~ Before(p, e)

\* A copy of row k is what the client should have of it.
Matches(c, copy, k) ==
  IF table[k].scope \in ScopesOf[c]
    THEN copy = [live |-> TRUE, ver |-> table[k].ver]
    ELSE ~ copy.live

\* The rows the next page is applied to.
Base(c) == IF resync[c] THEN NoRows ELSE replica[c]

\* They are right wherever nothing is ahead of the cursor; a cursor of zero,
\* which no horizon expires, has none.
Following(c) ==
  /\ resync[c] => cursor[c] = Zero
  /\ cursor[c] = Zero => \A k \in Row : ~ Base(c)[k].live
  /\ \A k \in Row : Clear(c, cursor[c], k) => Matches(c, Base(c)[k], k)

\* A page names what changed up to the cursor that comes with it, once.
PageKeys(c) ==
  /\ \A e, f \in pull[c].page : e.row \in Row /\ e.row = f.row => e = f
  /\ pull[c].cursor = Zero => pull[c].page = {} /\ cursor[c] = Zero

Names(c, k) == \E e \in pull[c].page : e.row = k

\* The rows it names, as fetched, and the rows it does not name, are right
\* wherever nothing is ahead of that cursor.
PageRow(c, k) ==
  IF Names(c, k)
    THEN /\ \A e \in pull[c].page :
              e.row = k => (e.op = "upsert" <=> table[k].scope \in ScopesOf[c])
         /\ pull[c].stage = "fetched" => Matches(c, pull[c].rows[k], k)
    ELSE Matches(c, Base(c)[k], k)

Paging(c) ==
  pull[c].stage # "idle" =>
    /\ PageKeys(c)
    /\ \A k \in Row : Clear(c, pull[c].cursor, k) => PageRow(c, k)

FollowInv(c) == Following(c) /\ Paging(c)

\* Positions are totally ordered, and none is before zero.
LEMMA BeforeOrder ==
  ASSUME NEW p \in Position, NEW q \in Position, NEW r \in Position
  PROVE  /\ Before(p, q) /\ Before(q, r) => Before(p, r)
         /\ Before(p, q) /\ ~ Before(r, q) => Before(p, r)
         /\ ~ Before(p, Zero)
BY DEF Position, Before, Zero

LEMMA BeforeEntry ==
  ASSUME NEW e \in Change
  PROVE  /\ PositionOf(e) \in Position /\ PositionOf(e) # Zero
         /\ PositionOf(e).txid = e.txid
         /\ \A p : Before(p, e) <=> Before(p, PositionOf(e))
         /\ \A p : Before(e, p) <=> Before(PositionOf(e), p)
         /\ Before(Zero, e)
BY DEF Change, PositionOf, Position, Before, Zero, Txid

\* A row that is in the client's scopes has an entry ahead of zero.
LEMMA NothingAtZero ==
  ASSUME TypeOK, LogInv, NEW c \in Client, NEW k \in Row, Clear(c, Zero, k)
  PROVE  table[k].scope \notin ScopesOf[c]
<1> SUFFICES ASSUME table[k].scope \in ScopesOf[c] PROVE FALSE
  OBVIOUS
<1>1. PICK e \in changes : e.row = k /\ e.scope = table[k].scope
  BY ConstantsAssumption DEF LogInv
<1>2. Before(Zero, e)
  BY BeforeEntry DEF TypeOK
<1>3. QED
  BY <1>1, <1>2 DEF Clear

\* The row did not change for the client.
SameRow(c, k) ==
  \/ table'[k] = table[k]
  \/ table[k].scope \notin ScopesOf[c] /\ table'[k].scope \notin ScopesOf[c]

\* A client that stays where it is stays right, if no row changes without an
\* entry ahead of it.
LEMMA FollowKept ==
  ASSUME TypeOK, (TypeOK /\ LogInv)', NEW c \in Client, FollowInv(c),
         UNCHANGED <<cursor[c], resync[c], replica[c], pull[c]>>,
         \A p \in {cursor[c], pull[c].cursor}, k \in Row :
           p # Zero /\ Clear(c, p, k)' => Clear(c, p, k) /\ SameRow(c, k)
  PROVE  FollowInv(c)'
<1>1. Base(c)' = Base(c)
  BY DEF Base
<1>2. \A k \in Row : \A copy : SameRow(c, k) /\ Matches(c, copy, k)
                                => Matches(c, copy, k)'
  BY DEF SameRow, Matches
<1>3. ASSUME NEW k \in Row, Clear(c, Zero, k)', ~ Base(c)[k].live
      PROVE  Matches(c, Base(c)[k], k)'
  <2>1. table'[k].scope \notin ScopesOf[c]
    <3>1. (TypeOK /\ LogInv /\ Clear(c, Zero, k)
            => table[k].scope \notin ScopesOf[c])'
      BY NothingAtZero, PTL
    <3>2. QED
      BY <1>3, <3>1
  <2>2. QED
    BY <1>1, <1>3, <2>1 DEF Matches
<1>4. Following(c)'
  <2>1. ASSUME NEW k \in Row, Clear(c, cursor[c], k)'
        PROVE  Matches(c, Base(c)[k], k)'
    <3>1. CASE cursor[c] = Zero
      BY <1>3, <2>1, <3>1 DEF FollowInv, Following, Clear, Zero
    <3>2. CASE cursor[c] # Zero
      <4>1. Clear(c, cursor[c], k) /\ SameRow(c, k)
        BY <2>1, <3>2 DEF Clear
      <4>2. Matches(c, Base(c)[k], k)
        BY <4>1 DEF FollowInv, Following
      <4>3. QED
        BY <1>1, <1>2, <4>1, <4>2
    <3>3. QED
      BY <3>1, <3>2
  <2>2. QED
    BY <1>1, <2>1 DEF FollowInv, Following
<1>5. Paging(c)'
  <2> SUFFICES ASSUME pull[c].stage # "idle"
               PROVE  /\ PageKeys(c)'
                      /\ \A k \in Row : Clear(c, pull[c].cursor, k)'
                                          => PageRow(c, k)'
    BY DEF Paging
  <2>1. PageKeys(c)
    BY DEF FollowInv, Paging
  <2>2. ASSUME NEW k \in Row, Clear(c, pull[c].cursor, k)'
        PROVE  PageRow(c, k)'
    <3>1. CASE pull[c].cursor = Zero
      <4>1. cursor[c] = Zero /\ pull[c].page = {}
        BY <2>1, <3>1 DEF PageKeys
      <4>2. Matches(c, Base(c)[k], k)'
        BY <1>3, <2>2, <3>1, <4>1 DEF FollowInv, Following, Clear, Zero
      <4>3. QED
        BY <4>1, <4>2 DEF PageRow, Names
    <3>2. CASE pull[c].cursor # Zero
      <4>1. Clear(c, pull[c].cursor, k) /\ SameRow(c, k)
        BY <2>2, <3>2 DEF Clear
      <4>2. PageRow(c, k)
        BY <4>1 DEF FollowInv, Paging
      <4>3. table'[k].scope \in ScopesOf[c] <=> table[k].scope \in ScopesOf[c]
        BY <4>1 DEF SameRow
      <4>4. Names(c, k)' <=> Names(c, k)
        BY DEF Names
      <4>5. CASE Names(c, k)
        <5>1. \A e \in pull[c].page :
                e.row = k => (e.op = "upsert" <=> table'[k].scope \in ScopesOf[c])
          BY <4>2, <4>3, <4>5 DEF PageRow
        <5>2. pull[c].stage = "fetched" => Matches(c, pull[c].rows[k], k)'
          BY <1>2, <4>1, <4>2, <4>5 DEF PageRow
        <5>3. QED
          BY <4>4, <4>5, <5>1, <5>2 DEF PageRow
      <4>6. CASE ~ Names(c, k)
        BY <1>1, <1>2, <4>1, <4>2, <4>4, <4>6 DEF PageRow
      <4>7. QED
        BY <4>5, <4>6
    <3>3. QED
      BY <3>1, <3>2
  <2>3. QED
    BY <2>1, <2>2 DEF PageKeys
<1>6. QED
  BY <1>4, <1>5 DEF FollowInv

\* A commit puts an entry ahead of every cursor for each row it changes.
LEMMA CommitAhead ==
  ASSUME TypeOK, GateInv, DraftInv, NEW t \in open, NEW extra,
         \A e \in extra : e.row \notin Row,
         CommitWith(t, extra), UNCHANGED horizon,
         NEW c \in Client, NEW k \in Row,
         NEW p \in {cursor[c], pull[c].cursor}, Clear(c, p, k)'
  PROVE  Clear(c, p, k) /\ SameRow(c, k)
<1>1. p.txid < t
  BY DEF GateInv, OpenAhead
<1>2. /\ changes' = {f \in changes : \A e \in Drafts(t) \cup extra :
                                       ~ SameKey(e, f)}
                      \cup (Drafts(t) \cup extra)
      /\ table'[k] = IF lock[k] = t THEN dirty[k] ELSE table[k]
  BY DEF CommitWith, Recorded, Current
<1>3. ASSUME NEW d \in Drafts(t), d.row = k PROVE d.scope \notin ScopesOf[c]
  <2>1. Before(p, d) /\ d \in changes'
    BY <1>1, <1>2 DEF Drafts, Before
  <2>2. QED
    BY <1>3, <2>1 DEF Clear
<1>4. \A e \in changes :
        e.row = k /\ e.scope \in ScopesOf[c] => e \in changes'
  BY <1>2, <1>3 DEF SameKey
<1>5. Clear(c, p, k)
  BY <1>4 DEF Clear
<1>6. SameRow(c, k)
  <2>1. CASE lock[k] = t
    <3>1. \A s \in {table[k].scope, dirty[k].scope} :
            s \in ScopesOf[c] => \E d \in Drafts(t) : d.row = k /\ d.scope = s
      <4>1. lock[k] # 0 /\ ScopesOf[c] \subseteq Scope
        BY <2>1, ConstantsAssumption DEF TypeOK, Txid
      <4>2. QED
        BY <2>1, <4>1 DEF DraftInv, Drafts
    <3>2. QED
      BY <1>2, <1>3, <2>1, <3>1 DEF SameRow
  <2>2. CASE lock[k] # t
    BY <1>2, <2>2 DEF SameRow
  <2>3. QED
    BY <2>1, <2>2
<1>7. QED
  BY <1>5, <1>6

\* A purge of an entry ahead of a cursor puts the horizon ahead of it too.
LEMMA PurgeAhead ==
  ASSUME TypeOK, NEW S \in SUBSET changes, Purge(S),
         NEW c \in Client, NEW k \in Row, NEW p \in Position, p # Zero,
         Clear(c, p, k)'
  PROVE  Clear(c, p, k) /\ SameRow(c, k)
<1>1. PICK e \in S :
        /\ IsLast(e, S)
        /\ horizon' = IF Before(horizon, e) THEN PositionOf(e) ELSE horizon
  BY DEF Purge
<1>2. changes' = changes \ S /\ table' = table
  BY DEF Purge
<1>3. horizon \in Position /\ S \subseteq Change
  BY DEF TypeOK
<1>4. \A q \in Position :
        Before(q, PositionOf(e)) \/ Before(q, horizon) => Before(q, horizon')
  BY <1>1, <1>3, BeforeOrder, BeforeEntry
<1>5. \A f \in S : Before(p, f) => Before(p, horizon')
  <2> SUFFICES ASSUME NEW f \in S, Before(p, f) PROVE Before(p, horizon')
    OBVIOUS
  <2>1. f = e \/ Before(f, e)
    BY <1>1 DEF IsLast
  <2>2. Before(p, PositionOf(e))
    BY <1>3, <2>1, BeforeOrder, BeforeEntry
  <2>3. QED
    BY <1>4, <2>2
<1>6. ~ Before(p, horizon')
  BY DEF Clear
<1>7. QED
  BY <1>2, <1>4, <1>5, <1>6 DEF Clear, SameRow

\* The server's steps leave a client right.
LEMMA ServerFollow ==
  ASSUME TypeOK, GateInv, DraftInv, (TypeOK /\ LogInv)', ServerNext,
         NEW c \in Client, FollowInv(c)
  PROVE  FollowInv(c)'
<1>1. UNCHANGED <<cursor[c], resync[c], replica[c], pull[c]>>
  BY DEF ServerNext, Begin, BeginPush, CommitPush, Write, Commit, Abort, Purge,
         clientVars
<1>2. SUFFICES ASSUME NEW p \in {cursor[c], pull[c].cursor}, NEW k \in Row,
                      p # Zero, Clear(c, p, k)'
               PROVE  Clear(c, p, k) /\ SameRow(c, k)
  BY <1>1, FollowKept
<1>3. CASE UNCHANGED <<table, changes, horizon>>
  BY <1>2, <1>3 DEF Clear, SameRow
<1>4. ASSUME NEW d \in Client, CommitPush(d)
      PROVE  Clear(c, p, k) /\ SameRow(c, k)
  <2> DEFINE t == pushing[d]
             ack == [scope |-> d, row |-> AckRow, op |-> "upsert", txid |-> t,
                     seq |-> nextSeq[t], inline |-> lastSeq[d] + 1]
  <2>1. t \in open /\ CommitWith(t, {ack}) /\ UNCHANGED horizon
    BY <1>4 DEF CommitPush, GateInv, PushesOpen
  <2>2. ack.row \notin Row
    BY ConstantsAssumption
  <2> HIDE DEF ack
  <2>3. QED
    BY <1>2, <2>1, <2>2, CommitAhead
<1>5. ASSUME NEW t \in Txid, Commit(t) PROVE Clear(c, p, k) /\ SameRow(c, k)
  BY <1>2, <1>5, CommitAhead DEF Commit
<1>6. ASSUME NEW S \in SUBSET changes, Purge(S)
      PROVE  Clear(c, p, k) /\ SameRow(c, k)
  <2>1. p \in Position
    BY DEF TypeOK
  <2>2. QED
    BY <1>2, <1>6, <2>1, PurgeAhead
<1>7. QED
  BY <1>3, <1>4, <1>5, <1>6 DEF ServerNext, Begin, BeginPush, Write, Abort

\* A page takes every change the client may see up to its last.
LEMMA PageIsWhole ==
  ASSUME TypeOK, LogInv, NEW c \in Client, NEW last \in Page(c),
         NEW e \in changes, e.scope \in Subscribed(c), Before(cursor[c], e),
         e.txid <= last.txid
  PROVE  e \in Page(c)
<1> DEFINE E == Eligible(c)
           Older(f) == {g \in E : g.txid < f.txid}
<1>1. last \in E /\ Cardinality(Older(last)) < PageLimit
  BY DEF Page
<1>2. \A f \in changes : f.txid \in Nat
  BY DEF TypeOK, Change, Txid
<1>3. open \subseteq Nat /\ nextTxid \in Nat /\ E \subseteq changes
  BY ConstantsAssumption DEF TypeOK, Txid, Eligible
<1>4. BelowXmin(e.txid)
  BY <1>1, <1>2, <1>3 DEF BelowXmin, Eligible
<1>5. e \in E
  BY <1>4 DEF Eligible
<1>6. IsFiniteSet(Older(last))
  <2>1. Older(last) \in SUBSET changes
    BY <1>3
  <2>2. QED
    BY <2>1, FS_Subset DEF LogInv
<1>7. Older(e) \in SUBSET Older(last)
  BY <1>1, <1>2, <1>3
<1>8. /\ Cardinality(Older(e)) <= Cardinality(Older(last))
      /\ Cardinality(Older(e)) \in Nat /\ Cardinality(Older(last)) \in Nat
  BY <1>6, <1>7, FS_Subset, FS_CardinalityType
<1>9. Cardinality(Older(e)) < PageLimit
  BY <1>1, <1>8, ConstantsAssumption
<1>10. QED
  BY <1>5, <1>9 DEF Page

\* A page is cut: what it does not name, the client already has.
LEMMA PageFollow ==
  ASSUME TypeOK, LogInv, NEW c \in Client, RowsStay(c), FollowInv(c),
         PullPage(c)
  PROVE  FollowInv(c)'
<1>1. /\ pull[c].stage = "idle" /\ ~ CursorExpired(c)
      /\ UNCHANGED <<serverVars, cursor, resync, replica>>
  BY DEF PullPage
<1>2. /\ pull'[c].page = Page(c) /\ pull'[c].stage = "paged"
      /\ \/ Page(c) = {} /\ pull'[c].cursor = cursor[c]
         \/ \E e \in Page(c) : pull'[c].cursor = PositionOf(e)
  <2>1. ASSUME NEW page, NEW p, pull' = [pull EXCEPT ![c] = Paged(page, p)]
        PROVE  /\ pull'[c].page = page /\ pull'[c].cursor = p
               /\ pull'[c].stage = "paged"
    BY <2>1 DEF TypeOK, Paged
  <2>2. QED
    BY <2>1 DEF PullPage
<1>3. /\ Page(c) \subseteq changes /\ changes \subseteq Change
      /\ \A e \in Page(c) : e.scope \in Subscribed(c)
  BY DEF Page, Eligible, TypeOK
<1>4. \A e \in changes : e.row \in Row /\ e.scope \in Subscribed(c) =>
        /\ e.scope \in ScopesOf[c]
        /\ e.op = "upsert" <=> table[e.row].scope \in ScopesOf[c]
  <2>1. c \notin Scope
    BY ConstantsAssumption
  <2>2. SUFFICES ASSUME NEW e \in changes, e.row \in Row, e.scope \in Subscribed(c)
                 PROVE  /\ e.scope \in ScopesOf[c]
                        /\ e.op = "upsert" <=> table[e.row].scope \in ScopesOf[c]
    OBVIOUS
  <2>3. e.scope \in ScopesOf[c]
    BY <2>1, <2>2 DEF LogInv, Subscribed
  <2>4. ASSUME table[e.row].scope \in ScopesOf[c]
        PROVE  table[e.row].scope = e.scope
    <3>1. table[e.row].scope \in Scope
      BY <2>4, ConstantsAssumption
    <3>2. PICK f \in changes : f.row = e.row /\ f.scope = table[e.row].scope
      BY <2>2, <3>1 DEF LogInv
    <3>3. QED
      BY <2>2, <2>3, <2>4, <3>2 DEF RowsStay
  <2>5. QED
    BY <2>2, <2>3, <2>4 DEF LogInv
<1>5. Following(c)'
  BY <1>1 DEF FollowInv, Following, Base, Clear, Matches, serverVars
<1>6. PageKeys(c)'
  <2>1. pull'[c].cursor = Zero => Page(c) = {} /\ cursor[c] = Zero
    BY <1>2, <1>3, BeforeEntry
  <2>2. ASSUME NEW e \in Page(c), NEW f \in Page(c), e.row \in Row, e.row = f.row
        PROVE  e = f
    <3>1. e.scope \in ScopesOf[c] /\ f.scope \in ScopesOf[c]
      BY <1>3, <1>4, <2>2
    <3>2. e.scope = f.scope
      BY <1>3, <2>2, <3>1 DEF RowsStay
    <3>3. QED
      BY <1>3, <2>2, <3>2 DEF LogInv, SameKey
  <2>3. QED
    BY <1>1, <1>2, <2>1, <2>2 DEF PageKeys
<1>7. ASSUME NEW k \in Row, Clear(c, pull[c].cursor, k)', ~ Names(c, k)'
      PROVE  Clear(c, cursor[c], k)
  <2>1. SUFFICES ASSUME NEW e \in changes, e.row = k, e.scope \in ScopesOf[c],
                        Before(cursor[c], e)
                 PROVE  FALSE
    BY <1>1 DEF Clear, CursorExpired
  <2>2. ~ Before(pull'[c].cursor, e)
    BY <1>1, <1>7, <2>1 DEF Clear, serverVars
  <2>3. PICK last \in Page(c) : pull'[c].cursor = PositionOf(last)
    BY <1>2, <2>1, <2>2
  <2>4. e.txid <= last.txid
    BY <1>3, <2>2, <2>3 DEF PositionOf, Before, Change, Txid
  <2>5. e \in Page(c)
    BY <2>1, <2>4, PageIsWhole DEF Subscribed
  <2>6. QED
    BY <1>2, <1>7, <2>1, <2>5 DEF Names
<1>8. ASSUME NEW k \in Row, Clear(c, pull[c].cursor, k)'
      PROVE  PageRow(c, k)'
  <2>1. CASE Names(c, k)'
    BY <1>1, <1>2, <1>3, <1>4, <2>1 DEF PageRow, serverVars
  <2>2. CASE ~ Names(c, k)'
    <3>1. Matches(c, Base(c)[k], k)
      BY <1>7, <1>8, <2>2 DEF FollowInv, Following
    <3>2. Matches(c, Base(c)[k], k)'
      BY <1>1, <3>1 DEF Matches, Base, serverVars
    <3>3. QED
      BY <2>2, <3>2 DEF PageRow
  <2>3. QED
    BY <2>1, <2>2
<1>9. QED
  BY <1>5, <1>6, <1>8 DEF FollowInv, Paging

\* The rows of a page are fetched: whatever they are now, if they changed
\* since there is an entry ahead.
LEMMA FetchFollow ==
  ASSUME TypeOK, NEW c \in Client, FollowInv(c), Materialize(c)
  PROVE  FollowInv(c)'
<1> DEFINE rows == [k \in Row |->
                      [live |-> table[k].scope \in ScopesOf[c],
                       ver |-> table[k].ver]]
<1>1. /\ pull[c].stage = "paged" /\ pull'[c].rows = rows
      /\ pull'[c].page = pull[c].page /\ pull'[c].cursor = pull[c].cursor
      /\ UNCHANGED <<serverVars, cursor, resync, replica>>
  BY DEF Materialize, TypeOK
<1>2. \A k \in Row : Matches(c, rows[k], k)
  BY DEF Matches
<1> HIDE DEF rows
<1>3. Following(c)'
  BY <1>1 DEF FollowInv, Following, Base, Clear, Matches, serverVars
<1>4. PageKeys(c) /\ \A k \in Row : Clear(c, pull[c].cursor, k)
                                      => PageRow(c, k)
  BY <1>1 DEF FollowInv, Paging
<1>5. PageKeys(c)'
  BY <1>1, <1>4 DEF PageKeys
<1>6. ASSUME NEW k \in Row, Clear(c, pull[c].cursor, k)'
      PROVE  PageRow(c, k)'
  <2>1. PageRow(c, k)
    BY <1>1, <1>4, <1>6 DEF Clear, serverVars
  <2>2. Matches(c, pull[c].rows[k], k)' /\ (Names(c, k)' <=> Names(c, k))
    BY <1>1, <1>2 DEF Matches, Names, serverVars
  <2>3. QED
    BY <1>1, <2>1, <2>2 DEF PageRow, Matches, Base, serverVars
<1>7. QED
  BY <1>3, <1>5, <1>6 DEF FollowInv, Paging

\* A page is applied: the client has what it names and what it had.
LEMMA ApplyFollow ==
  ASSUME TypeOK, NEW c \in Client, FollowInv(c), ApplyPull(c)
  PROVE  FollowInv(c)'
<1> DEFINE p == pull[c]
<1>1. /\ p.stage = "fetched"
      /\ cursor'[c] = p.cursor /\ resync'[c] = FALSE
      /\ pull'[c].stage = "idle"
      /\ UNCHANGED serverVars
      /\ \A k \in Row : replica'[c][k] =
           IF Names(c, k) THEN Applied(p, k) ELSE Base(c)[k]
  BY DEF ApplyPull, TypeOK, Idle, Names, Base
<1> HIDE DEF p
<1>2. /\ PageKeys(c)
      /\ \A k \in Row : Clear(c, p.cursor, k) => PageRow(c, k)
  BY <1>1 DEF FollowInv, Paging, p
<1>3. Base(c)' = replica'[c]
  BY <1>1 DEF Base
<1>4. ASSUME cursor'[c] = Zero, NEW k \in Row PROVE ~ Base(c)'[k].live
  <2>1. p.page = {} /\ cursor[c] = Zero
    BY <1>1, <1>2, <1>4 DEF PageKeys, p
  <2>2. ~ Base(c)[k].live
    BY <2>1 DEF FollowInv, Following
  <2>3. ~ Names(c, k)
    BY <2>1 DEF Names, p
  <2>4. QED
    BY <1>1, <1>3, <2>2, <2>3
<1>5. ASSUME NEW k \in Row, PageRow(c, k)
      PROVE  Matches(c, replica'[c][k], k)
  <2>1. CASE ~ Names(c, k)
    BY <1>1, <1>5, <2>1 DEF PageRow
  <2>2. CASE Names(c, k)
    <3> DEFINE named == {e \in p.page : e.row = k}
    <3>1. /\ \A e \in named :
               e.op = "upsert" <=> table[k].scope \in ScopesOf[c]
          /\ Matches(c, p.rows[k], k)
      BY <1>1, <1>5, <2>2 DEF PageRow, p
    <3>2. PICK e \in named : TRUE
      BY <2>2 DEF Names, p
    <3>3. \A f \in named : f = e
      BY <1>2, <3>2 DEF PageKeys, p
    <3>4. IsLast(e, named)
      BY <3>3 DEF IsLast
    <3> DEFINE up == /\ p.rows[k].live
                     /\ \E f \in named : IsLast(f, named) /\ f.op = "upsert"
    <3>5. replica'[c][k] = [live |-> up, ver |-> p.rows[k].ver]
      BY <1>1, <2>2 DEF Applied
    <3> HIDE DEF named
    <3>6. CASE table[k].scope \in ScopesOf[c]
      <4>1. p.rows[k].live = TRUE /\ p.rows[k].ver = table[k].ver
        BY <3>1, <3>6 DEF Matches
      <4>2. \E f \in named : IsLast(f, named) /\ f.op = "upsert"
        BY <3>1, <3>2, <3>4, <3>6
      <4>3. up = TRUE
        BY <4>1, <4>2
      <4> HIDE DEF up
      <4>4. QED
        BY <3>5, <3>6, <4>1, <4>3 DEF Matches
    <3>7. CASE table[k].scope \notin ScopesOf[c]
      <4>1. ~ p.rows[k].live
        BY <3>1, <3>7 DEF Matches
      <4>2. up = FALSE
        BY <4>1
      <4> HIDE DEF up
      <4>3. QED
        BY <3>5, <3>7, <4>2 DEF Matches
    <3>8. QED
      BY <3>6, <3>7
  <2>3. QED
    BY <2>1, <2>2
<1>6. ASSUME NEW k \in Row, Clear(c, cursor[c], k)'
      PROVE  Matches(c, Base(c)[k], k)'
  <2>1. Clear(c, p.cursor, k)
    BY <1>1, <1>6 DEF Clear, serverVars
  <2>2. Matches(c, replica'[c][k], k)
    BY <1>2, <1>5, <2>1
  <2>3. QED
    BY <1>1, <1>3, <2>2 DEF Matches, serverVars
<1>7. Following(c)'
  BY <1>1, <1>4, <1>6 DEF Following
<1>8. QED
  BY <1>1, <1>7 DEF FollowInv, Paging

\* A cursor expired: the client starts over, with nothing.
LEMMA ExpireFollow ==
  ASSUME TypeOK, LogInv, NEW c \in Client, PullExpired(c)
  PROVE  FollowInv(c)'
<1>1. /\ cursor'[c] = Zero /\ resync'[c] = TRUE /\ pull'[c].stage = "idle"
      /\ UNCHANGED serverVars
  BY DEF PullExpired, TypeOK
<1>2. \A k \in Row : ~ Base(c)'[k].live
  BY <1>1 DEF Base, NoRows, NoCopy
<1>3. ASSUME NEW k \in Row, Clear(c, cursor[c], k)'
      PROVE  Matches(c, Base(c)[k], k)'
  <2>1. Clear(c, Zero, k)
    BY <1>1, <1>3 DEF Clear, serverVars
  <2>2. table'[k].scope \notin ScopesOf[c]
    BY <1>1, <2>1, NothingAtZero DEF serverVars
  <2>3. QED
    BY <1>2, <2>2 DEF Matches
<1>4. QED
  BY <1>1, <1>2, <1>3 DEF FollowInv, Following, Paging

\* Whatever its clients do, a client whose rows stay is right.
LEMMA ClientFollow ==
  ASSUME TypeOK, (TypeOK /\ LogInv)', LogInv, ClientNext,
         NEW c \in Client, RowsStay(c), FollowInv(c)
  PROVE  FollowInv(c)'
<1>1. PICK d \in Client : \/ PullPage(d) \/ Materialize(d) \/ LosePull(d)
                          \/ PullExpired(d) \/ ApplyPull(d)
  BY DEF ClientNext
<1>2. UNCHANGED serverVars
  BY <1>1 DEF PullPage, Materialize, LosePull, PullExpired, ApplyPull
<1>3. CASE UNCHANGED <<cursor[c], resync[c], replica[c], pull[c]>>
  <2>1. \A p, k : Clear(c, p, k)' => Clear(c, p, k) /\ SameRow(c, k)
    BY <1>2 DEF Clear, SameRow, serverVars
  <2>2. QED
    BY <1>3, <2>1, FollowKept
<1>4. CASE d # c
  BY <1>1, <1>3, <1>4
     DEF PullPage, Materialize, LosePull, PullExpired, ApplyPull, TypeOK
<1>5. CASE LosePull(c)
  <2>1. /\ pull'[c].stage = "idle"
        /\ UNCHANGED <<serverVars, cursor, resync, replica>>
    BY <1>5 DEF LosePull, TypeOK, Idle
  <2>2. Following(c)'
    BY <2>1 DEF FollowInv, Following, Base, Clear, Matches, serverVars
  <2>3. QED
    BY <2>1, <2>2 DEF FollowInv, Paging
<1>6. QED
  BY <1>1, <1>4, <1>5, PageFollow, FetchFollow, ExpireFollow, ApplyFollow

\* As long as rows stay, every client is right.
LEMMA FollowInvariant ==
  Spec /\ [](\A c \in Client : RowsStay(c)) => [](\A c \in Client : FollowInv(c))
<1> DEFINE Stay == \A c \in Client : RowsStay(c)
           Right == \A c \in Client : FollowInv(c)
<1>1. Init => Right
  <2> SUFFICES ASSUME Init, NEW c \in Client PROVE FollowInv(c)
    OBVIOUS
  <2>1. /\ \A k \in Row : table[k].scope \notin ScopesOf[c]
        /\ \A k \in Row : ~ replica[c][k].live
        /\ cursor[c] = Zero /\ resync[c] = FALSE /\ pull[c].stage = "idle"
    BY ConstantsAssumption DEF Init, NoRow, NoRows, NoCopy, Idle
  <2>2. QED
    BY <2>1 DEF FollowInv, Following, Paging, Base, Matches
<1>2. TypeOK /\ GateInv /\ LogInv /\ DraftInv /\ Stay /\ Right
        /\ [Next]_vars /\ (TypeOK /\ LogInv)' => Right'
  <2> SUFFICES ASSUME TypeOK, GateInv, LogInv, DraftInv, Stay, Right,
                      [Next]_vars, (TypeOK /\ LogInv)', NEW c \in Client
               PROVE  FollowInv(c)'
    OBVIOUS
  <2>1. RowsStay(c) /\ FollowInv(c)
    OBVIOUS
  <2>2. CASE UNCHANGED vars
    BY <2>1, <2>2
       DEF FollowInv, Following, Paging, PageKeys, PageRow, Names, Clear,
           Matches, Base, vars, serverVars, clientVars
  <2>3. QED
    BY <2>1, <2>2, ServerFollow, ClientFollow DEF Next
<1> HIDE DEF Stay, Right
<1>3. Spec /\ []Stay => []Right
  BY <1>1, <1>2, TypeCorrect, GateHolds, LogNamesRows, PTL DEF Spec
<1>4. QED
  BY <1>3 DEF Stay, Right

\* As long as no row goes from one scope of a client to another of the same
\* client, every client agrees with the server about every row that has no
\* change ahead of its cursor: no late commit, compaction, page boundary,
\* fetch after the snapshot, lost answer, purge or resync ever loses it a
\* write (server/pull.rs). The finding on PAGE_SQL is about a row that does.
THEOREM StayingRowsCaughtUp == Spec => CaughtUpWhileRowsStay
<1>1. ASSUME \A c \in Client : FollowInv(c) PROVE CaughtUp
  <2> SUFFICES ASSUME NEW c \in Client, NEW k \in Row, Settled(c, k)
               PROVE  Agrees(c, k)
    BY DEF CaughtUp
  <2>1. Clear(c, cursor[c], k) /\ Base(c) = replica[c]
    BY DEF Settled, CursorExpired, Clear, Base
  <2>2. Matches(c, replica[c][k], k)
    BY <1>1, <2>1 DEF FollowInv, Following
  <2>3. QED
    BY <2>2 DEF Matches, Agrees
<1>2. QED
  BY <1>1, FollowInvariant, PTL DEF CaughtUpWhileRowsStay

\* A client whose principal has one scope has no two to take a row between.
COROLLARY OneScopeCaughtUp ==
  (\A c \in Client : OneScope(c)) => (Spec => []CaughtUp)
<1> SUFFICES ASSUME \A c \in Client : OneScope(c) PROVE Spec => []CaughtUp
  OBVIOUS
<1>1. \A c \in Client : RowsStay(c)
  BY DEF RowsStay, OneScope
<1>2. QED
  BY <1>1, StayingRowsCaughtUp, PTL DEF CaughtUpWhileRowsStay
=============================================================================
