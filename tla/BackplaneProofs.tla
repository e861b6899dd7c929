-------------------------- MODULE BackplaneProofs --------------------------
(***************************************************************************)
(* For any channels, subscriptions, buffer size and number of events:      *)
(* a subscription opened under a connection has no silent gap, and every   *)
(* client is sent its events once, in commit order.                        *)
(***************************************************************************)
EXTENDS Backplane, TLAPS

Types ==
  /\ channelOf \in [Event -> Channel]
  /\ committed \in Nat
  /\ conn \in Conn
  /\ wire \subseteq 1 .. committed /\ reading \subseteq 1 .. committed
  /\ committed <= MaxEvent
  /\ feed \in [Sub -> Feed]
  /\ topic \in [Sub -> Channel]
  /\ unread \in [Sub -> SUBSET (1 .. committed)]
  /\ got \in [Sub -> SUBSET (1 .. committed)]
  /\ ending \in [Sub -> {"no", "resync", "lagged"}]
  /\ since \in [Sub -> Nat]
  /\ attached \subseteq Sub
  /\ online \subseteq Sub

\* What a client was sent is older than what its receiver holds, which is
\* older than what the listener reads, which is older than what is to come.
Ordered ==
  /\ \A s \in Sub : \A j \in got[s] : \A k \in unread[s] : j < k
  /\ \A s \in Sub : \A j \in got[s] \cup unread[s] : \A k \in reading \cup wire : j < k
  /\ \A i, j \in reading : i = j
  /\ \A i \in reading : \A j \in wire : i < j

\* A feed that has no end in sight is attached, and no feed is live before the
\* listener's first connection.
Attached ==
  /\ \A s \in Sub : feed[s] \in {"attaching", "live"} /\ ending[s] = "no" => s \in attached
  /\ conn = "none" => \A s \in Sub : feed[s] # "live"
  /\ \A s \in online : feed[s] # "new" /\ feed[s] # "attaching"

\* Once the loss of a connection was noticed, every feed it served will end.
DownIsTold ==
  conn = "down" => \A s \in online : feed[s] = "live" => ending[s] # "no"

Inv == Types /\ Ordered /\ Attached /\ DownIsTold /\ NoSilentGap

LEMMA InitInv == Init => Inv
<1> SUFFICES ASSUME Init PROVE Inv
  OBVIOUS
<1>1. Types
  BY BackplaneAssumption DEF Init, Types, Conn, Feed, Event
<1>2. Ordered /\ Attached /\ DownIsTold /\ NoSilentGap
  BY DEF Init, Ordered, Attached, DownIsTold, NoSilentGap
<1> QED BY <1>1, <1>2 DEF Inv

-----------------------------------------------------------------------------
(* The hub. *)

\* A message reaches every receiver of its channel that is not to be told of a
\* loss, and nobody else.
LEMMA SentReaches ==
  ASSUME Inv, NEW S \in SUBSET Sub, NEW i \in 1 .. committed, Sent(S, i)
  PROVE  /\ unread' \in [Sub -> SUBSET (1 .. committed)]
         /\ ending' \in [Sub -> {"no", "resync", "lagged"}]
         /\ \A s \in Sub : unread[s] \subseteq unread'[s] /\ unread'[s] \subseteq unread[s] \cup {i}
         /\ \A s \in Sub : ending[s] # "no" => ending'[s] # "no"
         /\ \A s \in S : ending'[s] # "no" \/ i \in unread'[s]
<1>0. Types
  BY DEF Inv
<1>1. PICK full \in SUBSET S :
        /\ {s \in S : ending[s] = "no" /\ Full(s)} \subseteq full
        /\ ending' = [s \in Sub |-> IF s \in full THEN "lagged" ELSE ending[s]]
  BY DEF Sent
<1>2. unread' = [s \in Sub |->
        IF s \in S /\ ending[s] = "no" /\ ~ Full(s)
          THEN unread[s] \cup {i} ELSE unread[s]]
  BY DEF Sent
<1>3. \A s \in S : s \notin full /\ ending[s] = "no" => i \in unread'[s]
  BY <1>1, <1>2
<1>4. unread' \in [Sub -> SUBSET (1 .. committed)]
  BY <1>0, <1>2 DEF Types
<1>5. ending' \in [Sub -> {"no", "resync", "lagged"}]
  BY <1>0, <1>1 DEF Types
<1> QED BY <1>0, <1>1, <1>2, <1>3, <1>4, <1>5 DEF Types

\* A resync ends every receiver it is sent to.
LEMMA ResyncedEnds ==
  ASSUME Inv, NEW S \in SUBSET Sub, Resynced(S)
  PROVE  /\ ending' \in [Sub -> {"no", "resync", "lagged"}]
         /\ \A s \in Sub : ending[s] # "no" => ending'[s] # "no"
         /\ \A s \in S : ending'[s] # "no"
  BY DEF Resynced, Inv, Types

\* Inv' when only the hub's queues may have grown by one message, from what
\* was being read or on the wire.
LEMMA DeliverInv ==
  ASSUME Inv, NEW i \in reading \cup wire, Deliver(i),
         \A j \in (reading \cup wire) \ {i} : i < j,
         reading' \cup wire' = (reading \cup wire) \ {i},
         reading' = {}, wire' \subseteq wire,
         UNCHANGED <<channelOf, committed, conn, feed, topic, got, ghosts>>
  PROVE  Inv'
<1>1. i \in 1 .. committed
  BY DEF Inv, Types
<1>2. PICK S \in SUBSET Sub : S = Receivers(channelOf[i]) /\ Sent(S, i)
  BY DEF Deliver, Receivers, Inv, Types
<1>3. /\ unread' \in [Sub -> SUBSET (1 .. committed)]
      /\ ending' \in [Sub -> {"no", "resync", "lagged"}]
      /\ \A s \in Sub : unread[s] \subseteq unread'[s] /\ unread'[s] \subseteq unread[s] \cup {i}
      /\ \A s \in Sub : ending[s] # "no" => ending'[s] # "no"
      /\ \A s \in S : ending'[s] # "no" \/ i \in unread'[s]
  BY <1>1, <1>2, SentReaches
<1>4. Types'
  BY <1>3 DEF Inv, Types, Deliver, ghosts
<1>5. Ordered'
  <2>1. got' = got /\ reading' = {} /\ wire' \subseteq (reading \cup wire) \ {i}
    OBVIOUS
  <2>2. \A s \in Sub : \A j \in got[s] \cup unread[s] : j < i
    BY DEF Inv, Ordered
  <2>3. \A s \in Sub : \A j \in got'[s] : \A k \in unread'[s] : j < k
    BY <1>3, <2>1, <2>2 DEF Inv, Ordered
  <2>4. \A s \in Sub : \A j \in got'[s] \cup unread'[s] : \A k \in wire' : j < k
    <3> SUFFICES ASSUME NEW s \in Sub, NEW j \in got[s] \cup unread'[s], NEW k \in wire'
                 PROVE  j < k
      BY <2>1
    <3>1. k \in reading \cup wire /\ i < k
      BY <2>1
    <3>2. CASE j = i
      BY <3>1, <3>2
    <3>3. CASE j # i
      BY <1>3, <3>1, <3>3 DEF Inv, Ordered
    <3> QED BY <3>2, <3>3
  <2> QED BY <2>1, <2>3, <2>4 DEF Ordered
<1>6. Attached' /\ DownIsTold'
  BY <1>3 DEF Inv, Types, Attached, DownIsTold, Deliver, ghosts
<1>7. NoSilentGap'
  <2> SUFFICES ASSUME NEW s \in online, feed[s] = "live", ~ Doomed(s)', NEW j \in Owed(s)
               PROVE  j \in Kept(s)'
    BY DEF NoSilentGap, NoGap, Owed, Doomed, ghosts
  <2>1. s \in Sub /\ ending[s] = "no" /\ ~ Doomed(s)
    BY <1>3 DEF Doomed, Inv, Types
  <2>2. j \in Kept(s)
    BY <2>1 DEF Inv, NoSilentGap, NoGap
  <2>3. CASE j = i
    <3>1. s \in S
      BY <1>2, <2>1, <2>3 DEF Owed, Receivers, Inv, Attached
    <3> QED BY <1>3, <2>1, <2>3, <3>1 DEF Doomed, Kept
  <2>4. CASE j # i
    BY <1>3, <2>1, <2>2, <2>4 DEF Kept
  <2> QED BY <2>3, <2>4
<1> QED BY <1>4, <1>5, <1>6, <1>7 DEF Inv

\* The same when a channel's receivers are told to resync instead.
LEMMA ResyncInv ==
  ASSUME Inv, NEW i \in reading, Resync(channelOf[i]),
         reading' = {}, wire' = wire, reading = {i},
         UNCHANGED <<channelOf, committed, conn, feed, topic, got, ghosts>>
  PROVE  Inv'
<1>1. PICK S \in SUBSET Sub : S = Receivers(channelOf[i]) /\ Resynced(S)
  BY DEF Resync, Receivers, Inv, Types
<1>2. /\ ending' \in [Sub -> {"no", "resync", "lagged"}]
      /\ \A s \in Sub : ending[s] # "no" => ending'[s] # "no"
      /\ \A s \in S : ending'[s] # "no"
  BY <1>1, ResyncedEnds
<1>3. unread' = unread /\ attached' = attached \ S
  BY <1>1 DEF Resync
<1>4. Types' /\ Ordered'
  BY <1>2, <1>3 DEF Inv, Types, Ordered, ghosts
<1>5. Attached' /\ DownIsTold'
  BY <1>2, <1>3 DEF Inv, Types, Attached, DownIsTold, ghosts
<1>6. NoSilentGap'
  <2> SUFFICES ASSUME NEW s \in online, feed[s] = "live", ~ Doomed(s)', NEW j \in Owed(s)
               PROVE  j \in Kept(s)'
    BY DEF NoSilentGap, NoGap, Owed, Doomed, ghosts
  <2>1. s \in Sub /\ ending[s] = "no" /\ ~ Doomed(s)
    BY <1>2 DEF Doomed, Inv, Types
  <2>2. j \in Kept(s)
    BY <2>1 DEF Inv, NoSilentGap, NoGap
  <2>3. j # i
    BY <1>1, <1>2, <2>1 DEF Owed, Receivers, Inv, Attached, Doomed
  <2> QED BY <1>3, <2>2, <2>3 DEF Kept
<1> QED BY <1>4, <1>5, <1>6 DEF Inv

\* And when every receiver is: whatever becomes of the connection, no feed
\* goes on without being told.
LEMMA ResyncAllInv ==
  ASSUME Inv, ResyncAll, conn # "none", conn' = "down",
         UNCHANGED <<channelOf, committed, wire, reading, feed, topic, got, ghosts>>
  PROVE  Inv'
<1>1. attached \in SUBSET Sub
  BY DEF Inv, Types
<1>2. /\ ending' \in [Sub -> {"no", "resync", "lagged"}]
      /\ \A s \in Sub : ending[s] # "no" => ending'[s] # "no"
      /\ \A s \in attached : ending'[s] # "no"
      /\ UNCHANGED <<attached, unread>>
  BY <1>1, ResyncedEnds DEF ResyncAll
<1>3. \A s \in Sub : feed[s] = "live" => ending'[s] # "no"
  BY <1>2 DEF Inv, Attached
<1>4. Types' /\ Ordered'
  BY <1>2 DEF Inv, Types, Conn, Ordered, ghosts
<1>5. Attached' /\ DownIsTold' /\ NoSilentGap'
  BY <1>2, <1>3 DEF Inv, Types, Attached, DownIsTold, NoSilentGap, NoGap, Doomed, ghosts
<1> QED BY <1>4, <1>5 DEF Inv

\* A feed that ends takes its obligations with it.
LEMMA EndedInv ==
  ASSUME Inv, NEW s \in Sub, NEW how \in {"told", "closed"}, Ended(s, how)
  PROVE  Inv'
<1>1. /\ feed'[s] = how /\ \A t \in Sub \ {s} : feed'[t] = feed[t]
      /\ unread'[s] = {} /\ \A t \in Sub \ {s} : unread'[t] = unread[t]
      /\ \A t \in Sub \ {s} : ending'[t] = ending[t]
      /\ attached' = attached \ {s}
      /\ UNCHANGED <<channelOf, committed, conn, wire, reading, topic, got, since, online>>
  BY DEF Ended, Inv, Types, ghosts
<1>2. Types'
  BY <1>1 DEF Ended, Inv, Types, Feed
<1>3. Ordered'
  BY <1>1 DEF Inv, Types, Ordered
<1>4. Attached' /\ DownIsTold'
  BY <1>1 DEF Inv, Types, Attached, DownIsTold
<1>5. NoSilentGap'
  BY <1>1 DEF Inv, Types, NoSilentGap, NoGap, Doomed, Owed, Kept
<1> QED BY <1>2, <1>3, <1>4, <1>5 DEF Inv

-----------------------------------------------------------------------------
(* Each step. *)

LEMMA NextInv == Inv /\ [Next]_vars => Inv'
<1> SUFFICES ASSUME Inv, [Next]_vars PROVE Inv'
  OBVIOUS
<1>1. ASSUME NEW n \in 1 .. 2, Commit(n) PROVE Inv'
  <2>1. /\ committed' = committed + n /\ committed' \in Nat /\ committed' <= MaxEvent
        /\ wire' \subseteq wire \cup (committed + 1 .. committed')
        /\ conn = "up" => wire' = wire \cup (committed + 1 .. committed')
        /\ wire \subseteq wire'
        /\ UNCHANGED <<channelOf, conn, reading, channels, attached, unread, ending,
                       feed, topic, got, since, online>>
    BY <1>1 DEF Commit, Inv, Types, hub, ghosts
  <2>2. Types'
    BY <2>1 DEF Inv, Types
  <2>3. Ordered'
    BY <2>1 DEF Inv, Types, Ordered
  <2>4. Attached' /\ DownIsTold'
    BY <2>1 DEF Inv, Attached, DownIsTold
  <2>5. NoSilentGap'
    <3> SUFFICES ASSUME NEW s \in online, feed[s] = "live", ~ Doomed(s), NEW j \in Owed(s)'
                 PROVE  j \in Kept(s)'
      BY <2>1 DEF NoSilentGap, NoGap, Doomed
    <3>1. s \in Sub /\ conn = "up"
      BY DEF Inv, Types, Conn, Attached, DownIsTold, Doomed
    <3>2. CASE j <= committed
      <4>1. j \in Owed(s)
        BY <2>1, <3>2 DEF Owed
      <4> QED BY <2>1, <3>1, <4>1 DEF Inv, NoSilentGap, NoGap, Kept
    <3>3. CASE ~ (j <= committed)
      BY <2>1, <3>1, <3>3 DEF Owed, Event, Kept, Inv, Types
    <3> QED BY <3>2, <3>3
  <2> QED BY <2>2, <2>3, <2>4, <2>5 DEF Inv
<1>2. CASE Disconnect
  <2>1. /\ conn' = "lost" /\ wire' \subseteq wire
        /\ UNCHANGED <<channelOf, committed, reading, channels, attached, unread, ending,
                       feed, topic, got, since, online>>
    BY <1>2 DEF Disconnect, Lost, hub, ghosts
  <2> QED BY <2>1 DEF Inv, Types, Conn, Ordered, Attached, DownIsTold, NoSilentGap, NoGap, Doomed
<1>3. CASE Receive
  <2>1. PICK i \in wire :
          /\ IsOldest(i, wire) /\ wire' = wire \ {i} /\ reading = {}
          /\ \/ Deliver(i) /\ UNCHANGED reading
             \/ reading' = {i} /\ UNCHANGED hub
    BY <1>3 DEF Receive
  <2>2. \A j \in wire \ {i} : i < j
    BY <2>1 DEF IsOldest, Inv, Types
  <2>3. CASE Deliver(i) /\ UNCHANGED reading
    BY <1>3, <2>1, <2>2, <2>3, DeliverInv DEF Receive
  <2>4. CASE reading' = {i} /\ UNCHANGED hub
    <3>1. UNCHANGED <<channelOf, committed, conn, channels, attached, unread, ending,
                      feed, topic, got, since, online>>
      BY <1>3, <2>4 DEF Receive, hub, ghosts
    <3>2. reading' \cup wire' = reading \cup wire
      BY <2>1, <2>4
    <3>3. Types'
      BY <2>1, <2>4, <3>1 DEF Inv, Types
    <3>4. Ordered'
      BY <2>1, <2>2, <2>4, <3>1, <3>2 DEF Inv, Ordered
    <3>5. NoSilentGap'
      BY <3>1, <3>2 DEF Inv, NoSilentGap, NoGap, Doomed, Owed, Kept
    <3> QED BY <3>1, <3>3, <3>4, <3>5 DEF Inv, Attached, DownIsTold
  <2> QED BY <2>1, <2>3, <2>4
<1>4. CASE Fetched
  <2>1. PICK i \in reading : (Deliver(i) \/ Resync(channelOf[i])) /\ reading' = reading \ {i}
    BY <1>4 DEF Fetched
  <2>2. reading = {i} /\ reading' = {} /\ wire' = wire
    BY <1>4, <2>1 DEF Fetched, Inv, Ordered
  <2>3. \A j \in wire : i < j
    BY DEF Inv, Ordered
  <2>4. i \notin wire
    BY <2>3 DEF Inv, Types
  <2>5. CASE Deliver(i)
    BY <1>4, <2>2, <2>3, <2>4, <2>5, DeliverInv DEF Fetched
  <2>6. CASE Resync(channelOf[i])
    BY <1>4, <2>2, <2>6, ResyncInv DEF Fetched
  <2> QED BY <2>1, <2>5, <2>6
<1>5. CASE Notice \/ ReconnectFails
  <2>1. conn # "none" /\ conn' = "down" /\ ResyncAll
        /\ UNCHANGED <<channelOf, committed, wire, reading, feed, topic, got, ghosts>>
    BY <1>5 DEF Notice, ReconnectFails
  <2> QED BY <2>1, ResyncAllInv
<1>6. CASE Reconnect
  <2>1. /\ conn = "down" /\ conn' = "up"
        /\ UNCHANGED <<channelOf, committed, wire, reading, channels, attached, unread, ending,
                       feed, topic, got, since, online>>
    BY <1>6 DEF Reconnect, hub, ghosts
  <2>2. Types' /\ Ordered' /\ Attached' /\ DownIsTold'
    BY <2>1 DEF Inv, Types, Conn, Ordered, Attached, DownIsTold
  <2>3. NoSilentGap'
    BY <2>1 DEF Inv, DownIsTold, NoSilentGap, NoGap, Doomed
  <2> QED BY <2>2, <2>3 DEF Inv
<1>7. ASSUME NEW s \in Sub, Attach(s) PROVE Inv'
  <2>1. /\ feed[s] = "new" /\ feed'[s] = "attaching" /\ attached' = attached \cup {s}
        /\ \A t \in Sub \ {s} : feed'[t] = feed[t]
        /\ feed' \in [Sub -> Feed]
        /\ UNCHANGED <<channelOf, committed, conn, wire, reading, unread, ending,
                       topic, got, since, online>>
    BY <1>7 DEF Attach, Inv, Types, Feed, ghosts
  <2>2. s \notin online
    BY <2>1 DEF Inv, Attached
  <2>3. Types' /\ Ordered' /\ Attached' /\ DownIsTold'
    BY <2>1, <2>2 DEF Inv, Types, Ordered, Attached, DownIsTold
  <2>4. NoSilentGap'
    BY <2>1, <2>2 DEF Inv, Types, NoSilentGap, NoGap, Doomed, Owed, Kept
  <2> QED BY <2>3, <2>4 DEF Inv
<1>8. ASSUME NEW s \in Sub, Live(s) PROVE Inv'
  <2>1. /\ feed[s] = "attaching" /\ feed'[s] = "live" /\ since'[s] = committed
        /\ \A t \in Sub \ {s} : feed'[t] = feed[t] /\ since'[t] = since[t]
        /\ feed' \in [Sub -> Feed] /\ since' \in [Sub -> Nat]
        /\ UNCHANGED <<channelOf, committed, wire, reading, channels, attached, unread, ending,
                       topic, got>>
    BY <1>8 DEF Live, Inv, Types, Feed, hub
  <2>2. /\ conn' # "none" /\ (conn # "none" => conn' = conn)
        /\ online \subseteq online' /\ online' \subseteq online \cup {s}
        /\ conn = "down" => online' = online
        /\ conn = "none" => conn' = "up"
    BY <1>8 DEF Live
  <2>3. s \notin online
    BY <2>1 DEF Inv, Attached
  <2>4. Owed(s)' = {}
    BY <2>1 DEF Owed, Event, Inv, Types
  <2>5. Types' /\ Ordered'
    BY <2>1, <2>2 DEF Inv, Types, Conn, Ordered
  <2>6. Attached' /\ DownIsTold'
    BY <2>1, <2>2, <2>3 DEF Inv, Types, Attached, DownIsTold
  <2>7. NoSilentGap'
    <3>0. NoGap(s)'
      BY <2>4 DEF NoGap
    <3> SUFFICES ASSUME NEW t \in online, t # s, feed'[t] = "live" PROVE NoGap(t)'
      BY <2>2, <3>0 DEF NoSilentGap, NoGap
    <3>1. t \in Sub /\ feed[t] = "live" /\ conn # "none" /\ Owed(t)' = Owed(t)
      BY <2>1 DEF Inv, Types, Attached, Owed
    <3> QED BY <2>1, <2>2, <3>1 DEF Inv, NoSilentGap, NoGap, Doomed, Kept
  <2> QED BY <2>5, <2>6, <2>7 DEF Inv
<1>9. ASSUME NEW s \in Sub, Leave(s) \/ Told(s) PROVE Inv'
  BY <1>9, EndedInv DEF Leave, Told
<1>10. ASSUME NEW s \in Sub, Forward(s) PROVE Inv'
  <2>1. PICK i \in unread[s] :
          /\ IsOldest(i, unread[s])
          /\ unread' = [unread EXCEPT ![s] = @ \ {i}]
          /\ got' = [got EXCEPT ![s] = @ \cup {i}]
    BY <1>10 DEF Forward
  <2>2. UNCHANGED <<channelOf, committed, conn, wire, reading, attached, ending,
                    feed, topic, since, online>>
    BY <1>10 DEF Forward, ghosts
  <2>3. /\ unread'[s] = unread[s] \ {i} /\ got'[s] = got[s] \cup {i}
        /\ \A t \in Sub \ {s} : unread'[t] = unread[t] /\ got'[t] = got[t]
        /\ unread' \in [Sub -> SUBSET (1 .. committed)] /\ got' \in [Sub -> SUBSET (1 .. committed)]
    BY <2>1 DEF Inv, Types
  <2>4. \A k \in unread'[s] : i < k
    BY <2>1, <2>3 DEF IsOldest, Inv, Types
  <2>5. Types'
    BY <2>2, <2>3 DEF Inv, Types
  <2>6. \A t \in Sub : got'[t] \cup unread'[t] = got[t] \cup unread[t]
    BY <2>1, <2>3
  <2>7. Ordered'
    BY <2>2, <2>3, <2>4, <2>6 DEF Inv, Ordered
  <2>8. Attached' /\ DownIsTold'
    BY <2>2 DEF Inv, Attached, DownIsTold
  <2>9. NoSilentGap'
    <3>1. \A t \in online : Kept(t)' = Kept(t)
      BY <2>2, <2>6 DEF Kept, Inv, Types
    <3> QED BY <2>2, <3>1 DEF Inv, NoSilentGap, NoGap, Doomed, Owed
  <2> QED BY <2>5, <2>7, <2>8, <2>9 DEF Inv
<1>11. CASE UNCHANGED vars
  BY <1>11 DEF vars, hub, ghosts, Inv, Types, Ordered, Attached, DownIsTold, NoSilentGap,
        NoGap, Doomed, Owed, Kept
<1> QED BY <1>1, <1>2, <1>3, <1>4, <1>5, <1>6, <1>7, <1>8, <1>9, <1>10, <1>11 DEF Next

\* A subscription that went live under a connection either has every event of
\* its channel sent, buffered or on its way, or is going to be told.
THEOREM NoGapGoesUntold == Spec => []NoSilentGap
<1>1. Inv => NoSilentGap
  BY DEF Inv
<1> QED BY <1>1, InitInv, NextInv, PTL DEF Spec

\* A client is sent its events in commit order, each once.
THEOREM SentInOrder == Spec => InOrder
<1> DEFINE Later == \A s \in Sub : \A i \in got'[s] \ got[s] : \A j \in got[s] : j < i
<1>1. Inv /\ [Next]_vars => [Later]_vars
  <2> SUFFICES ASSUME Inv, Next PROVE Later
    OBVIOUS
  <2>1. ASSUME NEW s \in Sub, Forward(s) PROVE Later
    <3>1. PICK i \in unread[s] : got' = [got EXCEPT ![s] = @ \cup {i}]
      BY <2>1 DEF Forward
    <3>2. \A t \in Sub : got'[t] \ got[t] \subseteq IF t = s THEN {i} ELSE {}
      BY <3>1 DEF Inv, Types
    <3> QED BY <3>2 DEF Inv, Ordered
  <2>2. CASE got' = got
    BY <2>2
  <2> QED BY <2>1, <2>2 DEF Next, Commit, Disconnect, Receive, Fetched, Notice, Reconnect,
             ReconnectFails, Attach, Live, Leave, Told, Ended
<1> QED BY <1>1, InitInv, NextInv, PTL DEF Spec, InOrder

-----------------------------------------------------------------------------
(* Receivers and senders. *)

\* A receiver belongs to a feed that is open, and reads from a sender the hub
\* still has.
HubInv ==
  /\ channels \subseteq Channel
  /\ \A s \in attached : feed[s] \in {"attaching", "live"} /\ topic[s] \in channels
  /\ \A s \in Sub : since[s] <= committed

\* What forgetting or resyncing channels does to them.
LEMMA HubKept ==
  ASSUME Inv, HubInv, UNCHANGED <<committed, feed, topic, since>>,
         \/ \E i \in reading \cup wire : Deliver(i) \/ Resync(channelOf[i])
         \/ ResyncAll
         \/ UNCHANGED <<channels, attached>>
  PROVE  HubInv'
<1>1. ASSUME NEW i \in reading \cup wire, Deliver(i) PROVE HubInv'
  BY <1>1 DEF Deliver, Receivers, HubInv
<1>2. ASSUME NEW i \in reading \cup wire, Resync(channelOf[i]) PROVE HubInv'
  BY <1>2 DEF Resync, Receivers, HubInv
<1>3. CASE ResyncAll
  BY <1>3 DEF ResyncAll, Receivers, HubInv
<1>4. CASE UNCHANGED <<channels, attached>>
  BY <1>4 DEF HubInv
<1> QED BY <1>1, <1>2, <1>3, <1>4

LEMMA HubNext == Inv /\ HubInv /\ [Next]_vars => HubInv'
<1> SUFFICES ASSUME Inv, HubInv, [Next]_vars PROVE HubInv'
  OBVIOUS
<1>0. Types
  BY DEF Inv
<1>1. ASSUME NEW n \in 1 .. 2, Commit(n) PROVE HubInv'
  BY <1>0, <1>1 DEF Commit, hub, ghosts, Types, HubInv
<1>2. CASE Disconnect \/ Receive \/ Fetched \/ Notice \/ Reconnect \/ ReconnectFails
  BY <1>2, HubKept DEF Disconnect, Receive, Fetched, Notice, Reconnect, ReconnectFails,
                       hub, ghosts
<1>3. ASSUME NEW s \in Sub, Attach(s) PROVE HubInv'
  BY <1>0, <1>3 DEF Attach, ghosts, Types, HubInv
<1>4. ASSUME NEW s \in Sub, Live(s) PROVE HubInv'
  BY <1>0, <1>4 DEF Live, hub, Types, HubInv
<1>5. ASSUME NEW s \in Sub, Leave(s) \/ Told(s) PROVE HubInv'
  BY <1>0, <1>5 DEF Leave, Told, Ended, ghosts, Types, HubInv
<1>6. ASSUME NEW s \in Sub, Forward(s) PROVE HubInv'
  BY <1>6, HubKept DEF Forward, ghosts
<1>7. CASE UNCHANGED vars
  BY <1>7, HubKept DEF vars, hub, ghosts
<1> QED BY <1>1, <1>2, <1>3, <1>4, <1>5, <1>6, <1>7 DEF Next

\* Every variable keeps its type: a feed that is done holds no receiver, and the
\* hub has a sender for every receiver, whatever channels it forgot or resynced
\* in between (local_hub.rs).
THEOREM TypeCorrect == Spec => []TypeOK
<1>1. Init => HubInv
  BY BackplaneAssumption DEF Init, HubInv
<1>2. Inv /\ HubInv => TypeOK
  <2> SUFFICES ASSUME Types, HubInv PROVE TypeOK
    BY DEF Inv
  <2>1. 1 .. committed \subseteq Event /\ committed \in 0 .. MaxEvent
    BY BackplaneAssumption DEF Types, Event
  <2>2. unread \in [Sub -> SUBSET Event] /\ got \in [Sub -> SUBSET Event]
    BY <2>1 DEF Types
  <2>3. since \in [Sub -> 0 .. MaxEvent]
    BY BackplaneAssumption DEF Types, HubInv
  <2> QED BY <2>1, <2>2, <2>3 DEF Types, HubInv, TypeOK
<1> QED BY <1>1, <1>2, InitInv, NextInv, HubNext, PTL DEF Spec
=============================================================================
