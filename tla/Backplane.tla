----------------------------- MODULE Backplane -----------------------------
(***************************************************************************)
(* Subscriptions to model events on one replica: notifications that the    *)
(* writing transactions leave at commit (cratestack-sqlx,                  *)
(* descriptor/event_enqueue.rs), the one listening connection              *)
(* (backplane/pg_notify.rs), the local fan-out (cratestack-core,           *)
(* backplane/local_hub.rs) and the feeds that read it (cratestack-axum,    *)
(* rpc/model_feed.rs).  Notifications are numbered in commit order, which  *)
(* is the order Postgres delivers them in, so a queue is a set of numbers. *)
(***************************************************************************)
EXTENDS Integers, FiniteSets

CONSTANTS
  Channel,   \* backplane channels, one per model
  Sub,       \* subscriptions, each opened at most once
  Capacity,  \* unread messages a receiver may fall behind by
  MaxEvent   \* bound: notifications

ASSUME BackplaneAssumption ==
  /\ Capacity \in Nat \ {0}
  /\ MaxEvent \in Nat

VARIABLES
  channelOf,  \* the channel of each notification, past and future
  committed,  \* how many have been committed
  conn,       \* the listener's connection
  wire,       \* notifications on their way to it
  reading,    \* those whose payload the listener reads from the outbox
  channels,   \* channels the hub has a sender for
  attached,   \* subscriptions that hold a receiver of their channel's sender
  feed,       \* where each subscription is
  topic,      \* its channel
  unread,     \* its receiver's queue
  ending,     \* what its receiver will end with
  got,        \* notifications its client was sent
  since,      \* ghost: what was committed when it went live
  online      \* ghost: subscriptions that went live under a connection

hub == <<channels, attached, unread, ending>>
ghosts == <<since, online>>
vars == <<channelOf, committed, conn, wire, reading, hub, feed, topic, got, ghosts>>

Event == 1 .. MaxEvent

\* conn is "none" before the first subscription, "lost" until the listener
\* notices, and "down" from then until it has reconnected.
Conn == {"none", "up", "lost", "down"}

\* "attaching" holds a receiver and waits for LISTEN; "told" got its error
\* frame; "closed" was left by its client, or refused.
Feed == {"new", "attaching", "live", "told", "closed"}

IsOldest(i, S) == i \in S /\ \A j \in S : i <= j

-----------------------------------------------------------------------------
Init ==
  /\ channelOf \in [Event -> Channel]
  /\ committed = 0
  /\ conn = "none"
  /\ wire = {} /\ reading = {}
  /\ channels = {} /\ attached = {}
  /\ feed = [s \in Sub |-> "new"]
  /\ topic \in [Sub -> Channel]
  /\ unread = [s \in Sub |-> {}]
  /\ ending = [s \in Sub |-> "no"]
  /\ got = [s \in Sub |-> {}]
  /\ since = [s \in Sub |-> 0]
  /\ online = {}

\* A transaction with n notifications commits: its notifications go to every
\* session that listens.  One that aborts sends nothing.
Commit(n) ==
  /\ committed + n <= MaxEvent
  /\ committed' = committed + n
  /\ wire' = IF conn = "up" THEN wire \cup (committed + 1 .. committed + n) ELSE wire
  /\ UNCHANGED <<channelOf, conn, reading, hub, feed, topic, got, ghosts>>

(* The hub. *)

Full(s) == Cardinality(unread[s]) >= Capacity

Receivers(c) == {s \in attached : topic[s] = c}

\* A receiver that is full loses a message, and is told before it reads another.
\* One that ends in a resync reads nothing sent after it, but may still overflow.
Sent(S, i) ==
  /\ unread' = [s \in Sub |->
       IF s \in S /\ ending[s] = "no" /\ ~ Full(s)
         THEN unread[s] \cup {i} ELSE unread[s]]
  /\ \E full \in SUBSET S :
       /\ {s \in S : ending[s] = "no" /\ Full(s)} \subseteq full
       /\ full \subseteq {s \in S : ending[s] # "no" \/ Full(s)}
       /\ ending' = [s \in Sub |-> IF s \in full THEN "lagged" ELSE ending[s]]

\* Mutant of Resynced: the message is not sent to a receiver that is full.
ResyncedIfRoom(S) ==
  ending' = [s \in Sub |-> IF s \in S /\ ~ Full(s) THEN "resync"
                           ELSE ending[s]]

\* Receivers are told that messages may be lost, after what they have unread.
Resynced(S) ==
  ending' = [s \in Sub |->
    IF s \notin S THEN ending[s]
    ELSE IF Full(s) THEN "lagged"
    ELSE IF ending[s] = "no" THEN "resync" ELSE ending[s]]

\* LocalHub::deliver, which forgets a channel nobody is subscribed to.
Deliver(i) ==
  LET c == channelOf[i] IN
  /\ channels' = IF Receivers(c) = {} THEN channels \ {c} ELSE channels
  /\ Sent(Receivers(c), i)
  /\ UNCHANGED attached

\* LocalHub::resync: the sender goes, its receivers end.
Resync(c) ==
  /\ channels' = channels \ {c}
  /\ Resynced(Receivers(c))
  /\ attached' = attached \ Receivers(c)
  /\ UNCHANGED unread

\* LocalHub::resync_all, which keeps the senders that have receivers.
ResyncAll ==
  /\ channels' = {c \in channels : Receivers(c) # {}}
  /\ Resynced(attached)
  /\ UNCHANGED <<attached, unread>>

(* The listener. *)

\* Mutant of Lost: a lost connection is not noticed, and taken up again.
LostUnnoticed == "down"

\* What the listener's connection is once it breaks.
Lost == "lost"

\* It breaks; of what was on its way, a part still arrives.
Disconnect ==
  /\ conn = "up"
  /\ conn' = Lost
  /\ \E last \in 0 .. committed : wire' = {i \in wire : i <= last}
  /\ UNCHANGED <<channelOf, committed, reading, hub, feed, topic, got, ghosts>>

\* Mutant of Receive: the listener goes on while it reads a payload.
ReceiveAhead ==
  /\ \E i \in wire :
       /\ IsOldest(i, wire)
       /\ wire' = wire \ {i}
       /\ \/ Deliver(i) /\ UNCHANGED reading
          \/ reading' = reading \cup {i} /\ UNCHANGED hub
  /\ UNCHANGED <<channelOf, committed, conn, feed, topic, got, ghosts>>

\* A notification that carries its payload, or one whose payload is to be read.
Receive ==
  /\ reading = {}
  /\ \E i \in wire :
       /\ IsOldest(i, wire)
       /\ wire' = wire \ {i}
       /\ \/ Deliver(i) /\ UNCHANGED reading
          \/ reading' = {i} /\ UNCHANGED hub
  /\ UNCHANGED <<channelOf, committed, conn, feed, topic, got, ghosts>>

\* The outbox row is read, or cannot be.
Fetched ==
  /\ \E i \in reading :
       /\ Deliver(i) \/ Resync(channelOf[i])
       /\ reading' = reading \ {i}
  /\ UNCHANGED <<channelOf, committed, conn, wire, feed, topic, got, ghosts>>

\* try_recv returns Ok(None).
Notice ==
  /\ conn = "lost"
  /\ wire = {} /\ reading = {}
  /\ conn' = "down"
  /\ ResyncAll
  /\ UNCHANGED <<channelOf, committed, wire, reading, feed, topic, got, ghosts>>

\* The next try_recv connects and listens again, and reports nothing of it.
Reconnect ==
  /\ conn = "down"
  /\ reading = {}
  /\ conn' = "up"
  /\ UNCHANGED <<channelOf, committed, wire, reading, hub, feed, topic, got, ghosts>>

\* Or it fails, and is tried again after a second.
ReconnectFails ==
  /\ conn = "down"
  /\ ResyncAll
  /\ UNCHANGED <<channelOf, committed, conn, wire, reading, feed, topic, got, ghosts>>

(* Subscriptions. *)

\* LocalHub::subscribe, the first half of PgNotifyBackplane's.
Attach(s) ==
  /\ feed[s] = "new"
  /\ feed' = [feed EXCEPT ![s] = "attaching"]
  /\ channels' = channels \cup {topic[s]}
  /\ attached' = attached \cup {s}
  /\ UNCHANGED <<channelOf, committed, conn, wire, reading, unread, ending, topic, got, ghosts>>

\* Mutant of Ended: the receiver outlives its feed.
EndedAttached(s, how) ==
  /\ feed' = [feed EXCEPT ![s] = how]
  /\ UNCHANGED <<channelOf, committed, conn, wire, reading, hub, topic, got, ghosts>>

\* The feed ends, and its receiver goes with what it had unread.
Ended(s, how) ==
  /\ feed' = [feed EXCEPT ![s] = how]
  /\ attached' = attached \ {s}
  /\ unread' = [unread EXCEPT ![s] = {}]
  /\ ending' = [ending EXCEPT ![s] = "no"]
  /\ UNCHANGED <<channelOf, committed, conn, wire, reading, channels, topic, got, ghosts>>

\* ensure_listening: the first subscription connects, the others find it done.
Live(s) ==
  /\ feed[s] = "attaching"
  /\ conn' = IF conn = "none" THEN "up" ELSE conn
  /\ feed' = [feed EXCEPT ![s] = "live"]
  /\ since' = [since EXCEPT ![s] = committed]
  /\ online' = IF conn # "down" THEN online \cup {s} ELSE online
  /\ UNCHANGED <<channelOf, committed, wire, reading, hub, topic, got>>

\* No connection could be had, or the client leaves: the stream is dropped, and its
\* receiver with it.
Leave(s) ==
  /\ feed[s] \in {"attaching", "live"}
  /\ Ended(s, "closed")

\* The feed sends its client the next message.
Forward(s) ==
  /\ feed[s] = "live"
  /\ ending[s] # "lagged"
  /\ \E i \in unread[s] :
       /\ IsOldest(i, unread[s])
       /\ unread' = [unread EXCEPT ![s] = @ \ {i}]
       /\ got' = [got EXCEPT ![s] = @ \cup {i}]
  /\ UNCHANGED <<channelOf, committed, conn, wire, reading, channels, attached, ending,
                 feed, topic, ghosts>>

\* Or its error frame, the last one.
Told(s) ==
  /\ feed[s] = "live"
  /\ ending[s] = "lagged" \/ (ending[s] = "resync" /\ unread[s] = {})
  /\ Ended(s, "told")

Next ==
  \/ \E n \in 1 .. 2 : Commit(n)
  \/ Disconnect \/ Receive \/ Fetched \/ Notice \/ Reconnect \/ ReconnectFails
  \/ \E s \in Sub : Attach(s) \/ Live(s) \/ Leave(s) \/ Forward(s) \/ Told(s)

\* The listener's task and the feeds run.
Fairness ==
  /\ WF_vars(Receive) /\ WF_vars(Fetched) /\ WF_vars(Notice)
  /\ \A s \in Sub : WF_vars(Forward(s)) /\ WF_vars(Told(s))

Spec == Init /\ [][Next]_vars /\ Fairness

-----------------------------------------------------------------------------
TypeOK ==
  /\ channelOf \in [Event -> Channel]
  /\ committed \in 0 .. MaxEvent
  /\ conn \in Conn
  /\ wire \subseteq Event /\ reading \subseteq Event
  /\ channels \subseteq Channel
  /\ attached \subseteq {s \in Sub : feed[s] \in {"attaching", "live"} /\ topic[s] \in channels}
  /\ feed \in [Sub -> Feed]
  /\ topic \in [Sub -> Channel]
  /\ unread \in [Sub -> SUBSET Event]
  /\ ending \in [Sub -> {"no", "resync", "lagged"}]
  /\ got \in [Sub -> SUBSET Event]
  /\ since \in [Sub -> 0 .. MaxEvent]
  /\ online \subseteq Sub

\* What a subscription is owed: its channel's notifications from when it went
\* live.
Owed(s) == {i \in Event : since[s] < i /\ i <= committed /\ channelOf[i] = topic[s]}

\* It is going to be told that it may have missed some.
Doomed(s) == ending[s] # "no" \/ conn = "lost"

\* The client was sent it, or has it before it.
Kept(s) == got[s] \cup unread[s] \cup reading \cup wire

NoGap(s) == feed[s] = "live" => Doomed(s) \/ Owed(s) \subseteq Kept(s)

\* A subscription that went live while the listener was connected has every
\* notification of its channel sent or on its way, in the face of a lost
\* connection, an unreadable payload, a full buffer and channels forgotten and
\* made again; or it is going to be told (backplane.rs: "a stream with a silent
\* gap" is what Resync and Lagged are for).
NoSilentGap == \A s \in online : NoGap(s)

\* The same of every subscription, the ones opened while the listener
\* reconnects included (subscribe: "nothing delivered after this returns can be
\* missed").
NothingMissed == \A s \in Sub : NoGap(s)

\* Notifications reach a client in commit order and without duplicates, those
\* read from the outbox included.
InOrder ==
  [][\A s \in Sub : \A i \in got'[s] \ got[s] : \A j \in got[s] : j < i]_vars

\* What a client is owed it is sent, unless it is told or leaves.
Hears ==
  \A s \in Sub : \A i \in Event :
    (s \in online /\ feed[s] = "live" /\ i \in Owed(s))
      ~> (i \in got[s] \/ feed[s] \in {"told", "closed"})
=============================================================================
