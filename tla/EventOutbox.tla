---------------------------- MODULE EventOutbox ----------------------------
(***************************************************************************)
(* The outbox of model events (cratestack-sqlx, descriptor/drain.rs): a    *)
(* write stores its event in its own transaction, and any replica drains   *)
(* the events not yet delivered to the handlers of the process             *)
(* (cratestack-core, events/bus.rs), then announces them to subscribers    *)
(* through a backplane the writing transaction does not notify itself.     *)
(* Events are numbered by occurred_at, the order a drain handles them in.  *)
(***************************************************************************)
EXTENDS Integers, FiniteSets

CONSTANTS
  Event,     \* events the service writes
  Drain,     \* calls of drain_event_outbox, of all replicas
  Handlers,  \* how many handlers the topic has in every process
  Rejected,  \* events its last handler never accepts
  MaxFault   \* bound: connections lost, calls dropped, accepted events rejected

ASSUME EventOutboxAssumption ==
  /\ Event \subseteq Nat
  /\ IsFiniteSet(Drain)
  /\ Handlers \in Nat \ {0}
  /\ Rejected \subseteq Event
  /\ MaxFault \in Nat

VARIABLES
  stored,     \* events whose row is committed
  delivered,  \* those with delivered_at
  tried,      \* those with attempts > 0
  owed,       \* committed writes that have yet to start their drain
  phase,      \* where each drain is
  todo,       \* rows it selected and has not finished
  accepted,   \* rows its transaction marks delivered
  refused,    \* rows its transaction leaves for a later drain
  fresh,      \* to_publish: rows it selected on their first attempt
  turn,       \* the handler its oldest row is with
  runs,       \* ghost: how often each handler has taken each event
  announced,  \* ghost: times each event was published
  faults

rows == <<stored, delivered, tried>>
batch == <<todo, accepted, refused, fresh, turn>>
vars == <<rows, owed, phase, batch, runs, announced, faults>>

Handler == 1 .. Handlers

\* "cut" has lost its connection and does not know; "committed" publishes.
Phase == {"idle", "open", "cut", "committed"}

IsOldest(e, S) == e \in S /\ \A f \in S : e <= f

Init ==
  /\ stored = {} /\ delivered = {} /\ tried = {}
  /\ owed = 0
  /\ phase = [d \in Drain |-> "idle"]
  /\ todo = [d \in Drain |-> {}]
  /\ accepted = [d \in Drain |-> {}]
  /\ refused = [d \in Drain |-> {}]
  /\ fresh = [d \in Drain |-> {}]
  /\ turn = [d \in Drain |-> 1]
  /\ runs = [e \in Event |-> [h \in Handler |-> 0]]
  /\ announced = [e \in Event |-> 0]
  /\ faults = 0

-----------------------------------------------------------------------------
\* A write's transaction, which inserted its event, commits; the call goes on
\* to drain the outbox.
Write(e) ==
  /\ e \notin stored
  /\ stored' = stored \cup {e}
  /\ owed' = owed + 1
  /\ UNCHANGED <<delivered, tried, phase, batch, runs, announced, faults>>

\* It is gone before that, or cannot begin a transaction: nobody looks at the
\* error, and nobody drains in its place.
Skip ==
  /\ owed > 0
  /\ faults < MaxFault
  /\ owed' = owed - 1
  /\ faults' = faults + 1
  /\ UNCHANGED <<rows, phase, batch, runs, announced>>

Selected(d) == todo[d] \cup accepted[d] \cup refused[d]

\* Rows locked by a drain's transaction, for as long as it is open.
Held(d) == IF phase[d] = "open" THEN Selected(d) ELSE {}

Undelivered == stored \ delivered

\* Mutant of Free: rows locked by another drain are not skipped.
FreeOrLocked == Undelivered

\* FOR UPDATE SKIP LOCKED.
Free == Undelivered \ UNION {Held(d) : d \in Drain}

\* The free rows are locked, each re-read as it is; first are those to publish.
Begin(d, first) ==
  /\ phase[d] = "idle"
  /\ phase' = [phase EXCEPT ![d] = "open"]
  /\ todo' = [todo EXCEPT ![d] = Free]
  /\ accepted' = [accepted EXCEPT ![d] = {}]
  /\ refused' = [refused EXCEPT ![d] = {}]
  /\ fresh' = [fresh EXCEPT ![d] = first]
  /\ turn' = [turn EXCEPT ![d] = 1]
  /\ UNCHANGED <<rows, runs, announced, faults>>

\* Mutant of Claim: rows a handler failed on are announced with their retry.
ClaimRetries(d) == Begin(d, Free)

Claim(d) == Begin(d, Free \ tried)

\* The drain of a write that has committed.
Drained(d) == owed > 0 /\ owed' = owed - 1 /\ Claim(d)

\* An explicit events().drain(), and the drains of writes not counted here.
Asked(d) == UNCHANGED owed /\ Claim(d)

\* One handler takes the row being emitted. Runs are not counted of events that
\* the last handler sends back each time.
Accept(d) ==
  /\ phase[d] \in {"open", "cut"}
  /\ turn[d] \in Handler
  /\ \E e \in todo[d] :
       /\ IsOldest(e, todo[d])
       /\ ~ (e \in Rejected /\ turn[d] = Handlers)
       /\ runs' = [runs EXCEPT ![e][turn[d]] =
                    IF e \in Rejected THEN 1 ELSE runs[e][turn[d]] + 1]
  /\ turn' = [turn EXCEPT ![d] = turn[d] + 1]
  /\ UNCHANGED <<rows, owed, phase, todo, accepted, refused, fresh, announced, faults>>

\* What becomes of the batch when the row at hand is finished.
Finished(d, e) ==
  /\ todo' = [todo EXCEPT ![d] = todo[d] \ {e}]
  /\ turn' = [turn EXCEPT ![d] = 1]
  /\ UNCHANGED <<rows, owed, phase, fresh, runs, announced>>

\* All handlers took it: the row is marked.
Mark(d) ==
  /\ phase[d] = "open"
  /\ turn[d] \notin Handler
  /\ \E e \in todo[d] :
       /\ IsOldest(e, todo[d])
       /\ accepted' = [accepted EXCEPT ![d] = accepted[d] \cup {e}]
       /\ Finished(d, e)
  /\ UNCHANGED <<refused, faults>>

\* A handler fails on row e, and those after it do not run.
HandlerFails(d, e) ==
  /\ phase[d] = "open"
  /\ turn[d] \in Handler
  /\ IsOldest(e, todo[d])
  /\ IF e \in Rejected /\ turn[d] = Handlers
       THEN faults' = faults
       ELSE faults < MaxFault /\ faults' = faults + 1

\* Mutant of Reject: a row whose handler failed is marked delivered.
RejectMarks(d) ==
  \E e \in todo[d] :
    /\ HandlerFails(d, e)
    /\ accepted' = [accepted EXCEPT ![d] = accepted[d] \cup {e}]
    /\ Finished(d, e)
    /\ UNCHANGED refused

\* Mutant of Reject: the error of a handler ends the drain.
RejectEnds(d) ==
  \E e \in todo[d] :
    /\ HandlerFails(d, e)
    /\ phase' = [phase EXCEPT ![d] = "idle"]
    /\ UNCHANGED <<rows, owed, batch, runs, announced>>

\* The row counts an attempt, and the drain goes on with the next.
Reject(d) ==
  \E e \in todo[d] :
    /\ HandlerFails(d, e)
    /\ refused' = [refused EXCEPT ![d] = refused[d] \cup {e}]
    /\ Finished(d, e)
    /\ UNCHANGED accepted

\* The transaction commits and counts an attempt of the rows in counted; the
\* drain may be told that it failed, and ends there.
Committed(d, counted) ==
  /\ phase[d] = "open"
  /\ todo[d] = {}
  /\ delivered' = delivered \cup accepted[d]
  /\ tried' = tried \cup counted
  /\ \/ /\ phase' = [phase EXCEPT ![d] = "committed"]
        /\ UNCHANGED faults
     \/ /\ faults < MaxFault
        /\ faults' = faults + 1
        /\ phase' = [phase EXCEPT ![d] = "idle"]
  /\ UNCHANGED <<stored, owed, batch, runs, announced>>

\* Mutant of Commit: only an attempt that failed is counted.
CommitForgets(d) == Committed(d, refused[d])

Commit(d) == Committed(d, accepted[d] \cup refused[d])

\* An event is published; one the backplane refuses is not tried again.
Publish(d) ==
  /\ phase[d] = "committed"
  /\ \E e \in fresh[d] :
       /\ IsOldest(e, fresh[d])
       /\ fresh' = [fresh EXCEPT ![d] = fresh[d] \ {e}]
       /\ \/ /\ announced' = [announced EXCEPT ![e] = announced[e] + 1]
             /\ UNCHANGED faults
          \/ /\ faults < MaxFault
             /\ faults' = faults + 1
             /\ UNCHANGED announced
  /\ UNCHANGED <<rows, owed, phase, todo, accepted, refused, turn, runs>>

Return(d) ==
  /\ phase[d] = "committed"
  /\ fresh[d] = {}
  /\ phase' = [phase EXCEPT ![d] = "idle"]
  /\ UNCHANGED <<rows, owed, batch, runs, announced, faults>>

\* The connection is lost: Postgres rolls back and releases the rows, while the
\* handlers go on with the one at hand.
Cut(d) ==
  /\ phase[d] = "open"
  /\ faults < MaxFault
  /\ faults' = faults + 1
  /\ phase' = [phase EXCEPT ![d] = "cut"]
  /\ UNCHANGED <<rows, owed, batch, runs, announced>>

\* Its next statement fails, whatever the handlers said.
Fail(d) ==
  /\ phase[d] = "cut"
  /\ phase' = [phase EXCEPT ![d] = "idle"]
  /\ UNCHANGED <<rows, owed, batch, runs, announced, faults>>

\* The call ends early: a statement fails, its caller goes, its replica stops.
Stop(d) ==
  /\ phase[d] \in {"open", "committed"}
  /\ faults < MaxFault
  /\ faults' = faults + 1
  /\ phase' = [phase EXCEPT ![d] = "idle"]
  /\ UNCHANGED <<rows, owed, batch, runs, announced>>

Next ==
  \/ \E e \in Event : Write(e)
  \/ Skip
  \/ \E d \in Drain :
       \/ Drained(d) \/ Asked(d)
       \/ Accept(d) \/ Mark(d) \/ Reject(d) \/ Commit(d)
       \/ Publish(d) \/ Return(d) \/ Cut(d) \/ Fail(d) \/ Stop(d)

\* A write that has committed goes on to its drain, and a drain that runs comes
\* to its end: handlers answer, statements return. Nothing starts another.
Fairness ==
  /\ WF_vars(\E d \in Drain : Drained(d))
  /\ \A d \in Drain :
       /\ WF_vars(Accept(d) \/ Mark(d) \/ Reject(d))
       /\ WF_vars(Commit(d) \/ Publish(d) \/ Return(d) \/ Fail(d))

Spec == Init /\ [][Next]_vars /\ Fairness

-----------------------------------------------------------------------------
\* Every variable keeps its type: what is delivered was stored and tried.
TypeOK ==
  /\ stored \subseteq Event
  /\ delivered \subseteq tried /\ tried \subseteq stored
  /\ owed \in Nat
  /\ phase \in [Drain -> Phase]
  /\ \A f \in {todo, accepted, refused, fresh} : f \in [Drain -> SUBSET Event]
  /\ turn \in [Drain -> 1 .. Handlers + 1]
  /\ runs \in [Event -> [Handler -> Nat]]
  /\ announced \in [Event -> Nat]
  /\ faults \in 0 .. MaxFault

\* An event counts as delivered, for good, only when every handler has accepted
\* it, whatever drains were cut off or dropped in between (at least once).
DeliveredToAll == \A e \in delivered : \A h \in Handler : runs[e][h] > 0

\* A handler takes an event again only for something that failed: a connection
\* lost, a call dropped, another handler's refusal. That drains overlap, or that
\* one goes on with a row it has lost while another takes it, adds nothing
\* (drain.rs on SKIP LOCKED; bus.rs on handlers run in order).
RepeatsAreRetries ==
  \A e \in Event \ Rejected : \A h \in Handler : runs[e][h] <= 1 + faults

\* Subscribers hear of an event at most once, and only when a drain of it has
\* committed: a retry of its handlers does not announce it again.
AnnouncedOnce ==
  \A e \in Event : announced[e] <= 1 /\ (announced[e] = 1 => e \in tried)

\* An event its handlers accept is delivered in the end, whatever becomes of
\* events they always reject: by the drains of the writes, if nothing fails,
\* and after drains that were cut off, if further drains go on being started.
Delivered ==
  \/ [](faults = 0)
  \/ []<><<\E d \in Drain : Claim(d)>>_vars
  => \A e \in Event \ Rejected : e \in stored ~> e \in delivered
=============================================================================
