------------------------- MODULE EventOutboxProofs -------------------------
(***************************************************************************)
(* For any events, finitely many drains and any number of handlers:        *)
(* delivery is at least once, no repeat without a failure, announcements   *)
(* are at most once.                                                       *)
(***************************************************************************)
EXTENDS EventOutbox, FiniteSetTheorems, TLAPS

\* An open transaction holds undelivered rows that no other one holds, and each
\* of them for one purpose. A drain that has lost its connection holds nothing,
\* though its handlers may be at work.
Locked ==
  /\ \A d \in Drain : Held(d) \subseteq stored \ delivered
  /\ \A d \in Drain : \A c \in Drain \ {d} : Held(c) \cap Held(d) = {}
  /\ \A d \in Drain : todo[d] \cap accepted[d] = {}

\* The handlers before the one at hand have taken the row, and all have taken
\* a row that the transaction marks.
Taken ==
  /\ \A d \in Drain : phase[d] = "open" => \A e \in accepted[d] : \A h \in Handler : runs[e][h] > 0
  /\ \A d \in Drain : phase[d] \in {"open", "cut"} =>
       \A e \in todo[d] : \A h \in Handler :
         IsOldest(e, todo[d]) /\ h < turn[d] => runs[e][h] > 0

\* What an open drain will publish nobody has, until it commits; what is left
\* to publish after the commit only the drain itself may.
Unannounced ==
  /\ \A d \in Drain : phase[d] = "open" =>
       fresh[d] \subseteq Held(d) /\ fresh[d] \cap tried = {}
  /\ \A d \in Drain : phase[d] = "committed" =>
       /\ fresh[d] \subseteq tried
       /\ \A e \in fresh[d] : announced[e] = 0
       /\ \A c \in Drain \ {d} : phase[c] = "committed" => fresh[c] \cap fresh[d] = {}

Inv == TypeOK /\ Locked /\ Taken /\ Unannounced /\ DeliveredToAll /\ AnnouncedOnce

USE DEF Handler, Phase

LEMMA InitInv == Init => Inv
<1> SUFFICES ASSUME Init PROVE Inv
  OBVIOUS
<1>1. TypeOK
  BY EventOutboxAssumption DEF Init, TypeOK
<1>2. Locked /\ Taken /\ Unannounced
  BY DEF Init, Locked, Taken, Unannounced, Held, Selected
<1>3. DeliveredToAll /\ AnnouncedOnce
  BY DEF Init, DeliveredToAll, AnnouncedOnce
<1> QED BY <1>1, <1>2, <1>3 DEF Inv

LEMMA WriteInv ==
  ASSUME Inv, NEW e \in Event, Write(e)
  PROVE  Inv'
<1>1. TypeOK'
  BY DEF Write, batch, Inv, TypeOK
<1>2. Locked'
  BY DEF Write, batch, Inv, TypeOK, Locked, Held, Selected
<1>3. Taken'
  BY DEF Write, batch, Inv, Taken
<1>4. Unannounced' /\ DeliveredToAll' /\ AnnouncedOnce'
  BY DEF Write, batch, Inv, Unannounced, DeliveredToAll, AnnouncedOnce, Held, Selected
<1> QED BY <1>1, <1>2, <1>3, <1>4 DEF Inv

LEMMA SkipInv ==
  ASSUME Inv, Skip
  PROVE  Inv'
<1>1. TypeOK'
  BY EventOutboxAssumption DEF Skip, rows, batch, Inv, TypeOK
<1>2. Locked' /\ Taken'
  BY DEF Skip, rows, batch, Inv, Locked, Taken, Held, Selected
<1>3. Unannounced' /\ DeliveredToAll' /\ AnnouncedOnce'
  BY DEF Skip, rows, batch, Inv, Unannounced, DeliveredToAll, AnnouncedOnce, Held, Selected
<1> QED BY <1>1, <1>2, <1>3 DEF Inv

\* A drain that ends leaves the others, and what is committed, as they are.
LEMMA EndsInv ==
  ASSUME Inv, NEW d \in Drain,
         phase' = [phase EXCEPT ![d] = "idle"],
         faults' \in 0 .. MaxFault,
         owed' \in Nat,
         UNCHANGED <<rows, batch, runs, announced>>
  PROVE  Inv'
<1>1. phase \in [Drain -> Phase] /\ \A c \in Drain : phase'[c] \in {phase[c], "idle"}
  BY DEF Inv, TypeOK
<1>2. TypeOK'
  BY DEF rows, batch, Inv, TypeOK
<1>3. \A c \in Drain : Held(c)' \in {Held(c), {}}
  BY <1>1 DEF batch, Held, Selected
<1>4. Locked'
  BY <1>3 DEF rows, batch, Inv, Locked
<1>5. Taken' /\ DeliveredToAll' /\ AnnouncedOnce'
  BY <1>1 DEF rows, batch, Inv, Taken, DeliveredToAll, AnnouncedOnce, IsOldest
<1>6. \A c \in Drain : phase'[c] = "open" => Held(c)' = Held(c) /\ phase[c] = "open"
  BY <1>1 DEF batch, Held, Selected
<1>7. Unannounced'
  BY <1>1, <1>6 DEF rows, batch, Inv, Unannounced
<1> QED BY <1>2, <1>4, <1>5, <1>7 DEF Inv

LEMMA CutInv ==
  ASSUME Inv, NEW d \in Drain, Cut(d)
  PROVE  Inv'
<1>1. TypeOK'
  BY EventOutboxAssumption DEF Cut, rows, batch, Inv, TypeOK
<1>2. Locked'
  BY DEF Cut, rows, batch, Inv, TypeOK, Locked, Held, Selected
<1>3. Taken' /\ DeliveredToAll' /\ AnnouncedOnce'
  BY DEF Cut, rows, batch, Inv, TypeOK, Taken, DeliveredToAll, AnnouncedOnce
<1>4. Unannounced'
  BY DEF Cut, rows, batch, Inv, TypeOK, Unannounced, Held, Selected
<1> QED BY <1>1, <1>2, <1>3, <1>4 DEF Inv

LEMMA ClaimInv ==
  ASSUME Inv, NEW d \in Drain, Claim(d), owed' \in Nat
  PROVE  Inv'
<1> DEFINE free == Free
<1>1. free \subseteq stored \ delivered /\ \A c \in Drain : Held(c) \cap free = {}
  BY DEF Free, Undelivered
<1>2. /\ phase' = [phase EXCEPT ![d] = "open"]
      /\ todo' = [todo EXCEPT ![d] = free]
      /\ accepted' = [accepted EXCEPT ![d] = {}]
      /\ refused' = [refused EXCEPT ![d] = {}]
      /\ fresh' = [fresh EXCEPT ![d] = free \ tried]
      /\ turn' = [turn EXCEPT ![d] = 1]
      /\ UNCHANGED <<stored, delivered, tried, runs, announced, faults>>
  BY DEF Claim, Begin, rows
<1> HIDE DEF free
<1>3. TypeOK'
  <2>1. free \in SUBSET Event /\ free \ tried \in SUBSET Event
    BY <1>1 DEF Inv, TypeOK
  <2>2. /\ todo' \in [Drain -> SUBSET Event] /\ fresh' \in [Drain -> SUBSET Event]
        /\ accepted' \in [Drain -> SUBSET Event] /\ refused' \in [Drain -> SUBSET Event]
    BY <1>2, <2>1 DEF Inv, TypeOK
  <2>3. turn' \in [Drain -> 1 .. Handlers + 1]
    BY <1>2, EventOutboxAssumption DEF Inv, TypeOK
  <2> QED BY <1>2, <2>2, <2>3 DEF Inv, TypeOK
<1>4. Held(d)' = free /\ \A c \in Drain \ {d} : Held(c)' = Held(c)
  BY <1>2 DEF Held, Selected, Inv, TypeOK
<1>5. Locked'
  <2>1. \A c \in Drain : todo'[c] \cap accepted'[c] = {}
    BY <1>2 DEF Locked, Inv, TypeOK
  <2> QED BY <1>1, <1>2, <1>4, <2>1 DEF Locked, Inv
<1>6. Taken'
  BY <1>2 DEF Taken, Inv, TypeOK
<1>7. Unannounced'
  BY <1>2, <1>4 DEF Unannounced, Inv, TypeOK
<1>8. DeliveredToAll' /\ AnnouncedOnce'
  BY <1>2 DEF DeliveredToAll, AnnouncedOnce, Inv
<1> QED BY <1>3, <1>5, <1>6, <1>7, <1>8 DEF Inv

LEMMA AcceptInv ==
  ASSUME Inv, NEW d \in Drain, Accept(d)
  PROVE  Inv'
<1>1. PICK e \in todo[d] : IsOldest(e, todo[d]) /\ runs' = [runs EXCEPT ![e][turn[d]] =
                                   IF e \in Rejected THEN 1 ELSE runs[e][turn[d]] + 1]
  BY DEF Accept
<1>9. /\ d \in Drain /\ e \in Event /\ turn[d] \in Handler
      /\ runs \in [Event -> [Handler -> Nat]]
  BY <1>1 DEF Accept, Inv, TypeOK
<1>0. /\ runs' \in [Event -> [Handler -> Nat]]
      /\ runs'[e][turn[d]] > 0
      /\ \A f \in Event : \A h \in Handler : runs[f][h] > 0 => runs'[f][h] > 0
  <2> DEFINE n == IF e \in Rejected THEN 1 ELSE runs[e][turn[d]] + 1
             row == [runs[e] EXCEPT ![turn[d]] = n]
  <2>0. runs[e] \in [Handler -> Nat]
    BY <1>9
  <2>1. n \in Nat /\ n > 0
    <3>1. runs[e][turn[d]] \in Nat
      BY <2>0, <1>9
    <3> QED BY <3>1
  <2>2. runs' = [runs EXCEPT ![e] = row]
    BY <1>1
  <2> HIDE DEF n
  <2>3. /\ row \in [Handler -> Nat] /\ row[turn[d]] = n
        /\ \A h \in Handler \ {turn[d]} : row[h] = runs[e][h]
    BY <1>9, <2>0, <2>1
  <2> HIDE DEF row
  <2> QED BY <1>9, <2>1, <2>2, <2>3
<1>2. TypeOK'
  BY <1>0, EventOutboxAssumption DEF Accept, rows, Inv, TypeOK
<1>3. Taken'
  <2>1. \A c \in Drain : phase'[c] = "open" => \A f \in accepted'[c] : \A h \in Handler : runs'[f][h] > 0
    BY <1>0 DEF Accept, Inv, Taken, TypeOK
  <2>2. ASSUME NEW c \in Drain, phase[c] \in {"open", "cut"}, NEW f \in todo[c],
               NEW h \in Handler, IsOldest(f, todo[c]), h < turn'[c]
        PROVE  runs'[f][h] > 0
    <3>1. CASE h < turn[c]
      BY <1>0, <2>2, <3>1 DEF Inv, Taken, TypeOK
    <3>2. CASE ~ (h < turn[c])
      <4>1. c = d /\ h = turn[d]
        BY <2>2, <3>2, EventOutboxAssumption DEF Accept, Inv, TypeOK
      <4>2. f \in Nat /\ e \in Nat
        BY <4>1, EventOutboxAssumption DEF Inv, TypeOK
      <4>3. f = e
        BY <1>1, <2>2, <4>1, <4>2 DEF IsOldest
      <4> QED BY <1>0, <4>1, <4>3
    <3> QED BY <3>1, <3>2
  <2> QED BY <2>1, <2>2 DEF Accept, Taken
<1>4. Locked' /\ Unannounced' /\ AnnouncedOnce'
  BY DEF Accept, rows, Inv, Locked, Unannounced, AnnouncedOnce, Held, Selected
<1>5. DeliveredToAll'
  BY <1>0 DEF Accept, rows, Inv, DeliveredToAll, TypeOK
<1> QED BY <1>2, <1>3, <1>4, <1>5 DEF Inv

\* A row moves from todo to accepted or to refused: the drain holds it still.
LEMMA FinishedInv ==
  ASSUME Inv, NEW d \in Drain, phase[d] = "open", NEW e \in todo[d], Finished(d, e),
         faults' \in 0 .. MaxFault,
         \/ accepted' = [accepted EXCEPT ![d] = accepted[d] \cup {e}] /\ refused' = refused
         \/ refused' = [refused EXCEPT ![d] = refused[d] \cup {e}] /\ accepted' = accepted,
         accepted' # accepted => \A h \in Handler : runs[e][h] > 0
  PROVE  Inv'
<1>0. /\ todo' = [todo EXCEPT ![d] = todo[d] \ {e}]
      /\ turn' = [turn EXCEPT ![d] = 1]
      /\ UNCHANGED <<stored, delivered, tried, owed, phase, fresh, runs, announced>>
  BY DEF Finished, rows
<1>1. TypeOK'
  <2>0. /\ todo \in [Drain -> SUBSET Event] /\ accepted \in [Drain -> SUBSET Event]
        /\ refused \in [Drain -> SUBSET Event]
    BY DEF Inv, TypeOK
  <2>1. /\ todo' \in [Drain -> SUBSET Event] /\ accepted' \in [Drain -> SUBSET Event]
        /\ refused' \in [Drain -> SUBSET Event]
    BY <1>0, <2>0
  <2>2. turn' \in [Drain -> 1 .. Handlers + 1]
    BY <1>0, EventOutboxAssumption DEF Inv, TypeOK
  <2> QED BY <1>0, <2>1, <2>2 DEF Inv, TypeOK
<1>2. \A c \in Drain : Held(c)' = Held(c)
  BY <1>0 DEF Held, Selected, Inv, TypeOK
<1>3. Locked' /\ Unannounced' /\ AnnouncedOnce' /\ DeliveredToAll'
  <2>1. \A c \in Drain : todo'[c] \cap accepted'[c] = {}
    BY <1>0 DEF Inv, Locked, TypeOK
  <2> QED BY <1>0, <1>2, <2>1 DEF Inv, Locked, Unannounced, AnnouncedOnce, DeliveredToAll
<1>4. Taken'
  <2>1. \A c \in Drain : phase'[c] = "open" => \A f \in accepted'[c] : \A h \in Handler : runs'[f][h] > 0
    <3>1. SUFFICES ASSUME NEW c \in Drain, phase[c] = "open", NEW f \in accepted'[c], NEW h \in Handler
                   PROVE  runs[f][h] > 0
      BY <1>0
    <3>2. CASE f \in accepted[c]
      BY <3>1, <3>2 DEF Inv, Taken
    <3>3. CASE f \notin accepted[c]
      BY <3>1, <3>3 DEF Inv, TypeOK
    <3> QED BY <3>2, <3>3
  <2>2. \A c \in Drain : phase'[c] \in {"open", "cut"} =>
          \A f \in todo'[c] : \A h \in Handler :
            IsOldest(f, todo'[c]) /\ h < turn'[c] => runs'[f][h] > 0
    BY <1>0 DEF Inv, Taken, TypeOK
  <2> QED BY <2>1, <2>2 DEF Taken
<1> QED BY <1>1, <1>3, <1>4 DEF Inv

LEMMA MarkInv ==
  ASSUME Inv, NEW d \in Drain, Mark(d)
  PROVE  Inv'
<1>1. PICK e \in todo[d] : /\ IsOldest(e, todo[d])
                           /\ accepted' = [accepted EXCEPT ![d] = accepted[d] \cup {e}]
                           /\ Finished(d, e)
  BY DEF Mark
<1>2. \A h \in Handler : h < turn[d]
  BY EventOutboxAssumption DEF Mark, Inv, TypeOK
<1>3. \A h \in Handler : runs[e][h] > 0
  BY <1>1, <1>2 DEF Mark, Inv, Taken
<1> QED BY <1>1, <1>3, FinishedInv DEF Mark, Inv, TypeOK

LEMMA RejectInv ==
  ASSUME Inv, NEW d \in Drain, Reject(d)
  PROVE  Inv'
<1>1. PICK e \in todo[d] : /\ HandlerFails(d, e)
                           /\ refused' = [refused EXCEPT ![d] = refused[d] \cup {e}]
                           /\ Finished(d, e)
                           /\ UNCHANGED accepted
  BY DEF Reject
<1>2. faults' \in 0 .. MaxFault
  BY <1>1, EventOutboxAssumption DEF HandlerFails, Inv, TypeOK
<1> QED BY <1>1, <1>2, FinishedInv DEF HandlerFails

LEMMA CommitInv ==
  ASSUME Inv, NEW d \in Drain, Commit(d)
  PROVE  Inv'
<1>0. /\ phase[d] = "open" /\ todo[d] = {}
      /\ delivered' = delivered \cup accepted[d]
      /\ tried' = tried \cup Selected(d)
      /\ phase' \in {[phase EXCEPT ![d] = "committed"], [phase EXCEPT ![d] = "idle"]}
      /\ UNCHANGED <<stored, owed, todo, accepted, refused, fresh, turn, runs, announced>>
  BY DEF Commit, Committed, Selected, batch
<1>1. Held(d) = Selected(d) /\ Held(d)' = {} /\ \A c \in Drain \ {d} : Held(c)' = Held(c)
  BY <1>0 DEF Held, Selected, Inv, TypeOK
<1>2. accepted[d] \subseteq Selected(d) /\ Selected(d) \subseteq stored
  BY <1>0, <1>1 DEF Selected, Inv, Locked
<1>3. faults' \in 0 .. MaxFault
  BY EventOutboxAssumption DEF Commit, Committed, Inv, TypeOK
<1>4. TypeOK'
  BY <1>0, <1>2, <1>3 DEF Inv, TypeOK
<1>5. Locked'
  BY <1>0, <1>1, <1>2 DEF Inv, Locked
<1>6. Taken' /\ DeliveredToAll'
  BY <1>0 DEF Inv, Taken, DeliveredToAll, TypeOK
<1>7. AnnouncedOnce'
  BY <1>0 DEF Inv, AnnouncedOnce
<1>8. Unannounced'
  <2>1. \A c \in Drain : phase'[c] = "open" =>
          fresh'[c] \subseteq Held(c)' /\ fresh'[c] \cap tried' = {}
    <3> SUFFICES ASSUME NEW c \in Drain, phase'[c] = "open"
                 PROVE  fresh[c] \subseteq Held(c)' /\ fresh[c] \cap tried' = {}
      BY <1>0
    <3>1. c # d /\ phase[c] = "open"
      BY <1>0 DEF Inv, TypeOK
    <3> QED BY <1>0, <1>1, <3>1 DEF Inv, Unannounced, Locked
  <2>2. fresh[d] \subseteq tried' /\ fresh[d] \cap tried = {}
    BY <1>0, <1>1 DEF Inv, Unannounced
  <2>3. \A e \in fresh[d] : announced[e] = 0
    BY <2>2 DEF Inv, AnnouncedOnce, TypeOK
  <2>4. \A c \in Drain \ {d} : phase[c] = "committed" => fresh[c] \subseteq tried
    BY DEF Inv, Unannounced
  <2>5. phase \in [Drain -> Phase]
    BY DEF Inv, TypeOK
  <2> QED BY <1>0, <2>1, <2>2, <2>3, <2>4, <2>5 DEF Inv, Unannounced
<1> QED BY <1>4, <1>5, <1>6, <1>7, <1>8 DEF Inv

LEMMA PublishInv ==
  ASSUME Inv, NEW d \in Drain, Publish(d)
  PROVE  Inv'
<1>0. announced \in [Event -> Nat] /\ fresh \in [Drain -> SUBSET Event]
  BY DEF Inv, TypeOK
<1>1. PICK e \in fresh[d] :
        /\ fresh' = [fresh EXCEPT ![d] = fresh[d] \ {e}]
        /\ announced' \in {announced, [announced EXCEPT ![e] = announced[e] + 1]}
  BY DEF Publish
<1>2. /\ phase[d] = "committed" /\ e \in tried /\ announced[e] = 0 /\ e \in Event
      /\ UNCHANGED <<stored, delivered, tried, owed, phase, todo, accepted, refused, turn, runs>>
  BY DEF Publish, rows, Inv, Unannounced, TypeOK
<1>3. faults' \in 0 .. MaxFault
  BY EventOutboxAssumption DEF Publish, Inv, TypeOK
<1>4. TypeOK'
  <2>1. announced' \in [Event -> Nat] /\ fresh' \in [Drain -> SUBSET Event]
    BY <1>0, <1>1, <1>2
  <2> QED BY <1>2, <1>3, <2>1 DEF Inv, TypeOK
<1>5. Locked' /\ Taken' /\ DeliveredToAll'
  BY <1>2 DEF Inv, Locked, Taken, DeliveredToAll, Held, Selected
<1>6. AnnouncedOnce'
  BY <1>0, <1>1, <1>2 DEF Inv, AnnouncedOnce
<1>7. Unannounced'
  BY <1>0, <1>1, <1>2 DEF Inv, Unannounced, Held, Selected
<1> QED BY <1>4, <1>5, <1>6, <1>7 DEF Inv

LEMMA StutterInv == Inv /\ UNCHANGED vars => Inv'
<1> SUFFICES ASSUME Inv, UNCHANGED vars PROVE Inv'
  OBVIOUS
<1>1. TypeOK' /\ DeliveredToAll' /\ AnnouncedOnce'
  BY DEF vars, rows, batch, Inv, TypeOK, DeliveredToAll, AnnouncedOnce
<1>2. \A d \in Drain : Held(d)' = Held(d)
  BY DEF vars, batch, Held, Selected
<1>3. Locked' /\ Unannounced'
  BY <1>2 DEF vars, rows, batch, Inv, Locked, Unannounced
<1>4. Taken'
  BY DEF vars, batch, Inv, Taken, IsOldest
<1> QED BY <1>1, <1>3, <1>4 DEF Inv

LEMMA NextInv == Inv /\ [Next]_vars => Inv'
<1> SUFFICES ASSUME Inv, [Next]_vars PROVE Inv'
  OBVIOUS
<1>1. ASSUME NEW e \in Event, Write(e) PROVE Inv'
  BY <1>1, WriteInv
<1>2. ASSUME NEW d \in Drain, Drained(d) \/ Asked(d) PROVE Inv'
  <2>1. owed' \in Nat
    BY <1>2 DEF Drained, Asked, Inv, TypeOK
  <2> QED BY <1>2, <2>1, ClaimInv DEF Drained, Asked
<1>3. ASSUME NEW d \in Drain, Accept(d) PROVE Inv'
  BY <1>3, AcceptInv
<1>4. ASSUME NEW d \in Drain, Mark(d) PROVE Inv'
  BY <1>4, MarkInv
<1>5. ASSUME NEW d \in Drain, Reject(d) PROVE Inv'
  BY <1>5, RejectInv
<1>6. ASSUME NEW d \in Drain, Commit(d) PROVE Inv'
  BY <1>6, CommitInv
<1>7. ASSUME NEW d \in Drain, Publish(d) PROVE Inv'
  BY <1>7, PublishInv
<1>8. ASSUME NEW d \in Drain, Cut(d) PROVE Inv'
  BY <1>8, CutInv
<1>9. ASSUME NEW d \in Drain, Return(d) \/ Fail(d) \/ Stop(d) PROVE Inv'
  <2>1. faults' \in 0 .. MaxFault
    BY <1>9, EventOutboxAssumption DEF Return, Fail, Stop, Inv, TypeOK
  <2>2. owed' \in Nat
    BY <1>9 DEF Return, Fail, Stop, Inv, TypeOK
  <2> QED BY <1>9, <2>1, <2>2, EndsInv DEF Return, Fail, Stop
<1>10. CASE Skip
  BY <1>10, SkipInv
<1> QED BY <1>1, <1>2, <1>3, <1>4, <1>5, <1>6, <1>7, <1>8, <1>9, <1>10, StutterInv DEF Next

-----------------------------------------------------------------------------
(* How often a handler takes an event. *)

\* Drains that have lost their connection and may yet give e to handler h.
Astray(e, h) ==
  {d \in Drain : phase[d] = "cut" /\ IsOldest(e, todo[d]) /\ turn[d] <= h}

\* What h did with e stands, or will when the transaction that has e commits.
Kept(e, h) ==
  \/ e \in delivered
  \/ \E d \in Drain : /\ phase[d] = "open"
                      /\ \/ e \in accepted[d]
                         \/ IsOldest(e, todo[d]) /\ h < turn[d]

\* Each run of h on e is kept or was paid for by a failure, and so are those
\* that drains gone astray may add.
Count(e, h) ==
  runs[e][h] + Cardinality(Astray(e, h)) <= faults + (IF Kept(e, h) THEN 1 ELSE 0)

Counted == \A e \in Event \ Rejected : \A h \in Handler : Count(e, h)

LEMMA AstraySize ==
  ASSUME NEW e, NEW h
  PROVE  /\ IsFiniteSet(Astray(e, h)) /\ Cardinality(Astray(e, h)) \in Nat
         /\ IsFiniteSet(Astray(e, h)') /\ Cardinality(Astray(e, h)') \in Nat
<1>1. Astray(e, h) \subseteq Drain /\ Astray(e, h)' \subseteq Drain
  BY DEF Astray
<1> QED BY <1>1, EventOutboxAssumption, FS_Subset, FS_CardinalityType

\* A step in which h does not take e, and no further drain goes astray with it,
\* keeps the count: what it undoes it pays for.
LEMMA CountKept ==
  ASSUME Inv, Inv', NEW e \in Event, NEW h \in Handler, Count(e, h),
         runs'[e][h] = runs[e][h], Astray(e, h)' \subseteq Astray(e, h),
         \/ faults' = faults + 1
         \/ faults' = faults /\ (Kept(e, h) => Kept(e, h)')
  PROVE  Count(e, h)'
<1>1. Cardinality(Astray(e, h)') <= Cardinality(Astray(e, h))
  BY AstraySize, FS_Subset
<1>2. runs[e] \in [Handler -> Nat] /\ faults \in Nat
  BY EventOutboxAssumption DEF Inv, TypeOK
<1>3. runs[e][h] \in Nat
  BY <1>2
<1> QED BY <1>1, <1>2, <1>3, AstraySize DEF Count

\* A drain that is cut off may give the row at hand to the handlers to come.
LEMMA CutCounted ==
  ASSUME Inv, Inv', NEW d \in Drain, Cut(d),
         NEW e \in Event, NEW h \in Handler, Count(e, h)
  PROVE  Count(e, h)'
<1>1. /\ phase' = [phase EXCEPT ![d] = "cut"] /\ phase[d] = "open" /\ faults' = faults + 1
      /\ UNCHANGED <<delivered, todo, accepted, turn, runs>>
  BY DEF Cut, rows, batch
<1>2. Astray(e, h)' \subseteq Astray(e, h) \cup {d}
  BY <1>1 DEF Astray, IsOldest, Inv, TypeOK
<1>3. CASE IsOldest(e, todo[d]) /\ turn[d] <= h
  <2>1. Cardinality(Astray(e, h)') <= Cardinality(Astray(e, h)) + 1
    <3>1. /\ IsFiniteSet(Astray(e, h) \cup {d})
          /\ Cardinality(Astray(e, h) \cup {d}) <= Cardinality(Astray(e, h)) + 1
      <4> DEFINE S == Astray(e, h)
      <4>1. IsFiniteSet(S) /\ Cardinality(S) \in Nat
        BY AstraySize
      <4> HIDE DEF S
      <4>2. /\ IsFiniteSet(S \cup {d})
            /\ Cardinality(S \cup {d}) = IF d \in S THEN Cardinality(S) ELSE Cardinality(S) + 1
        BY <4>1, FS_AddElement
      <4>3. Cardinality(S \cup {d}) <= Cardinality(S) + 1
        BY <4>1, <4>2
      <4> QED BY <4>2, <4>3 DEF S
    <3>2. Cardinality(Astray(e, h)') <= Cardinality(Astray(e, h) \cup {d})
      BY <1>2, <3>1, FS_Subset
    <3>3. Cardinality(Astray(e, h) \cup {d}) \in Nat
      BY <3>1, FS_CardinalityType
    <3> QED BY <3>1, <3>2, <3>3, AstraySize
  <2>2. Kept(e, h) => Kept(e, h)'
    <3>1. e \notin accepted[d] /\ ~ (h < turn[d])
      BY <1>3, EventOutboxAssumption DEF IsOldest, Inv, Locked, TypeOK
    <3> QED BY <1>1, <3>1 DEF Kept, IsOldest, Inv, TypeOK
  <2>3. runs[e] \in [Handler -> Nat] /\ faults \in Nat
    BY EventOutboxAssumption DEF Inv, TypeOK
  <2>4. runs[e][h] \in Nat
    BY <2>3
  <2> QED BY <1>1, <2>1, <2>2, <2>3, <2>4, AstraySize DEF Count
<1>4. CASE ~ (IsOldest(e, todo[d]) /\ turn[d] <= h)
  <2>1. d \notin Astray(e, h)'
    BY <1>1, <1>4 DEF Astray, IsOldest
  <2> QED BY <1>1, <1>2, <2>1, CountKept
<1> QED BY <1>3, <1>4

\* A drain that holds a row gives it to a handler nobody is ahead with; one that
\* has gone astray uses up what was counted for it.
LEMMA AcceptCounted ==
  ASSUME Inv, Inv', NEW d \in Drain, Accept(d),
         NEW e \in Event \ Rejected, NEW h \in Handler, Count(e, h)
  PROVE  Count(e, h)'
<1>1. PICK f \in todo[d] : /\ IsOldest(f, todo[d])
                           /\ runs' = [runs EXCEPT ![f][turn[d]] =
                                IF f \in Rejected THEN 1 ELSE runs[f][turn[d]] + 1]
  BY DEF Accept
<1>2. /\ phase[d] \in {"open", "cut"} /\ turn[d] \in Handler
      /\ turn' = [turn EXCEPT ![d] = turn[d] + 1]
      /\ UNCHANGED <<delivered, phase, todo, accepted, faults>>
  BY DEF Accept, rows
<1>3. /\ turn \in [Drain -> 1 .. Handlers + 1] /\ runs \in [Event -> [Handler -> Nat]]
      /\ f \in Event /\ faults \in Nat
  <2>1. todo[d] \subseteq Event
    BY DEF Inv, TypeOK
  <2>2. faults \in Nat
    BY EventOutboxAssumption DEF Inv, TypeOK
  <2> QED BY <2>1, <2>2 DEF Inv, TypeOK
<1>4. runs[e] \in [Handler -> Nat] /\ runs[f] \in [Handler -> Nat]
  BY <1>3
<1>5. runs[e][h] \in Nat
  BY <1>4
<1>6. Astray(e, h)' \subseteq Astray(e, h)
  BY <1>2, <1>3, EventOutboxAssumption DEF Astray, IsOldest
<1>7. Kept(e, h) => Kept(e, h)'
  <2>1. \A c \in Drain : h < turn[c] => h < turn'[c]
    BY <1>2, <1>3, EventOutboxAssumption
  <2> QED BY <1>2, <2>1 DEF Kept, IsOldest
<1>8. CASE f = e /\ h = turn[d]
  <2>1. runs'[e][h] = runs[e][h] + 1
    BY <1>1, <1>3, <1>4, <1>8
  <2>2. CASE phase[d] = "open"
    <3>1. Kept(e, h)'
      BY <1>1, <1>2, <1>3, <1>8, <2>2, EventOutboxAssumption DEF Kept, IsOldest
    <3>2. ~ Kept(e, h)
      <4>1. e \notin delivered /\ e \notin accepted[d]
        BY <1>8, <2>2 DEF Inv, Locked, Held, Selected
      <4>2. \A c \in Drain \ {d} : phase[c] = "open" => e \notin accepted[c] /\ e \notin todo[c]
        BY <1>8, <2>2 DEF Inv, Locked, Held, Selected
      <4>3. ~ (h < turn[d])
        BY <1>8, <1>3, EventOutboxAssumption
      <4> QED BY <4>1, <4>2, <4>3 DEF Kept, IsOldest
    <3>3. Cardinality(Astray(e, h)') <= Cardinality(Astray(e, h))
      BY <1>6, AstraySize, FS_Subset
    <3> QED BY <1>2, <1>3, <1>5, <2>1, <3>1, <3>2, <3>3, AstraySize DEF Count
  <2>3. CASE phase[d] = "cut"
    <3>1. d \in Astray(e, h) /\ d \notin Astray(e, h)'
      BY <1>1, <1>2, <1>3, <1>8, <2>3, EventOutboxAssumption DEF Astray, IsOldest
    <3>2. Cardinality(Astray(e, h) \ {d}) = Cardinality(Astray(e, h)) - 1
      BY <3>1, AstraySize, FS_RemoveElement
    <3>3. IsFiniteSet(Astray(e, h) \ {d})
      BY AstraySize, FS_Subset
    <3>4. Cardinality(Astray(e, h)') <= Cardinality(Astray(e, h) \ {d})
      BY <1>6, <3>1, <3>3, FS_Subset
    <3> QED BY <1>2, <1>3, <1>5, <1>7, <2>1, <3>2, <3>4, AstraySize DEF Count
  <2> QED BY <1>2, <2>2, <2>3
<1>9. CASE ~ (f = e /\ h = turn[d])
  <2>1. runs'[e][h] = runs[e][h]
    BY <1>1, <1>2, <1>3, <1>4, <1>9
  <2> QED BY <1>2, <1>6, <1>7, <2>1, CountKept
<1> QED BY <1>8, <1>9

\* A transaction that finishes a row keeps the row, unless a handler refused it:
\* that is a failure, the one of an event that is rejected apart.
LEMMA FinishedCounted ==
  ASSUME Inv, Inv', NEW d \in Drain, Mark(d) \/ Reject(d),
         NEW e \in Event \ Rejected, NEW h \in Handler, Count(e, h)
  PROVE  Count(e, h)'
<1>1. PICK f \in todo[d] :
        /\ IsOldest(f, todo[d]) /\ phase[d] = "open"
        /\ todo' = [todo EXCEPT ![d] = todo[d] \ {f}] /\ turn' = [turn EXCEPT ![d] = 1]
        /\ UNCHANGED <<delivered, phase, runs>>
        /\ \/ accepted' = [accepted EXCEPT ![d] = accepted[d] \cup {f}] /\ faults' = faults
           \/ accepted' = accepted /\ ((f \in Rejected /\ faults' = faults) \/ faults' = faults + 1)
  BY DEF Mark, Reject, HandlerFails, Finished, rows
<1>2. Astray(e, h)' \subseteq Astray(e, h)
  BY <1>1 DEF Astray, IsOldest, Inv, TypeOK
<1>3. faults' = faults => (Kept(e, h) => Kept(e, h)')
  <2>1. SUFFICES ASSUME faults' = faults, Kept(e, h) PROVE Kept(e, h)'
    OBVIOUS
  <2>2. CASE e \in delivered
    BY <1>1, <2>2 DEF Kept
  <2>3. CASE e \notin delivered
    <3>1. PICK c \in Drain : /\ phase[c] = "open"
                             /\ \/ e \in accepted[c]
                                \/ IsOldest(e, todo[c]) /\ h < turn[c]
      BY <2>1, <2>3 DEF Kept
    <3>2. CASE c # d
      BY <1>1, <3>1, <3>2 DEF Kept, IsOldest, Inv, TypeOK
    <3>3. CASE c = d
      <4>0. todo[d] \subseteq Event
        BY DEF Inv, TypeOK
      <4>1. faults \in Nat /\ accepted \in [Drain -> SUBSET Event] /\ todo[d] \subseteq Nat
        <5>1. faults \in Nat
          BY EventOutboxAssumption DEF Inv, TypeOK
        <5>2. accepted \in [Drain -> SUBSET Event]
          BY DEF Inv, TypeOK
        <5> QED BY <4>0, <5>1, <5>2, EventOutboxAssumption
      <4>2. e \in accepted[d] \/ e = f
        BY <1>1, <3>1, <3>3, <4>1 DEF IsOldest
      <4>3. e \in accepted'[d]
        BY <1>1, <2>1, <4>1, <4>2
      <4> QED BY <1>1, <3>1, <3>3, <4>3 DEF Kept
    <3> QED BY <3>2, <3>3
  <2> QED BY <2>2, <2>3
<1> QED BY <1>1, <1>2, <1>3, CountKept

\* The other steps leave what drains do with e as it is, or end one.
LEMMA OthersCounted ==
  ASSUME Inv, Inv', NEW e \in Event \ Rejected, NEW h \in Handler, Count(e, h),
         \/ \E f \in Event : Write(f)
         \/ Skip
         \/ \E d \in Drain : \/ Claim(d) \/ Commit(d) \/ Publish(d)
                             \/ Return(d) \/ Fail(d) \/ Stop(d)
         \/ UNCHANGED vars
  PROVE  Count(e, h)'
<1>1. ASSUME NEW f \in Event, Write(f) PROVE Count(e, h)'
  <2>1. Astray(e, h)' = Astray(e, h) /\ (Kept(e, h) => Kept(e, h)')
    BY <1>1 DEF Write, batch, Astray, Kept, IsOldest
  <2> QED BY <1>1, <2>1, CountKept DEF Write
<1>2. CASE Skip
  <2>1. Astray(e, h)' = Astray(e, h)
    BY <1>2 DEF Skip, batch, Astray, IsOldest
  <2> QED BY <1>2, <2>1, CountKept DEF Skip
<1>3. ASSUME NEW d \in Drain, Claim(d) PROVE Count(e, h)'
  <2>1. Astray(e, h)' \subseteq Astray(e, h)
    BY <1>3 DEF Claim, Begin, Astray, IsOldest, Inv, TypeOK
  <2>2. Kept(e, h) => Kept(e, h)'
    BY <1>3 DEF Claim, Begin, rows, Kept, IsOldest, Inv, TypeOK
  <2> QED BY <1>3, <2>1, <2>2, CountKept DEF Claim, Begin
<1>4. ASSUME NEW d \in Drain, Commit(d) PROVE Count(e, h)'
  <2>1. Astray(e, h)' \subseteq Astray(e, h)
    BY <1>4 DEF Commit, Committed, batch, Astray, IsOldest, Inv, TypeOK
  <2>2. Kept(e, h) => Kept(e, h)'
    <3>1. /\ todo[d] = {} /\ delivered' = delivered \cup accepted[d]
          /\ UNCHANGED <<todo, accepted, turn>>
          /\ \A c \in Drain \ {d} : phase'[c] = phase[c]
      BY <1>4 DEF Commit, Committed, batch, Inv, TypeOK
    <3> QED BY <3>1 DEF Kept, IsOldest
  <2> QED BY <1>4, <2>1, <2>2, CountKept DEF Commit, Committed
<1>5. ASSUME NEW d \in Drain, Publish(d) PROVE Count(e, h)'
  <2>1. Astray(e, h)' = Astray(e, h) /\ (Kept(e, h) => Kept(e, h)')
    BY <1>5 DEF Publish, rows, Astray, Kept, IsOldest
  <2>2. faults' = faults \/ faults' = faults + 1
    BY <1>5 DEF Publish
  <2> QED BY <1>5, <2>1, <2>2, CountKept DEF Publish
<1>6. ASSUME NEW d \in Drain, Return(d) \/ Fail(d) \/ Stop(d) PROVE Count(e, h)'
  <2>1. Astray(e, h)' \subseteq Astray(e, h)
    BY <1>6 DEF Return, Fail, Stop, batch, Astray, IsOldest, Inv, TypeOK
  <2>2. Return(d) \/ Fail(d) => (Kept(e, h) => Kept(e, h)')
    BY DEF Return, Fail, rows, batch, Kept, IsOldest, Inv, TypeOK
  <2> QED BY <1>6, <2>1, <2>2, CountKept DEF Return, Fail, Stop
<1>7. CASE UNCHANGED vars
  <2>1. Astray(e, h)' = Astray(e, h) /\ (Kept(e, h) => Kept(e, h)')
    BY <1>7 DEF vars, rows, batch, Astray, Kept, IsOldest
  <2> QED BY <1>7, <2>1, CountKept DEF vars
<1> QED BY <1>1, <1>2, <1>3, <1>4, <1>5, <1>6, <1>7

LEMMA InitCounted == Init => Counted
<1> SUFFICES ASSUME Init, NEW e \in Event \ Rejected, NEW h \in Handler PROVE Count(e, h)
  BY DEF Counted
<1>1. runs[e][h] = 0 /\ faults = 0
  BY DEF Init
<1>2. Astray(e, h) = {}
  BY DEF Init, Astray
<1> QED BY <1>1, <1>2, FS_EmptySet DEF Count

LEMMA NextCounted == Inv /\ Inv' /\ Counted /\ [Next]_vars => Counted'
<1> SUFFICES ASSUME Inv, Inv', Counted, [Next]_vars,
                    NEW e \in Event \ Rejected, NEW h \in Handler
             PROVE  Count(e, h)'
  BY DEF Counted
<1>1. Count(e, h)
  BY DEF Counted
<1>2. ASSUME NEW d \in Drain, Accept(d) PROVE Count(e, h)'
  BY <1>1, <1>2, AcceptCounted
<1>3. ASSUME NEW d \in Drain, Mark(d) \/ Reject(d) PROVE Count(e, h)'
  BY <1>1, <1>3, FinishedCounted
<1>4. ASSUME NEW d \in Drain, Cut(d) PROVE Count(e, h)'
  BY <1>1, <1>4, CutCounted
<1>5. CASE \/ \E f \in Event : Write(f)
           \/ Skip
           \/ \E d \in Drain : \/ Drained(d) \/ Asked(d) \/ Commit(d) \/ Publish(d)
                               \/ Return(d) \/ Fail(d) \/ Stop(d)
           \/ UNCHANGED vars
  BY <1>1, <1>5, OthersCounted DEF Drained, Asked
<1> QED BY <1>2, <1>3, <1>4, <1>5 DEF Next

LEMMA Invariance == Spec => []Inv
<1> QED BY InitInv, NextInv, PTL DEF Spec

\* Every variable keeps its type, and a delivered event was stored and tried.
THEOREM TypeCorrect == Spec => []TypeOK
<1>1. Inv => TypeOK
  BY DEF Inv
<1> QED BY <1>1, Invariance, PTL

\* An event marked delivered was accepted by every handler: a drain that was cut
\* off, dropped or refused by a handler loses no event.
THEOREM AtLeastOnce == Spec => []DeliveredToAll
<1>1. Inv => DeliveredToAll
  BY DEF Inv
<1> QED BY <1>1, Invariance, PTL

\* A handler takes an event again only for something that failed: drains that
\* overlap, or go on without their connection, add nothing to that.
THEOREM RepeatsArePaidFor == Spec => []RepeatsAreRetries
<1>1. Inv /\ Counted => RepeatsAreRetries
  <2> SUFFICES ASSUME Inv, Counted, NEW e \in Event \ Rejected, NEW h \in Handler
               PROVE  runs[e][h] <= 1 + faults
    BY DEF RepeatsAreRetries
  <2>1. Count(e, h)
    BY DEF Counted
  <2>2. runs[e] \in [Handler -> Nat] /\ faults \in Nat
    BY EventOutboxAssumption DEF Inv, TypeOK
  <2>3. runs[e][h] \in Nat
    BY <2>2
  <2> QED BY <2>1, <2>2, <2>3, AstraySize DEF Count
<1> QED BY <1>1, InitInv, NextInv, InitCounted, NextCounted, PTL DEF Spec

\* Subscribers hear of an event at most once, after a drain of it committed.
THEOREM AtMostOnceAnnounced == Spec => []AnnouncedOnce
<1>1. Inv => AnnouncedOnce
  BY DEF Inv
<1> QED BY <1>1, Invariance, PTL
=============================================================================
