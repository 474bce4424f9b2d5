------------------------ MODULE Notifications_proofs ------------------------
(***************************************************************************)
(* Theorems about Notifications, for every number of notes and runs, every *)
(* capacity and every choice of features.                                  *)
(*                                                                         *)
(* The argument for Accounted: a note that has been handed to the memory   *)
(* queue, a message or the model stays accounted for in every step         *)
(* (StaysHanded), and nothing marks a row injected or consumed, keeps an   *)
(* id in the entry's _notif_ids or in a deferred retry, unless its note    *)
(* has been handed over (Marked).  A wake needs a free place for its run,  *)
(* which an idle session always has (RoomToWake).                          *)
(*                                                                         *)
(* The argument for OneWake: while the user is silent a session has one    *)
(* run at most, and its chat_lock or its entry tells (OneRun), whoever     *)
(* cancels it and whenever it fails.                                       *)
(***************************************************************************)
EXTENDS Notifications, WellFoundedInduction, FiniteSetTheorems, TLAPS

Rows == [Notes -> [state : States, tries : 0 .. MaxAttempts]]
RunRecord == [pc : {"none", "starting", "sending", "sent", "tail"},
              internal : BOOLEAN, cancelled : BOOLEAN, text : SUBSET Notes]
Entry == [run : Runs \cup {0}, running : BOOLEAN, ids : SUBSET Notes]
Loop == [pc : {"gone", "waiting", "batching", "spawning"},
         event : BOOLEAN, held : SUBSET Notes]

\* An idle session has a place for one more run.
RoomToWake == Occupied \/ FreeRuns # {}

\* The note has left the table for the memory queue, a message or the model, or
\* was in a message that was dropped.
Handed(n) == n \in seen \cup lost \/ UnderWay(n)

InMessage(n) ==
    \E r \in Runs : /\ run[r].pc \in {"starting", "sending"} /\ ~run[r].cancelled
                   /\ n \in run[r].text

StaysHanded == \A n \in Notes : Handed(n) => Handed(n)'

Marked ==
    \A n \in Notes :
        \/ inbox[n].state \in {"injected", "consumed"}
        \/ n \in entry.ids
        \/ \E ids \in deferred : n \in ids
        => Handed(n)

-----------------------------------------------------------------------------
(* The helpers *)

LEMMA LeastNumber ==
    ASSUME NEW S \in SUBSET Nat, S # {}
    PROVE  Min(S) \in S
<1> DEFINE R == OpToRel(<, Nat)
<1>1. IsWellFoundedOn(R, Nat)
  BY NatLessThanWellFounded
<1>2. \A x, y \in Nat : y < x => <<y, x>> \in R
  BY DEF OpToRel
<1> HIDE DEF R
<1>3. PICK x \in S : \A y \in S : ~(<<y, x>> \in R)
  BY <1>1, WFMin
<1>4. x \in Nat /\ \A y \in S : y \in Nat /\ ~(y < x)
  BY <1>2, <1>3
<1>5. \A y \in S : x <= y
  BY <1>4
<1> QED
  BY <1>5 DEF Min

LEMMA FreeRun ==
    ASSUME FreeRuns # {}
    PROVE  Min(FreeRuns) \in Runs /\ run[Min(FreeRuns)].pc = "none"
<1>1. FreeRuns \in SUBSET Nat
  BY NotificationsAssumption DEF FreeRuns, Runs
<1>2. Min(FreeRuns) \in FreeRuns
  BY <1>1, LeastNumber
<1> QED
  BY <1>2 DEF FreeRuns

LEMMA MarkRows ==
    ASSUME NEW i \in Rows, NEW ns, NEW st \in States
    PROVE  /\ Mark(i, ns, st) \in Rows
           /\ \A n \in Notes : Mark(i, ns, st)[n].state =
                 IF n \in ns /\ i[n].state # "dropped" THEN st ELSE i[n].state
<1>1. \A n \in Notes : /\ i[n] \in [state : States, tries : 0 .. MaxAttempts]
                       /\ [i[n] EXCEPT !.state = st] \in [state : States, tries : 0 .. MaxAttempts]
                       /\ [i[n] EXCEPT !.state = st].state = st
  BY DEF Rows
<1> QED
  BY <1>1 DEF Mark, Rows

LEMMA ClaimRows ==
    ASSUME inbox \in Rows, NEW ns
    PROVE  /\ WithClaims(ns) \in Rows
           /\ \A n \in Notes : WithClaims(ns)[n].state =
                 IF n \in ns THEN "claimed" ELSE inbox[n].state
<1>1. \A n \in Notes : inbox[n] \in [state : States, tries : 0 .. MaxAttempts]
  BY DEF Rows
<1>2. MaxAttempts \in Nat
  BY NotificationsAssumption
<1>3. \A n \in Notes :
          (IF inbox[n].tries = MaxAttempts THEN MaxAttempts ELSE inbox[n].tries + 1)
             \in 0 .. MaxAttempts
  BY <1>1, <1>2
<1>4. \A n \in Notes : WithClaims(ns)[n] \in [state : States, tries : 0 .. MaxAttempts]
  BY <1>1, <1>3 DEF WithClaims, States
<1> QED
  BY <1>4 DEF WithClaims, Rows

LEMMA ClaimedPending ==
    Claimed \subseteq Notes /\ \A n \in Claimed : inbox[n].state = "pending"
BY DEF Claimed, Oldest, In

LEMMA RecoverRows ==
    ASSUME inbox \in Rows, stale \subseteq Notes, Recover
    PROVE  /\ inbox' \in Rows
           /\ \A n \in Notes : /\ inbox'[n].state = Recovered(n)
                               /\ Recovered(n) \in {"injected", "consumed"} =>
                                     inbox[n].state \in {"injected", "consumed"}
           /\ stale' \subseteq {n \in Notes : inbox'[n].state = "injected"}
<1>1. \A n \in Notes : /\ inbox[n] \in [state : States, tries : 0 .. MaxAttempts]
                       /\ Recovered(n) \in States
                       /\ Recovered(n) \in {"injected", "consumed"} =>
                             inbox[n].state \in {"injected", "consumed"}
  BY DEF Rows, Recovered, States
<1>2. \A n \in Notes :
         /\ inbox'[n] = [inbox[n] EXCEPT !.state = Recovered(n)]
         /\ inbox'[n] \in [state : States, tries : 0 .. MaxAttempts]
         /\ inbox'[n].state = Recovered(n)
  BY <1>1 DEF Recover
<1>3. inbox' \in Rows
  BY <1>2 DEF Recover, Rows
<1> QED
  BY <1>1, <1>2, <1>3 DEF Recover

\* Queueing a message drops at most the oldest one, and gives it to Overflow.
LEMMA QueuedMessages ==
    ASSUME NEW q \in Seq(SUBSET Notes), Len(q) <= QueueCap, NEW ns \in SUBSET Notes
    PROVE  /\ Queued(q, ns) \in Seq(SUBSET Notes)
           /\ Len(Queued(q, ns)) <= QueueCap
           /\ Queued(q, ns) # <<>>
           /\ ns \subseteq InQueue(Queued(q, ns))
           /\ InQueue(q) \subseteq InQueue(Queued(q, ns)) \cup Overflow(q)
           /\ Overflow(q) \subseteq Notes
<1> DEFINE all == Append(q, ns)
<1>1. QueueCap \in Nat \ {0}
  BY NotificationsAssumption
<1>2. /\ Len(q) \in Nat /\ DOMAIN q = 1 .. Len(q)
      /\ all \in Seq(SUBSET Notes) /\ Len(all) = Len(q) + 1 /\ DOMAIN all = 1 .. Len(q) + 1
      /\ all[Len(q) + 1] = ns /\ \A i \in 1 .. Len(q) : all[i] = q[i]
      /\ q # <<>> => Head(q) = q[1] /\ Head(q) \subseteq Notes
      /\ q = <<>> => Len(q) = 0
  OBVIOUS
<1>3. /\ Tail(all) \in Seq(SUBSET Notes) /\ Len(Tail(all)) = Len(q)
      /\ DOMAIN Tail(all) = 1 .. Len(q)
      /\ \A i \in 1 .. Len(q) : Tail(all)[i] = all[i + 1]
  BY <1>2
<1> HIDE DEF all
<1>4. CASE Len(all) > QueueCap
  <2>1. Queued(q, ns) = Tail(all) /\ Len(q) = QueueCap /\ q # <<>> /\ Overflow(q) = q[1]
    <3>1. Len(q) = QueueCap /\ q # <<>>
      <4>1. Len(q) \in Nat /\ Len(all) = Len(q) + 1 /\ (q = <<>> => Len(q) = 0)
        BY <1>2
      <4>2. Len(q) = QueueCap
        BY <1>1, <1>4, <4>1
      <4> QED
        BY <1>1, <4>1, <4>2
    <3>2. Queued(q, ns) = Tail(all)
      BY <1>4 DEF Queued, all
    <3>3. Overflow(q) = q[1]
      BY <1>1, <1>2, <3>1 DEF Overflow
    <3> QED
      BY <3>1, <3>2, <3>3
  <2>2. ns = Tail(all)[Len(q)] /\ Len(q) \in DOMAIN Tail(all)
    BY <1>1, <1>2, <1>3, <2>1
  <2>3. \A i \in DOMAIN q : i = 1 \/ (i - 1 \in DOMAIN Tail(all) /\ q[i] = Tail(all)[i - 1])
    BY <1>2, <1>3
  <2>4. InQueue(q) \subseteq InQueue(Tail(all)) \cup q[1]
    BY <2>3 DEF InQueue
  <2>5. Tail(all) # <<>> /\ Len(Tail(all)) <= QueueCap
    BY <1>1, <1>3, <2>1
  <2>6. ns \subseteq InQueue(Tail(all))
    BY <2>2 DEF InQueue
  <2>7. Overflow(q) \subseteq Notes
    BY <1>2, <2>1
  <2> QED
    BY <1>3, <2>1, <2>4, <2>5, <2>6, <2>7
<1>5. CASE ~(Len(all) > QueueCap)
  <2>1. Queued(q, ns) = all /\ Len(q) < QueueCap /\ Overflow(q) = {}
    BY <1>1, <1>2, <1>5 DEF Queued, Overflow, all
  <2>2. \A i \in DOMAIN q : i \in DOMAIN all /\ q[i] = all[i]
    BY <1>2
  <2>3. Len(q) + 1 \in DOMAIN all /\ all[Len(q) + 1] = ns /\ all # <<>>
    BY <1>2
  <2> QED
    BY <1>1, <1>2, <2>1, <2>2, <2>3 DEF InQueue
<1> QED
  BY <1>4, <1>5

-----------------------------------------------------------------------------
(* The steps *)

NoteInv == TypeOK /\ RoomToWake /\ Marked

LEMMA Typed ==
    TypeOK <=> /\ inbox \in Rows
               /\ stale \subseteq {n \in Notes : inbox[n].state = "injected"}
               /\ proc \in {"none", "down", "up"}
               /\ queue \in Seq(SUBSET Notes) /\ Len(queue) <= QueueCap
               /\ proc = "none" => queue = <<>>
               /\ loop \in Loop
               /\ deferred \subseteq SUBSET Notes
               /\ run \in [Runs -> RunRecord]
               /\ entry \in Entry
               /\ seen \subseteq Notes
               /\ lost \subseteq Notes
BY DEF TypeOK, Rows, Loop, RunRecord, Entry

LEMMA TypedNext ==
    ASSUME inbox' \in Rows,
           stale' \subseteq {n \in Notes : inbox'[n].state = "injected"},
           proc' \in {"none", "down", "up"},
           queue' \in Seq(SUBSET Notes), Len(queue') <= QueueCap,
           proc' = "none" => queue' = <<>>,
           loop' \in Loop,
           deferred' \subseteq SUBSET Notes,
           run' \in [Runs -> RunRecord],
           entry' \in Entry,
           seen' \subseteq Notes,
           lost' \subseteq Notes
    PROVE  TypeOK'
BY DEF TypeOK, Rows, Loop, RunRecord, Entry

LEMMA UnderWays == \A n : UnderWay(n) <=> n \in InQueue(queue) \/ InMessage(n)
BY DEF UnderWay, InMessage

LEMMA UnderWaysNext == \A n : UnderWay(n)' <=> n \in InQueue(queue') \/ InMessage(n)'
BY DEF UnderWay, InMessage

LEMMA QueueNotes == ASSUME NEW q \in Seq(SUBSET Notes) PROVE InQueue(q) \subseteq Notes
BY DEF InQueue

LEMMA EmptyQueue == InQueue(<<>>) = {}
BY DEF InQueue

\* A session that keeps its runs and its entry keeps its room.
LEMMA SameRuns ==
    ASSUME RoomToWake, run' = run, entry' = entry
    PROVE  RoomToWake' /\ \A n : InMessage(n)' = InMessage(n)
BY DEF RoomToWake, Occupied, Live, LockHolders, FreeRuns, InMessage

\* A step that only moves the loop, or starts or loses the process.
LEMMA QuietStep ==
    ASSUME NoteInv, loop' \in Loop, proc' \in {"down", "up"} \/ proc' = proc,
           UNCHANGED <<queue, deferred, run, entry, seen, lost>>,
           inbox' \in Rows,
           stale' \subseteq {n \in Notes : inbox'[n].state = "injected"},
           \A n \in Notes : inbox'[n].state \in {"injected", "consumed"} =>
                               inbox[n].state \in {"injected", "consumed"}
    PROVE  NoteInv' /\ StaysHanded
<1>1. TypeOK'
  BY Typed, TypedNext DEF NoteInv
<1>2. RoomToWake' /\ \A n : InMessage(n)' = InMessage(n)
  BY SameRuns DEF NoteInv
<1>3. \A n : Handed(n)' <=> Handed(n)
  BY <1>2, UnderWays, UnderWaysNext DEF Handed
<1>4. Marked'
  BY <1>3 DEF Marked, NoteInv
<1> QED
  BY <1>1, <1>2, <1>3, <1>4 DEF NoteInv, StaysHanded

LEMMA TriggeredLoop == \A l \in Loop : Triggered(l) \in Loop
BY DEF Loop, Triggered

LEMMA EnqueueStep ==
    ASSUME NoteInv, NEW n \in Notes, Enqueue(n)
    PROVE  NoteInv' /\ StaysHanded
<1> USE Typed DEF NoteInv
<1>1. loop' \in Loop
  BY TriggeredLoop DEF Enqueue
<1> DEFINE active == In({"pending", "claimed"})
           excess == IF Cardinality(active) < InboxCap THEN 0
                     ELSE Cardinality(active) - InboxCap + 1
           gone == Oldest(active, excess)
           kept == Mark(inbox, gone, "dropped")
           new == [state |-> "pending", tries |-> 0]
<1>2. inbox' = IF kept[n].state \in {"none", "dropped"} THEN [kept EXCEPT ![n] = new]
               ELSE kept
  BY DEF Enqueue
<1>3. gone \subseteq active
  BY DEF Oldest
<1>4. kept \in Rows /\ \A m \in Notes : kept[m].state =
           IF m \in gone /\ inbox[m].state # "dropped" THEN "dropped" ELSE inbox[m].state
  BY MarkRows DEF States
<1>5. new \in [state : States, tries : 0 .. MaxAttempts] /\ new.state = "pending"
  BY NotificationsAssumption DEF States
<1>6. \A m \in gone : inbox[m].state \in {"pending", "claimed"}
  BY <1>3 DEF In
<1> HIDE DEF active, excess, gone, kept, new
<1>7. inbox' \in Rows
  BY <1>2, <1>4, <1>5 DEF Rows
<1>8. \A m \in Notes : inbox'[m].state =
         IF m = n /\ kept[n].state \in {"none", "dropped"} THEN "pending" ELSE kept[m].state
  BY <1>2, <1>4, <1>5 DEF Rows
<1>9. \A m \in Notes : inbox'[m].state \in {"injected", "consumed"} =>
                          inbox[m].state \in {"injected", "consumed"}
  BY <1>4, <1>8
<1>10. stale' \subseteq {m \in Notes : inbox'[m].state = "injected"}
  BY <1>4, <1>6, <1>8 DEF Enqueue
<1> QED
  BY <1>1, <1>7, <1>9, <1>10, QuietStep DEF Enqueue

LEMMA LoopSteps ==
    ASSUME NoteInv, LoopWakesUp \/ LoopTimesOut
    PROVE  NoteInv' /\ StaysHanded
<1>1. loop \in Loop
  BY Typed DEF NoteInv
<1>2. [loop EXCEPT !.pc = "batching", !.event = FALSE] \in Loop /\ NoLoop \in Loop
  BY <1>1 DEF Loop, NoLoop
<1>3. loop' \in Loop
  BY <1>2 DEF LoopWakesUp, LoopTimesOut
<1> QED
  BY <1>3, Typed, QuietStep DEF NoteInv, LoopWakesUp, LoopTimesOut

LEMMA PoolRefusesStep ==
    ASSUME NoteInv, PoolRefuses
    PROVE  NoteInv' /\ StaysHanded
<1> USE Typed DEF NoteInv
<1> DEFINE i == WithClaims(Claimed)
<1>1. i \in Rows /\ \A n \in Notes : i[n].state =
           IF n \in Claimed THEN "claimed" ELSE inbox[n].state
  BY ClaimRows
<1> HIDE DEF i
<1>2. inbox' = Mark(i, Claimed, "pending")
  BY DEF PoolRefuses, i
<1>3. inbox' \in Rows /\ \A n \in Notes : inbox'[n].state =
         IF n \in Claimed /\ i[n].state # "dropped" THEN "pending" ELSE i[n].state
  BY <1>1, <1>2, MarkRows DEF States
<1>4. \A n \in Notes : inbox'[n].state = IF n \in Claimed THEN "pending" ELSE inbox[n].state
  BY <1>1, <1>3
<1>5. stale' \subseteq {n \in Notes : inbox'[n].state = "injected"}
  BY <1>4, ClaimedPending DEF PoolRefuses
<1>6. loop' \in Loop
  BY DEF PoolRefuses, Loop
<1> QED
  BY <1>3, <1>4, <1>5, <1>6, QuietStep DEF PoolRefuses

LEMMA SpawnFailsStep ==
    ASSUME NoteInv, SpawnFails
    PROVE  NoteInv' /\ StaysHanded
<1> USE Typed DEF NoteInv
<1>1. inbox' \in Rows /\ \A n \in Notes : inbox'[n].state =
         IF n \in loop.held \cap In({"claimed"}) /\ inbox[n].state # "dropped" THEN "pending"
         ELSE inbox[n].state
  BY MarkRows DEF SpawnFails, States
<1>2. stale' \subseteq {n \in Notes : inbox'[n].state = "injected"}
  BY <1>1 DEF SpawnFails, In
<1>3. loop' \in Loop
  BY DEF SpawnFails, Loop
<1> QED
  BY <1>1, <1>2, <1>3, QuietStep DEF SpawnFails

LEMMA SmallSteps ==
    ASSUME NoteInv,
           \/ \E n \in Notes : GrowStale(n)
           \/ Reconcile
           \/ ProcessDies
           \/ UNCHANGED vars
    PROVE  NoteInv' /\ StaysHanded
<1> USE Typed DEF NoteInv
<1>1. CASE \E n \in Notes : GrowStale(n)
  BY <1>1, QuietStep DEF GrowStale
<1>2. CASE Reconcile
  <2>1. loop' \in Loop
    BY <1>2, TriggeredLoop DEF Reconcile
  <2>2. stale \subseteq Notes
    OBVIOUS
  <2>3. /\ inbox' \in Rows
        /\ \A n \in Notes : inbox'[n].state \in {"injected", "consumed"} =>
                               inbox[n].state \in {"injected", "consumed"}
        /\ stale' \subseteq {n \in Notes : inbox'[n].state = "injected"}
    BY <1>2, <2>2, RecoverRows DEF Reconcile
  <2> QED
    BY <1>2, <2>1, <2>3, QuietStep DEF Reconcile
<1>3. CASE ProcessDies
  BY <1>3, QuietStep DEF ProcessDies
<1>4. CASE UNCHANGED vars
  BY <1>4, QuietStep DEF vars
<1> QED
  BY <1>1, <1>2, <1>3, <1>4

\* What a step that hands notes over has to show besides the types.
LEMMA HandStep ==
    ASSUME NoteInv, TypeOK', RoomToWake',
           \A n \in Notes : Handed(n) => Handed(n)',
           \A n \in Notes : inbox'[n].state \in {"injected", "consumed"} =>
                               inbox[n].state \in {"injected", "consumed"} \/ Handed(n)',
           \A n \in entry'.ids : n \in entry.ids \/ Handed(n)',
           \A ids \in deferred' : ids \in deferred \/ \A n \in ids : Handed(n)'
    PROVE  NoteInv' /\ StaysHanded
<1>1. \A n \in Notes :
         \/ inbox[n].state \in {"injected", "consumed"}
         \/ n \in entry.ids
         \/ \E ids \in deferred : n \in ids
         => Handed(n)'
  BY DEF NoteInv, Marked
<1>2. entry' \in Entry
  BY DEF TypeOK, Entry
<1>3. Marked'
  BY <1>1 DEF Marked
<1> QED
  BY <1>3 DEF NoteInv, StaysHanded

LEMMA WakeStep ==
    ASSUME TypeOK, RoomToWake, ~Occupied,
           NEW q \in Seq(SUBSET Notes), NEW ns \in SUBSET Notes, Wake(q, ns)
    PROVE  /\ run' \in [Runs -> RunRecord] /\ entry' \in Entry /\ entry'.ids = {}
           /\ queue' = <<>> /\ RoomToWake'
           /\ \A n : InMessage(n) => InMessage(n)'
           /\ \A n \in InQueue(q) : InMessage(n)'
           /\ q = <<>> => \A n \in ns : InMessage(n)'
<1> DEFINE r == Min(FreeRuns)
           text == IF q = <<>> THEN ns ELSE InQueue(q)
           new == [pc |-> "starting", internal |-> TRUE, cancelled |-> FALSE, text |-> text]
           e == [run |-> r, running |-> TRUE, ids |-> {}]
<1>1. r \in Runs /\ run[r].pc = "none"
  BY FreeRun DEF RoomToWake
<1>2. run' = [run EXCEPT ![r] = new] /\ entry' = e /\ queue' = <<>>
  BY DEF Wake
<1>3. text \subseteq Notes
  BY QueueNotes
<1>4. new \in RunRecord /\ new.pc = "starting" /\ ~new.cancelled /\ new.text = text
  BY <1>3 DEF RunRecord
<1>5. e \in Entry /\ e.ids = {} /\ e.run = r /\ e.running
  BY <1>1 DEF Entry
<1>6. run \in [Runs -> RunRecord]
  BY Typed
<1>7. q = <<>> => InQueue(q) = {}
  BY EmptyQueue
<1>8. InQueue(q) \subseteq text /\ (q = <<>> => text = ns)
  BY <1>7
<1>9. r # 0
  BY <1>1, NotificationsAssumption DEF Runs
<1> HIDE DEF r, text, new, e
<1>10. run' \in [Runs -> RunRecord] /\ run'[r] = new /\ \A s \in Runs : s # r => run'[s] = run[s]
  BY <1>1, <1>2, <1>4, <1>6
<1>11. Occupied'
  BY <1>2, <1>4, <1>5, <1>9, <1>10 DEF Occupied, Live
<1>12. \A n : InMessage(n) => InMessage(n)'
  BY <1>1, <1>10 DEF InMessage
<1>13. \A n \in text : InMessage(n)'
  BY <1>1, <1>4, <1>10 DEF InMessage
<1> QED
  BY <1>2, <1>5, <1>8, <1>10, <1>11, <1>12, <1>13 DEF RoomToWake

LEMMA DeliverStep ==
    ASSUME NoteInv, NEW i \in Rows, NEW ids \in SUBSET Notes, NEW idle,
           Deliver(i, ids, idle), idle => ~Occupied,
           proc' \in {"none", "down", "up"}, proc' = "none" => proc = "none",
           stale \subseteq {n \in Notes : i[n].state = "injected"},
           \A n \in Notes : i[n].state \in {"injected", "consumed"} =>
                               inbox[n].state \in {"injected", "consumed"}
    PROVE  NoteInv' /\ StaysHanded
<1> USE Typed DEF NoteInv
<1> DEFINE q == Queued(queue, ids)
           put == Mark(i, ids, "injected")
           injected == Mark(put, ids \cap Fleeting, "consumed")
           used == Mark(injected, ids, "consumed")
<1>1. /\ q \in Seq(SUBSET Notes) /\ Len(q) <= QueueCap /\ q # <<>>
      /\ ids \subseteq InQueue(q)
      /\ InQueue(queue) \subseteq InQueue(q) \cup Overflow(queue)
      /\ Overflow(queue) \subseteq Notes
  BY QueuedMessages
<1>2. put \in Rows /\ \A n \in Notes : n \notin ids => put[n].state = i[n].state
  BY MarkRows DEF States
<1>3. injected \in Rows /\ \A n \in Notes : n \notin ids => injected[n].state = i[n].state
  BY <1>2, MarkRows DEF States
<1>4. used \in Rows /\ \A n \in Notes : n \notin ids => used[n].state = i[n].state
  BY <1>3, MarkRows DEF States
<1>5. /\ loop' = [loop EXCEPT !.pc = "waiting", !.held = {}]
      /\ stale' = stale \ ids /\ seen' = seen
      /\ idle => /\ Wake(q, ids) /\ inbox' = used
                 /\ lost' = lost \cup Overflow(queue) /\ deferred' = deferred
      /\ ~idle => /\ queue' = (IF proc = "none" THEN queue ELSE q)
                  /\ lost' = lost \cup (IF proc = "none" THEN ids ELSE Overflow(queue))
                  /\ inbox' = injected /\ deferred' = deferred \cup {ids}
                  /\ run' = run /\ entry' = entry
  BY DEF Deliver
<1> HIDE DEF q, put, injected, used
<1>6. inbox' \in Rows /\ \A n \in Notes : n \notin ids => inbox'[n].state = i[n].state
  BY <1>3, <1>4, <1>5
<1>7. stale' \subseteq {n \in Notes : inbox'[n].state = "injected"}
  BY <1>5, <1>6
<1>8. loop' \in Loop
  BY <1>5 DEF Loop
<1>9. deferred' \subseteq SUBSET Notes /\ lost' \subseteq Notes /\ seen' \subseteq Notes
  BY <1>1, <1>5
<1>10. CASE idle
  <2>1. /\ run' \in [Runs -> RunRecord] /\ entry' \in Entry /\ entry'.ids = {}
        /\ queue' = <<>> /\ RoomToWake'
        /\ \A n : InMessage(n) => InMessage(n)'
        /\ \A n \in InQueue(q) : InMessage(n)'
    BY <1>1, <1>5, <1>10, WakeStep
  <2>2. <<>> \in Seq(SUBSET Notes) /\ Len(<<>>) = 0 /\ 0 <= QueueCap
    BY NotificationsAssumption
  <2>3. TypeOK'
    BY <1>6, <1>7, <1>8, <1>9, <2>1, <2>2, TypedNext
  <2>4. \A n \in Notes : Handed(n) => Handed(n)'
    BY <1>1, <1>5, <1>10, <2>1, UnderWays, UnderWaysNext DEF Handed
  <2>5. \A n \in ids : Handed(n)'
    BY <1>1, <2>1, UnderWaysNext DEF Handed
  <2> QED
    BY <1>5, <1>6, <1>10, <2>1, <2>3, <2>4, <2>5, HandStep
<1>11. CASE ~idle
  <2>1. RoomToWake' /\ \A n : InMessage(n)' = InMessage(n)
    BY <1>5, <1>11, SameRuns
  <2>2. /\ queue' \in Seq(SUBSET Notes) /\ Len(queue') <= QueueCap
        /\ proc' = "none" => queue' = <<>>
    BY <1>1, <1>5, <1>11
  <2>3. TypeOK'
    BY <1>5, <1>6, <1>7, <1>8, <1>9, <1>11, <2>2, TypedNext
  <2>4. \A n \in Notes : Handed(n) => Handed(n)'
    BY <1>1, <1>5, <1>11, <2>1, UnderWays, UnderWaysNext DEF Handed
  <2>5. \A n \in ids : Handed(n)'
    BY <1>1, <1>5, <1>11, UnderWaysNext DEF Handed
  <2> QED
    BY <1>5, <1>6, <1>11, <2>1, <2>3, <2>4, <2>5, HandStep
<1> QED
  BY <1>10, <1>11

LEMMA DispatchStep ==
    ASSUME NoteInv, Dispatch
    PROVE  NoteInv' /\ StaysHanded
<1> USE Typed DEF NoteInv
<1> DEFINE i == WithClaims(Claimed)
<1>1. /\ i \in Rows
      /\ \A n \in Notes : i[n].state = IF n \in Claimed THEN "claimed" ELSE inbox[n].state
  BY ClaimRows
<1>2. /\ stale \subseteq {n \in Notes : i[n].state = "injected"}
      /\ \A n \in Notes : i[n].state \in {"injected", "consumed"} =>
                             inbox[n].state \in {"injected", "consumed"}
  BY <1>1, ClaimedPending
<1> HIDE DEF i
<1>3. CASE Claimed = {}
  <2>1. [loop EXCEPT !.pc = "waiting"] \in Loop
    BY DEF Loop
  <2>2. /\ loop' = [loop EXCEPT !.pc = "waiting"]
        /\ UNCHANGED <<inbox, stale, proc, queue, deferred, run, entry, seen, lost>>
    BY <1>3 DEF Dispatch
  <2> QED
    BY <2>1, <2>2, QuietStep
<1>4. CASE Claimed # {} /\ proc = "up"
  <2>1. Deliver(i, Claimed, ~Occupied) /\ proc' = proc
    BY <1>4 DEF Dispatch, i
  <2>2. Claimed \in SUBSET Notes
    BY ClaimedPending
  <2>3. \A idle : idle = ~Occupied /\ Deliver(i, Claimed, idle) => NoteInv' /\ StaysHanded
    BY <1>1, <1>2, <1>4, <2>1, <2>2, DeliverStep
  <2> QED
    BY <2>1, <2>3
<1>5. CASE Claimed # {} /\ proc # "up"
  <2>1. /\ inbox' = i /\ proc' = "down"
        /\ loop' = [loop EXCEPT !.pc = "spawning", !.held = Claimed]
        /\ UNCHANGED <<stale, queue, deferred, run, entry, seen, lost>>
    BY <1>5 DEF Dispatch, i
  <2>2. loop' \in Loop
    BY <2>1, ClaimedPending DEF Loop
  <2> QED
    BY <1>1, <1>2, <2>1, <2>2, QuietStep
<1> QED
  BY <1>3, <1>4, <1>5

LEMMA LoopSpawnedStep ==
    ASSUME NoteInv, LoopSpawned
    PROVE  NoteInv' /\ StaysHanded
<1> USE Typed DEF NoteInv
<1>1. PICK idle \in BOOLEAN : Deliver(inbox, loop.held, idle) /\ (idle => ~Occupied)
  <2>1. Deliver(inbox, loop.held, ~Occupied) \/ Deliver(inbox, loop.held, FALSE)
    BY DEF LoopSpawned
  <2>2. Occupied \in BOOLEAN
    BY DEF Occupied, Live
  <2> QED
    BY <2>1, <2>2
<1>2. loop.held \in SUBSET Notes
  BY DEF Loop
<1>3. proc' \in {"none", "down", "up"} /\ (proc' = "none" => proc = "none")
  BY DEF LoopSpawned
<1> QED
  BY <1>1, <1>2, <1>3, DeliverStep

LEMMA DeferredRetryStep ==
    ASSUME NoteInv, NEW ids \in deferred, DeferredRetry(ids)
    PROVE  NoteInv' /\ StaysHanded
<1> USE Typed DEF NoteInv
<1> DEFINE left == ids \cap In({"pending", "claimed", "injected", "failed"})
<1>1. ids \in SUBSET Notes /\ \A n \in ids : Handed(n)
  BY DEF Marked
<1>2. deferred' = deferred \ {ids} /\ proc' = proc /\ loop' = loop /\ seen' = seen /\ lost' = lost
  BY DEF DeferredRetry
<1>3. CASE proc = "up" /\ ~Occupied
  <2>1. Wake(queue, ids) /\ inbox' = Mark(inbox, left, "consumed") /\ stale' = stale \ ids
    BY <1>3 DEF DeferredRetry
  <2>2. inbox' \in Rows /\ \A n \in Notes : n \notin ids => inbox'[n].state = inbox[n].state
    BY <2>1, MarkRows DEF States
  <2>3. /\ run' \in [Runs -> RunRecord] /\ entry' \in Entry /\ entry'.ids = {}
        /\ queue' = <<>> /\ RoomToWake'
        /\ \A n : InMessage(n) => InMessage(n)'
        /\ \A n \in InQueue(queue) : InMessage(n)'
    BY <1>1, <1>3, <2>1, WakeStep
  <2>4. <<>> \in Seq(SUBSET Notes) /\ Len(<<>>) = 0 /\ 0 <= QueueCap
    BY NotificationsAssumption
  <2>5. stale' \subseteq {n \in Notes : inbox'[n].state = "injected"}
    BY <2>1, <2>2
  <2>6. TypeOK'
    BY <1>2, <2>2, <2>3, <2>4, <2>5, TypedNext
  <2>7. \A n \in Notes : Handed(n) => Handed(n)'
    BY <1>2, <2>3, UnderWays, UnderWaysNext DEF Handed
  <2> QED
    BY <1>1, <1>2, <2>2, <2>3, <2>6, <2>7, HandStep
<1>4. CASE ~(proc = "up" /\ ~Occupied)
  <2>1. UNCHANGED <<inbox, stale, queue, run, entry>>
    BY <1>4 DEF DeferredRetry
  <2>2. TypeOK'
    BY <1>2, <2>1, TypedNext
  <2>3. RoomToWake' /\ \A n : InMessage(n)' = InMessage(n)
    BY <2>1, SameRuns
  <2>4. \A n \in Notes : Handed(n) => Handed(n)'
    BY <1>2, <2>1, <2>3, UnderWays, UnderWaysNext DEF Handed
  <2> QED
    BY <1>2, <2>1, <2>2, <2>3, <2>4, HandStep
<1> QED
  BY <1>3, <1>4

\* Cancelling a run frees its place, or marks it.
LEMMA CancelledRuns ==
    ASSUME run \in [Runs -> RunRecord], NEW r \in Runs, NEW begun
    PROVE  /\ Cancelled(r, begun) \in [Runs -> RunRecord]
           /\ \A s \in Runs \ {r} : Cancelled(r, begun)[s] = run[s]
           /\ \/ run[r].pc = "starting" /\ ~begun /\ Cancelled(r, begun)[r].pc = "none"
              \/ /\ run[r].pc = "starting" => begun
                 /\ Cancelled(r, begun)[r].pc = run[r].pc
                 /\ Cancelled(r, begun)[r].cancelled
<1> DEFINE c == [run[r] EXCEPT !.cancelled = TRUE]
<1>1. run[r] \in RunRecord
  OBVIOUS
<1>2. c \in RunRecord /\ c.pc = run[r].pc /\ c.cancelled
  BY <1>1 DEF RunRecord
<1>3. NoRun \in RunRecord /\ NoRun.pc = "none"
  BY DEF RunRecord, NoRun
<1>4. Cancelled(r, begun) = IF run[r].pc = "starting" /\ ~begun THEN [run EXCEPT ![r] = NoRun]
                            ELSE [run EXCEPT ![r] = c]
  BY DEF Cancelled
<1> HIDE DEF c, NoRun
<1> QED
  BY <1>2, <1>3, <1>4

LEMMA CancelStep ==
    ASSUME NoteInv, Cancel
    PROVE  NoteInv' /\ StaysHanded
<1> USE Typed DEF NoteInv
<1> DEFINE r == entry.run
<1>1. r \in Runs /\ run[r].pc # "none"
  BY DEF Cancel, Live, Entry
<1>2. PICK begun \in BOOLEAN : (begun => LockHolders # {}) /\ run' = Cancelled(r, begun)
  BY DEF Cancel
<1>3. /\ run' \in [Runs -> RunRecord] /\ \A s \in Runs \ {r} : run'[s] = run[s]
      /\ \/ run[r].pc = "starting" /\ ~begun /\ run'[r].pc = "none"
         \/ (run[r].pc = "starting" => begun) /\ run'[r].pc = run[r].pc /\ run'[r].cancelled
  BY <1>1, <1>2, CancelledRuns
<1>4. /\ entry' = [entry EXCEPT !.running = FALSE] /\ lost' = lost \cup Unwritten(r)
      /\ UNCHANGED <<inbox, stale, proc, queue, loop, deferred, seen>>
  BY DEF Cancel
<1> HIDE DEF r
<1>5. entry' \in Entry /\ entry'.ids = entry.ids
  BY <1>4 DEF Entry
<1>6. Unwritten(r) \subseteq Notes
  BY <1>1 DEF Unwritten, RunRecord
<1>7. TypeOK'
  BY <1>3, <1>4, <1>5, <1>6, TypedNext
<1>8. RoomToWake'
  <2>1. CASE run'[r].pc = "none"
    BY <1>1, <2>1 DEF RoomToWake, FreeRuns
  <2>2. CASE run[r].pc = "starting" /\ run'[r].pc = run[r].pc /\ LockHolders # {}
    <3>1. PICK h \in Runs : run[h].pc \in {"sending", "sent", "tail"}
      BY <2>2 DEF LockHolders
    <3>2. run'[h].pc = run[h].pc
      BY <1>3, <2>2
    <3> QED
      BY <3>1, <3>2 DEF RoomToWake, Occupied, LockHolders
  <2>3. CASE run[r].pc # "starting" /\ run'[r].pc = run[r].pc
    <3>1. run[r].pc \in {"sending", "sent", "tail"}
      BY <1>1, <2>3 DEF RunRecord
    <3> QED
      BY <1>1, <2>3, <3>1 DEF RoomToWake, Occupied, LockHolders
  <2> QED
    BY <1>2, <1>3, <2>1, <2>2, <2>3
<1>9. \A n \in Notes : InMessage(n) => InMessage(n)' \/ n \in Unwritten(r)
  BY <1>1, <1>3 DEF InMessage, Unwritten
<1>10. \A n \in Notes : Handed(n) => Handed(n)'
  BY <1>4, <1>9, UnderWays, UnderWaysNext DEF Handed
<1> QED
  BY <1>4, <1>5, <1>7, <1>8, <1>10, HandStep

LEMMA ChatStep ==
    ASSUME NoteInv, Chat
    PROVE  NoteInv' /\ StaysHanded
<1> USE Typed DEF NoteInv
<1> DEFINE old == entry.run
           wake == entry.running /\ Live(old)
           r == Min(FreeRuns)
           ids == Claimed
           new == [pc |-> "starting", internal |-> FALSE, cancelled |-> FALSE, text |-> ids]
           e == [run |-> r, running |-> TRUE, ids |-> ids]
           i == WithClaims(ids)
<1>1. r \in Runs /\ run[r].pc = "none"
  BY FreeRun DEF Chat
<1>2. ids \subseteq Notes /\ \A n \in ids : inbox[n].state = "pending"
  BY ClaimedPending
<1>3. new \in RunRecord /\ new.pc = "starting" /\ ~new.cancelled /\ new.text = ids
  BY <1>2 DEF RunRecord
<1>4. e \in Entry /\ e.ids = ids /\ e.run = r /\ e.running /\ r # 0
  BY <1>1, <1>2, NotificationsAssumption DEF Entry, Runs
<1>5. i \in Rows /\ \A n \in Notes : i[n].state = IF n \in ids THEN "claimed" ELSE inbox[n].state
  BY ClaimRows
<1>6. wake => old \in Runs /\ run[old].pc # "none"
  BY DEF Live, Entry
<1>7. PICK begun \in BOOLEAN :
         /\ begun => LockHolders # {}
         /\ run' = [(IF wake THEN Cancelled(old, begun) ELSE run) EXCEPT ![r] = new]
  BY DEF Chat
<1>8. /\ queue' = IF wake THEN Preempt(queue, run[old].text) ELSE queue
      /\ lost' = lost \cup (IF ~wake THEN {}
                            ELSE IF proc = "none" THEN Unwritten(old) ELSE Overflow(queue))
      /\ entry' = e /\ inbox' = Mark(i, ids, "injected")
      /\ UNCHANGED <<stale, proc, loop, deferred, seen>>
  BY DEF Chat
<1> HIDE DEF old, wake, r, new, e, i, ids
<1>9. inbox' \in Rows /\ \A n \in Notes : n \notin ids => inbox'[n].state = inbox[n].state
  BY <1>5, <1>8, MarkRows DEF States
<1>10. stale' \subseteq {n \in Notes : inbox'[n].state = "injected"}
  BY <1>2, <1>8, <1>9
<1>11. /\ run' \in [Runs -> RunRecord] /\ run'[r] = new
       /\ \A s \in Runs \ {r} : (wake => s # old) => run'[s] = run[s]
  <2>1. CASE wake
    <3>1. /\ Cancelled(old, begun) \in [Runs -> RunRecord]
          /\ \A s \in Runs \ {old} : Cancelled(old, begun)[s] = run[s]
      BY <1>6, <2>1, CancelledRuns
    <3>2. run' = [Cancelled(old, begun) EXCEPT ![r] = new]
      BY <1>7, <2>1
    <3> QED
      BY <1>1, <1>3, <2>1, <3>1, <3>2
  <2>2. CASE ~wake
    BY <1>1, <1>3, <1>7, <2>2
  <2> QED
    BY <2>1, <2>2
<1>12. wake => run[old].text \subseteq Notes /\ Unwritten(old) \subseteq Notes
  BY <1>6 DEF RunRecord, Unwritten
<1>13. /\ queue' \in Seq(SUBSET Notes) /\ Len(queue') <= QueueCap
       /\ proc' = "none" => queue' = <<>>
       /\ lost' \subseteq Notes
       /\ InQueue(queue) \subseteq InQueue(queue') \cup lost'
       /\ wake => /\ proc = "none" => Unwritten(old) \subseteq lost'
                  /\ proc # "none" => run[old].text \subseteq InQueue(queue')
  <2>1. CASE wake /\ proc # "none"
    <3>1. queue' = Queued(queue, run[old].text) /\ lost' = lost \cup Overflow(queue)
      BY <1>8, <2>1 DEF Preempt
    <3> QED
      BY <1>8, <1>12, <2>1, <3>1, QueuedMessages
  <2>2. CASE wake /\ proc = "none"
    BY <1>8, <1>12, <2>2 DEF Preempt
  <2>3. CASE ~wake
    BY <1>8, <2>3
  <2> QED
    BY <2>1, <2>2, <2>3
<1>14. TypeOK'
  <2>1. entry' \in Entry /\ loop' \in Loop /\ deferred' \subseteq SUBSET Notes
        /\ seen' \subseteq Notes /\ proc' \in {"none", "down", "up"}
    BY <1>4, <1>8
  <2> QED
    BY <1>9, <1>10, <1>11, <1>13, <2>1, TypedNext
<1>15. RoomToWake'
  BY <1>3, <1>4, <1>8, <1>11 DEF RoomToWake, Occupied, Live
<1>16. \A n \in Notes : InMessage(n) =>
          InMessage(n)' \/ (wake /\ n \in run[old].text /\ n \in Unwritten(old))
  BY <1>1, <1>11 DEF InMessage, Unwritten
<1>17. \A n \in Notes : Handed(n) => Handed(n)'
  <2>1. \A n \in Notes : InMessage(n) => InMessage(n)' \/ n \in lost' \/ n \in InQueue(queue')
    BY <1>13, <1>16
  <2> QED
    BY <1>8, <1>13, <2>1, UnderWays, UnderWaysNext DEF Handed
<1>18. \A n \in ids : Handed(n)'
  <2>1. \A n \in ids : InMessage(n)'
    BY <1>1, <1>3, <1>11 DEF InMessage
  <2> QED
    BY <2>1, UnderWaysNext DEF Handed
<1> QED
  BY <1>4, <1>8, <1>9, <1>14, <1>15, <1>17, <1>18, HandStep

LEMMA RunBeginsStep ==
    ASSUME NoteInv, NEW r \in Runs, RunBegins(r)
    PROVE  NoteInv' /\ StaysHanded
<1> USE Typed DEF NoteInv
<1> DEFINE new == [run[r] EXCEPT !.pc = "sending"]
<1>1. /\ new \in RunRecord /\ new.pc = "sending" /\ new.cancelled = run[r].cancelled
      /\ new.text = run[r].text
  BY DEF RunRecord
<1>2. run' = [run EXCEPT ![r] = new]
  BY DEF RunBegins
<1> HIDE DEF new
<1>3. run' \in [Runs -> RunRecord] /\ run'[r] = new /\ \A s \in Runs \ {r} : run'[s] = run[s]
  BY <1>1, <1>2
<1>4. proc' \in {"none", "down", "up"} /\ (proc' = "none" => proc = "none")
      /\ UNCHANGED <<inbox, stale, queue, loop, deferred, entry, seen, lost>>
  BY DEF RunBegins
<1>5. TypeOK'
  BY <1>3, <1>4, TypedNext
<1>6. RoomToWake'
  BY <1>1, <1>3 DEF RoomToWake, Occupied, LockHolders
<1>7. \A n : InMessage(n) => InMessage(n)'
  BY <1>1, <1>3 DEF InMessage
<1>8. \A n \in Notes : Handed(n) => Handed(n)'
  BY <1>4, <1>7, UnderWays, UnderWaysNext DEF Handed
<1> QED
  BY <1>4, <1>5, <1>6, <1>8, HandStep

LEMMA RunSendsStep ==
    ASSUME NoteInv, NEW r \in Runs, RunSends(r)
    PROVE  NoteInv' /\ StaysHanded
<1> USE Typed DEF NoteInv
<1> DEFINE new == [run[r] EXCEPT !.pc = "sent"]
<1>1. new \in RunRecord /\ new.pc = "sent" /\ run[r].text \subseteq Notes
  BY DEF RunRecord
<1>2. run' = [run EXCEPT ![r] = new]
  BY DEF RunSends
<1> HIDE DEF new
<1>3. run' \in [Runs -> RunRecord] /\ run'[r] = new /\ \A s \in Runs \ {r} : run'[s] = run[s]
  BY <1>1, <1>2
<1>4. /\ proc' = "up" /\ queue' = <<>> /\ seen' = seen \cup run[r].text \cup InQueue(queue)
      /\ UNCHANGED <<inbox, stale, loop, deferred, entry, lost>>
  BY DEF RunSends
<1>5. <<>> \in Seq(SUBSET Notes) /\ Len(<<>>) = 0 /\ 0 <= QueueCap
  BY NotificationsAssumption
<1>6. seen' \subseteq Notes
  BY <1>1, <1>4, QueueNotes
<1>7. TypeOK'
  BY <1>3, <1>4, <1>5, <1>6, TypedNext
<1>8. RoomToWake'
  BY <1>1, <1>3 DEF RoomToWake, Occupied, LockHolders
<1>9. \A n : InMessage(n) => InMessage(n)' \/ n \in run[r].text
  BY <1>3 DEF InMessage
<1>10. \A n \in Notes : Handed(n) => Handed(n)'
  BY <1>4, <1>9, UnderWays, UnderWaysNext DEF Handed
<1> QED
  BY <1>4, <1>7, <1>8, <1>10, HandStep

\* The end of a run, whatever becomes of the memory queue, as long as a message
\* that was not written is counted as dropped.
LEMMA FinallyStep ==
    ASSUME NoteInv, NEW r \in Runs, Finally(r),
           queue' = queue \/ (queue' = <<>> /\ InQueue(queue) \subseteq lost'),
           lost \subseteq lost', lost' \subseteq Notes,
           run[r].pc \in {"starting", "sending"} /\ ~run[r].cancelled => run[r].text \subseteq lost'
    PROVE  NoteInv' /\ StaysHanded
<1> USE Typed DEF NoteInv
<1>1. NoRun \in RunRecord /\ NoRun.pc = "none"
  BY DEF RunRecord, NoRun
<1>2. /\ run' = [run EXCEPT ![r] = NoRun] /\ entry' = [entry EXCEPT !.running = FALSE]
      /\ inbox' = Mark(inbox, entry.ids, "consumed") /\ stale' = stale \ entry.ids
      /\ loop' = Triggered(loop) /\ UNCHANGED <<proc, deferred, seen>>
  BY DEF Finally
<1> HIDE DEF NoRun
<1>3. run' \in [Runs -> RunRecord] /\ run'[r] = NoRun /\ \A s \in Runs \ {r} : run'[s] = run[s]
  BY <1>1, <1>2
<1>4. entry' \in Entry /\ entry'.ids = entry.ids
  BY <1>2 DEF Entry
<1>5. inbox' \in Rows
      /\ \A n \in Notes : n \notin entry.ids => inbox'[n].state = inbox[n].state
  BY <1>2, MarkRows DEF States
<1>6. stale' \subseteq {n \in Notes : inbox'[n].state = "injected"}
  BY <1>2, <1>5
<1>7. loop' \in Loop
  BY <1>2, TriggeredLoop
<1>8. <<>> \in Seq(SUBSET Notes) /\ Len(<<>>) = 0 /\ 0 <= QueueCap
  BY NotificationsAssumption
<1>9. queue' \in Seq(SUBSET Notes) /\ Len(queue') <= QueueCap /\ (proc' = "none" => queue' = <<>>)
  BY <1>2, <1>8
<1>10. TypeOK'
  BY <1>2, <1>3, <1>4, <1>5, <1>6, <1>7, <1>9, TypedNext
<1>11. RoomToWake'
  BY <1>1, <1>3 DEF RoomToWake, FreeRuns
<1>12. \A n : InMessage(n) => InMessage(n)' \/ n \in lost'
  BY <1>3 DEF InMessage
<1>13. \A n \in Notes : Handed(n) => Handed(n)'
  BY <1>2, <1>12, UnderWays, UnderWaysNext DEF Handed
<1>14. \A n \in entry.ids : n \in Notes /\ Handed(n)'
  <2>1. entry.ids \subseteq Notes
    BY DEF Entry
  <2> QED
    BY <1>13, <2>1 DEF Marked
<1> QED
  BY <1>2, <1>4, <1>5, <1>10, <1>11, <1>13, <1>14, HandStep

LEMMA RunEndsStep ==
    ASSUME NoteInv, NEW r \in Runs, RunEnds(r)
    PROVE  NoteInv' /\ StaysHanded
<1> USE Typed DEF NoteInv
<1>1. CASE Finally(r) /\ UNCHANGED <<queue, lost>>
  BY <1>1, FinallyStep DEF RunEnds
<1>2. CASE ~(Finally(r) /\ UNCHANGED <<queue, lost>>)
  <2> DEFINE new == [run[r] EXCEPT !.pc = "tail"]
  <2>1. new \in RunRecord /\ new.pc = "tail" /\ run[r].pc = "sent"
    BY DEF RunRecord, RunEnds
  <2>2. /\ run' = [run EXCEPT ![r] = new] /\ entry' = [entry EXCEPT !.running = FALSE]
        /\ UNCHANGED <<inbox, stale, proc, queue, loop, deferred, seen, lost>>
    BY <1>2 DEF RunEnds
  <2> HIDE DEF new
  <2>3. run' \in [Runs -> RunRecord] /\ run'[r] = new /\ \A s \in Runs \ {r} : run'[s] = run[s]
    BY <2>1, <2>2
  <2>4. entry' \in Entry /\ entry'.ids = entry.ids
    BY <2>2 DEF Entry
  <2>5. TypeOK'
    BY <2>2, <2>3, <2>4, TypedNext
  <2>6. RoomToWake'
    BY <2>1, <2>3 DEF RoomToWake, Occupied, LockHolders
  <2>7. \A n : InMessage(n) => InMessage(n)'
    BY <2>1, <2>3 DEF InMessage
  <2>8. \A n \in Notes : Handed(n) => Handed(n)'
    BY <2>2, <2>7, UnderWays, UnderWaysNext DEF Handed
  <2> QED
    BY <2>2, <2>4, <2>5, <2>6, <2>8, HandStep
<1> QED
  BY <1>1, <1>2

LEMMA RunLeavesStep ==
    ASSUME NoteInv, NEW r \in Runs, RunLeaves(r)
    PROVE  NoteInv' /\ StaysHanded
<1> USE Typed DEF NoteInv
<1> QED
  BY FinallyStep DEF RunLeaves

LEMMA RunFailsStep ==
    ASSUME NoteInv, NEW r \in Runs, RunFails(r)
    PROVE  NoteInv' /\ StaysHanded
<1> USE Typed DEF NoteInv
<1>1. run[r].text \subseteq Notes /\ InQueue(queue) \subseteq Notes
  BY QueueNotes DEF RunRecord
<1>2. /\ Finally(r)
      /\ \/ lost' = lost \cup run[r].text /\ queue' = queue
         \/ lost' = lost \cup run[r].text \cup InQueue(queue) /\ queue' = <<>>
  BY DEF RunFails
<1>3. /\ queue' = queue \/ (queue' = <<>> /\ InQueue(queue) \subseteq lost')
      /\ lost \subseteq lost' /\ lost' \subseteq Notes /\ run[r].text \subseteq lost'
  BY <1>1, <1>2
<1> QED
  BY <1>2, <1>3, FinallyStep

LEMMA ReapProcessStep ==
    ASSUME NoteInv, ReapProcess
    PROVE  NoteInv' /\ StaysHanded
<1> USE Typed DEF NoteInv
<1>1. /\ proc' = "none" /\ queue' = <<>> /\ lost' = lost \cup InQueue(queue)
      /\ UNCHANGED <<inbox, stale, loop, deferred, run, entry, seen>>
  BY DEF ReapProcess
<1>2. <<>> \in Seq(SUBSET Notes) /\ Len(<<>>) = 0 /\ 0 <= QueueCap
  BY NotificationsAssumption
<1>3. TypeOK'
  BY <1>1, <1>2, QueueNotes, TypedNext
<1>4. RoomToWake' /\ \A n : InMessage(n)' = InMessage(n)
  BY <1>1, SameRuns
<1>5. \A n \in Notes : Handed(n) => Handed(n)'
  BY <1>1, <1>4, UnderWays, UnderWaysNext DEF Handed
<1> QED
  BY <1>1, <1>3, <1>4, <1>5, HandStep

LEMMA ReapSessionStep ==
    ASSUME NoteInv, ReapSession
    PROVE  NoteInv' /\ StaysHanded
<1> USE Typed DEF NoteInv
<1>1. /\ entry' = NoEntry /\ loop' = NoLoop
      /\ UNCHANGED <<inbox, stale, proc, queue, deferred, run, seen, lost>>
  BY DEF ReapSession
<1>2. NoEntry \in Entry /\ NoEntry.ids = {} /\ NoLoop \in Loop
  BY DEF NoEntry, Entry, NoLoop, Loop
<1>3. TypeOK'
  BY <1>1, <1>2, TypedNext
<1>4. entry.run \in Runs /\ run[entry.run].pc = "none"
  BY DEF ReapSession, Live, Entry
<1>5. RoomToWake'
  BY <1>1, <1>4 DEF RoomToWake, FreeRuns
<1>6. \A n : InMessage(n)' = InMessage(n)
  BY <1>1 DEF InMessage
<1>7. \A n \in Notes : Handed(n) => Handed(n)'
  BY <1>1, <1>6, UnderWays, UnderWaysNext DEF Handed
<1> QED
  BY <1>1, <1>2, <1>3, <1>5, <1>7, HandStep

LEMMA CrashStep ==
    ASSUME NoteInv, Crash
    PROVE  NoteInv' /\ StaysHanded
<1> USE Typed DEF NoteInv
<1>1. /\ proc' = "none" /\ queue' = <<>> /\ deferred' = {} /\ entry' = NoEntry
      /\ run' = [r \in Runs |-> NoRun]
      /\ lost' = lost \cup InQueue(queue) \cup UNION {Unwritten(r) : r \in Runs}
      /\ seen' = seen
      /\ loop' \in {Triggered(NoLoop), NoLoop}
  BY DEF Crash
<1>2. stale \subseteq Notes
  OBVIOUS
<1>3. /\ inbox' \in Rows
      /\ \A n \in Notes : inbox'[n].state \in {"injected", "consumed"} =>
                             inbox[n].state \in {"injected", "consumed"}
      /\ stale' \subseteq {n \in Notes : inbox'[n].state = "injected"}
  BY <1>2, RecoverRows DEF Crash
<1>4. NoEntry \in Entry /\ NoEntry.ids = {} /\ NoLoop \in Loop
      /\ NoRun \in RunRecord /\ NoRun.pc = "none"
  BY DEF NoEntry, Entry, NoLoop, Loop, NoRun, RunRecord
<1>5. loop' \in Loop
  BY <1>1, <1>4, TriggeredLoop
<1>6. \A r \in Runs : Unwritten(r) \subseteq Notes
  BY DEF Unwritten, RunRecord
<1>7. lost' \subseteq Notes
  BY <1>1, <1>6, QueueNotes
<1> HIDE DEF NoRun
<1>8. run' \in [Runs -> RunRecord] /\ \A r \in Runs : run'[r].pc = "none"
  BY <1>1, <1>4
<1>9. <<>> \in Seq(SUBSET Notes) /\ Len(<<>>) = 0 /\ 0 <= QueueCap /\ 1 \in Runs
  BY NotificationsAssumption DEF Runs
<1>10. TypeOK'
  BY <1>1, <1>3, <1>4, <1>5, <1>7, <1>8, <1>9, TypedNext
<1>11. RoomToWake'
  BY <1>8, <1>9 DEF RoomToWake, FreeRuns
<1>12. \A n : InMessage(n) => n \in lost'
  BY <1>1 DEF InMessage, Unwritten
<1>13. \A n \in Notes : Handed(n) => Handed(n)'
  BY <1>1, <1>12, UnderWays DEF Handed
<1> QED
  BY <1>1, <1>3, <1>4, <1>10, <1>11, <1>13, HandStep

-----------------------------------------------------------------------------
(* The invariant and the theorems *)

LEMMA NoteInit == Init => NoteInv
<1> SUFFICES ASSUME Init PROVE NoteInv
  OBVIOUS
<1>1. /\ inbox = [n \in Notes |-> [state |-> "none", tries |-> 0]]
      /\ stale = {} /\ proc = "none" /\ queue = <<>> /\ loop = NoLoop /\ deferred = {}
      /\ run = [r \in Runs |-> NoRun] /\ entry = NoEntry /\ seen = {} /\ lost = {}
  BY DEF Init
<1>2. NoEntry \in Entry /\ NoEntry.ids = {} /\ NoLoop \in Loop
      /\ NoRun \in RunRecord /\ NoRun.pc = "none"
  BY DEF NoEntry, Entry, NoLoop, Loop, NoRun, RunRecord
<1>3. <<>> \in Seq(SUBSET Notes) /\ Len(<<>>) = 0 /\ 0 <= QueueCap /\ 1 \in Runs /\ 0 <= MaxAttempts
      /\ MaxAttempts \in Nat
  BY NotificationsAssumption DEF Runs
<1>4. inbox \in Rows /\ \A n \in Notes : inbox[n].state = "none"
  BY <1>1, <1>3 DEF Rows, States
<1> HIDE DEF NoRun
<1>5. run \in [Runs -> RunRecord] /\ \A r \in Runs : run[r].pc = "none"
  BY <1>1, <1>2
<1>6. TypeOK
  BY <1>1, <1>2, <1>3, <1>4, <1>5, Typed
<1>7. RoomToWake
  BY <1>3, <1>5 DEF RoomToWake, FreeRuns
<1>8. Marked
  BY <1>1, <1>2, <1>4 DEF Marked
<1> QED
  BY <1>6, <1>7, <1>8 DEF NoteInv

LEMMA NoteStep == NoteInv /\ [Next]_vars => NoteInv' /\ StaysHanded
<1> SUFFICES ASSUME NoteInv, [Next]_vars PROVE NoteInv' /\ StaysHanded
  OBVIOUS
<1>1. CASE \E n \in Notes : Enqueue(n)
  BY <1>1, EnqueueStep
<1>2. CASE \/ \E n \in Notes : GrowStale(n)
           \/ Reconcile \/ ProcessDies \/ UNCHANGED vars
  BY <1>2, SmallSteps
<1>3. CASE LoopWakesUp \/ LoopTimesOut
  BY <1>3, LoopSteps
<1>4. CASE Dispatch
  BY <1>4, DispatchStep
<1>5. CASE PoolRefuses
  BY <1>5, PoolRefusesStep
<1>6. CASE LoopSpawned
  BY <1>6, LoopSpawnedStep
<1>7. CASE SpawnFails
  BY <1>7, SpawnFailsStep
<1>8. CASE \E ids \in deferred : DeferredRetry(ids)
  BY <1>8, DeferredRetryStep
<1>9. CASE Chat
  BY <1>9, ChatStep
<1>10. CASE Cancel
  BY <1>10, CancelStep
<1>11. CASE \E r \in Runs : RunStep(r)
  BY <1>11, RunBeginsStep, RunSendsStep, RunEndsStep, RunLeavesStep, RunFailsStep DEF RunStep
<1>12. CASE ReapProcess
  BY <1>12, ReapProcessStep
<1>13. CASE ReapSession
  BY <1>13, ReapSessionStep
<1>14. CASE Crash
  BY <1>14, CrashStep
<1> QED
  BY <1>1, <1>2, <1>3, <1>4, <1>5, <1>6, <1>7, <1>8, <1>9, <1>10, <1>11, <1>12, <1>13, <1>14
     DEF Next

LEMMA NoteInvariant == Spec => []NoteInv
<1>1. NoteInv /\ [Next]_vars => NoteInv'
  BY NoteStep
<1> QED
  BY <1>1, NoteInit, PTL DEF Spec

\* Every variable keeps its type whatever fails around the inbox, and the memory
\* queue never grows beyond its cap and dies with its process.
THEOREM NotificationsTypeCorrect == Spec => []TypeOK
<1>1. NoteInv => TypeOK
  BY DEF NoteInv
<1> QED
  BY <1>1, NoteInvariant, PTL

\* Whatever the table shows as injected or consumed has been written to the
\* model, is on its way there, or was in a message that was dropped whole: no
\* handing over between the table, the memory queue, a wake and a message loses
\* a note otherwise.
THEOREM AccountedHolds == Spec => []Accounted
<1>1. NoteInv => Accounted
  BY DEF NoteInv, Marked, Handed, Accounted, In
<1> QED
  BY <1>1, NoteInvariant, PTL

\* A note once handed over is never let go of, not even by a crash, except with
\* its whole message.
THEOREM HandedStaysHanded == Spec => [][StaysHanded]_vars
<1>1. NoteInv /\ [Next]_vars => StaysHanded
  BY NoteStep
<1> QED
  BY <1>1, NoteInvariant, PTL DEF Spec

-----------------------------------------------------------------------------
(* One wake at a time *)

\* Without messages of the user there is one run at most, and the session is known
\* to be occupied by it.
OneRun ==
    /\ \A r, s \in Runs : Live(r) /\ Live(s) => r = s
    /\ \A r \in Runs : Live(r) => r \in LockHolders \/ (entry.running /\ entry.run = r)
    /\ \A r \in Runs : run[r].cancelled => Live(r)

LEMMA OneRunInit == Init => OneRun
BY DEF Init, OneRun, Live, NoRun

LEMMA OneRunStays ==
    ASSUME OneRun, run' = run, entry' = entry
    PROVE  OneRun'
BY DEF OneRun, Live, LockHolders

\* A wake of an idle session is its only run.
LEMMA OneRunWakes ==
    ASSUME NoteInv, OneRun, ~Occupied, NEW q, NEW ns, Wake(q, ns)
    PROVE  OneRun'
<1> DEFINE r == Min(FreeRuns)
<1>1. run \in [Runs -> RunRecord] /\ FreeRuns # {}
  BY Typed DEF NoteInv, RoomToWake
<1>2. r \in Runs
  BY <1>1, FreeRun
<1>3. \A s \in Runs : ~Live(s) /\ ~run[s].cancelled
  BY DEF OneRun, Occupied
<1>4. /\ entry' = [run |-> r, running |-> TRUE, ids |-> {}]
      /\ run' = [run EXCEPT ![r] = [pc |-> "starting", internal |-> TRUE, cancelled |-> FALSE,
                                    text |-> IF q = <<>> THEN ns ELSE InQueue(q)]]
  BY DEF Wake
<1> HIDE DEF r
<1>5. ~run'[r].cancelled /\ \A s \in Runs : s # r => run'[s] = run[s]
  BY <1>1, <1>2, <1>4
<1>6. \A s \in Runs : (Live(s)' => s = r) /\ ~run'[s].cancelled
  BY <1>3, <1>5 DEF Live
<1>7. entry'.running /\ entry'.run = r
  BY <1>4
<1> QED
  BY <1>6, <1>7 DEF OneRun

LEMMA OneRunDelivers ==
    ASSUME NoteInv, OneRun, NEW i, NEW ids, NEW idle \in {~Occupied, FALSE}, Deliver(i, ids, idle)
    PROVE  OneRun'
<1>1. CASE idle
  <2>1. ~Occupied /\ Wake(Queued(queue, ids), ids)
    BY <1>1 DEF Deliver
  <2> QED
    BY <2>1, OneRunWakes
<1>2. CASE ~idle
  <2>1. run' = run /\ entry' = entry
    BY <1>2 DEF Deliver
  <2> QED
    BY <2>1, OneRunStays
<1> QED
  BY <1>1, <1>2

\* A run that gives up its lock, or never took it, is gone.
LEMMA OneRunLeaves ==
    ASSUME NoteInv, OneRun, NEW r \in Runs, Live(r), Finally(r)
    PROVE  OneRun'
<1>1. run \in [Runs -> RunRecord]
  BY Typed DEF NoteInv
<1>2. run'[r] = NoRun /\ \A s \in Runs : s # r => run'[s] = run[s]
  BY <1>1 DEF Finally
<1>3. \A s \in Runs : ~Live(s)' /\ ~run'[s].cancelled
  BY <1>2 DEF OneRun, Live, NoRun
<1> QED
  BY <1>3 DEF OneRun

\* The only run goes, or stays with its lock.
LEMMA OneRunMoves ==
    ASSUME OneRun, NEW r \in Runs, Live(r),
           \A s \in Runs : s # r => run'[s] = run[s],
           run'[r] = NoRun \/ run'[r].pc \in {"sending", "sent", "tail"}
    PROVE  OneRun'
<1>1. \A s \in Runs : s # r => ~Live(s)' /\ ~run'[s].cancelled
  BY DEF OneRun, Live
<1>2. r # 0
  BY DEF Live
<1>3. Live(r)' => r \in LockHolders'
  BY DEF Live, LockHolders, NoRun
<1>4. run'[r].cancelled => Live(r)'
  BY <1>2 DEF Live, NoRun
<1> QED
  BY <1>1, <1>3, <1>4 DEF OneRun

LEMMA OneRunSteps ==
    ASSUME NoteInv, OneRun, NEW r \in Runs, RunStep(r)
    PROVE  OneRun'
<1>1. run \in [Runs -> RunRecord] /\ r # 0
  BY Typed, NotificationsAssumption DEF NoteInv, Runs
<1>2. Live(r)
  BY <1>1 DEF RunStep, RunBegins, RunSends, RunEnds, RunLeaves, RunFails, Live, OneRun
<1>3. CASE Finally(r)
  BY <1>2, <1>3, OneRunLeaves
<1>4. CASE ~Finally(r)
  <2>1. PICK to \in {"sending", "sent", "tail"} : run' = [run EXCEPT ![r].pc = to]
    BY <1>4 DEF RunStep, RunBegins, RunSends, RunEnds, RunLeaves, RunFails
  <2>2. run'[r].pc = to /\ \A s \in Runs : s # r => run'[s] = run[s]
    BY <1>1, <2>1 DEF RunRecord
  <2> QED
    BY <1>2, <2>2, OneRunMoves
<1> QED
  BY <1>3, <1>4

\* The only run is dropped by a cancel before it has the lock; afterwards it keeps the
\* lock until its finally.
LEMMA OneRunCancels ==
    ASSUME NoteInv, OneRun, Cancel
    PROVE  OneRun'
<1> DEFINE r == entry.run
<1>1. run \in [Runs -> RunRecord] /\ r \in Runs /\ Live(r)
  BY Typed DEF NoteInv, Cancel, Live, Entry
<1>2. PICK begun \in BOOLEAN : (begun => LockHolders # {}) /\ run' = Cancelled(r, begun)
  BY DEF Cancel
<1>3. LockHolders \subseteq {r}
  <2>1. \A s \in LockHolders : s \in Runs /\ Live(s)
    BY NotificationsAssumption DEF LockHolders, Live, Runs
  <2> QED
    BY <1>1, <2>1 DEF OneRun
<1>4. CASE run[r].pc = "starting"
  <2>1. ~begun
    BY <1>2, <1>3, <1>4 DEF LockHolders
  <2>2. run' = [run EXCEPT ![r] = NoRun]
    BY <1>2, <1>4, <2>1 DEF Cancelled
  <2>3. run'[r] = NoRun /\ \A s \in Runs : s # r => run'[s] = run[s]
    BY <1>1, <2>2
  <2> QED
    BY <1>1, <2>3, OneRunMoves
<1>5. CASE run[r].pc # "starting"
  <2>1. run' = [run EXCEPT ![r].cancelled = TRUE]
    BY <1>2, <1>5 DEF Cancelled
  <2>2. run[r].pc \in {"sending", "sent", "tail"}
    BY <1>1, <1>5 DEF Live, RunRecord
  <2>3. run'[r].pc = run[r].pc /\ \A s \in Runs : s # r => run'[s] = run[s]
    BY <1>1, <2>1 DEF RunRecord
  <2> QED
    BY <1>1, <2>2, <2>3, OneRunMoves
<1> QED
  BY <1>4, <1>5

\* The entry of a run that is gone may go.
LEMMA OneRunForgets ==
    ASSUME OneRun, ReapSession
    PROVE  OneRun'
<1>1. run' = run /\ ~Live(entry.run)
  BY DEF ReapSession
<1>2. \A r \in Runs : Live(r) => r \in LockHolders
  BY <1>1 DEF OneRun
<1> QED
  BY <1>1, <1>2 DEF OneRun, Live, LockHolders

LEMMA OneRunEnds ==
    ASSUME Crash
    PROVE  OneRun'
BY DEF Crash, OneRun, Live, NoRun

LEMMA OneRunStep ==
    ASSUME "chat" \notin Features, NoteInv, OneRun, [Next]_vars
    PROVE  OneRun'
<1>1. CASE UNCHANGED vars
  BY <1>1, OneRunStays DEF vars
<1>2. CASE \/ \E n \in Notes : Enqueue(n) \/ GrowStale(n)
           \/ LoopWakesUp \/ LoopTimesOut \/ PoolRefuses \/ SpawnFails \/ Reconcile
           \/ ProcessDies \/ ReapProcess
  <2>1. run' = run /\ entry' = entry
    BY <1>2 DEF Enqueue, GrowStale, LoopWakesUp, LoopTimesOut, PoolRefuses, SpawnFails, Reconcile,
                ProcessDies, ReapProcess
  <2> QED
    BY <2>1, OneRunStays
<1>3. CASE Dispatch
  <2>1. CASE run' = run /\ entry' = entry
    BY <2>1, OneRunStays
  <2>2. CASE Deliver(WithClaims(Claimed), Claimed, ~Occupied)
    BY <2>2, OneRunDelivers
  <2> QED
    BY <1>3, <2>1, <2>2 DEF Dispatch
<1>4. CASE LoopSpawned
  BY <1>4, OneRunDelivers DEF LoopSpawned
<1>5. CASE \E ids \in deferred : DeferredRetry(ids)
  <2>1. PICK ids \in deferred : DeferredRetry(ids)
    BY <1>5
  <2>2. CASE proc = "up" /\ ~Occupied
    BY <2>1, <2>2, OneRunWakes DEF DeferredRetry
  <2>3. CASE ~(proc = "up" /\ ~Occupied)
    BY <2>1, <2>3, OneRunStays DEF DeferredRetry
  <2> QED
    BY <2>2, <2>3
<1>6. ~Chat
  BY DEF Chat
<1>7. CASE Cancel
  BY <1>7, OneRunCancels
<1>8. CASE \E r \in Runs : RunStep(r)
  BY <1>8, OneRunSteps
<1>9. CASE ReapSession
  BY <1>9, OneRunForgets
<1>10. CASE Crash
  BY <1>10, OneRunEnds
<1> QED
  BY <1>1, <1>2, <1>3, <1>4, <1>5, <1>6, <1>7, <1>8, <1>9, <1>10 DEF Next

\* Two tasks that end together do not start two internal runs of a session the user leaves
\* alone: not when the dispatcher, its deferred retries and the process that starts get in each
\* other's way, nor when a run is cancelled or fails, the process or the session is reaped, or
\* the server comes back.
THEOREM OneWakeHolds ==
    ASSUME "chat" \notin Features
    PROVE  Spec => []OneWake
<1>1. Spec => []NoteInv
  BY NoteInvariant
<1>2. Init => OneRun
  BY OneRunInit
<1>3. NoteInv /\ OneRun /\ [Next]_vars => OneRun'
  BY OneRunStep
<1>4. OneRun => OneWake
  <2> SUFFICES ASSUME OneRun PROVE OneWake
    OBVIOUS
  <2> DEFINE wakes == {r \in Runs : Live(r) /\ run[r].internal /\ ~run[r].cancelled}
  <2>1. CASE wakes = {}
    <3>1. Cardinality(wakes) = 0
      BY <2>1, FS_EmptySet
    <3> QED
      BY <3>1 DEF OneWake
  <2>2. CASE wakes # {}
    <3>1. PICK r : wakes = {r}
      BY <2>2 DEF OneRun
    <3>2. Cardinality(wakes) = 1
      BY <3>1, FS_Singleton
    <3> QED
      BY <3>2 DEF OneWake
  <2> QED
    BY <2>1, <2>2
<1> QED
  BY <1>1, <1>2, <1>3, <1>4, PTL DEF Spec
=============================================================================
