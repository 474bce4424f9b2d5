------------------------ MODULE SessionEvents_proofs ------------------------
(***************************************************************************)
(* Theorems about SessionEvents.                                           *)
(*                                                                         *)
(* The store: the cursor row bounds every id in the journal                *)
(* (CursorCovers), so that the seed of the counter is the cursor plus one, *)
(* and the counter, when it is cached, is ahead of the cursor.  Failed     *)
(* inserts, pruning, reaping and restarts keep this; a failed read of the  *)
(* seed does not, and every theorem but the first assumes there is none.   *)
(*                                                                         *)
(* The streams: events arrive in the order they were emitted               *)
(* (StreamsInOrder), a replay has no holes (ReplayComplete) and a watcher  *)
(* skips nothing the journal still holds (WatchersMissNothing).  The rows  *)
(* the server holds, in the ring or in the table, have their ids in the    *)
(* order of their events, and so have the events that wait in a stream.    *)
(* This survives failed inserts, whose ids are handed out again: the id an *)
(* event is broadcast with is above every id held.                         *)
(***************************************************************************)
EXTENDS SessionEvents, SequenceTheorems, FiniteSetTheorems, TLAPS

-----------------------------------------------------------------------------
(* The helpers *)

\* With a cursor that bounds the journal, MAX over both tables is the cursor.
LEMMA PersistedIsCursor ==
    ASSUME cursor \in Nat, db \in SUBSET Event, CursorCovers
    PROVE  Persisted = cursor
<1> DEFINE S == Ids(db) \cup {cursor}
<1>1. cursor \in S /\ \A x \in S : x \in Nat /\ x <= cursor
  BY DEF Ids, Event, CursorCovers
<1>2. \A n \in S \cup {0} : (\A x \in S : x <= n) => n = cursor
  BY <1>1
<1>3. cursor \in S \cup {0} /\ \A x \in S : x <= cursor
  BY <1>1
<1> HIDE DEF S
<1>4. Top(S) = cursor
  BY <1>2, <1>3 DEF Top
<1> QED
  BY <1>4 DEF Persisted, S

\* What seeding caches, and what it writes to the cursor row.
LEMMA Seeding ==
    ASSUME nextId \in Nat, cursor \in Nat, db \in SUBSET Event, CursorCovers,
           NEW fault
    PROVE  /\ SeededId(fault) \in Nat \ {0}
           /\ SeededCursor(fault) = cursor
           /\ fault # "seed" /\ nextId = 0 => SeededId(fault) = cursor + 1
           /\ nextId # 0 => SeededId(fault) = nextId
BY PersistedIsCursor DEF SeededId, SeededCursor, Seeds, Larger

\* Pruning only removes rows.
LEMMA PruneShrinks ==
    ASSUME NEW rows, NEW kept \in Prune(rows)
    PROVE  kept \subseteq rows
BY DEF Prune, NewestByCount, Unexpired

\* A row of the journal after an insert, pruned or not, is the new row or an
\* old one with another id.
LEMMA InsertedRows ==
    ASSUME NEW e, NEW rows \in {Insert(e)} \cup Prune(Insert(e))
    PROVE  \A r \in rows : r = e \/ (r \in db /\ r.id # e.id)
<1>1. rows \subseteq Insert(e)
  BY PruneShrinks
<1> QED
  BY <1>1 DEF Insert

-----------------------------------------------------------------------------
(* Type correctness *)

IInv == TypeOK /\ CursorCovers

LEMMA EmitTypes ==
    ASSUME IInv, NEW last \in BOOLEAN, NEW fault, Emit(last, fault)
    PROVE  IInv'
<1> DEFINE id  == SeededId(fault)
           seq == IF run = "none" THEN id ELSE taskSeq
           ev  == Len(emitted) + 1
           e   == [id |-> id, ev |-> ev, last |-> last]
<1> USE DEF IInv, TypeOK
<1>1. id \in Nat \ {0} /\ SeededCursor(fault) = cursor
  BY Seeding
<1>2. seq \in Nat /\ ev \in Nat /\ e \in Event /\ [e EXCEPT !.id = seq] \in Event
  BY SMTT(20), <1>1 DEF Event
<1>3. PICK drop \in 0 .. Len(ring) + 1 :
          ring' = SubSeq(Append(ring, e), drop + 1, Len(ring) + 1)
  BY ZenonT(30) DEF Emit, RingAppend
<1>4. ring' \in Seq(Event)
  BY <1>2, <1>3
<1>5. /\ nextId' = id + 1
      /\ run' = IF last THEN "done" ELSE IF run = "none" THEN "running" ELSE run
      /\ crashes' = crashes
      /\ failed' \in BOOLEAN
  BY DEF Emit
<1>6. ASSUME NEW x \in Event, Broadcast(x)
      PROVE  stream' \in [Clients -> Stream]
  <2>1. \A c \in Clients : Append(stream[c].queue, x) \in Seq(Event)
    BY <1>6 DEF Stream
  <2> QED
    BY <1>6, <2>1 DEF Broadcast, Stream
<1>7. CASE fault # "persist"
  <2>1. /\ db' \in {Insert(e)} \cup Prune(Insert(e))
        /\ cursor' = Larger(cursor, id)
        /\ taskSeq' = Larger(seq, id + 1)
        /\ emitted' = Append(emitted, id)
        /\ Broadcast(e)
    BY <1>1, <1>7 DEF Emit
  <2>2. \A r \in db' : r = e \/ r \in db
    BY <2>1, InsertedRows
  <2>3. db' \in SUBSET Event
    BY <1>2, <2>2
  <2>4. cursor' \in Nat /\ id <= cursor' /\ cursor <= cursor'
    BY <1>1, <2>1 DEF Larger
  <2>5. \A r \in db' : r.id <= cursor'
    <3> SUFFICES ASSUME NEW r \in db' PROVE r.id <= cursor'
      OBVIOUS
    <3>1. CASE r = e
      BY <2>4, <3>1
    <3>2. CASE r \in db
      <4>1. r.id \in Nat /\ r.id <= cursor
        BY <3>2 DEF CursorCovers, Event
      <4> QED
        BY <2>4, <4>1
    <3> QED
      BY <2>2, <3>1, <3>2
  <2>6. taskSeq' \in Nat /\ emitted' \in Seq(Nat)
    BY <1>1, <1>2, <2>1 DEF Larger
  <2> QED
    BY <1>2, <1>4, <1>5, <1>6, <1>1, <2>1, <2>3, <2>4, <2>5, <2>6 DEF CursorCovers
<1>8. CASE fault = "persist"
  <2>1. /\ db' = db
        /\ cursor' = cursor
        /\ taskSeq' = seq + 1
        /\ emitted' = Append(emitted, seq)
        /\ Broadcast([e EXCEPT !.id = seq])
    BY <1>1, <1>8 DEF Emit
  <2>2. stream' \in [Clients -> Stream]
    BY <1>2, <1>6, <2>1
  <2>3. taskSeq' \in Nat /\ emitted' \in Seq(Nat)
    BY <1>2, <2>1
  <2>4. nextId' \in Nat /\ run' \in {"none", "running", "done"}
    BY <1>1, <1>5
  <2> HIDE DEF id, seq, ev, e
  <2> QED
    BY <1>4, <1>5, <2>1, <2>2, <2>3, <2>4 DEF CursorCovers
<1> QED
  BY <1>7, <1>8
LEMMA ClosedType == \A s \in Stream : Closed(s) \in Stream
<1>1. <<>> \in Seq(Event)
  OBVIOUS
<1> QED
  BY <1>1 DEF Closed, Stream

LEMMA StreamTypes ==
    ASSUME IInv,
           \/ \E c \in Watchers : OpenWatcher(c) \/ SendToWatcher(c)
           \/ \E c \in Resumers : OpenResumer(c) \/ SendToResumer(c) \/ EndReplay(c)
           \/ \E c \in Clients : Disconnect(c)
    PROVE  IInv'
<1> USE DEF IInv, TypeOK
<1>1. UNCHANGED <<ring, nextId, db, cursor, run, taskSeq, emitted, crashes, failed>>
  BY DEF OpenWatcher, SendToWatcher, OpenResumer, SendToResumer, EndReplay, Disconnect,
         store, task
<1>2. \A c \in Clients : stream[c] \in Stream
  OBVIOUS
<1>3. \A after \in Nat : Replay(after) \in SUBSET Event
  BY DEF Replay, Lowest, Held
<1>4. ASSUME NEW c \in Clients, NEW e \in Upcoming(c)
      PROVE  e \in Event /\ Sent(stream[c], e) \in Stream
  <2>1. CASE stream[c].replay # {}
    BY <1>2, <2>1 DEF Upcoming, Sent, Stream
  <2>2. CASE stream[c].replay = {}
    <3>1. stream[c].queue # <<>> /\ e = Head(stream[c].queue)
      BY <1>4, <2>2 DEF Upcoming
    <3>2. e \in Event /\ Tail(stream[c].queue) \in Seq(Event)
      BY <1>2, <3>1 DEF Stream
    <3> QED
      BY <1>2, <2>2, <3>2 DEF Sent, Stream
  <2> QED
    BY <2>1, <2>2
<1>5. \A s \in Stream : Closed(s) \in Stream
  BY ClosedType
<1>6. stream' \in [Clients -> Stream]
  <2>1. ASSUME NEW c \in Clients, OpenWatcher(c) \/ OpenResumer(c)
        PROVE  stream' \in [Clients -> Stream]
    <3>1. Replay(stream[c].seen) \in SUBSET Event
      BY <1>2, <1>3 DEF Stream
    <3>2. Opened(stream[c], "live") \in Stream /\ Opened(stream[c], "replay") \in Stream
      BY <1>2, <3>1 DEF Opened, Stream
    <3> QED
      BY <1>2, <2>1, <3>2 DEF OpenWatcher, OpenResumer
  <2>2. ASSUME NEW c \in Clients, SendToWatcher(c)
        PROVE  stream' \in [Clients -> Stream]
    <3>1. PICK e \in Upcoming(c) :
             stream' = [stream EXCEPT ![c] =
               IF e.id > stream[c].seen
               THEN [Sent(stream[c], e) EXCEPT !.seen = e.id, !.got = @ \cup {e.ev}]
               ELSE Sent(stream[c], e)]
      BY <2>2 DEF SendToWatcher
    <3>2. e \in Event /\ Sent(stream[c], e) \in Stream
      BY <1>4
    <3>3. [Sent(stream[c], e) EXCEPT !.seen = e.id, !.got = @ \cup {e.ev}] \in Stream
      BY <3>2 DEF Stream, Event
    <3> QED
      BY <3>1, <3>2, <3>3
  <2>3. ASSUME NEW c \in Clients, SendToResumer(c)
        PROVE  stream' \in [Clients -> Stream]
    <3>1. PICK e \in Upcoming(c) :
             LET s == [Sent(stream[c], e) EXCEPT !.seen = Larger(@, e.id), !.got = @ \cup {e.ev}]
             IN  stream' = [stream EXCEPT ![c] =
                   IF stream[c].mode = "live" /\ e.last THEN Closed(s) ELSE s]
      BY <2>3 DEF SendToResumer
    <3> DEFINE s == [Sent(stream[c], e) EXCEPT !.seen = Larger(@, e.id), !.got = @ \cup {e.ev}]
    <3>2. e \in Event /\ Sent(stream[c], e) \in Stream
      BY <1>4
    <3>3. s \in Stream
      BY <3>2 DEF Stream, Event, Larger
    <3>4. Closed(s) \in Stream
      BY <1>5, <3>3
    <3> HIDE DEF s
    <3>5. stream' = [stream EXCEPT ![c] =
              IF stream[c].mode = "live" /\ e.last THEN Closed(s) ELSE s]
      BY <3>1 DEF s
    <3> QED
      BY <3>3, <3>4, <3>5
  <2>4. ASSUME NEW c \in Clients, EndReplay(c)
        PROVE  stream' \in [Clients -> Stream]
    BY ZenonT(30), <1>2, <2>4 DEF EndReplay, Stream
  <2>5. ASSUME NEW c \in Clients, Disconnect(c)
        PROVE  stream' \in [Clients -> Stream]
    BY <1>2, <1>5, <2>5 DEF Disconnect
  <2> QED
    BY <2>1, <2>2, <2>3, <2>4, <2>5 DEF Clients
<1> QED
  BY <1>1, <1>6 DEF CursorCovers

\* Every variable keeps its type, and the cursor row bounds the journal, even
\* when reads and inserts fail.
THEOREM TypeCorrect == Spec => [](TypeOK /\ CursorCovers)
<1>1. Init => IInv
  <2> DEFINE s0 == [mode |-> "off", replay |-> {}, queue |-> <<>>, seen |-> 0, got |-> {}]
  <2> SUFFICES ASSUME Init PROVE IInv
    OBVIOUS
  <2>1. s0 \in Stream
    BY DEF Stream
  <2>2. stream = [c \in Clients |-> s0] /\ failed = FALSE
    BY DEF Init
  <2>3. stream \in [Clients -> Stream]
    BY <2>1, <2>2
  <2>4. /\ ring = <<>> /\ nextId = 0 /\ db = {} /\ cursor = 0 /\ run = "none"
        /\ taskSeq = 0 /\ emitted = <<>> /\ crashes = 0
    BY DEF Init
  <2>5. ring \in Seq(Event) /\ emitted \in Seq(Nat) /\ db \in SUBSET Event
    BY <2>4
  <2>6. failed \in BOOLEAN
    BY <2>2
  <2> HIDE DEF s0
  <2> QED
    BY <2>3, <2>4, <2>5, <2>6 DEF IInv, TypeOK, CursorCovers
<1>2. ASSUME IInv, [Next]_vars
      PROVE  IInv'
  <2>1. CASE EmitEvent
    BY <1>2, <2>1, EmitTypes DEF EmitEvent
  <2>2. CASE StartRun
    <3>1. PICK fault : /\ nextId' = SeededId(fault) /\ cursor' = SeededCursor(fault)
                       /\ run' = "running" /\ taskSeq' = SeededId(fault)
                       /\ UNCHANGED <<ring, db, emitted, stream, crashes, failed>>
      BY <2>2 DEF StartRun
    <3>2. SeededId(fault) \in Nat /\ SeededCursor(fault) = cursor
      BY <1>2, Seeding DEF IInv, TypeOK
    <3> QED
      BY <1>2, <3>1, <3>2 DEF IInv, TypeOK, CursorCovers
  <2>3. CASE MemoryReaper
    BY <1>2, <2>3 DEF MemoryReaper, IInv, TypeOK, CursorCovers
  <2>4. CASE Restart
    <3>1. \A c \in Clients : Closed(stream[c]) \in Stream
      BY <1>2, ClosedType DEF IInv, TypeOK
    <3> QED
      BY <1>2, <2>4, <3>1 DEF Restart, IInv, TypeOK, CursorCovers
  <2>5. CASE UNCHANGED vars
    BY <1>2, <2>5 DEF vars, IInv, TypeOK, CursorCovers
  <2> QED
    BY <1>2, <2>1, <2>2, <2>3, <2>4, <2>5, StreamTypes DEF Next
<1> QED
  BY <1>1, <1>2, PTL DEF Spec, IInv

-----------------------------------------------------------------------------
(* The counter stays ahead of the tables when their reads do not fail *)

\* PRIMARY KEY (session_id, event_id).
OneRowPerId == \A x, y \in db : x.id = y.id => x = y

AheadInv == IInv /\ StoreAhead /\ OneRowPerId

LEMMA EmitAhead ==
    ASSUME AheadInv, NEW last \in BOOLEAN, NEW fault, fault # "seed", Emit(last, fault)
    PROVE  /\ cursor < SeededId(fault)
           /\ StoreAhead'
           /\ OneRowPerId'
           /\ \A r \in db : r.id \in Ids(db') => r \in db'
<1> DEFINE id == SeededId(fault)
           e  == [id |-> id, ev |-> Len(emitted) + 1, last |-> last]
<1>1. /\ id \in Nat \ {0}
      /\ SeededCursor(fault) = cursor
      /\ cursor \in Nat
      /\ cursor < id
  BY Seeding DEF AheadInv, IInv, TypeOK, StoreAhead
<1>2. CursorCovers'
  BY EmitTypes DEF AheadInv, IInv
<1>3. nextId' = id + 1
  BY DEF Emit
<1>4. \A r \in db : r.id \in Nat /\ r.id # id
  BY <1>1 DEF AheadInv, IInv, TypeOK, CursorCovers, Event
<1>5. \/ db' = db /\ cursor' = cursor
      \/ db' \in {Insert(e)} \cup Prune(Insert(e)) /\ cursor' = Larger(cursor, id)
  BY <1>1 DEF Emit
<1>6. \A r \in db' : r = e \/ r \in db
  BY <1>5, InsertedRows
<1>7. cursor' < nextId'
  BY <1>1, <1>3, <1>5 DEF Larger
<1>8. e.id = id
  OBVIOUS
<1> HIDE DEF e, id
<1>9. OneRowPerId'
  BY <1>4, <1>6, <1>8 DEF OneRowPerId, AheadInv
<1>10. \A r \in db : r.id \in Ids(db') => r \in db'
  BY <1>4, <1>6, <1>8 DEF OneRowPerId, AheadInv, Ids
<1> QED
  BY <1>1, <1>2, <1>7, <1>9, <1>10 DEF StoreAhead, id

\* What every step does to the tables, given that reads do not fail.
LEMMA StepAhead ==
    ASSUME "seed" \notin Faults, AheadInv, IInv', [Next]_vars
    PROVE  AheadInv' /\ \A r \in db : r.id \in Ids(db') => r \in db'
<1>1. CASE EmitEvent
  <2>1. PICK last \in BOOLEAN, fault \in Faults \cup {"none"} : Emit(last, fault)
    BY <1>1 DEF EmitEvent
  <2>2. fault # "seed"
    BY <2>1
  <2> QED
    BY <2>1, <2>2, EmitAhead DEF AheadInv
<1>2. CASE StartRun
  <2>1. PICK fault \in (Faults \cap {"seed"}) \cup {"none"} :
          db' = db /\ nextId' = SeededId(fault) /\ cursor' = SeededCursor(fault)
    BY <1>2 DEF StartRun
  <2>2. cursor' = cursor /\ cursor < nextId'
    <3>1. fault # "seed"
      BY <2>1
    <3>2. nextId \in Nat /\ cursor \in Nat /\ db \in SUBSET Event /\ StoreAhead
      BY DEF AheadInv, IInv, TypeOK
    <3>3. /\ SeededCursor(fault) = cursor
          /\ nextId = 0 => SeededId(fault) = cursor + 1
          /\ nextId # 0 => SeededId(fault) = nextId
      BY <3>1, <3>2, Seeding DEF StoreAhead
    <3> QED
      BY <2>1, <3>2, <3>3 DEF StoreAhead
  <2> QED
    BY <2>1, <2>2 DEF AheadInv, IInv, StoreAhead, OneRowPerId
<1>3. CASE MemoryReaper \/ Restart
  <2>1. db' = db /\ cursor' = cursor /\ nextId' \in {0, nextId}
    BY <1>3 DEF MemoryReaper, Restart
  <2> QED
    BY <2>1 DEF AheadInv, IInv, StoreAhead, CursorCovers, OneRowPerId
<1>4. CASE \/ \E c \in Watchers : OpenWatcher(c) \/ SendToWatcher(c)
           \/ \E c \in Resumers : OpenResumer(c) \/ SendToResumer(c) \/ EndReplay(c)
           \/ \E c \in Clients : Disconnect(c)
           \/ UNCHANGED vars
  <2>1. db' = db /\ cursor' = cursor /\ nextId' = nextId
    BY <1>4 DEF OpenWatcher, SendToWatcher, OpenResumer, SendToResumer, EndReplay,
                Disconnect, store, vars
  <2> QED
    BY <2>1 DEF AheadInv, IInv, StoreAhead, CursorCovers, OneRowPerId
<1> QED
  BY <1>1, <1>2, <1>3, <1>4 DEF Next

LEMMA AheadInvariant ==
    ASSUME "seed" \notin Faults
    PROVE  Spec => []AheadInv
<1>1. Init => StoreAhead /\ OneRowPerId
  BY DEF Init, StoreAhead, CursorCovers, OneRowPerId
<1>2. Spec => []IInv
  BY TypeCorrect DEF IInv
<1>3. IInv /\ AheadInv /\ IInv' /\ [Next]_vars => AheadInv'
  BY StepAhead
<1>4. IInv /\ StoreAhead /\ OneRowPerId <=> AheadInv
  BY DEF AheadInv
<1> QED
  BY <1>1, <1>2, <1>3, <1>4, PTL DEF Spec

\* When reads of the tables do not fail, the counter is ahead of everything the
\* tables hold, whatever inserts fail and however often the session is reaped or
\* the server restarted.
THEOREM StoreAheadHolds ==
    ASSUME "seed" \notin Faults
    PROVE  Spec => []StoreAhead
<1>1. AheadInv => StoreAhead
  BY DEF AheadInv
<1> QED
  BY <1>1, AheadInvariant, PTL

\* Under the same assumption no insert ever replaces another event's row.
THEOREM NoOverwriteHolds ==
    ASSUME "seed" \notin Faults
    PROVE  Spec => NoOverwrite
<1>1. Spec => []IInv
  BY TypeCorrect DEF IInv
<1>2. IInv' /\ AheadInv /\ [Next]_vars =>
         [\A r \in db : r.id \in Ids(db') => r \in db']_vars
  BY StepAhead
<1> QED
  BY <1>1, <1>2, AheadInvariant, PTL DEF Spec, NoOverwrite

-----------------------------------------------------------------------------
(* Broadcast ids only grow until an insert fails *)

EmittedInv ==
    /\ IdsIncrease
    /\ ~failed => \A i \in DOMAIN emitted : emitted[i] <= cursor

LEMMA StepEmitted ==
    ASSUME "seed" \notin Faults, AheadInv, EmittedInv, [Next]_vars
    PROVE  EmittedInv'
<1> USE DEF AheadInv, IInv, TypeOK
<1>1. CASE EmitEvent
  <2> SUFFICES ASSUME ~failed' PROVE EmittedInv'
    BY DEF EmittedInv, IdsIncrease
  <2>1. PICK last \in BOOLEAN, fault \in Faults \cup {"none"} : Emit(last, fault)
    BY <1>1 DEF EmitEvent
  <2> DEFINE id == SeededId(fault)
  <2>2. id \in Nat /\ cursor < id /\ SeededCursor(fault) = cursor
    BY <2>1, EmitAhead, Seeding
  <2>3. fault # "persist" /\ ~failed
    BY <2>1 DEF Emit
  <2>4. emitted' = Append(emitted, id) /\ cursor' = Larger(cursor, id)
    BY <2>1, <2>2, <2>3 DEF Emit
  <2> HIDE DEF id
  <2>5. cursor' = id
    BY <2>2, <2>4 DEF Larger
  <2>6. /\ DOMAIN emitted' = 1 .. Len(emitted) + 1
        /\ emitted'[Len(emitted) + 1] = id
        /\ \A i \in 1 .. Len(emitted) : emitted'[i] = emitted[i] /\ emitted[i] \in Nat
        /\ DOMAIN emitted = 1 .. Len(emitted) /\ Len(emitted) \in Nat
    BY <2>2, <2>4
  <2>7. \A i \in 1 .. Len(emitted) : emitted'[i] < id
    <3>1. ASSUME NEW i \in 1 .. Len(emitted)
          PROVE  emitted[i] \in Nat /\ emitted[i] <= cursor /\ emitted'[i] = emitted[i]
      BY <2>3, <2>6 DEF EmittedInv
    <3>2. cursor \in Nat
      OBVIOUS
    <3> QED
      BY <2>2, <3>1, <3>2
  <2>8. \A i \in DOMAIN emitted' : emitted'[i] <= cursor'
    BY <2>2, <2>5, <2>6, <2>7
  <2>9. \A i, j \in DOMAIN emitted' : i < j => emitted'[i] < emitted'[j]
    BY <2>3, <2>6, <2>7 DEF EmittedInv, IdsIncrease
  <2> QED
    BY <2>8, <2>9 DEF EmittedInv, IdsIncrease
<1>2. CASE StartRun
  <2>1. emitted' = emitted /\ cursor' = cursor /\ failed' = failed
    BY <1>2, Seeding DEF StartRun
  <2> QED
    BY <2>1 DEF EmittedInv, IdsIncrease
<1>3. CASE ~EmitEvent /\ ~StartRun
  <2>1. emitted' = emitted /\ cursor' = cursor /\ failed' = failed
    BY <1>3 DEF Next, vars, MemoryReaper, Restart, OpenWatcher, SendToWatcher, OpenResumer,
                SendToResumer, EndReplay, Disconnect, store
  <2> QED
    BY <2>1 DEF EmittedInv, IdsIncrease
<1> QED
  BY <1>1, <1>2, <1>3

\* When reads of the tables do not fail, every event is broadcast with a larger
\* id than all events before it until an insert fails, across pruning, reaping
\* and restarts.
THEOREM IdsIncreaseHolds ==
    ASSUME "seed" \notin Faults
    PROVE  Spec => []IdsIncrease
<1>1. Init => EmittedInv
  BY DEF Init, EmittedInv, IdsIncrease
<1>2. Spec => []AheadInv
  BY AheadInvariant
<1>3. AheadInv /\ EmittedInv /\ [Next]_vars => EmittedInv'
  BY StepEmitted
<1>4. EmittedInv => IdsIncrease
  BY DEF EmittedInv
<1> QED
  BY <1>1, <1>2, <1>3, <1>4, PTL DEF Spec

-----------------------------------------------------------------------------
(* What the clients of a session's streams see *)

RingRows == {ring[i] : i \in DOMAIN ring}
Stored == db \cup RingRows
QueueRows(c) == {stream[c].queue[i] : i \in DOMAIN stream[c].queue}
Pending(c) == stream[c].replay \cup QueueRows(c)

RingInv ==
    /\ ring # <<>> => nextId # 0
    /\ \A i, j \in DOMAIN ring : i < j => ring[i].id < ring[j].id
    /\ \A i \in DOMAIN ring : ring[i].id < nextId

\* The fail-open counter of the run is ahead of the store as well.
TaskInv == run # "none" => taskSeq > cursor /\ taskSeq >= nextId

StoredInv ==
    /\ \A x, y \in Stored : x.id < y.id => x.ev < y.ev
    /\ \A x \in Stored : x.ev <= Len(emitted)

\* What waits in a stream comes after everything its client has got, ...
GotFirst(c) ==
    /\ \A x \in Pending(c), g \in stream[c].got : g < x.ev
    /\ \A x \in Pending(c) : x.ev <= Len(emitted)
    /\ \A g \in stream[c].got : g <= Len(emitted)

\* ... the replay is sent in the order of the events, ...
ReplayOrdered(c) ==
    \A x, y \in stream[c].replay : /\ x.id < y.id => x.ev < y.ev
                                   /\ x.id = y.id => x = y

\* ... then the queue, which is in that order too, ...
QueueOrdered(c) ==
    LET q == stream[c].queue
    IN  /\ \A x \in stream[c].replay, i \in DOMAIN q : x.ev < q[i].ev
        /\ \A i, j \in DOMAIN q : i < j => q[i].ev < q[j].ev

\* ... and what is held above the last id seen, or above an id that waits, is
\* later than that.
HeldLater(c) ==
    /\ \A r \in Stored, g \in stream[c].got : r.id > stream[c].seen => g < r.ev
    /\ \A r \in Stored, x \in Pending(c) : r.id > x.id => r.ev > x.ev

\* A stream that is not live has nothing queued.
Idle(c) == stream[c].mode # "live" => stream[c].queue = <<>>

StreamInv(c) ==
    GotFirst(c) /\ ReplayOrdered(c) /\ QueueOrdered(c) /\ HeldLater(c) /\ Idle(c)

OrderInv ==
    /\ AheadInv
    /\ RingInv
    /\ TaskInv
    /\ StoredInv
    /\ \A c \in Clients : StreamInv(c)

-----------------------------------------------------------------------------
(* Emitting an event *)

\* What the proofs below need of an emission: e is what the store keeps, out
\* the id the streams are given.
Emits(e, out) ==
    /\ e \in Event /\ out \in Nat /\ e.id <= out
    /\ e.ev = Len(emitted) + 1
    /\ cursor < e.id /\ nextId <= e.id
    /\ RingAppend(e)
    /\ nextId' = e.id + 1
    /\ \A r \in db' : r = e \/ r \in db
    /\ emitted' = Append(emitted, out)
    /\ Broadcast([e EXCEPT !.id = out])

LEMMA EventFields == \A x \in Event : x.id \in Nat /\ x.ev \in Nat
BY DEF Event

LEMMA EmitEmits ==
    ASSUME AheadInv, TaskInv, "seed" \notin Faults, EmitEvent
    PROVE  /\ \E e, out : Emits(e, out)
           /\ TaskInv'
<1>1. PICK last \in BOOLEAN, fault \in Faults \cup {"none"} : Emit(last, fault)
  BY DEF EmitEvent
<1> DEFINE id  == SeededId(fault)
           seq == IF run = "none" THEN id ELSE taskSeq
           e   == [id |-> id, ev |-> Len(emitted) + 1, last |-> last]
           out == IF fault = "persist" THEN seq ELSE id
<1> USE DEF AheadInv, IInv, TypeOK
<1>2. /\ id \in Nat /\ cursor \in Nat /\ cursor < id /\ nextId <= id
      /\ SeededCursor(fault) = cursor
  BY <1>1, EmitAhead, Seeding
<1>3. seq \in Nat /\ id <= seq
  BY <1>2, Seeding DEF TaskInv, StoreAhead
<1>4. e \in Event /\ e.id = id /\ e.ev = Len(emitted) + 1 /\ e = [e EXCEPT !.id = id]
  <2>1. Len(emitted) + 1 \in Nat
    OBVIOUS
  <2>2. e \in Event /\ e.id = id /\ e.ev = Len(emitted) + 1
    BY <1>2, <2>1 DEF Event
  <2>3. [e EXCEPT !.id = id] = [id |-> id, ev |-> Len(emitted) + 1, last |-> last]
    OBVIOUS
  <2> QED
    BY <2>2, <2>3
<1>5. /\ nextId' = id + 1 /\ RingAppend(e)
      /\ run' = IF last THEN "done" ELSE IF run = "none" THEN "running" ELSE run
  BY <1>1 DEF Emit
<1>6. CASE fault # "persist"
  <2>1. /\ db' \in {Insert(e)} \cup Prune(Insert(e))
        /\ cursor' = Larger(cursor, id)
        /\ taskSeq' = Larger(seq, id + 1)
        /\ emitted' = Append(emitted, out)
        /\ Broadcast(e)
    BY <1>1, <1>2, <1>6 DEF Emit
  <2>2. \A r \in db' : r = e \/ r \in db
    BY <2>1, InsertedRows
  <2>3. TaskInv'
    BY <1>2, <1>3, <1>5, <2>1 DEF TaskInv, Larger
  <2>4. out = id /\ [e EXCEPT !.id = out] = e
    BY <1>4, <1>6
  <2>5. Broadcast([e EXCEPT !.id = out])
    BY <2>1, <2>4, Zenon
  <2>6. out \in Nat /\ e.id <= out
    BY <1>2, <1>4, <2>4
  <2> HIDE DEF id, seq, e, out
  <2> QED
    BY <1>2, <1>4, <1>5, <2>1, <2>2, <2>3, <2>5, <2>6 DEF Emits
<1>7. CASE fault = "persist"
  <2>1. /\ db' = db
        /\ cursor' = cursor
        /\ taskSeq' = seq + 1
        /\ emitted' = Append(emitted, out)
        /\ Broadcast([e EXCEPT !.id = out])
    BY <1>1, <1>2, <1>7 DEF Emit
  <2>2. TaskInv'
    BY <1>2, <1>3, <1>5, <2>1 DEF TaskInv
  <2>3. out = seq
    BY <1>7
  <2> HIDE DEF e, out
  <2> QED
    BY <1>2, <1>3, <1>4, <1>5, <2>1, <2>2, <2>3 DEF Emits
<1> QED
  BY <1>6, <1>7

LEMMA RingAfter ==
    ASSUME ring \in Seq(Event), NEW e, RingAppend(e)
    PROVE  \E drop \in 0 .. Len(ring) + 1 :
              /\ DOMAIN ring' = 1 .. Len(ring) + 1 - drop
              /\ \A i \in DOMAIN ring' :
                    IF i + drop = Len(ring) + 1 THEN ring'[i] = e
                    ELSE i + drop \in DOMAIN ring /\ ring'[i] = ring[i + drop]
<1>1. PICK drop \in 0 .. Len(ring) + 1 :
          ring' = SubSeq(Append(ring, e), drop + 1, Len(ring) + 1)
  BY DEF RingAppend
<1>2. Len(ring) \in Nat /\ DOMAIN ring = 1 .. Len(ring)
  OBVIOUS
<1>3. \A i \in 1 .. Len(ring) + 1 :
          Append(ring, e)[i] = IF i = Len(ring) + 1 THEN e ELSE ring[i]
  BY <1>2
<1>4. ring' = [i \in 1 .. Len(ring) + 1 - drop |-> Append(ring, e)[i + drop]]
  BY <1>1, <1>2
<1> QED
  BY <1>2, <1>3, <1>4

\* The ring stays in order, and holds nothing but what it held and the new event.
LEMMA EmitRing ==
    ASSUME ring \in Seq(Event), RingInv, nextId \in Nat, NEW e, NEW out, Emits(e, out)
    PROVE  RingInv' /\ Stored' \subseteq Stored \cup {e}
<1>1. PICK drop \in 0 .. Len(ring) + 1 :
         /\ DOMAIN ring' = 1 .. Len(ring) + 1 - drop
         /\ \A i \in DOMAIN ring' :
               IF i + drop = Len(ring) + 1 THEN ring'[i] = e
               ELSE i + drop \in DOMAIN ring /\ ring'[i] = ring[i + drop]
  BY RingAfter DEF Emits
<1>2. /\ Len(ring) \in Nat /\ DOMAIN ring = 1 .. Len(ring)
      /\ \A i \in DOMAIN ring : ring[i].id \in Nat
  <2>1. Len(ring) \in Nat /\ DOMAIN ring = 1 .. Len(ring)
    OBVIOUS
  <2>2. \A i \in DOMAIN ring : ring[i] \in Event
    OBVIOUS
  <2> QED
    BY <2>1, <2>2, EventFields
<1>3. e.id \in Nat /\ nextId' = e.id + 1 /\ nextId <= e.id
  BY DEF Emits, Event
<1>4. \A i \in DOMAIN ring' : i + drop <= Len(ring) + 1
  BY <1>1, <1>2
<1>5. \A i, j \in DOMAIN ring' : i < j => ring'[i].id < ring'[j].id
  <2> SUFFICES ASSUME NEW i \in DOMAIN ring', NEW j \in DOMAIN ring', i < j
               PROVE  ring'[i].id < ring'[j].id
    OBVIOUS
  <2>1. i + drop # Len(ring) + 1
    BY <1>1, <1>2
  <2>2. i + drop \in DOMAIN ring /\ ring'[i] = ring[i + drop]
    BY <1>1, <2>1
  <2>3. CASE j + drop = Len(ring) + 1
    BY SMTT(20), <1>1, <1>2, <1>3, <2>2, <2>3 DEF RingInv
  <2>4. CASE j + drop # Len(ring) + 1
    <3>1. j + drop \in DOMAIN ring /\ ring'[j] = ring[j + drop]
      BY <1>1, <2>4
    <3>2. i + drop < j + drop
      BY <1>1
    <3> QED
      BY <2>2, <3>1, <3>2 DEF RingInv
  <2> QED
    BY <2>3, <2>4
<1>6. \A i \in DOMAIN ring' : ring'[i].id < nextId'
  BY SMTT(20), <1>1, <1>2, <1>3 DEF RingInv
<1>7. RingRows' \subseteq RingRows \cup {e}
  BY <1>1 DEF RingRows
<1> QED
  BY <1>3, <1>5, <1>6, <1>7 DEF RingInv, Stored, Emits

\* Every row held before has a smaller id and an earlier event.
LEMMA EmitAbove ==
    ASSUME AheadInv, RingInv, StoredInv, NEW e, NEW out, Emits(e, out)
    PROVE  \A x \in Stored : x \in Event /\ x.id < e.id /\ x.ev < e.ev
<1> USE DEF AheadInv, IInv, TypeOK
<1>1. ASSUME NEW x \in db PROVE x \in Event /\ x.id < e.id
  BY <1>1, EventFields DEF Emits, CursorCovers
<1>2. ASSUME NEW x \in RingRows PROVE x \in Event /\ x.id < e.id
  <2>1. PICK i \in DOMAIN ring : x = ring[i]
    BY <1>2 DEF RingRows
  <2>2. x \in Event /\ x.id < nextId
    BY <2>1 DEF RingInv
  <2> QED
    BY <2>2, EventFields DEF Emits
<1>3. \A x \in Stored : x \in Event /\ x.id < e.id
  BY <1>1, <1>2 DEF Stored
<1>4. \A x \in Stored : x.ev <= Len(emitted)
  BY DEF StoredInv
<1>5. Len(emitted) \in Nat /\ e.ev = Len(emitted) + 1
  BY DEF Emits
<1> QED
  BY <1>3, <1>4, <1>5, EventFields

LEMMA EmitStored ==
    ASSUME AheadInv, RingInv, StoredInv, NEW e, NEW out, Emits(e, out)
    PROVE  StoredInv'
<1>1. Stored' \subseteq Stored \cup {e}
  BY EmitRing DEF AheadInv, IInv, TypeOK
<1>2. \A x \in Stored : x \in Event /\ x.id < e.id /\ x.ev < e.ev
  BY EmitAbove
<1>3. e \in Event /\ e.ev = Len(emitted) + 1 /\ Len(emitted') = Len(emitted) + 1
  BY DEF Emits, AheadInv, IInv, TypeOK
<1>4. Len(emitted) \in Nat
  BY DEF AheadInv, IInv, TypeOK
<1>5. \A x \in Stored' : x.ev <= Len(emitted')
  BY <1>1, <1>2, <1>3, <1>4, EventFields DEF StoredInv
<1>6. \A x, y \in Stored' : x.id < y.id => x.ev < y.ev
  BY <1>1, <1>2, <1>3, EventFields DEF StoredInv
<1> QED
  BY <1>5, <1>6 DEF StoredInv

\* A stream after an emission: as it was, or with the event at its end.
LEMMA EmitStream ==
    ASSUME AheadInv, RingInv, StoredInv, NEW e, NEW out, Emits(e, out),
           NEW c \in Clients, StreamInv(c)
    PROVE  StreamInv(c)'
<1> DEFINE b == [e EXCEPT !.id = out]
           s == stream[c]
           t == stream'[c]
<1>1. /\ s \in Stream /\ Len(emitted) \in Nat /\ e \in Event
      /\ e.ev = Len(emitted) + 1 /\ Len(emitted') = Len(emitted) + 1
  BY DEF Emits, AheadInv, IInv, TypeOK
<1>2. b \in Event /\ b.ev = e.ev /\ b.id = out
  BY <1>1 DEF Event, Emits
<1>3. \A x \in Stored : x \in Event /\ x.id < e.id /\ x.ev < e.ev
  BY EmitAbove
<1>4. Stored' \subseteq Stored \cup {e}
  BY EmitRing DEF AheadInv, IInv, TypeOK
<1>5. t = s \/ t = [s EXCEPT !.queue = Append(@, b)]
  BY DEF Emits, Broadcast
<1>6. t.got = s.got /\ t.seen = s.seen /\ t.replay = s.replay
  BY <1>1, <1>5 DEF Stream
<1>7. s.queue \in Seq(Event) /\ s.replay \subseteq Event /\ s.got \subseteq Nat /\ s.seen \in Nat
  BY <1>1 DEF Stream
<1>8. t.queue = s.queue \/ t.queue = Append(s.queue, b)
  BY <1>1, <1>5 DEF Stream
<1> DEFINE q == s.queue
<1>9. /\ DOMAIN q = 1 .. Len(q) /\ Len(q) \in Nat
      /\ \A i \in DOMAIN q : q[i] \in Event
  BY <1>7
<1>10. \A i \in DOMAIN t.queue :
          \/ i \in DOMAIN q /\ t.queue[i] = q[i]
          \/ i = Len(q) + 1 /\ t.queue[i] = b
  BY <1>7, <1>8, <1>9
<1>11. Pending(c)' \subseteq Pending(c) \cup {b}
  BY <1>6, <1>10 DEF Pending, QueueRows
<1>12. Pending(c) \subseteq Event
  BY <1>7, <1>9 DEF Pending, QueueRows
<1>13. out \in Nat /\ e.id <= out
  BY DEF Emits
<1>14. \A x \in Pending(c) : x \in Event /\ x.ev < e.ev
  BY <1>1, <1>12, EventFields DEF StreamInv, GotFirst
<1>15. \A g \in s.got : g \in Nat /\ g < e.ev
  BY <1>1, <1>7 DEF StreamInv, GotFirst
<1> HIDE DEF b, s, t, q
<1>16. GotFirst(c)'
  <2>1. \A x \in Pending(c), g \in s.got : g < x.ev
    BY DEF StreamInv, GotFirst, s
  <2>2. \A x \in Pending(c) \cup {b}, g \in s.got : g < x.ev
    BY <1>2, <1>15, <2>1
  <2>3. \A x \in Pending(c) \cup {b} : x.ev <= Len(emitted')
    BY <1>1, <1>2, <1>14, EventFields
  <2>4. \A g \in s.got : g <= Len(emitted')
    BY <1>1, <1>15
  <2>5. stream'[c].got = s.got
    BY <1>6 DEF t
  <2> QED
    BY <1>11, <2>2, <2>3, <2>4, <2>5 DEF GotFirst
<1>17. ReplayOrdered(c)'
  BY <1>6 DEF StreamInv, ReplayOrdered, s, t
<1>18. QueueOrdered(c)'
  <2>1. \A x \in s.replay : x \in Pending(c)
    BY DEF Pending, s
  <2>2. \A i \in DOMAIN q : q[i] \in Pending(c)
    BY DEF Pending, QueueRows, s, q
  <2>3. /\ \A x \in s.replay, i \in DOMAIN q : x.ev < q[i].ev
        /\ \A i, j \in DOMAIN q : i < j => q[i].ev < q[j].ev
    BY DEF StreamInv, QueueOrdered, s, q
  <2>4. \A x \in s.replay, i \in DOMAIN t.queue : x.ev < t.queue[i].ev
    BY <1>2, <1>10, <1>14, <2>1, <2>3
  <2>5. \A i, j \in DOMAIN t.queue : i < j => t.queue[i].ev < t.queue[j].ev
    BY <1>2, <1>9, <1>10, <1>14, <2>2, <2>3
  <2> QED
    BY <1>6, <2>4, <2>5 DEF QueueOrdered, t
<1>19. HeldLater(c)'
  <2>1. \A r \in Stored, g \in s.got : r.id > s.seen => g < r.ev
    BY DEF StreamInv, HeldLater, s
  <2>2. \A r \in Stored, x \in Pending(c) : r.id > x.id => r.ev > x.ev
    BY DEF StreamInv, HeldLater
  <2>3. \A r \in Stored', g \in s.got : r.id > s.seen => g < r.ev
    BY <1>4, <1>15, <2>1
  <2>4. ASSUME NEW r \in Stored', NEW x \in Pending(c)', r.id > x.id
        PROVE  r.ev > x.ev
    <3>1. CASE r = e /\ x \in Pending(c)
      BY <1>1, <1>14, <3>1, EventFields
    <3>2. CASE r = e /\ x = b
      BY <1>1, <1>2, <1>13, <2>4, <3>2, EventFields
    <3>3. CASE r \in Stored /\ x \in Pending(c)
      BY <2>2, <2>4, <3>3
    <3>4. CASE r \in Stored /\ x = b
      BY <1>1, <1>2, <1>3, <1>13, <2>4, <3>4, EventFields
    <3> QED
      BY <1>4, <1>11, <3>1, <3>2, <3>3, <3>4
  <2> QED
    BY <1>6, <2>3, <2>4 DEF HeldLater, s, t
<1>20. Idle(c)'
  <2>1. t = s \/ (s.mode = "live" /\ t = [s EXCEPT !.queue = Append(@, b)])
    BY DEF Emits, Broadcast, Subscribed, s, t, b
  <2>2. s.mode = "live" => t.mode = "live"
    BY <1>1, <2>1 DEF Stream
  <2> QED
    BY <2>1, <2>2 DEF StreamInv, Idle, s, t
<1> QED
  BY <1>16, <1>17, <1>18, <1>19, <1>20 DEF StreamInv

-----------------------------------------------------------------------------
(* What the other steps do to one stream *)

\* Event e leaves the stream, which its client has now got, or had before.
Delivers(c, e) ==
    LET s == stream[c]
        t == stream'[c]
    IN  /\ e \in Upcoming(c)
        /\ \/ t.mode = s.mode /\ t.replay = Sent(s, e).replay /\ t.queue = Sent(s, e).queue
           \/ t.mode = "off" /\ t.replay = {} /\ t.queue = <<>>
        /\ \/ e.id <= s.seen /\ t.got = s.got /\ t.seen = s.seen
           \/ t.got = s.got \cup {e.ev} /\ t.seen = Larger(s.seen, e.id)

Opens(c) ==
    /\ stream[c].mode = "off"
    /\ \E mode \in {"live", "replay"} : stream'[c] = Opened(stream[c], mode)

Ends(c) ==
    /\ stream[c].mode = "replay"
    /\ \E mode \in {"live", "off"} : stream'[c] = [stream[c] EXCEPT !.mode = mode]

StreamSteps ==
    \/ \E c \in Watchers : OpenWatcher(c) \/ SendToWatcher(c)
    \/ \E c \in Resumers : OpenResumer(c) \/ SendToResumer(c) \/ EndReplay(c)
    \/ \E c \in Clients : Disconnect(c)

LEMMA UpcomingPending ==
    ASSUME stream \in [Clients -> Stream], NEW c \in Clients, NEW e \in Upcoming(c)
    PROVE  /\ e \in Pending(c) /\ e \in Event
           /\ Sent(stream[c], e) \in Stream
           /\ Sent(stream[c], e).mode = stream[c].mode
           /\ Sent(stream[c], e).got = stream[c].got
           /\ Sent(stream[c], e).seen = stream[c].seen
           /\ \/ /\ e \in stream[c].replay
                 /\ \A x \in stream[c].replay : e.id <= x.id
                 /\ Sent(stream[c], e).replay = stream[c].replay \ {e}
                 /\ Sent(stream[c], e).queue = stream[c].queue
              \/ /\ stream[c].replay = {}
                 /\ stream[c].queue # <<>> /\ e = Head(stream[c].queue)
                 /\ Sent(stream[c], e).replay = {}
                 /\ Sent(stream[c], e).queue = Tail(stream[c].queue)
<1>1. stream[c] \in Stream
  OBVIOUS
<1>2. CASE stream[c].replay # {}
  BY <1>1, <1>2 DEF Upcoming, Sent, Stream, Pending
<1>3. CASE stream[c].replay = {}
  <2>1. stream[c].queue # <<>> /\ e = Head(stream[c].queue)
    BY <1>3 DEF Upcoming
  <2>2. stream[c].queue \in Seq(Event)
    BY <1>1 DEF Stream
  <2>3. 1 \in DOMAIN stream[c].queue /\ e = stream[c].queue[1] /\ e \in Event
        /\ Tail(stream[c].queue) \in Seq(Event)
    BY <2>1, <2>2
  <2>4. e \in Pending(c)
    BY <2>3 DEF Pending, QueueRows
  <2> QED
    BY <1>1, <1>3, <2>1, <2>3, <2>4 DEF Sent, Stream
<1> QED
  BY <1>2, <1>3

LEMMA StreamStep ==
    ASSUME stream \in [Clients -> Stream], StreamSteps, NEW c \in Clients
    PROVE  \/ stream'[c] = stream[c]
           \/ stream'[c] = Closed(stream[c])
           \/ Opens(c) /\ (c \in Resumers \/ stream'[c] = Opened(stream[c], "live"))
           \/ c \in Resumers /\ Ends(c)
           \/ \E e \in Event : Delivers(c, e)
<1>1. ASSUME NEW d \in Watchers, OpenWatcher(d)
      PROVE  \/ stream'[c] = stream[c]
             \/ Opens(c) /\ stream'[c] = Opened(stream[c], "live")
  BY <1>1 DEF OpenWatcher, Opens, Clients
<1>2. ASSUME NEW d \in Resumers, OpenResumer(d)
      PROVE  stream'[c] = stream[c] \/ (Opens(c) /\ c \in Resumers)
  BY <1>2 DEF OpenResumer, Opens, Clients
<1>3. ASSUME NEW d \in Watchers, SendToWatcher(d)
      PROVE  stream'[c] = stream[c] \/ \E e \in Event : Delivers(c, e)
  <2>1. PICK e \in Upcoming(d) :
           stream' = [stream EXCEPT ![d] =
               IF e.id > stream[d].seen
               THEN [Sent(stream[d], e) EXCEPT !.seen = e.id, !.got = @ \cup {e.ev}]
               ELSE Sent(stream[d], e)]
    BY <1>3 DEF SendToWatcher
  <2>2. CASE c # d
    BY <2>1, <2>2
  <2>3. CASE c = d
    <3> DEFINE s == Sent(stream[c], e)
    <3>1. /\ s \in Stream /\ s.mode = stream[c].mode /\ s.got = stream[c].got
          /\ s.seen = stream[c].seen /\ e \in Event
      BY <2>3, UpcomingPending
    <3>2. stream'[c] = IF e.id > stream[c].seen
                       THEN [s EXCEPT !.seen = e.id, !.got = @ \cup {e.ev}]
                       ELSE s
      BY <2>1, <2>3
    <3>3. stream[c].seen \in Nat /\ e.id \in Nat
      BY <3>1, EventFields DEF Stream
    <3> HIDE DEF s
    <3>4. CASE e.id > stream[c].seen
      <4>1. /\ stream'[c].mode = s.mode /\ stream'[c].replay = s.replay
            /\ stream'[c].queue = s.queue
            /\ stream'[c].got = stream[c].got \cup {e.ev}
            /\ stream'[c].seen = e.id
        BY <3>1, <3>2, <3>4 DEF Stream
      <4>2. e.id = Larger(stream[c].seen, e.id)
        BY <3>3, <3>4 DEF Larger
      <4> QED
        BY <2>3, <3>1, <4>1, <4>2 DEF Delivers, s
    <3>5. CASE ~(e.id > stream[c].seen)
      <4>1. stream'[c] = s /\ e.id <= stream[c].seen
        BY <3>2, <3>3, <3>5
      <4> QED
        BY <2>3, <3>1, <4>1 DEF Delivers, s
    <3> QED
      BY <3>4, <3>5
  <2> QED
    BY <2>2, <2>3
<1>4. ASSUME NEW d \in Resumers, SendToResumer(d)
      PROVE  stream'[c] = stream[c] \/ \E e \in Event : Delivers(c, e)
  <2>1. PICK e \in Upcoming(d) :
           LET s == [Sent(stream[d], e) EXCEPT !.seen = Larger(@, e.id), !.got = @ \cup {e.ev}]
           IN  stream' = [stream EXCEPT ![d] =
                   IF stream[d].mode = "live" /\ e.last THEN Closed(s) ELSE s]
    BY <1>4 DEF SendToResumer
  <2>2. CASE c # d
    BY <2>1, <2>2
  <2>3. CASE c = d
    <3> DEFINE r == Sent(stream[c], e)
               s == [r EXCEPT !.seen = Larger(@, e.id), !.got = @ \cup {e.ev}]
    <3>1. /\ r \in Stream /\ r.mode = stream[c].mode /\ r.got = stream[c].got
          /\ r.seen = stream[c].seen /\ e \in Event
      BY <2>3, UpcomingPending
    <3>2. stream'[c] = Closed(s) \/ stream'[c] = s
      BY <2>1, <2>3
    <3>3. /\ s.mode = r.mode /\ s.replay = r.replay /\ s.queue = r.queue
          /\ s.got = r.got \cup {e.ev} /\ s.seen = Larger(r.seen, e.id)
          /\ DOMAIN s = DOMAIN r
      BY <3>1 DEF Stream
    <3>4. /\ Closed(s).mode = "off" /\ Closed(s).replay = {} /\ Closed(s).queue = <<>>
          /\ Closed(s).got = s.got /\ Closed(s).seen = s.seen
      BY <3>1 DEF Closed, Stream
    <3> HIDE DEF s
    <3>5. \/ /\ stream'[c].mode = stream[c].mode /\ stream'[c].replay = r.replay
             /\ stream'[c].queue = r.queue
          \/ /\ stream'[c].mode = "off" /\ stream'[c].replay = {}
             /\ stream'[c].queue = <<>>
      BY <3>1, <3>2, <3>3, <3>4
    <3>6. /\ stream'[c].got = stream[c].got \cup {e.ev}
          /\ stream'[c].seen = Larger(stream[c].seen, e.id)
      BY <3>1, <3>2, <3>3, <3>4
    <3> QED
      BY <2>3, <3>1, <3>5, <3>6 DEF Delivers
  <2> QED
    BY <2>2, <2>3
<1>5. ASSUME NEW d \in Resumers, EndReplay(d)
      PROVE  stream'[c] = stream[c] \/ (c \in Resumers /\ Ends(c))
  <2>1. CASE c # d
    BY <1>5, <2>1 DEF EndReplay
  <2>2. CASE c = d
    <3>1. stream'[c] = [stream[c] EXCEPT !.mode = IF run = "running" THEN "live" ELSE "off"]
          /\ stream[c].mode = "replay"
      BY <1>5, <2>2 DEF EndReplay
    <3> QED
      BY <2>2, <3>1 DEF Ends
  <2> QED
    BY <2>1, <2>2
<1>6. ASSUME NEW d \in Clients, Disconnect(d)
      PROVE  stream'[c] = stream[c] \/ stream'[c] = Closed(stream[c])
  BY <1>6 DEF Disconnect
<1> QED
  BY <1>1, <1>2, <1>3, <1>4, <1>5, <1>6 DEF StreamSteps

\* A stream that stays as it is, while no row is added.
LEMMA KeptStream ==
    ASSUME Stored' \subseteq Stored, emitted' = emitted, NEW c \in Clients, StreamInv(c),
           stream'[c] = stream[c]
    PROVE  StreamInv(c)'
<1>1. Pending(c)' = Pending(c)
  BY DEF Pending, QueueRows
<1> QED
  BY <1>1 DEF StreamInv, GotFirst, ReplayOrdered, QueueOrdered, HeldLater, Idle

LEMMA ClosedStream ==
    ASSUME Stored' \subseteq Stored, emitted' = emitted, NEW c \in Clients, StreamInv(c),
           stream[c] \in Stream, stream'[c] = Closed(stream[c])
    PROVE  StreamInv(c)'
<1>1. /\ stream'[c].replay = {} /\ stream'[c].queue = <<>>
      /\ stream'[c].got = stream[c].got /\ stream'[c].seen = stream[c].seen
  BY DEF Closed, Stream
<1>2. Pending(c)' = {}
  BY <1>1 DEF Pending, QueueRows
<1>3. GotFirst(c)' /\ HeldLater(c)'
  BY <1>1, <1>2 DEF StreamInv, GotFirst, HeldLater
<1>4. ReplayOrdered(c)' /\ QueueOrdered(c)' /\ Idle(c)'
  BY <1>1 DEF ReplayOrdered, QueueOrdered, Idle
<1> QED
  BY <1>3, <1>4 DEF StreamInv

\* What a replay consists of.
LEMMA ReplayRows ==
    ASSUME RingInv, OneRowPerId, ring \in Seq(Event), db \in SUBSET Event, NEW after
    PROVE  /\ Replay(after) \subseteq Stored
           /\ \A x \in Replay(after) : x \in Event /\ x.id > after
           /\ \A x, y \in Replay(after) : x.id = y.id => x = y
<1>1. Replay(after) \subseteq Held(after) /\ \A x \in Replay(after) : x.id > after
  BY DEF Replay, Lowest
<1>2. Held(after) = RingRows \/ Held(after) = db
  BY DEF Held, RingRows
<1>3. RingRows \subseteq Event
  BY DEF RingRows
<1>4. ASSUME NEW x \in RingRows, NEW y \in RingRows, x.id = y.id
      PROVE  x = y
  <2>1. PICK i \in DOMAIN ring : x = ring[i]
    BY DEF RingRows
  <2>2. PICK j \in DOMAIN ring : y = ring[j]
    BY DEF RingRows
  <2>3. x.id \in Nat /\ y.id \in Nat /\ i \in Nat /\ j \in Nat
    BY <1>3, EventFields
  <2>4. ~(i < j) /\ ~(j < i)
    BY <1>4, <2>1, <2>2, <2>3 DEF RingInv
  <2> QED
    BY <2>1, <2>2, <2>3, <2>4
<1>5. \A x, y \in Held(after) : x.id = y.id => x = y
  BY <1>2, <1>4 DEF OneRowPerId
<1> QED
  BY <1>1, <1>2, <1>3, <1>5 DEF Stored

LEMMA OpenedStream ==
    ASSUME AheadInv, RingInv, StoredInv, Stored' = Stored, emitted' = emitted,
           NEW c \in Clients, StreamInv(c), Opens(c)
    PROVE  StreamInv(c)'
<1> DEFINE s == stream[c]
<1>1. s \in Stream /\ s.queue = <<>>
  BY DEF AheadInv, IInv, TypeOK, StreamInv, Idle, Opens
<1>2. /\ stream'[c].replay = Replay(s.seen) /\ stream'[c].queue = <<>>
      /\ stream'[c].got = s.got /\ stream'[c].seen = s.seen
  BY <1>1 DEF Opens, Opened, Stream
<1>3. Pending(c)' = Replay(s.seen)
  BY <1>2 DEF Pending, QueueRows
<1>4. /\ Replay(s.seen) \subseteq Stored
      /\ \A x \in Replay(s.seen) : x.id > s.seen
      /\ \A x, y \in Replay(s.seen) : x.id = y.id => x = y
  BY ReplayRows DEF AheadInv, IInv, TypeOK
<1>5. GotFirst(c)'
  <2>1. \A x \in Replay(s.seen), g \in s.got : g < x.ev
    BY <1>4 DEF StreamInv, HeldLater
  <2>2. \A x \in Replay(s.seen) : x.ev <= Len(emitted)
    BY <1>4 DEF StoredInv
  <2> QED
    BY <1>2, <1>3, <2>1, <2>2 DEF GotFirst, StreamInv
<1>6. ReplayOrdered(c)'
  BY <1>2, <1>4 DEF ReplayOrdered, StoredInv
<1>7. QueueOrdered(c)' /\ Idle(c)'
  BY <1>2 DEF QueueOrdered, Idle
<1>8. HeldLater(c)'
  <2>1. \A r \in Stored', g \in stream'[c].got : r.id > stream'[c].seen => g < r.ev
    BY <1>2 DEF HeldLater, StreamInv
  <2>2. \A r \in Stored', x \in Pending(c)' : r.id > x.id => r.ev > x.ev
    <3> SUFFICES ASSUME NEW r \in Stored, NEW x \in Stored, r.id > x.id PROVE r.ev > x.ev
      BY <1>3, <1>4
    <3>1. r \in Event /\ x \in Event
      BY DEF Stored, RingRows, AheadInv, IInv, TypeOK
    <3>2. x.id < r.id
      BY <3>1, EventFields
    <3>3. x.ev < r.ev
      BY <3>2 DEF StoredInv
    <3> QED
      BY <3>1, <3>3, EventFields
  <2> QED
    BY <2>1, <2>2 DEF HeldLater
<1> QED
  BY <1>5, <1>6, <1>7, <1>8 DEF StreamInv

LEMMA EndedStream ==
    ASSUME AheadInv, Stored' = Stored, emitted' = emitted, NEW c \in Clients, StreamInv(c),
           Ends(c)
    PROVE  StreamInv(c)'
<1>1. stream[c] \in Stream /\ stream[c].queue = <<>>
  BY DEF AheadInv, IInv, TypeOK, StreamInv, Idle, Ends
<1>2. /\ stream'[c].replay = stream[c].replay /\ stream'[c].queue = stream[c].queue
      /\ stream'[c].got = stream[c].got /\ stream'[c].seen = stream[c].seen
  BY <1>1 DEF Ends, Stream
<1>3. Pending(c)' = Pending(c)
  BY <1>2 DEF Pending, QueueRows
<1> QED
  BY <1>1, <1>2, <1>3 DEF StreamInv, GotFirst, ReplayOrdered, QueueOrdered, HeldLater, Idle

\* What still waits once e has been delivered comes later than e.
LEMMA DeliveredRest ==
    ASSUME stream \in [Clients -> Stream], NEW c \in Clients, StreamInv(c),
           NEW e \in Event, Delivers(c, e)
    PROVE  /\ Pending(c)' \subseteq Pending(c)
           /\ \A x \in Pending(c)' : e.ev < x.ev
           /\ stream'[c].replay \subseteq stream[c].replay
           /\ \/ stream'[c].queue = stream[c].queue
              \/ stream'[c].queue = <<>>
              \/ stream[c].queue # <<>> /\ stream'[c].queue = Tail(stream[c].queue)
           /\ stream'[c].mode # "live" => stream'[c].queue = <<>>
           /\ stream'[c].mode = "live" =>
                 \A x \in Pending(c) : x = e \/ x \in Pending(c)'
<1> DEFINE q == stream[c].queue
           p == stream[c].replay
           tq == stream'[c].queue
           tp == stream'[c].replay
<1>1. e \in Upcoming(c)
  BY DEF Delivers
<1>2. stream[c] \in Stream /\ q \in Seq(Event) /\ p \subseteq Event
  BY DEF Stream
<1>3. /\ Len(q) \in Nat /\ DOMAIN q = 1 .. Len(q)
      /\ q # <<>> => /\ DOMAIN Tail(q) = 1 .. Len(q) - 1
                     /\ \A i \in 1 .. Len(q) - 1 : Tail(q)[i] = q[i + 1]
                     /\ Head(q) = q[1] /\ 1 \in DOMAIN q
  BY <1>2
<1>4. /\ \A x \in p, i \in DOMAIN q : x.ev < q[i].ev
      /\ \A i, j \in DOMAIN q : i < j => q[i].ev < q[j].ev
      /\ \A x, y \in p : (x.id < y.id => x.ev < y.ev) /\ (x.id = y.id => x = y)
      /\ stream[c].mode # "live" => q = <<>>
  BY DEF StreamInv, QueueOrdered, ReplayOrdered, Idle
<1>5. \/ tq = Sent(stream[c], e).queue /\ tp = Sent(stream[c], e).replay
         /\ stream'[c].mode = stream[c].mode
      \/ tq = <<>> /\ tp = {} /\ stream'[c].mode = "off"
  BY DEF Delivers
<1>6. \/ /\ e \in p /\ \A x \in p : e.id <= x.id
         /\ Sent(stream[c], e).replay = p \ {e}
         /\ Sent(stream[c], e).queue = q
      \/ /\ p = {} /\ q # <<>> /\ e = Head(q)
         /\ Sent(stream[c], e).replay = {}
         /\ Sent(stream[c], e).queue = Tail(q)
  BY <1>1, UpcomingPending
<1>7. Pending(c) = p \cup {q[i] : i \in DOMAIN q}
  BY DEF Pending, QueueRows
<1>8. Pending(c)' = tp \cup {tq[i] : i \in DOMAIN tq}
  BY DEF Pending, QueueRows
<1> HIDE DEF q, p, tq, tp
<1>9. CASE tq = <<>> /\ tp = {} /\ stream'[c].mode = "off"
  <2>1. Pending(c)' = {}
    BY <1>8, <1>9
  <2> QED
    BY <1>9, <2>1 DEF tq, tp, p
<1>10. CASE /\ e \in p /\ \A x \in p : e.id <= x.id
            /\ tp = p \ {e} /\ tq = q /\ stream'[c].mode = stream[c].mode
  <2>1. \A x \in p \ {e} : e.ev < x.ev
    <3> SUFFICES ASSUME NEW x \in p, x # e PROVE e.ev < x.ev
      OBVIOUS
    <3>1. e.id \in Nat /\ x.id \in Nat
      BY <1>2, EventFields
    <3>2. e.id < x.id
      BY <1>4, <1>10, <3>1
    <3> QED
      BY <1>4, <1>10, <3>2
  <2>2. \A i \in DOMAIN q : e.ev < q[i].ev
    BY <1>4, <1>10
  <2>3. Pending(c)' = (p \ {e}) \cup {q[i] : i \in DOMAIN q}
    BY <1>8, <1>10
  <2>4. stream'[c].mode # "live" => tq = <<>>
    BY <1>4, <1>10
  <2> QED
    BY <1>7, <1>10, <2>1, <2>2, <2>3, <2>4 DEF tq, tp, p, q
<1>11. CASE /\ p = {} /\ q # <<>> /\ e = Head(q)
            /\ tp = {} /\ tq = Tail(q) /\ stream'[c].mode = stream[c].mode
  <2>1. \A i \in DOMAIN tq : i + 1 \in DOMAIN q /\ tq[i] = q[i + 1] /\ 1 < i + 1
    BY <1>3, <1>11
  <2>2. \A i \in DOMAIN tq : e.ev < tq[i].ev
    BY <1>3, <1>4, <1>11, <2>1
  <2>3. Pending(c)' \subseteq Pending(c)
    BY <1>7, <1>8, <1>11, <2>1
  <2>4. \A i \in DOMAIN q : i = 1 \/ (i - 1 \in DOMAIN tq /\ q[i] = tq[i - 1])
    BY <1>3, <1>11
  <2>5. \A x \in Pending(c) : x = e \/ x \in Pending(c)'
    BY <1>3, <1>7, <1>8, <1>11, <2>4
  <2>6. stream'[c].mode = "live"
    BY <1>4, <1>11
  <2> QED
    BY <1>8, <1>11, <2>2, <2>3, <2>5, <2>6 DEF tq, tp, p, q
<1> QED
  BY <1>5, <1>6, <1>9, <1>10, <1>11

LEMMA DeliveredStream ==
    ASSUME AheadInv, StoredInv, Stored' = Stored, emitted' = emitted,
           NEW c \in Clients, StreamInv(c), NEW e \in Event, Delivers(c, e)
    PROVE  StreamInv(c)'
<1> DEFINE s == stream[c]
           t == stream'[c]
<1>1. stream \in [Clients -> Stream] /\ s \in Stream
  BY DEF AheadInv, IInv, TypeOK
<1>2. e \in Pending(c) /\ e.id \in Nat /\ s.seen \in Nat /\ s.got \subseteq Nat
      /\ s.queue \in Seq(Event)
  BY <1>1, UpcomingPending, EventFields DEF Delivers, Stream
<1>3. /\ Pending(c)' \subseteq Pending(c)
      /\ \A x \in Pending(c)' : e.ev < x.ev
      /\ t.replay \subseteq s.replay
      /\ \/ t.queue = s.queue
         \/ t.queue = <<>>
         \/ s.queue # <<>> /\ t.queue = Tail(s.queue)
      /\ t.mode # "live" => t.queue = <<>>
  BY <1>1, DeliveredRest
<1>4. \/ e.id <= s.seen /\ t.got = s.got /\ t.seen = s.seen
      \/ t.got = s.got \cup {e.ev} /\ t.seen = Larger(s.seen, e.id)
  BY DEF Delivers
<1>5. t.got \subseteq s.got \cup {e.ev} /\ s.seen <= t.seen /\ t.seen \in Nat
      /\ (e.ev \in t.got \ s.got => e.id <= t.seen)
  BY <1>2, <1>4 DEF Larger
<1> HIDE DEF s, t
<1>6. GotFirst(c)'
  <2>1. /\ \A x \in Pending(c), g \in s.got : g < x.ev
        /\ \A x \in Pending(c) : x.ev <= Len(emitted)
        /\ \A g \in s.got : g <= Len(emitted)
    BY DEF StreamInv, GotFirst, s
  <2> QED
    BY <1>2, <1>3, <1>5, <2>1 DEF GotFirst, t
<1>7. ReplayOrdered(c)'
  BY <1>3 DEF StreamInv, ReplayOrdered, s, t
<1>8. QueueOrdered(c)'
  <2>1. /\ \A x \in s.replay, i \in DOMAIN s.queue : x.ev < s.queue[i].ev
        /\ \A i, j \in DOMAIN s.queue : i < j => s.queue[i].ev < s.queue[j].ev
    BY DEF StreamInv, QueueOrdered, s
  <2>2. CASE t.queue = s.queue \/ t.queue = <<>>
    BY <1>3, <2>1, <2>2 DEF QueueOrdered, t
  <2>3. CASE s.queue # <<>> /\ t.queue = Tail(s.queue)
    <3>1. \A i \in DOMAIN t.queue : i \in Nat /\ i + 1 \in DOMAIN s.queue
                                    /\ t.queue[i] = s.queue[i + 1]
      BY <1>2, <2>3
    <3>2. \A x \in t.replay, i \in DOMAIN t.queue : x.ev < t.queue[i].ev
      BY <1>3, <2>1, <3>1
    <3>3. \A i, j \in DOMAIN t.queue : i < j => t.queue[i].ev < t.queue[j].ev
      BY <2>1, <3>1
    <3> QED
      BY <3>2, <3>3 DEF QueueOrdered, t
  <2> QED
    BY <1>3, <2>2, <2>3
<1>9. HeldLater(c)'
  <2>1. /\ \A r \in Stored, g \in s.got : r.id > s.seen => g < r.ev
        /\ \A r \in Stored, x \in Pending(c) : r.id > x.id => r.ev > x.ev
    BY DEF StreamInv, HeldLater, s
  <2>2. \A r \in Stored : r \in Event
    BY DEF Stored, RingRows, AheadInv, IInv, TypeOK
  <2>3. ASSUME NEW r \in Stored, NEW g \in t.got, r.id > t.seen
        PROVE  g < r.ev
    <3>1. r.id \in Nat /\ r.id > s.seen /\ r.ev \in Nat /\ e.ev \in Nat
      BY <1>2, <1>5, <2>2, <2>3, EventFields
    <3>2. CASE g \in s.got
      BY <2>1, <3>1, <3>2
    <3>3. CASE g \notin s.got
      <4>1. g = e.ev /\ r.id > e.id
        BY <1>2, <1>5, <2>3, <3>1, <3>3
      <4>2. r.ev > e.ev
        BY <1>2, <2>1, <4>1
      <4> QED
        BY <3>1, <4>1, <4>2
    <3> QED
      BY <3>2, <3>3
  <2> QED
    BY <1>3, <2>1, <2>3 DEF HeldLater, t
<1>10. Idle(c)'
  BY <1>3 DEF Idle, t
<1> QED
  BY <1>6, <1>7, <1>8, <1>9, <1>10 DEF StreamInv

-----------------------------------------------------------------------------
(* Order *)

LEMMA StreamStepsKeep ==
    ASSUME StreamSteps \/ UNCHANGED vars
    PROVE  /\ UNCHANGED <<ring, nextId, db, cursor, run, taskSeq, emitted, failed>>
           /\ Stored' = Stored
<1>1. UNCHANGED <<ring, nextId, db, cursor, run, taskSeq, emitted, failed>>
  BY DEF StreamSteps, OpenWatcher, SendToWatcher, OpenResumer, SendToResumer, EndReplay,
         Disconnect, store, task, vars
<1> QED
  BY <1>1 DEF Stored, RingRows

LEMMA OrderStep ==
    ASSUME "seed" \notin Faults, OrderInv, AheadInv', [Next]_vars
    PROVE  OrderInv'
<1>1. stream \in [Clients -> Stream]
  BY DEF OrderInv, AheadInv, IInv, TypeOK
<1>2. CASE EmitEvent
  <2>1. PICK e, out : Emits(e, out)
    BY <1>2, EmitEmits DEF OrderInv
  <2>2. TaskInv'
    BY <1>2, EmitEmits DEF OrderInv
  <2>3. RingInv' /\ StoredInv'
    BY <2>1, EmitRing, EmitStored DEF OrderInv, AheadInv, IInv, TypeOK
  <2>4. \A c \in Clients : StreamInv(c)'
    BY <2>1, EmitStream DEF OrderInv
  <2> QED
    BY <2>2, <2>3, <2>4 DEF OrderInv
<1>3. CASE StartRun
  <2>1. PICK fault \in (Faults \cap {"seed"}) \cup {"none"} :
           /\ nextId' = SeededId(fault) /\ taskSeq' = SeededId(fault)
           /\ cursor' = SeededCursor(fault)
           /\ UNCHANGED <<ring, db, emitted, stream>>
    BY <1>3 DEF StartRun
  <2>2. /\ nextId \in Nat /\ cursor \in Nat /\ db \in SUBSET Event /\ StoreAhead
        /\ ring \in Seq(Event)
    BY DEF OrderInv, AheadInv, IInv, TypeOK
  <2>3. /\ nextId' \in Nat /\ nextId <= nextId' /\ nextId' # 0
        /\ cursor' = cursor /\ cursor < nextId'
    BY <2>1, <2>2, Seeding DEF StoreAhead
  <2>4. TaskInv'
    BY <2>1, <2>3 DEF TaskInv
  <2>5. RingInv'
    <3>1. \A i \in DOMAIN ring : ring[i].id \in Nat /\ ring[i].id < nextId
      BY <2>2, EventFields DEF OrderInv, RingInv
    <3> QED
      BY <2>1, <2>2, <2>3, <3>1 DEF OrderInv, RingInv
  <2>6. Stored' = Stored
    BY <2>1 DEF Stored, RingRows
  <2>7. StoredInv'
    BY <2>1, <2>6 DEF OrderInv, StoredInv
  <2>8. \A c \in Clients : StreamInv(c)'
    BY <2>1, <2>6, KeptStream DEF OrderInv
  <2> QED
    BY <2>4, <2>5, <2>7, <2>8 DEF OrderInv
<1>4. CASE MemoryReaper \/ Restart
  <2>1. /\ UNCHANGED <<db, cursor, emitted>>
        /\ \/ ring' = ring /\ nextId' = nextId
           \/ ring' = <<>> /\ nextId' = 0
        /\ \/ run' = run /\ taskSeq' = taskSeq
           \/ run' = "none"
    BY <1>4 DEF MemoryReaper, Restart
  <2>2. Stored' \subseteq Stored
    BY <2>1 DEF Stored, RingRows
  <2>3. RingInv' /\ StoredInv'
    BY <2>1, <2>2 DEF OrderInv, RingInv, StoredInv
  <2>4. TaskInv'
    BY <2>1 DEF OrderInv, TaskInv, AheadInv, IInv, TypeOK
  <2>5. ASSUME NEW c \in Clients PROVE StreamInv(c)'
    <3>1. stream'[c] = stream[c] \/ stream'[c] = Closed(stream[c])
      BY <1>4 DEF MemoryReaper, Restart
    <3> QED
      BY <1>1, <2>1, <2>2, <3>1, KeptStream, ClosedStream DEF OrderInv
  <2> QED
    BY <2>3, <2>4, <2>5 DEF OrderInv
<1>5. CASE StreamSteps \/ UNCHANGED vars
  <2>1. UNCHANGED <<ring, nextId, db, cursor, run, taskSeq, emitted>> /\ Stored' = Stored
    BY <1>5, StreamStepsKeep
  <2>2. RingInv' /\ TaskInv' /\ StoredInv'
    BY <2>1 DEF OrderInv, RingInv, TaskInv, StoredInv
  <2>3. ASSUME NEW c \in Clients PROVE StreamInv(c)'
    <3>1. \/ stream'[c] = stream[c]
          \/ stream'[c] = Closed(stream[c])
          \/ Opens(c)
          \/ Ends(c)
          \/ \E e \in Event : Delivers(c, e)
      BY <1>1, <1>5, StreamStep DEF vars
    <3> QED
      BY <1>1, <2>1, <3>1, KeptStream, ClosedStream, OpenedStream, EndedStream,
         DeliveredStream DEF OrderInv
  <2> QED
    BY <2>2, <2>3 DEF OrderInv
<1> QED
  BY <1>2, <1>3, <1>4, <1>5 DEF Next, StreamSteps

LEMMA OrderInvariant ==
    ASSUME "seed" \notin Faults
    PROVE  Spec => []OrderInv
<1>1. ASSUME Init PROVE RingInv /\ TaskInv /\ StoredInv /\ \A c \in Clients : StreamInv(c)
  <2>1. ring = <<>> /\ db = {} /\ run = "none" /\ Stored = {}
    BY <1>1 DEF Init, Stored, RingRows
  <2>2. \A c \in Clients : /\ stream[c].replay = {} /\ stream[c].queue = <<>>
                           /\ stream[c].got = {} /\ Pending(c) = {}
    BY <1>1 DEF Init, Pending, QueueRows
  <2>3. RingInv /\ TaskInv /\ StoredInv
    BY <2>1 DEF RingInv, TaskInv, StoredInv
  <2> QED
    BY <2>1, <2>2, <2>3
       DEF StreamInv, GotFirst, ReplayOrdered, QueueOrdered, HeldLater, Idle
<1>2. AheadInv /\ RingInv /\ TaskInv /\ StoredInv /\ (\A c \in Clients : StreamInv(c))
         <=> OrderInv
  BY DEF OrderInv
<1>3. OrderInv /\ AheadInv' /\ [Next]_vars => OrderInv'
  BY OrderStep
<1>4. Spec => []AheadInv
  BY AheadInvariant
<1> QED
  BY <1>1, <1>2, <1>3, <1>4, PTL DEF Spec

\* When reads of the tables do not fail, every stream delivers events in the
\* order they were emitted, across reconnects, and also when inserts fail and
\* their ids are handed out again after a restart.
THEOREM StreamsInOrderHolds ==
    ASSUME "seed" \notin Faults
    PROVE  Spec => StreamsInOrder
<1>1. ASSUME OrderInv, [Next]_vars
      PROVE  [\A c \in Clients : \A new \in stream'[c].got \ stream[c].got :
                 \A old \in stream[c].got : old < new]_vars
  <2> SUFFICES ASSUME ~UNCHANGED vars, NEW c \in Clients,
                      NEW new \in stream'[c].got \ stream[c].got,
                      NEW old \in stream[c].got
               PROVE  old < new
    BY Zenon
  <2>1. stream \in [Clients -> Stream] /\ stream[c] \in Stream
    BY <1>1 DEF OrderInv, AheadInv, IInv, TypeOK
  <2>2. CASE EmitEvent
    <3>1. PICK e, out : Emits(e, out)
      BY <1>1, <2>2, EmitEmits DEF OrderInv
    <3>2. stream'[c].got = stream[c].got
      BY <2>1, <3>1 DEF Emits, Broadcast, Stream
    <3> QED
      BY <3>2
  <2>3. CASE StartRun \/ MemoryReaper
    BY <2>3 DEF StartRun, MemoryReaper
  <2>4. CASE Restart
    <3>1. stream'[c] = Closed(stream[c])
      BY <2>4 DEF Restart
    <3> QED
      BY <2>1, <3>1 DEF Closed, Stream
  <2>5. CASE StreamSteps
    <3>1. CASE stream'[c] = stream[c] \/ stream'[c] = Closed(stream[c])
      BY <2>1, <3>1 DEF Closed, Stream
    <3>2. CASE Opens(c) \/ Ends(c)
      BY <2>1, <3>2 DEF Opens, Ends, Opened, Stream
    <3>3. CASE \E e \in Event : Delivers(c, e)
      <4>1. PICK e \in Event : Delivers(c, e)
        BY <3>3
      <4>2. e \in Pending(c) /\ new = e.ev
        BY <2>1, <4>1, UpcomingPending DEF Delivers
      <4> QED
        BY <1>1, <4>2 DEF OrderInv, StreamInv, GotFirst
    <3> QED
      BY <2>1, <2>5, <3>1, <3>2, <3>3, StreamStep
  <2> QED
    BY <1>1, <2>2, <2>3, <2>4, <2>5 DEF Next, StreamSteps
<1>2. Spec => []OrderInv
  BY OrderInvariant
<1> QED
  BY <1>1, <1>2, PTL DEF Spec, StreamsInOrder

-----------------------------------------------------------------------------
(* Nothing is missing until an insert fails *)

\* The journal is finite, and the ring within its bound.
SizeInv ==
    /\ IsFiniteSet(db)
    /\ Cardinality(db) <= Len(emitted)
    /\ Len(ring) <= RingMax

\* A row or a waiting event has the id it was broadcast with.
Sound(x) == x.ev \in DOMAIN emitted /\ emitted[x.ev] = x.id

\* Table and ring hold the newest ids without a hole.
Contiguous ==
    /\ nextId # 0 => nextId = cursor + 1
    /\ \A r \in db : (r.id .. cursor) \subseteq Ids(db)
    /\ \A i \in DOMAIN ring : ring[i].id = cursor - Len(ring) + i
    /\ \A x \in Stored : Sound(x)

\* What an open watcher has not passed, and the table holds, waits for it.
Waits(c) ==
    stream[c].mode = "live" =>
        \A r \in db : r.id > stream[c].seen => \E x \in Pending(c) : x.ev = r.ev

WatchInv(c) ==
    /\ stream[c].mode # "live" => stream[c].mode = "off" /\ stream[c].replay = {}
    /\ stream[c].seen <= cursor
    /\ \A x \in Pending(c) : Sound(x)
    /\ MissedNothing(c)
    /\ Waits(c)

GapInv == ~failed => Contiguous /\ \A c \in Watchers : WatchInv(c)

LEMMA StepSize ==
    ASSUME "seed" \notin Faults, OrderInv, SizeInv, [Next]_vars
    PROVE  SizeInv'
<1>1. ring \in Seq(Event) /\ Len(ring) \in Nat /\ RingMax \in Nat /\ Len(emitted) \in Nat
      /\ emitted \in Seq(Nat)
  BY RingMaxAssumption DEF OrderInv, AheadInv, IInv, TypeOK
<1>2. IsFiniteSet(db) /\ Cardinality(db) \in Nat
  BY FS_CardinalityType DEF SizeInv
<1>3. CASE EmitEvent
  <2>1. PICK e, out : Emits(e, out)
    BY <1>3, EmitEmits DEF OrderInv
  <2>2. IsFiniteSet(db \cup {e}) /\ Cardinality(db \cup {e}) <= Cardinality(db) + 1
        /\ Cardinality(db \cup {e}) \in Nat
    <3>1. /\ IsFiniteSet(db \cup {e})
          /\ \/ Cardinality(db \cup {e}) = Cardinality(db)
             \/ Cardinality(db \cup {e}) = Cardinality(db) + 1
      BY <1>2, FS_AddElement
    <3> QED
      BY <1>2, <3>1
  <2>3. db' \in SUBSET (db \cup {e})
    BY <2>1 DEF Emits
  <2>4. IsFiniteSet(db') /\ Cardinality(db') <= Cardinality(db \cup {e})
        /\ Cardinality(db') \in Nat
    BY <2>2, <2>3, FS_Subset, FS_CardinalityType
  <2>5. Len(emitted') = Len(emitted) + 1
    BY <1>1, <2>1 DEF Emits
  <2>6. PICK drop \in 0 .. Len(ring) + 1 :
           /\ Len(ring) + 1 - drop <= RingMax
           /\ ring' = SubSeq(Append(ring, e), drop + 1, Len(ring) + 1)
    BY <2>1 DEF Emits, RingAppend
  <2>7. Len(ring') = Len(ring) + 1 - drop
    BY <1>1, <2>6
  <2> QED
    BY <1>1, <1>2, <2>2, <2>4, <2>5, <2>6, <2>7 DEF SizeInv
<1>4. CASE StartRun \/ MemoryReaper \/ Restart \/ StreamSteps \/ UNCHANGED vars
  <2>1. db' = db /\ emitted' = emitted /\ ring' \in {ring, <<>>}
    BY <1>4, StreamStepsKeep DEF StartRun, MemoryReaper, Restart
  <2> QED
    BY <1>1, <2>1 DEF SizeInv
<1> QED
  BY <1>3, <1>4 DEF Next, StreamSteps

\* Pruning cuts off the oldest events only: with a row it keeps every later one.
LEMMA PruneKeepsNewest ==
    ASSUME NEW rows \in SUBSET Event, IsFiniteSet(rows),
           \A x, y \in rows : x.id < y.id => x.ev < y.ev,
           emitted \in Seq(Nat), NEW kept \in Prune(rows),
           NEW r \in kept, NEW x \in rows, r.id < x.id
    PROVE  x \in kept
<1>1. PICK age \in 0 .. Len(emitted) : kept = NewestByCount(Unexpired(rows, age))
  BY DEF Prune
<1> DEFINE U == Unexpired(rows, age)
           later(y) == {z \in U : z.id > y.id}
<1>2. r \in rows /\ r \in U /\ U \subseteq rows
  BY <1>1 DEF NewestByCount, Unexpired
<1>3. x \in U
  <2>1. r.ev \in Nat /\ x.ev \in Nat /\ age \in Nat
    BY <1>2, EventFields
  <2>2. r.ev > age /\ r.ev < x.ev
    BY <1>2 DEF Unexpired
  <2> QED
    BY <2>1, <2>2 DEF Unexpired
<1>4. later(x) \subseteq later(r)
  <2> SUFFICES ASSUME NEW z \in U, z.id > x.id PROVE z.id > r.id
    OBVIOUS
  <2>1. r.id \in Nat /\ x.id \in Nat /\ z.id \in Nat
    BY <1>2, EventFields
  <2> QED
    BY <2>1
<1>5. IsFiniteSet(later(r))
  BY <1>2, FS_Subset
<1>6. IsFiniteSet(later(x)) /\ Cardinality(later(x)) <= Cardinality(later(r))
  BY <1>4, <1>5, FS_Subset
<1>7. Cardinality(later(r)) \in Nat /\ Cardinality(later(x)) \in Nat
  BY <1>5, <1>6, FS_CardinalityType
<1>8. Cardinality(later(r)) < DbKeep
  BY <1>1 DEF NewestByCount
<1>9. Cardinality(later(x)) < DbKeep
  BY <1>6, <1>7, <1>8, DbKeepAssumption
<1> QED
  BY <1>1, <1>3, <1>9 DEF NewestByCount

\* An emission whose insert succeeds appends the id after the cursor.
LEMMA EmitSound ==
    ASSUME AheadInv, TaskInv, Contiguous, "seed" \notin Faults, EmitEvent, ~failed'
    PROVE  /\ ~failed
           /\ \E e : /\ Emits(e, e.id)
                     /\ e.id = cursor + 1 /\ cursor' = cursor + 1
                     /\ db' \in {Insert(e)} \cup Prune(Insert(e))
                     /\ Broadcast(e)
<1>1. PICK last \in BOOLEAN, fault \in Faults \cup {"none"} : Emit(last, fault)
  BY DEF EmitEvent
<1> DEFINE id  == SeededId(fault)
           e   == [id |-> id, ev |-> Len(emitted) + 1, last |-> last]
<1> USE DEF AheadInv, IInv, TypeOK
<1>2. ~failed /\ fault # "persist"
  BY <1>1 DEF Emit
<1>3. /\ id \in Nat /\ cursor \in Nat /\ cursor < id /\ nextId <= id
      /\ SeededCursor(fault) = cursor
      /\ id = cursor + 1
  BY <1>1, EmitAhead, Seeding DEF Contiguous
<1>4. e \in Event /\ e.id = id /\ e.ev = Len(emitted) + 1 /\ e = [e EXCEPT !.id = id]
  <2>1. Len(emitted) + 1 \in Nat
    OBVIOUS
  <2>2. e \in Event /\ e.id = id /\ e.ev = Len(emitted) + 1
    BY <1>3, <2>1 DEF Event
  <2>3. [e EXCEPT !.id = id] = [id |-> id, ev |-> Len(emitted) + 1, last |-> last]
    OBVIOUS
  <2> QED
    BY <2>2, <2>3
<1>5. /\ nextId' = id + 1 /\ RingAppend(e)
      /\ db' \in {Insert(e)} \cup Prune(Insert(e))
      /\ cursor' = Larger(cursor, id)
      /\ emitted' = Append(emitted, id)
      /\ Broadcast(e)
  BY <1>1, <1>2, <1>3 DEF Emit
<1>6. \A r \in db' : r = e \/ r \in db
  BY <1>5, InsertedRows
<1>7. cursor' = cursor + 1
  BY <1>3, <1>5 DEF Larger
<1>8. Broadcast([e EXCEPT !.id = e.id])
  BY <1>4, <1>5, Zenon
<1> HIDE DEF id, e
<1>9. Emits(e, e.id)
  BY <1>3, <1>4, <1>5, <1>6, <1>8 DEF Emits
<1> QED
  BY <1>2, <1>3, <1>4, <1>5, <1>7, <1>9

LEMMA EmitContiguous ==
    ASSUME OrderInv, SizeInv, Contiguous, ring' \in Seq(Event), NEW e, Emits(e, e.id),
           e.id = cursor + 1, cursor' = cursor + 1,
           db' \in {Insert(e)} \cup Prune(Insert(e))
    PROVE  Contiguous'
<1>1. /\ ring \in Seq(Event) /\ db \in SUBSET Event /\ cursor \in Nat /\ nextId \in Nat
      /\ emitted \in Seq(Nat) /\ CursorCovers /\ e \in Event
  BY DEF OrderInv, AheadInv, IInv, TypeOK, Emits
<1>2. nextId' = cursor' + 1 /\ e.ev = Len(emitted) + 1 /\ emitted' = Append(emitted, e.id)
  BY <1>1 DEF Emits
<1>3. \A r \in db' : (r.id .. cursor') \subseteq Ids(db')
  <2>1. Insert(e) \in SUBSET Event
    BY <1>1 DEF Insert
  <2>2. \A r \in db : r.id \in Nat /\ r.id <= cursor
    BY <1>1, EventFields DEF CursorCovers
  <2>3. Insert(e) = db \cup {e}
    BY <1>1, <2>2 DEF Insert
  <2>4. IsFiniteSet(Insert(e))
    BY <2>3, FS_AddElement DEF SizeInv
  <2>5. \A x, y \in Insert(e) : x.id < y.id => x.ev < y.ev
    <3>1. \A x \in Stored : x \in Event /\ x.id < e.id /\ x.ev < e.ev
      BY EmitAbove DEF OrderInv
    <3>2. \A x, y \in db : x.id < y.id => x.ev < y.ev
      BY DEF OrderInv, StoredInv, Stored
    <3>3. \A x \in db : x.id \in Nat /\ x.id < e.id /\ x.ev < e.ev
      BY <3>1, EventFields DEF Stored
    <3>4. e.id \in Nat
      BY <1>1, EventFields
    <3> QED
      BY <2>3, <3>2, <3>3, <3>4
  <2>6. ASSUME NEW r \in Insert(e), NEW k \in r.id .. cursor'
        PROVE  \E x \in Insert(e) : x.id = k
    <3>1. CASE k = cursor + 1
      BY <2>3, <3>1
    <3>2. CASE k # cursor + 1
      <4>1. r.id \in Nat /\ k \in Int
        BY <2>1, EventFields
      <4>2. r.id <= cursor /\ k \in r.id .. cursor
        BY <1>1, <3>2, <4>1
      <4>3. r \in db
        BY <1>1, <2>3, <4>2
      <4>4. k \in Ids(db)
        BY <4>2, <4>3 DEF Contiguous
      <4> QED
        BY <2>3, <4>4 DEF Ids
    <3> QED
      BY <3>1, <3>2
  <2>7. ASSUME NEW r \in db', NEW k \in r.id .. cursor'
        PROVE  \E x \in db' : x.id = k
    <3>1. db' \subseteq Insert(e)
      BY PruneShrinks
    <3>2. PICK x \in Insert(e) : x.id = k
      BY <2>6, <3>1
    <3>3. r.id \in Nat /\ k \in Int
      BY <2>1, <3>1, EventFields
    <3>4. CASE k = r.id
      BY <3>4
    <3>5. CASE k # r.id
      <4>1. r.id < x.id
        BY <3>2, <3>3, <3>5
      <4>2. db' = Insert(e) \/ db' \in Prune(Insert(e))
        OBVIOUS
      <4>3. x \in db'
        BY <1>1, <2>1, <2>4, <2>5, <4>1, <4>2, PruneKeepsNewest
      <4> QED
        BY <3>2, <4>3
    <3> QED
      BY <3>4, <3>5
  <2> QED
    BY <2>7 DEF Ids
<1>4. \A i \in DOMAIN ring' : ring'[i].id = cursor' - Len(ring') + i
  <2>1. PICK drop \in 0 .. Len(ring) + 1 :
           /\ DOMAIN ring' = 1 .. Len(ring) + 1 - drop
           /\ \A i \in DOMAIN ring' :
                 IF i + drop = Len(ring) + 1 THEN ring'[i] = e
                 ELSE i + drop \in DOMAIN ring /\ ring'[i] = ring[i + drop]
    BY <1>1, RingAfter DEF Emits
  <2>2. /\ Len(ring) \in Nat /\ DOMAIN ring = 1 .. Len(ring)
        /\ Len(ring') \in Nat /\ DOMAIN ring' = 1 .. Len(ring')
    BY <1>1
  <2>3. Len(ring') = Len(ring) + 1 - drop
    BY <2>1, <2>2
  <2>4. \A i \in DOMAIN ring : ring[i].id = cursor - Len(ring) + i
    BY DEF Contiguous
  <2> SUFFICES ASSUME NEW i \in DOMAIN ring'
               PROVE  ring'[i].id = cursor' - Len(ring') + i
    OBVIOUS
  <2>5. CASE i + drop = Len(ring) + 1
    BY <1>1, <2>1, <2>2, <2>3, <2>5
  <2>6. CASE i + drop # Len(ring) + 1
    <3>1. ring'[i].id = cursor - Len(ring) + (i + drop)
      BY <2>1, <2>4, <2>6
    <3> QED
      BY <1>1, <2>2, <2>3, <3>1
  <2> QED
    BY <2>5, <2>6
<1>5. \A x \in Stored' : Sound(x)'
  <2>1. Stored' \subseteq Stored \cup {e}
    BY <1>1, EmitRing DEF OrderInv
  <2>2. /\ DOMAIN emitted' = 1 .. Len(emitted) + 1
        /\ emitted'[Len(emitted) + 1] = e.id
        /\ \A i \in DOMAIN emitted : i \in DOMAIN emitted' /\ emitted'[i] = emitted[i]
    BY <1>1, <1>2, EventFields
  <2>3. \A x \in Stored : Sound(x)
    BY DEF Contiguous
  <2> QED
    BY <1>1, <1>2, <2>1, <2>2, <2>3 DEF Sound
<1> QED
  BY <1>2, <1>3, <1>4, <1>5 DEF Contiguous

\* With no more rows than its limit allows, a replay is not cut off.
LEMMA LowestIsAll ==
    ASSUME NEW rows \in SUBSET Event, IsFiniteSet(rows), Cardinality(rows) <= ReplayLimit
    PROVE  Lowest(rows) = rows
<1> SUFFICES ASSUME NEW r \in rows
             PROVE  Cardinality({x \in rows : x.id < r.id}) < ReplayLimit
  BY DEF Lowest
<1> DEFINE below == {x \in rows : x.id < r.id}
<1>1. r.id \in Nat
  BY EventFields
<1>2. below \in SUBSET (rows \ {r})
  BY <1>1
<1>3. IsFiniteSet(rows \ {r}) /\ Cardinality(rows \ {r}) = Cardinality(rows) - 1
  BY FS_RemoveElement
<1>4. IsFiniteSet(below) /\ Cardinality(below) <= Cardinality(rows \ {r})
  BY <1>2, <1>3, FS_Subset
<1>5. Cardinality(below) \in Nat /\ Cardinality(rows) \in Nat
  BY <1>4, FS_CardinalityType
<1> QED
  BY <1>3, <1>4, <1>5, LimitAssumption

LEMMA RingRowsFinite ==
    ASSUME ring \in Seq(Event), Len(ring) <= RingMax
    PROVE  IsFiniteSet(RingRows) /\ Cardinality(RingRows) <= RingMax
<1>1. Len(ring) \in Nat /\ ring \in [1 .. Len(ring) -> RingRows]
  BY DEF RingRows
<1>2. ring \in Surjection(1 .. Len(ring), RingRows)
  BY <1>1 DEF Surjection, RingRows
<1>3. IsFiniteSet(1 .. Len(ring)) /\ Cardinality(1 .. Len(ring)) = Len(ring)
  BY <1>1, FS_Interval
<1>4. IsFiniteSet(RingRows) /\ Cardinality(RingRows) <= Len(ring)
  BY <1>2, <1>3, FS_Surjection
<1>5. Cardinality(RingRows) \in Nat
  BY <1>4, FS_CardinalityType
<1> QED
  BY <1>1, <1>4, <1>5, RingMaxAssumption

\* The two sizes that the limit of a replay has to cover.
WithinLimit == RingMax <= ReplayLimit /\ Cardinality(db) <= ReplayLimit

LEMMA ReplayIsAll ==
    ASSUME OrderInv, SizeInv, WithinLimit, NEW after \in Nat
    PROVE  Replay(after) = {r \in Held(after) : r.id > after}
<1>1. ring \in Seq(Event) /\ db \in SUBSET Event
  BY DEF OrderInv, AheadInv, IInv, TypeOK
<1>2. /\ IsFiniteSet(RingRows) /\ Cardinality(RingRows) <= ReplayLimit
      /\ RingRows \in SUBSET Event
  <2>1. IsFiniteSet(RingRows) /\ Cardinality(RingRows) <= RingMax
    BY <1>1, RingRowsFinite DEF SizeInv
  <2>2. Cardinality(RingRows) \in Nat
    BY <2>1, FS_CardinalityType
  <2> QED
    BY <1>1, <2>1, <2>2, RingMaxAssumption, LimitAssumption DEF WithinLimit, RingRows
<1>3. IsFiniteSet(db) /\ Cardinality(db) <= ReplayLimit
  BY DEF SizeInv, WithinLimit
<1>4. /\ IsFiniteSet(Held(after)) /\ Cardinality(Held(after)) <= ReplayLimit
      /\ Held(after) \in SUBSET Event
  BY <1>1, <1>2, <1>3 DEF Held, RingRows
<1> DEFINE rows == {r \in Held(after) : r.id > after}
<1>5. IsFiniteSet(rows) /\ Cardinality(rows) <= Cardinality(Held(after))
  BY <1>4, FS_Subset
<1>6. Cardinality(rows) \in Nat /\ Cardinality(Held(after)) \in Nat
  BY <1>4, <1>5, FS_CardinalityType
<1>7. Cardinality(rows) <= ReplayLimit
  BY <1>4, <1>5, <1>6, LimitAssumption
<1>8. Lowest(rows) = rows
  BY <1>4, <1>5, <1>7, LowestIsAll
<1> QED
  BY <1>8 DEF Replay

LEMMA ReplayIsComplete ==
    ASSUME OrderInv, SizeInv, Contiguous, WithinLimit, NEW after \in Nat
    PROVE  Complete(after)
<1>1. /\ ring \in Seq(Event) /\ db \in SUBSET Event /\ CursorCovers /\ cursor \in Nat
      /\ nextId \in Nat
  BY DEF OrderInv, AheadInv, IInv, TypeOK
<1> DEFINE got == Ids(Replay(after))
<1>2. Replay(after) = {r \in Held(after) : r.id > after}
  BY ReplayIsAll
<1>3. CASE ~RingCovers(after)
  <2>1. Replay(after) = {r \in db : r.id > after}
    BY <1>2, <1>3 DEF Held
  <2>2. \A r \in db : r.id > after => r.id \in got
    BY <2>1 DEF Ids
  <2>3. ASSUME NEW id \in got, NEW k \in id .. cursor
        PROVE  k \in got
    <3>1. PICK r \in db : r.id = id /\ r.id > after
      BY <2>1 DEF Ids
    <3>2. r.id \in Nat
      BY <1>1, <3>1, EventFields
    <3>3. k \in Ids(db) /\ k > after
      BY <3>1, <3>2 DEF Contiguous
    <3> QED
      BY <2>1, <3>3 DEF Ids
  <2> QED
    BY <2>2, <2>3 DEF Complete
<1>4. CASE RingCovers(after)
  <2>1. /\ Len(ring) \in Nat \ {0} /\ DOMAIN ring = 1 .. Len(ring)
        /\ \A i \in DOMAIN ring : ring[i].id = cursor - Len(ring) + i
        /\ after >= ring[1].id - 1
    BY <1>1, <1>4 DEF RingCovers, Contiguous
  <2>2. got = {ring[i].id : i \in {j \in DOMAIN ring : ring[j].id > after}}
    BY <1>2, <1>4 DEF Ids, Held
  <2>3. \A k \in Nat : after < k /\ k <= cursor => k \in got
    <3> SUFFICES ASSUME NEW k \in Nat, after < k, k <= cursor PROVE k \in got
      OBVIOUS
    <3>1. after >= cursor - Len(ring)
      BY <1>1, <2>1
    <3> DEFINE i == k - cursor + Len(ring)
    <3>2. i \in DOMAIN ring
      BY <1>1, <2>1, <3>1
    <3>3. ring[i].id = k
      BY <1>1, <2>1, <3>2
    <3> QED
      BY <2>2, <3>2, <3>3
  <2>4. \A r \in db : r.id > after => r.id \in got
    BY <1>1, <2>3, EventFields DEF CursorCovers
  <2>5. ASSUME NEW id \in got, NEW k \in id .. cursor
        PROVE  k \in got
    <3>1. PICK i \in DOMAIN ring : id = ring[i].id /\ id > after
      BY <2>2
    <3>2. id \in Nat
      BY <1>1, <3>1, EventFields
    <3> QED
      BY <2>3, <3>1, <3>2
  <2> QED
    BY <2>4, <2>5 DEF Complete
<1> QED
  BY <1>3, <1>4

-----------------------------------------------------------------------------
(* Watchers *)

\* What a stream sends next comes before everything else that waits in it.
LEMMA UpcomingFirst ==
    ASSUME stream \in [Clients -> Stream], NEW c \in Clients, StreamInv(c),
           NEW e \in Upcoming(c)
    PROVE  \A x \in Pending(c) : x = e \/ e.ev < x.ev
<1> DEFINE q == stream[c].queue
           p == stream[c].replay
<1>1. stream[c] \in Stream /\ q \in Seq(Event) /\ p \subseteq Event
  BY DEF Stream
<1>2. /\ Len(q) \in Nat /\ DOMAIN q = 1 .. Len(q)
      /\ q # <<>> => Head(q) = q[1] /\ 1 \in DOMAIN q
  BY <1>1
<1>3. /\ \A x \in p, i \in DOMAIN q : x.ev < q[i].ev
      /\ \A i, j \in DOMAIN q : i < j => q[i].ev < q[j].ev
      /\ \A x, y \in p : (x.id < y.id => x.ev < y.ev) /\ (x.id = y.id => x = y)
  BY DEF StreamInv, QueueOrdered, ReplayOrdered
<1>4. Pending(c) = p \cup {q[i] : i \in DOMAIN q}
  BY DEF Pending, QueueRows
<1>5. \/ e \in p /\ \A x \in p : e.id <= x.id
      \/ p = {} /\ q # <<>> /\ e = Head(q)
  BY UpcomingPending
<1> HIDE DEF q, p
<1>6. CASE e \in p /\ \A x \in p : e.id <= x.id
  <2>1. ASSUME NEW x \in p, x # e PROVE e.ev < x.ev
    <3>1. e.id \in Nat /\ x.id \in Nat
      BY <1>1, <1>6, EventFields
    <3>2. e.id < x.id
      BY <1>3, <1>6, <2>1, <3>1
    <3> QED
      BY <1>3, <1>6, <3>2
  <2> QED
    BY <1>3, <1>4, <1>6, <2>1
<1>7. CASE p = {} /\ q # <<>> /\ e = Head(q)
  <2>1. \A i \in DOMAIN q : i = 1 \/ 1 < i
    BY <1>2
  <2> QED
    BY <1>2, <1>3, <1>4, <1>7, <2>1
<1> QED
  BY <1>5, <1>6, <1>7

\* An emission reaches every open watcher, and is above all it has seen.
LEMMA EmitWatch ==
    ASSUME OrderInv, NEW e, Emits(e, e.id), Broadcast(e),
           e.id = cursor + 1, cursor' = cursor + 1,
           NEW c \in Watchers, WatchInv(c)
    PROVE  WatchInv(c)'
<1> DEFINE s == stream[c]
           t == stream'[c]
<1>1. /\ c \in Clients /\ s \in Stream /\ cursor \in Nat /\ emitted \in Seq(Nat)
      /\ db \in SUBSET Event /\ s.seen \in Nat /\ s.queue \in Seq(Event)
  BY DEF OrderInv, AheadInv, IInv, TypeOK, Clients, Stream
<1>2. /\ e \in Event /\ e.ev = Len(emitted) + 1 /\ emitted' = Append(emitted, e.id)
      /\ \A r \in db' : r = e \/ r \in db
  BY DEF Emits
<1>3. t = IF s.mode = "live" THEN [s EXCEPT !.queue = Append(@, e)] ELSE s
  BY <1>1 DEF Broadcast, Subscribed
<1>4. /\ t.mode = s.mode /\ t.replay = s.replay /\ t.got = s.got /\ t.seen = s.seen
      /\ t.queue = IF s.mode = "live" THEN Append(s.queue, e) ELSE s.queue
  BY <1>1, <1>3 DEF Stream
<1>5. /\ Pending(c)' \subseteq Pending(c) \cup {e}
      /\ Pending(c) \subseteq Pending(c)'
      /\ s.mode = "live" => e \in Pending(c)'
  <2>1. /\ Len(s.queue) \in Nat /\ DOMAIN s.queue = 1 .. Len(s.queue)
        /\ DOMAIN Append(s.queue, e) = 1 .. Len(s.queue) + 1
        /\ Append(s.queue, e)[Len(s.queue) + 1] = e
        /\ \A i \in DOMAIN s.queue : Append(s.queue, e)[i] = s.queue[i]
    BY SMTT(20), <1>1, <1>2
  <2>2. Pending(c) = s.replay \cup {s.queue[i] : i \in DOMAIN s.queue}
    BY DEF Pending, QueueRows
  <2>3. Pending(c)' = t.replay \cup {t.queue[i] : i \in DOMAIN t.queue}
    BY DEF Pending, QueueRows
  <2> HIDE DEF s, t
  <2>4. CASE s.mode = "live"
    <3>1. t.queue = Append(s.queue, e)
      BY <1>4, <2>4
    <3>2. \A i \in DOMAIN t.queue : i \in DOMAIN s.queue \/ i = Len(s.queue) + 1
      BY <2>1, <3>1
    <3>3. Len(s.queue) + 1 \in DOMAIN t.queue /\ t.queue[Len(s.queue) + 1] = e
      BY <2>1, <3>1
    <3>4. \A i \in DOMAIN s.queue : i \in DOMAIN t.queue /\ t.queue[i] = s.queue[i]
      BY <2>1, <3>1
    <3> QED
      BY <1>4, <2>2, <2>3, <3>2, <3>3, <3>4
  <2>5. CASE s.mode # "live"
    BY <1>4, <2>2, <2>3, <2>5
  <2> QED
    BY <2>4, <2>5
<1>6. /\ DOMAIN emitted' = 1 .. Len(emitted) + 1
      /\ emitted'[Len(emitted) + 1] = e.id
      /\ \A i \in DOMAIN emitted : i \in DOMAIN emitted' /\ emitted'[i] = emitted[i]
  BY <1>1, <1>2, EventFields
<1> HIDE DEF s, t
<1>7. /\ t.mode # "live" => t.mode = "off" /\ t.replay = {}
      /\ t.seen <= cursor'
  BY <1>1, <1>4 DEF WatchInv, s
<1>8. \A x \in Pending(c)' : Sound(x)'
  BY <1>1, <1>2, <1>5, <1>6 DEF WatchInv, Sound
<1>9. MissedNothing(c)'
  <2> SUFFICES ASSUME NEW r \in db', r.id <= t.seen PROVE r.ev \in t.got
    BY DEF MissedNothing, t
  <2>1. r # e
    BY <1>1, <1>4 DEF WatchInv, s
  <2> QED
    BY <1>2, <1>4, <2>1 DEF WatchInv, MissedNothing, s
<1>10. Waits(c)'
  <2> SUFFICES ASSUME t.mode = "live", NEW r \in db', r.id > t.seen
               PROVE  \E x \in Pending(c)' : x.ev = r.ev
    BY DEF Waits, t
  <2>1. CASE r = e
    BY <1>4, <1>5, <2>1
  <2>2. CASE r \in db
    <3>1. \E x \in Pending(c) : x.ev = r.ev
      BY <1>4, <2>2 DEF WatchInv, Waits, s
    <3> QED
      BY <1>5, <3>1
  <2> QED
    BY <1>2, <2>1, <2>2
<1> QED
  BY <1>7, <1>8, <1>9, <1>10 DEF WatchInv, t

LEMMA KeptWatch ==
    ASSUME db' = db, cursor' = cursor, emitted' = emitted, NEW c \in Watchers, WatchInv(c),
           stream[c] \in Stream,
           stream'[c] = stream[c] \/ stream'[c] = Closed(stream[c])
    PROVE  WatchInv(c)'
<1>1. CASE stream'[c] = stream[c]
  <2>1. Pending(c)' = Pending(c)
    BY <1>1 DEF Pending, QueueRows
  <2> QED
    BY <1>1, <2>1 DEF WatchInv, Sound, MissedNothing, Waits
<1>2. CASE stream'[c] = Closed(stream[c])
  <2>1. /\ stream'[c].mode = "off" /\ stream'[c].replay = {} /\ stream'[c].queue = <<>>
        /\ stream'[c].got = stream[c].got /\ stream'[c].seen = stream[c].seen
    BY <1>2 DEF Closed, Stream
  <2>2. Pending(c)' = {}
    BY <2>1 DEF Pending, QueueRows
  <2> QED
    BY <2>1, <2>2 DEF WatchInv, MissedNothing, Waits
<1> QED
  BY <1>1, <1>2

LEMMA OpenedWatch ==
    ASSUME OrderInv, SizeInv, Contiguous, WithinLimit, IdsIncrease, ~failed,
           db' = db, cursor' = cursor, emitted' = emitted,
           NEW c \in Watchers, WatchInv(c), Opens(c),
           stream'[c] = Opened(stream[c], "live")
    PROVE  WatchInv(c)'
<1> DEFINE s == stream[c]
<1>1. /\ s \in Stream /\ s.queue = <<>> /\ s.seen \in Nat /\ c \in Clients
      /\ ring \in Seq(Event) /\ db \in SUBSET Event
  BY DEF OrderInv, AheadInv, IInv, TypeOK, StreamInv, Idle, Opens, Clients, Stream
<1>2. /\ stream'[c].replay = Replay(s.seen) /\ stream'[c].queue = <<>>
      /\ stream'[c].got = s.got /\ stream'[c].seen = s.seen /\ stream'[c].mode = "live"
  BY <1>1 DEF Opened, Stream
<1>3. Pending(c)' = Replay(s.seen)
  BY <1>2 DEF Pending, QueueRows
<1>4. Replay(s.seen) \subseteq Stored
  BY <1>1, ReplayRows DEF OrderInv, AheadInv
<1>5. \A x \in Pending(c)' : Sound(x)'
  BY <1>3, <1>4 DEF Contiguous, Sound
<1>6. MissedNothing(c)'
  BY <1>2 DEF WatchInv, MissedNothing
<1>7. Waits(c)'
  <2> SUFFICES ASSUME NEW r \in db, r.id > s.seen
               PROVE  \E x \in Replay(s.seen) : x.ev = r.ev
    BY <1>2, <1>3 DEF Waits
  <2>1. r.id \in Ids(Replay(s.seen))
    BY <1>1, ReplayIsComplete DEF Complete
  <2>2. PICK x \in Replay(s.seen) : x.id = r.id
    BY <2>1 DEF Ids
  <2>3. Sound(x) /\ Sound(r)
    BY <1>4 DEF Contiguous, Stored
  <2>4. x.ev \in Nat /\ r.ev \in Nat
    BY <1>1, <1>4, EventFields DEF Stored, RingRows
  <2>5. ~(x.ev < r.ev) /\ ~(r.ev < x.ev)
    <3>1. emitted[x.ev] = emitted[r.ev] /\ emitted[x.ev] \in Nat
      BY <1>1, <2>2, <2>3, EventFields DEF Sound
    <3> QED
      BY <2>3, <3>1 DEF Sound, IdsIncrease
  <2> QED
    BY <2>4, <2>5
<1> QED
  BY <1>2, <1>5, <1>6, <1>7 DEF WatchInv

LEMMA DeliveredWatch ==
    ASSUME OrderInv, Contiguous, EmittedInv, ~failed,
           db' = db, cursor' = cursor, emitted' = emitted,
           NEW c \in Watchers, WatchInv(c), NEW e \in Event, Delivers(c, e)
    PROVE  WatchInv(c)'
<1> DEFINE s == stream[c]
           t == stream'[c]
<1>1. /\ c \in Clients /\ stream \in [Clients -> Stream] /\ s \in Stream
      /\ s.seen \in Nat /\ cursor \in Nat /\ db \in SUBSET Event /\ StreamInv(c)
      /\ emitted \in Seq(Nat)
  BY DEF OrderInv, AheadInv, IInv, TypeOK, Clients, Stream
<1>2. e \in Pending(c) /\ e.id \in Nat /\ e.ev \in Nat
  BY <1>1, UpcomingPending, EventFields DEF Delivers
<1>3. /\ Pending(c)' \subseteq Pending(c)
      /\ \A x \in Pending(c)' : e.ev < x.ev
      /\ t.mode = "live" => \A x \in Pending(c) : x = e \/ x \in Pending(c)'
  BY <1>1, DeliveredRest
<1>4. \/ e.id <= s.seen /\ t.got = s.got /\ t.seen = s.seen
      \/ t.got = s.got \cup {e.ev} /\ t.seen = Larger(s.seen, e.id)
  BY DEF Delivers
<1>5. t.mode = s.mode \/ t.mode = "off"
  BY DEF Delivers
<1>6. s.mode = "live"
  <2>1. s.mode # "live" => s.queue = <<>> /\ s.replay = {}
    BY <1>1 DEF StreamInv, Idle, WatchInv
  <2> QED
    BY <1>1, <2>1 DEF Delivers, Upcoming
<1>7. \A x \in Pending(c) : x = e \/ e.ev < x.ev
  BY <1>1, UpcomingFirst DEF Delivers
<1>8. \A x \in Pending(c) : Sound(x)
  BY DEF WatchInv
<1>9. t.mode # "live" => t.mode = "off" /\ t.replay = {}
  BY <1>6 DEF Delivers
<1>10. e.id <= cursor
  BY <1>2, <1>8 DEF Sound, EmittedInv
<1>11. t.seen <= cursor' /\ t.seen \in Nat /\ s.seen <= t.seen
  BY <1>1, <1>2, <1>4, <1>10 DEF Larger, WatchInv
<1>12. \A x \in Pending(c)' : Sound(x)'
  BY <1>3, <1>8 DEF Sound
\* An event of the table above what was seen waits, and is either e or later.
<1>13. ASSUME NEW r \in db, r.id > s.seen, r.ev # e.ev
       PROVE  \E x \in Pending(c) : x # e /\ x.ev = r.ev /\ r.id > e.id
  <2>1. PICK x \in Pending(c) : x.ev = r.ev
    BY <1>6, <1>13 DEF WatchInv, Waits
  <2>2. x # e /\ e.ev < x.ev
    BY <1>7, <1>13, <2>1
  <2>3. Sound(x) /\ Sound(e) /\ Sound(r)
    BY <1>2, <1>8, <1>13 DEF Contiguous, Stored
  <2>4. emitted[e.ev] < emitted[r.ev]
    BY <2>1, <2>2, <2>3 DEF EmittedInv, IdsIncrease, Sound
  <2>5. e.id < r.id
    BY <2>3, <2>4 DEF Sound
  <2>6. r.id \in Nat
    BY <1>1, <1>13, EventFields
  <2> QED
    BY <1>2, <2>1, <2>2, <2>5, <2>6
<1>14. \A r \in db : r.id \in Nat /\ r.ev \in Nat
  BY <1>1, EventFields
<1> HIDE DEF s, t
<1>15. MissedNothing(c)'
  <2> SUFFICES ASSUME NEW r \in db, r.id <= t.seen PROVE r.ev \in t.got
    BY DEF MissedNothing, t
  <2>1. CASE r.id <= s.seen
    BY <1>4, <2>1 DEF WatchInv, MissedNothing, s
  <2>2. CASE r.id > s.seen
    <3>1. t.got = s.got \cup {e.ev} /\ r.id <= e.id
      BY <1>1, <1>2, <1>4, <1>14, <2>2 DEF Larger
    <3>2. r.ev = e.ev
      BY <1>2, <1>13, <1>14, <2>2, <3>1
    <3> QED
      BY <3>1, <3>2
  <2> QED
    BY <1>1, <1>14, <2>1, <2>2
<1>16. Waits(c)'
  <2> SUFFICES ASSUME t.mode = "live", NEW r \in db, r.id > t.seen
               PROVE  \E x \in Pending(c)' : x.ev = r.ev
    BY DEF Waits, t
  <2>1. r.id > s.seen
    BY <1>1, <1>11, <1>14
  <2>2. r.ev # e.ev
    <3> SUFFICES ASSUME r.ev = e.ev PROVE FALSE
      OBVIOUS
    <3>1. r.id = e.id
      BY <1>2, <1>8 DEF Contiguous, Stored, Sound
    <3>2. e.id <= t.seen
      BY <1>1, <1>2, <1>4 DEF Larger
    <3> QED
      BY <1>2, <1>11, <3>1, <3>2
  <2> QED
    BY <1>3, <1>13, <2>1, <2>2
<1> QED
  BY <1>9, <1>11, <1>12, <1>15, <1>16 DEF WatchInv, t

-----------------------------------------------------------------------------
(* The theorems *)

LEMMA GapStep ==
    ASSUME "seed" \notin Faults, OrderInv, AheadInv', SizeInv, EmittedInv, GapInv,
           WithinLimit, [Next]_vars
    PROVE  GapInv'
<1> SUFFICES ASSUME ~failed'
             PROVE  Contiguous' /\ \A c \in Watchers : WatchInv(c)'
  BY DEF GapInv
<1>1. /\ stream \in [Clients -> Stream] /\ ring \in Seq(Event) /\ nextId \in Nat
      /\ cursor \in Nat /\ db \in SUBSET Event /\ StoreAhead
      /\ \A c \in Watchers : c \in Clients /\ stream[c] \in Stream
  BY DEF OrderInv, AheadInv, IInv, TypeOK, Clients
<1>2. CASE EmitEvent
  <2>1. ~failed
    BY <1>2 DEF EmitEvent, Emit
  <2>2. Contiguous /\ \A c \in Watchers : WatchInv(c)
    BY <2>1 DEF GapInv
  <2>3. PICK e : /\ Emits(e, e.id)
                 /\ e.id = cursor + 1 /\ cursor' = cursor + 1
                 /\ db' \in {Insert(e)} \cup Prune(Insert(e))
                 /\ Broadcast(e)
    BY <1>2, <2>2, EmitSound DEF OrderInv
  <2>4. ring' \in Seq(Event)
    BY DEF AheadInv, IInv, TypeOK
  <2>5. Contiguous'
    BY <2>2, <2>3, <2>4, EmitContiguous
  <2> QED
    BY <2>2, <2>3, <2>5, EmitWatch
<1>3. CASE StartRun
  <2>1. PICK fault \in (Faults \cap {"seed"}) \cup {"none"} :
           /\ nextId' = SeededId(fault) /\ cursor' = SeededCursor(fault)
           /\ UNCHANGED <<ring, db, emitted, stream, failed>>
    BY <1>3 DEF StartRun
  <2>2. Contiguous /\ \A c \in Watchers : WatchInv(c)
    BY <2>1 DEF GapInv
  <2>3. cursor' = cursor /\ nextId' = cursor + 1
    BY <1>1, <2>1, <2>2, Seeding DEF StoreAhead, Contiguous
  <2>4. Stored' = Stored
    BY <2>1 DEF Stored, RingRows
  <2>5. Contiguous'
    BY <2>1, <2>2, <2>3, <2>4 DEF Contiguous, Sound
  <2>6. \A c \in Watchers : WatchInv(c)'
    BY <1>1, <2>1, <2>2, <2>3, KeptWatch
  <2> QED
    BY <2>5, <2>6
<1>4. CASE MemoryReaper \/ Restart
  <2>1. /\ UNCHANGED <<db, cursor, emitted, failed>>
        /\ \/ ring' = ring /\ nextId' = nextId
           \/ ring' = <<>> /\ nextId' = 0
    BY <1>4 DEF MemoryReaper, Restart
  <2>2. Contiguous /\ \A c \in Watchers : WatchInv(c)
    BY <2>1 DEF GapInv
  <2>3. Stored' \subseteq Stored
    BY <2>1 DEF Stored, RingRows
  <2>4. Contiguous'
    <3>1. \A x \in Stored' : Sound(x)'
      BY <2>1, <2>2, <2>3 DEF Contiguous, Sound
    <3> QED
      BY <2>1, <2>2, <3>1 DEF Contiguous
  <2>5. ASSUME NEW c \in Watchers PROVE WatchInv(c)'
    <3>1. stream'[c] = stream[c] \/ stream'[c] = Closed(stream[c])
      BY <1>1, <1>4 DEF MemoryReaper, Restart
    <3> QED
      BY <1>1, <2>1, <2>2, <3>1, KeptWatch
  <2> QED
    BY <2>4, <2>5
<1>5. CASE StreamSteps \/ UNCHANGED vars
  <2>1. UNCHANGED <<ring, nextId, db, cursor, emitted, failed>> /\ Stored' = Stored
    BY <1>5, StreamStepsKeep
  <2>2. ~failed /\ Contiguous /\ \A c \in Watchers : WatchInv(c)
    BY <2>1 DEF GapInv
  <2>3. Contiguous'
    BY <2>1, <2>2 DEF Contiguous, Sound
  <2>4. ASSUME NEW c \in Watchers PROVE WatchInv(c)'
    <3>1. c \in Clients /\ c \notin Resumers
      BY ClientsAssumption DEF Clients
    <3>2. \/ stream'[c] = stream[c]
          \/ stream'[c] = Closed(stream[c])
          \/ Opens(c) /\ stream'[c] = Opened(stream[c], "live")
          \/ \E e \in Event : Delivers(c, e)
      BY <1>1, <1>5, <3>1, StreamStep DEF vars
    <3>3. CASE stream'[c] = stream[c] \/ stream'[c] = Closed(stream[c])
      BY <1>1, <2>1, <2>2, <3>3, KeptWatch
    <3>4. CASE Opens(c) /\ stream'[c] = Opened(stream[c], "live")
      BY <2>1, <2>2, <3>4, OpenedWatch DEF EmittedInv
    <3>5. CASE \E e \in Event : Delivers(c, e)
      BY <2>1, <2>2, <3>5, DeliveredWatch
    <3> QED
      BY <3>2, <3>3, <3>4, <3>5
  <2> QED
    BY <2>3, <2>4
<1> QED
  BY <1>2, <1>3, <1>4, <1>5 DEF Next, StreamSteps

LEMMA GapInvariant ==
    ASSUME "seed" \notin Faults
    PROVE  /\ Spec => [](OrderInv /\ SizeInv)
           /\ Spec /\ []WithinLimit => [](OrderInv /\ SizeInv /\ GapInv)
<1>1. ASSUME Init PROVE SizeInv /\ EmittedInv /\ GapInv
  <2>1. /\ ring = <<>> /\ db = {} /\ Stored = {} /\ emitted = <<>> /\ nextId = 0
        /\ Len(ring) = 0 /\ Len(emitted) = 0
    BY <1>1 DEF Init, Stored, RingRows
  <2>2. SizeInv
    BY <2>1, FS_EmptySet, RingMaxAssumption DEF SizeInv
  <2>3. \A c \in Watchers : /\ stream[c].mode = "off" /\ stream[c].replay = {}
                            /\ stream[c].queue = <<>> /\ stream[c].seen = 0
                            /\ Pending(c) = {} /\ cursor = 0
    BY <1>1 DEF Init, Pending, QueueRows, Clients
  <2>4. Contiguous /\ \A c \in Watchers : WatchInv(c)
    BY <2>1, <2>3 DEF Contiguous, WatchInv, MissedNothing, Waits
  <2>5. EmittedInv
    BY <2>1 DEF EmittedInv, IdsIncrease
  <2> QED
    BY <2>2, <2>4, <2>5 DEF GapInv
<1>2. Spec => []OrderInv
  BY OrderInvariant
<1>3. OrderInv /\ SizeInv /\ [Next]_vars => SizeInv'
  BY StepSize
<1>4. OrderInv /\ EmittedInv /\ [Next]_vars => EmittedInv'
  BY StepEmitted DEF OrderInv
<1>5. OrderInv /\ OrderInv' /\ SizeInv /\ EmittedInv /\ GapInv /\ WithinLimit /\ [Next]_vars
         => GapInv'
  BY GapStep DEF OrderInv
<1> QED
  BY <1>1, <1>2, <1>3, <1>4, <1>5, PTL DEF Spec

\* When reads of the tables do not fail and the limit of a replay covers what
\* ring and table hold, then until an insert fails a replay from any cursor has
\* every event above it that is still stored, and no hole.
THEOREM ReplayCompleteHolds ==
    ASSUME "seed" \notin Faults
    PROVE  Spec /\ []WithinLimit => []ReplayComplete
<1>1. ASSUME OrderInv, SizeInv, GapInv, WithinLimit PROVE ReplayComplete
  <2> SUFFICES ASSUME ~failed, NEW after \in 0 .. cursor PROVE Complete(after)
    BY DEF ReplayComplete
  <2>1. after \in Nat
    BY DEF OrderInv, AheadInv, IInv, TypeOK
  <2> QED
    BY <1>1, <2>1, ReplayIsComplete DEF GapInv
<1> QED
  BY <1>1, GapInvariant, PTL

\* Under the same conditions no watcher ever skips an event that is still in the
\* journal, whatever is reaped, pruned, restarted or disconnected.
THEOREM WatchersMissNothingHolds ==
    ASSUME "seed" \notin Faults
    PROVE  Spec /\ []WithinLimit => []WatchersMissNothing
<1>1. GapInv => WatchersMissNothing
  BY DEF GapInv, WatchInv, WatchersMissNothing
<1> QED
  BY <1>1, GapInvariant, PTL

\* The bound on the events of a behaviour.
Short == Len(emitted) <= MaxEvents

\* The limit covers everything when no more events are emitted than it allows.
THEOREM ShortSessionsMissNothing ==
    ASSUME "seed" \notin Faults, RingMax <= ReplayLimit, MaxEvents <= ReplayLimit
    PROVE  Spec => [](ReplayComplete /\ WatchersMissNothing)
<1>1. ASSUME OrderInv, SizeInv, Short PROVE WithinLimit
  <2>1. Len(emitted) \in Nat /\ Cardinality(db) \in Nat
    BY <1>1, FS_CardinalityType DEF OrderInv, AheadInv, IInv, TypeOK, SizeInv
  <2> QED
    BY <1>1, <2>1, BoundsAssumption, LimitAssumption DEF WithinLimit, SizeInv, Short
<1>2. Init => Short
  BY BoundsAssumption DEF Init, Short
<1>3. ASSUME OrderInv, Short, [Next]_vars
      PROVE  Short'
  <2>1. emitted \in Seq(Nat) /\ Len(emitted) \in Nat
    BY <1>3 DEF OrderInv, AheadInv, IInv, TypeOK
  <2>2. CASE EmitEvent
    <3>1. Len(emitted) + 1 <= MaxEvents
      BY <2>2 DEF EmitEvent, Emit
    <3>2. PICK e, out : Emits(e, out)
      BY <1>3, <2>2, EmitEmits DEF OrderInv
    <3>3. Len(emitted') = Len(emitted) + 1
      BY <2>1, <3>2 DEF Emits
    <3> QED
      BY <3>1, <3>3 DEF Short
  <2>3. CASE StartRun \/ MemoryReaper \/ Restart \/ StreamSteps \/ UNCHANGED vars
    <3>1. emitted' = emitted
      BY <2>3, StreamStepsKeep DEF StartRun, MemoryReaper, Restart
    <3> QED
      BY <1>3, <3>1 DEF Short
  <2> QED
    BY <1>3, <2>2, <2>3 DEF Next, StreamSteps
<1>4. Spec => []OrderInv
  BY OrderInvariant
<1>5. Spec => []Short
  BY <1>2, <1>3, <1>4, PTL DEF Spec
<1>6. Spec => [](OrderInv /\ SizeInv)
  BY GapInvariant
<1>7. Spec => []WithinLimit
  BY <1>1, <1>5, <1>6, PTL
<1> QED
  BY <1>7, ReplayCompleteHolds, WatchersMissNothingHolds, PTL
=============================================================================
