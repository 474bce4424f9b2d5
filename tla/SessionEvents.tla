--------------------------- MODULE SessionEvents ---------------------------
(***************************************************************************)
(* The per-session event journal of routes/session_events.py, for one      *)
(* session (every structure of the store is keyed by the session id), with *)
(* the two kinds of HTTP streams of server.py that read it:                *)
(*                                                                         *)
(*   - a watcher reads GET /api/events : it subscribes first, replays      *)
(*     afterwards, and drops what it has already sent;                     *)
(*   - a resumer reads GET /api/resume : it replays first and subscribes   *)
(*     when the whole replay has been written to the client.               *)
(*                                                                         *)
(* append_event and _emit_event contain no suspension point that another   *)
(* coroutine can use (the lock is never contended, the queues are          *)
(* unbounded), so emitting an event is a single step.  The generators of   *)
(* the two endpoints do suspend at each yield.                             *)
(*                                                                         *)
(* An event is the number of the _emit_event call that made it; its id is  *)
(* what the code calls event_id (and seq, for old clients).                *)
(***************************************************************************)
EXTENDS Integers, Sequences, FiniteSets

CONSTANTS
    RingMax,      \* ring_max_events
    DbKeep,       \* db_max_events_per_session
    ReplayLimit,  \* the limit of replay_events, 15000 in the code
    MaxEvents,    \* bound: events emitted in a behaviour
    MaxCrashes,   \* bound: restarts of the server
    Watchers,     \* clients of /api/events
    Resumers,     \* clients of /api/resume
    Faults        \* database errors that may happen: a subset of {"seed", "persist"}

ASSUME RingMaxAssumption == RingMax \in Nat \ {0}
ASSUME DbKeepAssumption == DbKeep \in Nat \ {0}
ASSUME LimitAssumption == ReplayLimit \in Nat \ {0}
ASSUME BoundsAssumption == MaxEvents \in Nat /\ MaxCrashes \in Nat
ASSUME ClientsAssumption == Watchers \cap Resumers = {}
ASSUME FaultsAssumption == Faults \subseteq {"seed", "persist"}

VARIABLES
    ring,     \* _rings[sid], oldest first
    nextId,   \* _next_event_id[sid], 0 when it is not cached
    db,       \* rows of session_events
    cursor,   \* session_event_cursors.last_event_id, 0 when there is no row
    run,      \* status of _active_tasks[sid], "none" when there is no entry
    taskSeq,  \* next_seq of that entry, 0 when there is no entry
    emitted,  \* history: emitted[e] is the id event e was broadcast with
    stream,   \* the HTTP streams, and what their clients have seen
    crashes,  \* restarts so far
    failed    \* history: an insert has been rolled back

store == <<ring, nextId, db, cursor>>
task  == <<run, taskSeq>>
vars  == <<ring, nextId, db, cursor, run, taskSeq, emitted, stream, crashes, failed>>

Clients == Watchers \cup Resumers
Ids(rows) == {r.id : r \in rows}
Larger(a, b) == IF a > b THEN a ELSE b

\* The largest of a set of ids, 0 for the empty set: COALESCE(MAX(event_id), 0).
Top(S) == CHOOSE n \in S \cup {0} : \A x \in S : x <= n

Event == [id : Nat, ev : Nat, last : BOOLEAN]
\* A stream sends its replay first, in the order of the ids, and then its queue.
Stream == [mode : {"off", "replay", "live"}, replay : SUBSET Event, queue : Seq(Event),
           seen : Nat, got : SUBSET Nat]
Closed(s) == [s EXCEPT !.mode = "off", !.replay = {}, !.queue = <<>>]

TypeOK ==
    /\ ring \in Seq(Event)
    /\ nextId \in Nat
    /\ db \in SUBSET Event
    /\ cursor \in Nat
    /\ run \in {"none", "running", "done"}
    /\ taskSeq \in Nat
    /\ emitted \in Seq(Nat)
    /\ stream \in [Clients -> Stream]
    /\ crashes \in Nat
    /\ failed \in BOOLEAN

Init ==
    /\ ring = <<>>
    /\ nextId = 0
    /\ db = {}
    /\ cursor = 0
    /\ run = "none"
    /\ taskSeq = 0
    /\ emitted = <<>>
    /\ stream = [c \in Clients |-> [mode |-> "off", replay |-> {}, queue |-> <<>>,
                                   seen |-> 0, got |-> {}]]
    /\ crashes = 0
    /\ failed = FALSE

-----------------------------------------------------------------------------
(* The store *)

\* _seed_next_event_id.  A read that fails is logged, and the counter is then
\* cached at 1 whatever the tables hold.
\* Faulty variants, here and below, are named Bad...: a plausible slip in the
\* operator that follows, which the properties must notice.
Persisted == Top(Ids(db) \cup {cursor})
Seeds(fault) == nextId = 0 /\ fault # "seed"
BadSeededId(fault) == IF Seeds(fault) THEN Larger(1, Persisted) ELSE Larger(1, nextId)
SeededId(fault) == IF Seeds(fault) THEN Persisted + 1 ELSE Larger(1, nextId)
BadSeededCursor(fault) == IF Seeds(fault) THEN Persisted - 1 ELSE cursor
SeededCursor(fault) == IF Seeds(fault) THEN Persisted ELSE cursor

\* _ring_append: at most RingMax entries stay, fewer when their bytes exceed
\* ring_max_bytes, which may leave the ring empty.
RingAppend(e) ==
    \E drop \in 0 .. Len(ring) + 1 :
        /\ Len(ring) + 1 - drop <= RingMax
        /\ ring' = SubSeq(Append(ring, e), drop + 1, Len(ring) + 1)

\* _persist_event: INSERT OR REPLACE of the row with this primary key.
Insert(e) == {r \in db : r.id # e.id} \cup {e}

\* _prune_db: the time to live removes the oldest events, never the one just
\* written; the count keeps the rows from the DbKeep-th largest id on.
Unexpired(rows, age) == {r \in rows : r.ev > age}
NewestByCount(rows) == {r \in rows : Cardinality({x \in rows : x.id > r.id}) < DbKeep}
Prune(rows) == {NewestByCount(Unexpired(rows, age)) : age \in 0 .. Len(emitted)}

\* The event reaches the queues in _resume_subscribers: every open watcher, and
\* the resumers that are past their replay.
Subscribed(c) == stream[c].mode = "live"
Broadcast(e) ==
    stream' = [c \in Clients |-> IF Subscribed(c)
                                 THEN [stream[c] EXCEPT !.queue = Append(@, e)]
                                 ELSE stream[c]]

\* _emit_event around append_event.  "last" events are the done events: the
\* provider sets the status of the run and emits in one step.
Emit(last, fault) ==
    LET id  == SeededId(fault)
        seq == IF run = "none" THEN id ELSE taskSeq
        ev  == Len(emitted) + 1
        e   == [id |-> id, ev |-> ev, last |-> last]
    IN  /\ ev <= MaxEvents
        /\ nextId' = id + 1
        /\ run' = IF last THEN "done" ELSE IF run = "none" THEN "running" ELSE run
        /\ RingAppend(e)
        /\ \/ /\ fault # "persist"
              /\ db' \in {Insert(e)} \cup Prune(Insert(e))
              /\ cursor' = Larger(SeededCursor(fault), id)
              /\ taskSeq' = Larger(seq, id + 1)
              /\ emitted' = Append(emitted, id)
              /\ Broadcast(e)
           \/ \* the insert was rolled back: fail open with the run's own counter
              /\ fault = "persist"
              /\ cursor' = SeededCursor(fault)
              /\ taskSeq' = seq + 1
              /\ emitted' = Append(emitted, seq)
              /\ Broadcast([e EXCEPT !.id = seq])
              /\ UNCHANGED db
        /\ failed' = (failed \/ fault = "persist")
        /\ UNCHANGED crashes

\* A fault only happens where the code would have touched the table.
EmitEvent ==
    \E last \in BOOLEAN, fault \in Faults \cup {"none"} :
        /\ fault = "seed" => nextId = 0
        /\ Emit(last, fault)

\* api_chat and the proactive wake install a fresh entry when none is running.
StartRun ==
    \E fault \in (Faults \cap {"seed"}) \cup {"none"} :
        /\ fault = "seed" => nextId = 0
        /\ run # "running"
        /\ nextId' = SeededId(fault)
        /\ cursor' = SeededCursor(fault)
        /\ run' = "running"
        /\ taskSeq' = SeededId(fault)
        /\ UNCHANGED <<ring, db, emitted, stream, crashes, failed>>

\* _memory_reaper: a stale session loses its ring and counter, a stale entry of
\* _active_tasks is dropped.  The two ages are measured separately.
MemoryReaper ==
    \E staleStore, staleTask \in BOOLEAN :
        /\ ring' = IF staleStore THEN <<>> ELSE ring
        /\ nextId' = IF staleStore THEN 0 ELSE nextId
        /\ run' = IF staleTask THEN "none" ELSE run
        /\ taskSeq' = IF staleTask THEN 0 ELSE taskSeq
        /\ UNCHANGED <<db, cursor, emitted, stream, crashes, failed>>

\* The process dies and starts again: the tables survive, the streams end.
Restart ==
    /\ crashes < MaxCrashes
    /\ crashes' = crashes + 1
    /\ ring' = <<>>
    /\ nextId' = 0
    /\ run' = "none"
    /\ taskSeq' = 0
    /\ stream' = [c \in Clients |-> Closed(stream[c])]
    /\ UNCHANGED <<db, cursor, emitted, failed>>

-----------------------------------------------------------------------------
(* The streams *)

\* replay_events: the ring answers when it reaches back to the cursor asked
\* for, the table otherwise, with the ReplayLimit smallest ids in either case.
BadRingCovers(after) == ring # <<>> /\ after >= ring[1].id - 2
BadRingAlways(after) == ring # <<>>
RingCovers(after) == ring # <<>> /\ after >= ring[1].id - 1
Lowest(rows) == {r \in rows : Cardinality({x \in rows : x.id < r.id}) < ReplayLimit}
Held(after) == IF RingCovers(after) THEN {ring[i] : i \in DOMAIN ring} ELSE db
Replay(after) == Lowest({r \in Held(after) : r.id > after})

\* What the stream writes next: the rest of the replay, then the queue.
BadUpcoming(c) ==
    IF stream[c].replay # {}
    THEN {e \in stream[c].replay : \A x \in stream[c].replay : e.id >= x.id}
    ELSE IF stream[c].queue # <<>> THEN {Head(stream[c].queue)} ELSE {}
Upcoming(c) ==
    IF stream[c].replay # {}
    THEN {e \in stream[c].replay : \A x \in stream[c].replay : e.id <= x.id}
    ELSE IF stream[c].queue # <<>> THEN {Head(stream[c].queue)} ELSE {}
Opened(s, mode) == [s EXCEPT !.mode = mode, !.replay = Replay(s.seen)]
Sent(s, e) == IF s.replay # {} THEN [s EXCEPT !.replay = @ \ {e}]
                               ELSE [s EXCEPT !.queue = Tail(@)]

\* The generator of api_events up to its first yield: the queue is registered
\* and the replay computed in one step.
OpenWatcher(c) ==
    /\ stream[c].mode = "off"
    /\ stream' = [stream EXCEPT ![c] = Opened(stream[c], "live")]
    /\ UNCHANGED <<store, task, emitted, crashes, failed>>

\* One round of api_events: an id that is not above the last one sent is dropped.
SendToWatcher(c) ==
    /\ stream[c].mode = "live"
    /\ \E e \in Upcoming(c) :
          stream' = [stream EXCEPT ![c] =
              IF e.id > stream[c].seen
              THEN [Sent(stream[c], e) EXCEPT !.seen = e.id, !.got = @ \cup {e.ev}]
              ELSE Sent(stream[c], e)]
    /\ UNCHANGED <<store, task, emitted, crashes, failed>>

\* The generator of api_resume up to its first yield.  The browser asks from
\* the largest seq it has seen.
OpenResumer(c) ==
    /\ stream[c].mode = "off"
    /\ stream' = [stream EXCEPT ![c] = Opened(stream[c], "replay")]
    /\ UNCHANGED <<store, task, emitted, crashes, failed>>

\* One yield of api_resume; a done event from the queue ends the stream.
SendToResumer(c) ==
    /\ \E e \in Upcoming(c) :
          LET s == [Sent(stream[c], e) EXCEPT !.seen = Larger(@, e.id), !.got = @ \cup {e.ev}]
          IN  stream' = [stream EXCEPT ![c] =
                  IF stream[c].mode = "live" /\ e.last THEN Closed(s) ELSE s]
    /\ UNCHANGED <<store, task, emitted, crashes, failed>>

\* The replay is written: the stream ends unless a run is active, and only now
\* is the queue registered.
EndReplay(c) ==
    /\ stream[c].mode = "replay"
    /\ stream[c].replay = {}
    /\ stream' = [stream EXCEPT ![c].mode = IF run = "running" THEN "live" ELSE "off"]
    /\ UNCHANGED <<store, task, emitted, crashes, failed>>

\* The connection drops; the client keeps what it has seen.
Disconnect(c) ==
    /\ stream[c].mode # "off"
    /\ stream' = [stream EXCEPT ![c] = Closed(@)]
    /\ UNCHANGED <<store, task, emitted, crashes, failed>>

Next ==
    \/ EmitEvent
    \/ StartRun
    \/ MemoryReaper
    \/ Restart
    \/ \E c \in Watchers : OpenWatcher(c) \/ SendToWatcher(c)
    \/ \E c \in Resumers : OpenResumer(c) \/ SendToResumer(c) \/ EndReplay(c)
    \/ \E c \in Clients : Disconnect(c)

Spec == Init /\ [][Next]_vars

-----------------------------------------------------------------------------
(* Properties *)

\* The cursor row is at least as large as every id in the journal.
CursorCovers == \A r \in db : r.id <= cursor

\* The counter in memory is ahead of everything the tables hold or ever held,
\* whatever was pruned, so the next insert cannot meet an old row.
StoreAhead ==
    /\ CursorCovers
    /\ nextId # 0 => cursor < nextId

\* Until an insert fails, every event is broadcast with a larger id than all
\* events before it, whatever is pruned, reaped or restarted in between.
IdsIncrease ==
    ~failed => \A i, j \in DOMAIN emitted : i < j => emitted[i] < emitted[j]

\* INSERT OR REPLACE never replaces: a journal row keeps its event until it is
\* pruned.
NoOverwrite ==
    [][\A r \in db : r.id \in Ids(db') => r \in db']_vars

\* Until an insert fails, a replay from any cursor, whichever of ring and table
\* answers, has every event above the cursor that the table still holds and no
\* hole up to the newest event.
Complete(after) ==
    LET got == Ids(Replay(after))
    IN  /\ \A r \in db : r.id > after => r.id \in got
        /\ \A id \in got : (id .. cursor) \subseteq got

ReplayComplete == ~failed => \A after \in 0 .. cursor : Complete(after)

\* What a client has moved past without seeing it is no longer in the journal.
MissedNothing(c) ==
    \A r \in db : r.id <= stream[c].seen => r.ev \in stream[c].got

\* Until an insert fails, disconnects, restarts and reaping never make a watcher
\* skip an event that is still in the journal.
WatchersMissNothing == ~failed => \A c \in Watchers : MissedNothing(c)

\* A stream delivers events in the order they were emitted, across reconnects, and
\* even when inserts fail and ids are handed out again after a restart.
StreamsInOrder ==
    [][\A c \in Clients : \A new \in stream'[c].got \ stream[c].got :
          \A old \in stream[c].got : old < new]_vars
=============================================================================
