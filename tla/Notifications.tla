--------------------------- MODULE Notifications ---------------------------
(***************************************************************************)
(* How a notification gets from the inbox table to the model of one Claude *)
(* session: notification_store.py, notification_dispatcher.py, the wake in *)
(* routes/delegation.py, and the part of /api/chat, the Claude provider    *)
(* and PersistentClaudeProcess that carries notifications.                 *)
(*                                                                         *)
(* Everything here runs on the event loop; a step ends where a coroutine   *)
(* really suspends.  Notifications are numbered by their created_at.  Left *)
(* out: the retry of a wake that is cancelled before its first step, the   *)
(* dispatcher's limit of 100 sessions, the removal of rows after a day.    *)
(***************************************************************************)
EXTENDS Naturals, Sequences, FiniteSets, FiniteSetsExt, SequencesExt

CONSTANTS
    NumNotes,      \* how many notifications are ever written (bound)
    Fleeting,      \* those with task_id "system_wake"
    InboxCap,      \* enqueue's cap on pending and claimed rows
    ClaimLimit,    \* how many rows one claim takes
    MaxAttempts,   \* recover's max_attempts
    QueueCap,      \* length of a process's in-memory queue
    NumRuns,       \* how many runs may be unfinished at once (bound)
    Features       \* what may happen around the inbox, see AllFeatures

AllFeatures == {
    "again",         \* a notification is enqueued more than once
    "chat",          \* the user sends messages
    "cancel",        \* POST /api/chat/cancel
    "compaction",    \* a run may be compacted between its result and its end
    "refused",       \* a run may fail before its message is written
    "spawnFails",    \* a process may not start
    "dies",          \* a process may die
    "reapProcess",   \* an idle process is reaped or evicted
    "reapSession",   \* the memory reaper cleans the session up
    "crash" }        \* the server goes down and comes back

Notes == 1 .. NumNotes
Runs == 1 .. NumRuns

ASSUME NotificationsAssumption ==
    /\ {NumNotes, InboxCap, ClaimLimit, MaxAttempts, QueueCap, NumRuns} \subseteq Nat \ {0}
    /\ Fleeting \subseteq Notes
    /\ Features \subseteq AllFeatures

VARIABLES
    inbox,     \* delegation_notifications: state and attempts of every row
    stale,     \* rows injected more than 300 s ago
    proc,      \* the session's process: none, down (a wrapper only), or up
    queue,     \* its _pending_notifications, one set of notes per message
    loop,      \* the session's dispatch loop, its event, the claims it holds
    deferred,  \* the deferred wake retries under way
    run,       \* the unfinished runs
    entry,     \* active_tasks: the run it names, "running" or not, _notif_ids
    seen,      \* notes written to the stdin of the model's process
    lost       \* history: notes of a message that was dropped unwritten

vars == <<inbox, stale, proc, queue, loop, deferred, run, entry, seen, lost>>

States == {"none", "pending", "claimed", "injected", "consumed", "failed", "dropped"}
NoRun == [pc |-> "none", internal |-> FALSE, cancelled |-> FALSE, text |-> {}]
NoLoop == [pc |-> "gone", event |-> FALSE, held |-> {}]

TypeOK ==
    /\ inbox \in [Notes -> [state : States, tries : 0 .. MaxAttempts]]
    /\ stale \subseteq {n \in Notes : inbox[n].state = "injected"}
    /\ proc \in {"none", "down", "up"}
    /\ queue \in Seq(SUBSET Notes) /\ Len(queue) <= QueueCap
    /\ proc = "none" => queue = <<>>
    /\ loop \in [pc : {"gone", "waiting", "batching", "spawning"},
                 event : BOOLEAN, held : SUBSET Notes]
    /\ deferred \subseteq SUBSET Notes
    /\ run \in [Runs -> [pc : {"none", "starting", "sending", "sent", "tail"},
                         internal : BOOLEAN, cancelled : BOOLEAN,
                         text : SUBSET Notes]]
    /\ entry \in [run : Runs \cup {0}, running : BOOLEAN, ids : SUBSET Notes]
    /\ seen \subseteq Notes
    /\ lost \subseteq Notes

NoEntry == [run |-> 0, running |-> FALSE, ids |-> {}]

Init ==
    /\ inbox = [n \in Notes |-> [state |-> "none", tries |-> 0]]
    /\ stale = {}
    /\ proc = "none"
    /\ queue = <<>>
    /\ loop = NoLoop
    /\ deferred = {}
    /\ run = [r \in Runs |-> NoRun]
    /\ entry = NoEntry
    /\ seen = {}
    /\ lost = {}

-----------------------------------------------------------------------------
(* The inbox table.  Definitions named Bad... are faulty variants of the   *)
(* one that follows; nothing uses them but the mutants of PROJECT.json.    *)

In(states) == {n \in Notes : inbox[n].state \in states}

(* The rows in a set ns set to a state, in a table i; deleted ones stay so. *)
Mark(i, ns, st) ==
    [n \in Notes |->
        IF n \in ns /\ i[n].state # "dropped" THEN [i[n] EXCEPT !.state = st] ELSE i[n]]

(* The k lowest numbers of a set. *)
Oldest(ns, k) == {n \in ns : Cardinality({m \in ns : m < n}) < k}

(***************************************************************************)
(* claim: the oldest pending rows, each with one attempt more.  Attempts   *)
(* are only ever compared with MaxAttempts, so they stop counting there.   *)
(***************************************************************************)
Claimed == Oldest(In({"pending"}), ClaimLimit)

WithClaims(ns) ==
    [n \in Notes |->
        IF n \in ns
        THEN [state |-> "claimed",
              tries |-> IF inbox[n].tries = MaxAttempts THEN MaxAttempts ELSE inbox[n].tries + 1]
        ELSE inbox[n]]

(* recover: what becomes of the state of row n. *)
Recovered(n) ==
    LET row == inbox[n]
    IN  IF row.state = "claimed"
        THEN IF row.tries < MaxAttempts THEN "pending" ELSE "failed"
        ELSE IF row.state = "injected" /\ n \in Fleeting THEN "consumed"
        ELSE IF row.state = "injected" /\ n \in stale /\ row.tries < MaxAttempts
        THEN "pending"
        ELSE row.state

Recover ==
    /\ inbox' = [n \in Notes |-> [inbox[n] EXCEPT !.state = Recovered(n)]]
    /\ stale' = {n \in stale : Recovered(n) = "injected"}

-----------------------------------------------------------------------------
(* The process's in-memory queue, and the runs. *)

BadQueued(q, ns) == Append(q, ns)

(* queue_notification: the oldest messages go when there are too many. *)
Queued(q, ns) ==
    LET all == Append(q, ns)
    IN  IF Len(all) > QueueCap THEN Tail(all) ELSE all

InQueue(q) == UNION {q[i] : i \in DOMAIN q}

(* The message queue_notification drops to make room for one more. *)
Overflow(q) == IF Len(q) >= QueueCap THEN Head(q) ELSE {}

Live(r) == r # 0 /\ run[r].pc # "none"

LockHolders == {r \in Runs : run[r].pc \in {"sending", "sent", "tail"}}

FreeRuns == {r \in Runs : run[r].pc = "none"}

BadOccupied == entry.running /\ Live(entry.run)

(* The session has a run, by its chat_lock or by active_tasks. *)
Occupied == LockHolders # {} \/ (entry.running /\ Live(entry.run))

BadTriggered(l) == [l EXCEPT !.event = TRUE]

(* _trigger: the event is set, the loop started unless it runs. *)
Triggered(l) == [l EXCEPT !.event = TRUE, !.pc = IF @ = "gone" THEN "waiting" ELSE @]

(***************************************************************************)
(* _try_proactive_wake on an idle process: what waits in memory, or else   *)
(* the given text, becomes the message of an internal run.  Nothing in it  *)
(* suspends while the process is up, so its lock is never found taken.     *)
(***************************************************************************)
Wake(q, ns) ==
    LET r == Min(FreeRuns)
    IN  /\ run' = [run EXCEPT ![r] = [pc |-> "starting", internal |-> TRUE, cancelled |-> FALSE,
                                      text |-> IF q = <<>> THEN ns ELSE InQueue(q)]]
        /\ entry' = [run |-> r, running |-> TRUE, ids |-> {}]
        /\ queue' = <<>>

-----------------------------------------------------------------------------
(***************************************************************************)
(* _deliver_or_queue_parent_notification: enqueue, which first makes room  *)
(* under its cap and then inserts or, for a key it has, ignores; then the  *)
(* dispatcher is triggered.  No deleted row is written anew while somebody *)
(* still has the id of the old one.                                        *)
(***************************************************************************)
Enqueue(n) ==
    /\ \A m \in 1 .. n - 1 : inbox[m].state # "none"
    /\ inbox[n].state # "none" => "again" \in Features
    /\ LET active == In({"pending", "claimed"})
           excess == IF Cardinality(active) < InboxCap THEN 0
                     ELSE Cardinality(active) - InboxCap + 1
           kept == Mark(inbox, Oldest(active, excess), "dropped")
       IN  /\ kept[n].state = "dropped" => n \notin loop.held \cup entry.ids \cup UNION deferred
           /\ inbox' = IF kept[n].state \in {"none", "dropped"}
                       THEN [kept EXCEPT ![n] = [state |-> "pending", tries |-> 0]]
                       ELSE kept
    /\ loop' = Triggered(loop)
    /\ UNCHANGED <<stale, proc, queue, deferred, run, entry, seen, lost>>

LoopWakesUp ==
    /\ loop.pc = "waiting" /\ loop.event
    /\ loop' = [loop EXCEPT !.pc = "batching", !.event = FALSE]
    /\ UNCHANGED <<inbox, stale, proc, queue, deferred, run, entry, seen, lost>>

(* 60 s without a trigger, or with one that came a moment too late. *)
LoopTimesOut ==
    /\ loop.pc = "waiting"
    /\ loop' = NoLoop
    /\ UNCHANGED <<inbox, stale, proc, queue, deferred, run, entry, seen, lost>>

(***************************************************************************)
(* The rest of dispatch_pending once the process runs: the notes go into   *)
(* its queue and their rows, whatever they are by now, become injected;    *)
(* then a wake if the session is idle, which consumes them, or a deferred  *)
(* retry.  A wrapper evicted meanwhile takes its queue with it, and may    *)
(* look dead.  Table i is the inbox after the claim.                       *)
(***************************************************************************)
Deliver(i, ids, idle) ==
    LET q == Queued(queue, ids)
        injected == Mark(Mark(i, ids, "injected"), ids \cap Fleeting, "consumed")
    IN  /\ loop' = [loop EXCEPT !.pc = "waiting", !.held = {}]
        /\ stale' = stale \ ids
        /\ IF idle
           THEN /\ Wake(q, ids)
                /\ inbox' = Mark(injected, ids, "consumed")
                /\ lost' = lost \cup Overflow(queue)
                /\ UNCHANGED deferred
           ELSE /\ queue' = IF proc = "none" THEN queue ELSE q
                /\ lost' = lost \cup (IF proc = "none" THEN ids ELSE Overflow(queue))
                /\ inbox' = injected
                /\ deferred' = deferred \cup {ids}
                /\ UNCHANGED <<run, entry>>
        /\ UNCHANGED seen

(* dispatch_pending claims; it suspends only to start the process. *)
Dispatch ==
    /\ loop.pc = "batching"
    /\ CASE Claimed = {} ->
            /\ loop' = [loop EXCEPT !.pc = "waiting"]
            /\ UNCHANGED <<inbox, stale, proc, queue, deferred, run, entry, seen, lost>>
         [] Claimed # {} /\ proc = "up" ->
            /\ Deliver(WithClaims(Claimed), Claimed, ~Occupied)
            /\ UNCHANGED proc
         [] OTHER ->
            /\ inbox' = WithClaims(Claimed)
            /\ loop' = [loop EXCEPT !.pc = "spawning", !.held = Claimed]
            /\ proc' = "down"
            /\ UNCHANGED <<stale, queue, deferred, run, entry, seen, lost>>

(* The pool has no room for a process of this session: released at once. *)
PoolRefuses ==
    /\ "spawnFails" \in Features
    /\ loop.pc = "batching"
    /\ Claimed # {} /\ proc = "none"
    /\ inbox' = Mark(WithClaims(Claimed), Claimed, "pending")
    /\ loop' = [loop EXCEPT !.pc = "waiting"]
    /\ UNCHANGED <<stale, proc, queue, deferred, run, entry, seen, lost>>

LoopSpawned ==
    /\ loop.pc = "spawning"
    /\ proc' = IF proc = "none" THEN "none" ELSE "up"
    /\ \/ Deliver(inbox, loop.held, ~Occupied)
       \/ proc = "none" /\ Deliver(inbox, loop.held, FALSE)

(* _release_claims: what is still claimed goes back. *)
SpawnFails ==
    /\ "spawnFails" \in Features
    /\ loop.pc = "spawning"
    /\ inbox' = Mark(inbox, loop.held \cap In({"claimed"}), "pending")
    /\ loop' = [loop EXCEPT !.pc = "waiting", !.held = {}]
    /\ UNCHANGED <<stale, proc, queue, deferred, run, entry, seen, lost>>

(***************************************************************************)
(* _deferred_wake_retry, 10 to 40 s apart: gives up without a process or   *)
(* after its last attempt on a busy session; on an idle one it wakes the   *)
(* model with what is queued by now, or with its own copy of the notes.    *)
(***************************************************************************)
DeferredRetry(ids) ==
    /\ ids \in deferred
    /\ deferred' = deferred \ {ids}
    /\ IF proc = "up" /\ ~Occupied
       THEN /\ Wake(queue, ids)
            /\ inbox' = Mark(inbox, ids \cap In({"pending", "claimed", "injected", "failed"}),
                             "consumed")
            /\ stale' = stale \ ids
       ELSE UNCHANGED <<inbox, stale, queue, run, entry>>
    /\ UNCHANGED <<proc, loop, seen, lost>>

(* 300 s pass after an injection; its retries are over by then. *)
GrowStale(n) ==
    /\ inbox[n].state = "injected" /\ n \notin stale
    /\ \A ids \in deferred : n \notin ids
    /\ stale' = stale \cup {n}
    /\ UNCHANGED <<inbox, proc, queue, loop, deferred, run, entry, seen, lost>>

(* reconcile_once, every 45 s. *)
Reconcile ==
    /\ Recover
    /\ loop' = IF In({"pending"}) # {} THEN Triggered(loop) ELSE loop
    /\ UNCHANGED <<proc, queue, deferred, run, entry, seen, lost>>

-----------------------------------------------------------------------------
(* A run cancelled before its first step never reaches its finally; one    *)
(* that already waits for the chat_lock does.                              *)
Cancelled(r, begun) ==
    IF run[r].pc = "starting" /\ ~begun THEN [run EXCEPT ![r] = NoRun]
    ELSE [run EXCEPT ![r].cancelled = TRUE]

BadPreempt(q, ns) == q

(* What api_chat does with the text of a wake that the user preempts. *)
Preempt(q, ns) == IF proc = "none" THEN q ELSE Queued(q, ns)

(* The message of a run, unless the process has got it. *)
Unwritten(r) == IF run[r].pc \in {"starting", "sending"} THEN run[r].text ELSE {}

(***************************************************************************)
(* A user message on a session without a run of the user's: a wake is      *)
(* preempted, its text goes back to the memory queue; what is pending in   *)
(* the inbox is prepended and injected at once.  (On a session with one    *)
(* the message is injected into the running turn and touches no note.)     *)
(***************************************************************************)
Chat ==
    /\ "chat" \in Features
    /\ FreeRuns # {}
    /\ LET old == entry.run
           wake == entry.running /\ Live(old)
           r == Min(FreeRuns)
           ids == Claimed
           new == [pc |-> "starting", internal |-> FALSE, cancelled |-> FALSE, text |-> ids]
       IN  /\ wake => run[old].internal
           /\ queue' = IF wake THEN Preempt(queue, run[old].text) ELSE queue
           /\ lost' = lost \cup (IF ~wake THEN {}
                                 ELSE IF proc = "none" THEN Unwritten(old) ELSE Overflow(queue))
           /\ \E begun \in BOOLEAN :
                 /\ begun => LockHolders # {}
                 /\ run' = [(IF wake THEN Cancelled(old, begun) ELSE run) EXCEPT ![r] = new]
           /\ entry' = [run |-> r, running |-> TRUE, ids |-> ids]
           /\ inbox' = Mark(WithClaims(ids), ids, "injected")
    /\ UNCHANGED <<stale, proc, loop, deferred, seen>>

Cancel ==
    /\ "cancel" \in Features
    /\ Live(entry.run)
    /\ \E begun \in BOOLEAN :
          /\ begun => LockHolders # {}
          /\ run' = Cancelled(entry.run, begun)
    /\ entry' = [entry EXCEPT !.running = FALSE]
    /\ lost' = lost \cup Unwritten(entry.run)
    /\ UNCHANGED <<inbox, stale, proc, queue, loop, deferred, seen>>

(* get_or_create, then the chat_lock. *)
RunBegins(r) ==
    /\ run[r].pc = "starting" /\ ~run[r].cancelled
    /\ LockHolders = {}
    /\ run' = [run EXCEPT ![r].pc = "sending"]
    /\ proc' = IF proc = "none" THEN "down" ELSE proc
    /\ UNCHANGED <<inbox, stale, queue, loop, deferred, entry, seen, lost>>

(* The process is up and has its context: queue and text are written. *)
RunSends(r) ==
    /\ run[r].pc = "sending" /\ ~run[r].cancelled
    /\ seen' = seen \cup run[r].text \cup InQueue(queue)
    /\ run' = [run EXCEPT ![r].pc = "sent"]
    /\ queue' = <<>>
    /\ proc' = "up"
    /\ UNCHANGED <<inbox, stale, loop, deferred, entry, lost>>

(***************************************************************************)
(* The finally of process_chat_claude: whatever entry active_tasks holds   *)
(* by now is marked done and its notes consumed; then the dispatcher is    *)
(* told that the process is idle.                                          *)
(***************************************************************************)
Finally(r) ==
    /\ run' = [run EXCEPT ![r] = NoRun]
    /\ entry' = [entry EXCEPT !.running = FALSE]
    /\ inbox' = Mark(inbox, entry.ids, "consumed")
    /\ stale' = stale \ entry.ids
    /\ loop' = Triggered(loop)
    /\ UNCHANGED <<proc, deferred, seen>>

(* The result arrived: done, but for a compaction that keeps the lock. *)
RunEnds(r) ==
    /\ run[r].pc = "sent" /\ ~run[r].cancelled
    /\ \/ Finally(r) /\ UNCHANGED <<queue, lost>>
       \/ /\ "compaction" \in Features
          /\ run' = [run EXCEPT ![r].pc = "tail"]
          /\ entry' = [entry EXCEPT !.running = FALSE]
          /\ UNCHANGED <<inbox, stale, proc, queue, loop, deferred, seen, lost>>

RunLeaves(r) ==
    /\ run[r].pc = "tail" \/ run[r].cancelled
    /\ Finally(r)
    /\ UNCHANGED <<queue, lost>>

(* No room in the pool, no process, one that died loading its context, or  *)
(* one whose stdin breaks once send_message has drained the queue.         *)
RunFails(r) ==
    /\ "refused" \in Features
    /\ run[r].pc \in {"starting", "sending"} /\ ~run[r].cancelled
    /\ \/ /\ run[r].pc = "sending" \/ proc = "none"
          /\ lost' = lost \cup run[r].text
          /\ UNCHANGED queue
       \/ /\ run[r].pc = "sending"
          /\ lost' = lost \cup run[r].text \cup InQueue(queue)
          /\ queue' = <<>>
    /\ Finally(r)

-----------------------------------------------------------------------------
ProcessDies ==
    /\ "dies" \in Features
    /\ proc = "up"
    /\ proc' = "down"
    /\ UNCHANGED <<inbox, stale, queue, loop, deferred, run, entry, seen, lost>>

(* The idle reaper, or an eviction for another session. *)
ReapProcess ==
    /\ "reapProcess" \in Features
    /\ proc # "none" /\ LockHolders = {}
    /\ proc' = "none"
    /\ queue' = <<>>
    /\ lost' = lost \cup InQueue(queue)
    /\ UNCHANGED <<inbox, stale, loop, deferred, run, entry, seen>>

(* The memory reaper drops the entry and cancels the dispatch loop. *)
ReapSession ==
    /\ "reapSession" \in Features
    /\ entry.run # 0 /\ ~Live(entry.run)
    /\ entry' = NoEntry
    /\ loop' = NoLoop
    /\ UNCHANGED <<inbox, stale, proc, queue, deferred, run, seen, lost>>

(* Only the table survives; startup recovers it and fans out. *)
Crash ==
    /\ "crash" \in Features
    /\ Recover
    /\ proc' = "none"
    /\ queue' = <<>>
    /\ loop' = IF \E n \in Notes : Recovered(n) = "pending" THEN Triggered(NoLoop) ELSE NoLoop
    /\ deferred' = {}
    /\ run' = [r \in Runs |-> NoRun]
    /\ entry' = NoEntry
    /\ lost' = lost \cup InQueue(queue) \cup UNION {Unwritten(r) : r \in Runs}
    /\ UNCHANGED seen

-----------------------------------------------------------------------------
RunStep(r) == RunBegins(r) \/ RunSends(r) \/ RunEnds(r) \/ RunLeaves(r) \/ RunFails(r)

Next ==
    \/ \E n \in Notes : Enqueue(n) \/ GrowStale(n)
    \/ LoopWakesUp \/ LoopTimesOut \/ Dispatch \/ PoolRefuses \/ LoopSpawned \/ SpawnFails
    \/ \E ids \in deferred : DeferredRetry(ids)
    \/ Reconcile
    \/ Chat \/ Cancel
    \/ \E r \in Runs : RunStep(r)
    \/ ProcessDies \/ ReapProcess \/ ReapSession \/ Crash

Spec == Init /\ [][Next]_vars

(***************************************************************************)
(* Callbacks that are ready are served, runs get on, the reconciler comes  *)
(* every 45 s and time passes.  Starting a process may fail, but not for   *)
(* ever.  Nobody promises a message of the user.                           *)
(***************************************************************************)
Fairness ==
    /\ SF_vars(LoopWakesUp)
    /\ SF_vars(Dispatch) /\ SF_vars(LoopSpawned)
    /\ \A ids \in SUBSET Notes : WF_vars(DeferredRetry(ids))
    /\ WF_vars(Reconcile)
    /\ \A n \in Notes : WF_vars(GrowStale(n))
    /\ \A r \in Runs : SF_vars(RunStep(r))

FairSpec == Spec /\ Fairness

-----------------------------------------------------------------------------
(* A note on its way: in the memory queue or in a message still to be sent. *)
UnderWay(n) ==
    \/ n \in InQueue(queue)
    \/ \E r \in Runs : /\ run[r].pc \in {"starting", "sending"} /\ ~run[r].cancelled
                       /\ n \in run[r].text

(***************************************************************************)
(* A row that is injected or consumed stands for a note the model has been *)
(* given or is about to be given, or for one that was in a message dropped *)
(* whole: by a full queue, an evicted or reaped process, a cancelled or    *)
(* failed run, a crash.  Handing a note from the table to the memory       *)
(* queue, from there to a wake, back when the user preempts it and into    *)
(* the next message lets go of it nowhere else (dispatch_pending,          *)
(* _try_proactive_wake, api_chat, send_message).                           *)
(***************************************************************************)
Accounted ==
    \A n \in In({"injected", "consumed"}) : n \in seen \cup lost \/ UnderWay(n)

(***************************************************************************)
(* One wake at a time: two tasks that end together do not start two        *)
(* internal runs (_try_proactive_wake: "only one wake fires").             *)
(***************************************************************************)
OneWake ==
    Cardinality({r \in Runs : Live(r) /\ run[r].internal /\ ~run[r].cancelled}) <= 1

(***************************************************************************)
(* A note in the table is given to the model, or waits in the memory queue *)
(* for the next message, unless its message was dropped, the cap dropped   *)
(* it or its attempts are used up (notification_store: state machine,      *)
(* recover).                                                               *)
(***************************************************************************)
Arrives ==
    \A n \in Notes :
        inbox[n].state = "pending"
        ~> \/ n \in seen \cup lost \/ n \in InQueue(queue)
           \/ inbox[n].state \in {"dropped", "failed"}
           \/ inbox[n].tries = MaxAttempts

=============================================================================
