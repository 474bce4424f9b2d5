------------------------------ MODULE WorkerBridge ------------------------------
(***************************************************************************)
(* The bridge of one worker (bridge/claude-code-bridge.py): an HTTP server *)
(* around a claude subprocess that it starts, resumes and restarts, and    *)
(* that is given one chat message after another.  What the subprocess      *)
(* prints is broadcast, and whoever listens takes the next result for the  *)
(* answer to what it has sent: a chat turn, which holds chat_lock; the     *)
(* wait for the context's acknowledgement; and a compaction, which takes   *)
(* no lock.  Unlike the pool of the server, the bridge tells nobody when   *)
(* the subprocess has ended.                                               *)
(***************************************************************************)
EXTENDS Naturals, Sequences

CONSTANTS Turns,     \* requests to /chat, with inject_context
          MaxKids,   \* bound on the subprocesses started
          MaxFaults  \* bound on restarts, compactions, ends, time-outs and project changes

VARIABLES at,        \* actor -> where it is
          chat,      \* the turn that holds chat_lock, or "none"
          lock,      \* the turn that starts a subprocess under self.lock, or "none"
          proc,      \* self.proc: a subprocess, 0 for None
          kids,      \* every subprocess: [alive, todo, context]
          readers,   \* subprocesses whose output some read loop waits for
          injected,  \* _context_injected
          session,   \* whether there is a session to resume
          heard,     \* actor -> the first result it has been told of, or "none"
          faults,
          beside,    \* turns that sent or waited beside something else's answer
          disturbed, \* turns during which a restart was under way
          bare       \* turns whose message went to a subprocess without context

vars == <<at, chat, lock, proc, kids, readers, injected, session, heard, faults, beside, disturbed, bare>>

Kids == DOMAIN kids
Actors == Turns \cup {"compact", "restart"}
Goto(a, l) == at' = [at EXCEPT ![a] = l]
Faulty == faults < MaxFaults /\ faults' = faults + 1
Alive(k) == k # 0 /\ kids[k].alive
AtWork == {t \in Turns : at[t] \notin {"new", "done"}}
Unanswered == \E k \in Kids : kids[k].todo # <<>>

Init == /\ at = [a \in Actors |-> IF a \in Turns THEN "new" ELSE "idle"]
        /\ chat = "none" /\ lock = "none"
        /\ proc = 0 /\ kids = <<>> /\ readers = {}
        /\ injected = FALSE
        /\ session \in BOOLEAN
        /\ heard = [a \in Actors |-> "none"]
        /\ faults = 0
        /\ beside = {} /\ disturbed = {} /\ bare = {}

----------------------------------------------------------------------------
\* Starting a subprocess: _spawn.

Killed(ks, k) == IF k = 0 THEN ks ELSE [ks EXCEPT ![k].alive = FALSE, ![k].todo = <<>>]

\* A new subprocess with a read loop of its own; a resumed one has its context.
Born(a, resumed) ==
    LET k == Len(kids) + 1 IN
    /\ k <= MaxKids
    /\ kids' = Append(kids, [alive |-> TRUE, todo |-> <<>>, context |-> resumed])
    /\ proc' = k
    /\ readers' = readers \cup {k}
    /\ injected' = resumed

\* ensure_running and the restart give up the lock when the start has ended.
Started(a) == IF a = "restart" THEN Goto(a, "idle") /\ UNCHANGED lock
              ELSE Goto(a, "inject") /\ lock' = "none"

\* With --resume while the session is young enough (not for a forced fresh start),
\* then a second's pause to see whether it stays.
Spawn(a) ==
    /\ at[a] \in {"spawn", "fresh"}
    /\ \/ at[a] = "spawn" /\ session /\ Born(a, TRUE) /\ Goto(a, "settle") /\ UNCHANGED lock
       \/ Born(a, FALSE) /\ Started(a)
    /\ UNCHANGED <<chat, session, heard, faults, beside, disturbed, bare>>

\* It has stayed; or it is gone, its read loop is cancelled, and a fresh one follows.
Settle(a) ==
    /\ at[a] = "settle"
    /\ \/ Alive(proc) /\ Started(a) /\ UNCHANGED <<proc, readers>>
       \/ /\ ~Alive(proc)
          /\ proc' = 0 /\ readers' = readers \ {proc}
          /\ Goto(a, "fresh")
          /\ UNCHANGED lock
    /\ UNCHANGED <<chat, kids, injected, session, heard, faults, beside, disturbed, bare>>

\* The program cannot be started: the turn fails.
SpawnFails(a) ==
    /\ at[a] = "fresh" /\ Faulty
    /\ IF a = "restart" THEN Goto(a, "idle") /\ UNCHANGED <<lock, chat>>
       ELSE Goto(a, "done") /\ lock' = "none" /\ chat' = "none"
    /\ UNCHANGED <<proc, kids, readers, injected, session, heard, beside, disturbed, bare>>

----------------------------------------------------------------------------
\* send_message.

Ask(t) ==
    /\ at[t] = "new" /\ chat = "none"
    /\ chat' = t
    /\ Goto(t, "ensure")
    /\ beside' = IF at["compact"] = "idle" THEN beside ELSE beside \cup {t}
    /\ disturbed' = IF at["restart"] = "idle" THEN disturbed ELSE disturbed \cup {t}
    /\ UNCHANGED <<lock, proc, kids, readers, injected, session, heard, faults, bare>>

Ensure(t) ==
    /\ at[t] = "ensure" /\ lock = "none"
    /\ IF Alive(proc) THEN Goto(t, "inject") /\ UNCHANGED lock
       ELSE Goto(t, "spawn") /\ lock' = t
    /\ UNCHANGED <<chat, proc, kids, readers, injected, session, heard, faults, beside, disturbed, bare>>

\* _send_raw_message: under the lock, to a subprocess that runs.
Sent(m) == /\ lock = "none" /\ Alive(proc)
           /\ kids' = [kids EXCEPT ![proc].todo = Append(@, m), ![proc].context = @ \/ m = "context"]

NeedsContext == ~injected

Inject(t) ==
    /\ at[t] = "inject"
    /\ IF NeedsContext THEN Sent("context") /\ injected' = TRUE /\ Goto(t, "listen")
       ELSE Goto(t, "send") /\ UNCHANGED <<kids, injected>>
    /\ UNCHANGED <<chat, lock, proc, readers, session, heard, faults, beside, disturbed, bare>>

\* The client is written to before the acknowledgement is subscribed to.
Listen(t) ==
    /\ at[t] = "listen"
    /\ Goto(t, "ack")
    /\ UNCHANGED <<chat, lock, proc, kids, readers, injected, session, heard, faults, beside, disturbed, bare>>

BadAcknowledged(t) == TRUE
Acknowledged(t) == heard[t] # "none"

\* The acknowledgement, or sixty seconds without a word.
Ack(t) ==
    /\ at[t] = "ack"
    /\ \/ Acknowledged(t) /\ UNCHANGED <<faults, beside>>
       \/ /\ ~Acknowledged(t) /\ Faulty
          /\ beside' = IF Unanswered THEN Turns ELSE beside
    /\ heard' = [heard EXCEPT ![t] = "none"]
    /\ Goto(t, "send")
    /\ UNCHANGED <<chat, lock, proc, kids, readers, injected, session, disturbed, bare>>

Send(t) ==
    /\ at[t] = "send"
    /\ Sent(t)
    /\ bare' = IF kids[proc].context THEN bare ELSE bare \cup {t}
    /\ Goto(t, "receive")
    /\ UNCHANGED <<chat, lock, proc, readers, injected, session, heard, faults, beside, disturbed>>

\* "Claude process is not running"
NotRunning(t) ==
    /\ at[t] = "send" \/ (at[t] = "inject" /\ NeedsContext)
    /\ lock = "none" /\ ~Alive(proc)
    /\ Goto(t, "done")
    /\ chat' = "none"
    /\ UNCHANGED <<lock, proc, kids, readers, injected, session, heard, faults, beside, disturbed, bare>>

\* _receive_response ends at a result, and _record_exchange logs it; or after 900
\* seconds without one, when the subprocess may still be at it.
Receive(t) ==
    /\ at[t] = "receive"
    /\ \/ heard[t] # "none" /\ UNCHANGED <<faults, beside>>
       \/ /\ heard[t] = "none" /\ Faulty
          /\ beside' = IF Unanswered THEN Turns ELSE beside
    /\ Goto(t, "done")
    /\ chat' = "none"
    /\ UNCHANGED <<lock, proc, kids, readers, injected, session, heard, disturbed, bare>>

----------------------------------------------------------------------------
\* The subprocess and _read_loop.

Listening == {t \in Turns : at[t] \in {"ack", "receive"}} \cup {a \in {"compact"} : at[a] = "drain"}

\* A result is broadcast, and its session kept.  The loop goes on with whatever
\* self.proc is by now: it ends without one, and if another loop reads that one
\* already, it fails and kills it.
Answer(k) ==
    /\ k \in readers /\ kids[k].alive /\ kids[k].todo # <<>>
    /\ LET m == Head(kids[k].todo)
           done == [kids EXCEPT ![k].todo = Tail(@)]
       IN  /\ heard' = [a \in Actors |-> IF a \in Listening /\ heard[a] = "none" THEN m ELSE heard[a]]
           /\ IF proc \in {0, k} \/ proc \notin readers
              THEN /\ kids' = done /\ UNCHANGED proc
                   /\ readers' = (readers \ {k}) \cup {p \in {proc} : p # 0}
              ELSE /\ kids' = Killed(done, proc) /\ proc' = 0 /\ readers' = readers \ {k}
    /\ session' = TRUE
    /\ UNCHANGED <<at, chat, lock, injected, faults, beside, disturbed, bare>>

\* The subprocess ends of itself; nobody is told.
Die(k) ==
    /\ kids[k].alive /\ Faulty
    /\ kids' = Killed(kids, k)
    /\ UNCHANGED <<at, chat, lock, proc, readers, injected, session, heard, beside, disturbed, bare>>

\* The read loop has seen its end: it kills whatever self.proc is by now.
Eof(k) ==
    /\ k \in readers /\ ~kids[k].alive
    /\ readers' = readers \ {k}
    /\ kids' = Killed(kids, proc) /\ proc' = 0
    /\ UNCHANGED <<at, chat, lock, injected, session, heard, faults, beside, disturbed, bare>>

----------------------------------------------------------------------------
\* restart, smart_compact, set_project.

\* The subprocess is killed and the newest read loop cancelled under the lock; the
\* successor is started outside it, fresh or, if asked, resumed.
Restart ==
    /\ at["restart"] = "idle" /\ lock = "none" /\ Faulty
    /\ kids' = Killed(kids, proc) /\ proc' = 0
    /\ readers' = readers \ {Len(kids)}
    /\ \E l \in {"spawn", "fresh"} : Goto("restart", l)
    /\ disturbed' = disturbed \cup AtWork
    /\ UNCHANGED <<chat, lock, injected, session, heard, beside, bare>>

\* The history is emptied and the context sent as a message: no chat_lock, and no start.
Compact ==
    /\ at["compact"] = "idle" /\ Faulty
    /\ \/ lock = "none" /\ ~Alive(proc) /\ UNCHANGED <<at, kids, beside>>
       \/ /\ Sent("compact")
          /\ Goto("compact", "drain")
          /\ beside' = beside \cup AtWork
    /\ heard' = [heard EXCEPT !["compact"] = "none"]
    /\ UNCHANGED <<chat, lock, proc, readers, injected, session, disturbed, bare>>

\* It takes the next result for the acknowledgement, or gives up after sixty seconds.
Compacted ==
    /\ at["compact"] = "drain"
    /\ \/ heard["compact"] # "none" /\ UNCHANGED faults
       \/ heard["compact"] = "none" /\ Faulty
    /\ Goto("compact", "idle")
    /\ beside' = IF Unanswered THEN Turns ELSE beside
    /\ UNCHANGED <<chat, lock, proc, kids, readers, injected, session, heard, disturbed, bare>>

SetProject ==
    /\ injected /\ Faulty
    /\ injected' = FALSE
    /\ UNCHANGED <<at, chat, lock, proc, kids, readers, session, heard, beside, disturbed, bare>>

Next == \/ \E t \in Turns : \/ Ask(t) \/ Ensure(t) \/ Inject(t) \/ Listen(t) \/ Ack(t)
                            \/ Send(t) \/ NotRunning(t) \/ Receive(t)
        \/ \E a \in Actors : Spawn(a) \/ Settle(a) \/ SpawnFails(a)
        \/ \E k \in Kids : Answer(k) \/ Die(k) \/ Eof(k)
        \/ Restart \/ Compact \/ Compacted \/ SetProject

Spec == Init /\ [][Next]_vars

----------------------------------------------------------------------------
\* State of the expected types; a start under the lock belongs to the turn at work.
TypeOK ==
    /\ at \in [Actors -> {"new", "ensure", "spawn", "fresh", "settle", "inject", "listen", "ack", "send",
                          "receive", "done", "idle", "drain"}]
    /\ chat \in Turns \cup {"none"} /\ lock \in {chat, "none"}
    /\ proc \in 0..Len(kids) /\ readers \subseteq Kids
    /\ \A k \in Kids : kids[k].todo \in Seq(Turns \cup {"context", "compact"})
    /\ {injected, session} \subseteq BOOLEAN
    /\ \A a \in Actors : heard[a] \in Turns \cup {"none", "context", "compact"}
    /\ beside \cup disturbed \cup bare \subseteq Turns

\* A turn that ends with an answer ends with the answer to its own message, whatever
\* restarts, resumptions and deaths there were; only a compaction beside it, or an
\* answer that somebody stopped waiting for, may be taken for it.
OwnAnswer == \A t \in Turns \ beside : at[t] = "done" => heard[t] \in {t, "none"}

\* No message goes to a subprocess that has not been told who it is, unless a restart
\* replaced it during the turn.
ContextFirst == bare \subseteq disturbed
=============================================================================
