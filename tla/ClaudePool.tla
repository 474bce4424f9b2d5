----------------------------- MODULE ClaudePool -----------------------------
(***************************************************************************)
(* The pool of claude subprocesses.  A session's entry in the pool is an   *)
(* object that spawns a subprocess when it needs one, resumes the session's*)
(* last conversation or starts a fresh one, tells a fresh one who it is    *)
(* before the first message, and gives each message the next result that   *)
(* its read loop broadcasts.  Cancels, restarts, compactions, token        *)
(* refreshes, eviction and the idle reaper end subprocesses meanwhile.     *)
(* Source: claude_bridge.py; routes/chat.py, server.py and                 *)
(* chat_providers/claude_provider.py where they drive it.                  *)
(***************************************************************************)
EXTENDS Integers, Sequences, FiniteSets, FiniteSetsExt

CONSTANTS
    Sessions,       \* ids of Claude tabs
    Cap,            \* MAX_CLAUDE_PROCESSES
    NumTurns,       \* messages sent, numbered in the order of their arrival
    MaxSpawns,      \* bound on the subprocesses started
    MaxOps,         \* bound on what interferes: deaths, restarts, evictions, ...
    Cases           \* sets of what may interfere; each behaviour has one of them

ASSUME CapAssumption == Cap \in Nat \ {0} /\ NumTurns \in Nat /\ MaxSpawns \in Nat

VARIABLES
    pool,       \* _processes: session -> object, 0 for none
    objs,       \* every PersistentClaudeProcess created, the popped ones included
    insts,      \* every subprocess spawned, with its read loop
    turns,      \* every message: where send_message stands and what it answered
    file,       \* per session: the conversation of its session state file, 0 for none
    taught,     \* conversations that have answered the context message
    killing,    \* popped objects whose kill is under way
    ops,        \* interferences so far
    features    \* the case of this behaviour

vars == <<pool, objs, insts, turns, file, taught, killing, ops, features>>

Turns == 1..NumTurns
Ctx == 0                        \* the context message; a turn's message is its number
Injected == -1                  \* a message written into a running turn
Failed == -2                    \* an error text instead of an answer
None == -3                      \* no answer yet
Unread == -1                    \* session state not loaded yet

Objects == DOMAIN objs
Insts == DOMAIN insts

Init ==
    /\ pool = [s \in Sessions |-> 0] /\ objs = <<>> /\ insts = <<>>
    /\ turns = [t \in Turns |-> [phase |-> "new", obj |-> 0, answer |-> None]]
    /\ file = [s \in Sessions |-> 0] /\ taught = {} /\ killing = {} /\ ops = 0
    /\ features \in Cases

\* What interferes costs one operation of the bound.
May(f) == f \in features /\ ops < MaxOps
Alive(o) == objs[o].proc # 0 /\ insts[objs[o].proc].alive
Sending == {"ensure", "spawn", "ready", "ack", "send", "wait"}
Running(t) == turns[t].phase \in {"queued"} \cup Sending
Working(t) == turns[t].phase \in {"answered"} \cup Sending
\* chat_lock: one turn of an object is between its acquire and its release.
Locked(o) == \E t \in Turns : turns[t].obj = o /\ Working(t)

----------------------------------------------------------------------------
(* The pool.                                                               *)

NewObject(s) == [session |-> s, proc |-> 0, ctx |-> FALSE, conv |-> Unread,
                 force |-> FALSE, lock |-> FALSE, respawn |-> FALSE]

Pooled == {s \in Sessions : pool[s] # 0}

\* _evict_oldest_idle: any object without a turn may be the oldest.
Evictable == {s \in Pooled : ~Locked(pool[s])}

BadGetOrCreate(s) ==
    IF pool[s] # 0 THEN {[obj |-> pool[s], evicted |-> {}]}
    ELSE {[obj |-> Len(objs) + 1, evicted |-> {}]}
\* get_or_create for session s, as the set of what it may leave behind.
GetOrCreate(s) ==
    IF pool[s] # 0 THEN {[obj |-> pool[s], evicted |-> {}]}
    ELSE LET new == Len(objs) + 1
         IN  IF Cardinality(Pooled) < Cap THEN {[obj |-> new, evicted |-> {}]}
             ELSE {[obj |-> new, evicted |-> {e}] : e \in Evictable}

\* The object that got has in pool afterwards; an evicted one is killed in a task of its own.
Obtained(s, got) ==
    /\ objs' = IF got.obj \in Objects THEN objs ELSE Append(objs, NewObject(s))
    /\ pool' = [r \in Sessions |-> IF r \in got.evicted THEN 0
                                   ELSE IF r = s THEN got.obj ELSE pool[r]]
    /\ killing' = killing \cup {pool[e] : e \in got.evicted}

\* A message of session s: the session has no running message (a second one is injected
\* instead), its object is taken from the pool and its chat_lock asked for.
Message(t, s) ==
    /\ turns[t].phase = "new" /\ \A u \in Turns : u < t => turns[u].phase # "new"
    /\ \A u \in Turns : Running(u) => objs[turns[u].obj].session # s
    /\ IF GetOrCreate(s) = {}
       THEN /\ turns' = [turns EXCEPT ![t].phase = "ended", ![t].answer = Failed]
            /\ UNCHANGED <<pool, objs, killing>>
       ELSE \E got \in GetOrCreate(s) :
              /\ Obtained(s, got)
              /\ turns' = [turns EXCEPT ![t].obj = got.obj,
                             ![t].phase = IF Locked(got.obj) THEN "queued" ELSE "ensure"]
    /\ UNCHANGED <<insts, file, taught, ops>>

\* chat_lock is handed to the turn that has waited longest.
TakesLock(t) ==
    /\ turns[t].phase = "queued" /\ ~Locked(turns[t].obj)
    /\ \A u \in Turns : turns[u].phase = "queued" /\ turns[u].obj = turns[t].obj => t <= u
    /\ turns' = [turns EXCEPT ![t].phase = "ensure"]
    /\ UNCHANGED <<pool, objs, insts, file, taught, killing, ops>>

----------------------------------------------------------------------------
(* Starting a subprocess.                                                  *)

NewInst(o, conv) ==
    [obj |-> o, conv |-> conv, alive |-> TRUE, hung |-> FALSE, input |-> <<>>,
     reader |-> "reading"]

\* _spawn has started a subprocess: resumed, the conversation has its context already;
\* under the lock the start also uses up the demand for a fresh one.
Spawned(o, resumed, under) ==
    LET i == Len(insts) + 1
    IN  /\ Len(insts) < MaxSpawns
        /\ insts' = Append(insts, NewInst(o, IF resumed THEN objs[o].conv ELSE i))
        /\ objs' = [objs EXCEPT ![o] =
                      IF under THEN [@ EXCEPT !.proc = i, !.ctx = resumed, !.lock = FALSE, !.force = FALSE]
                      ELSE [@ EXCEPT !.proc = i, !.ctx = resumed, !.respawn = FALSE]]

\* ensure_running of a turn: takes the lock, and goes on if the subprocess runs.
Ensure(t) ==
    LET o == turns[t].obj
    IN  /\ turns[t].phase = "ensure" /\ ~objs[o].lock
        /\ IF Alive(o)
           THEN /\ turns' = [turns EXCEPT ![t].phase = "ready"]
                /\ UNCHANGED objs
           ELSE /\ turns' = [turns EXCEPT ![t].phase = "spawn"]
                /\ objs' = [objs EXCEPT ![o].lock = TRUE,
                              ![o].conv = IF @ = Unread THEN file[objs[o].session] ELSE @]
    /\ UNCHANGED <<pool, insts, file, taught, killing, ops>>

\* The spawn under the lock ends: resumed when there is a conversation that is young
\* enough and answers within thirty seconds, else fresh.
SpawnEnds(t) ==
    LET o == turns[t].obj
    IN  /\ turns[t].phase = "spawn"
        /\ \E resumed \in {FALSE, objs[o].conv # 0 /\ ~objs[o].force} : Spawned(o, resumed, TRUE)
        /\ turns' = [turns EXCEPT ![t].phase = "ready"]
        /\ UNCHANGED <<pool, file, taught, killing, ops>>

\* The binary is missing or cannot be started.
SpawnFails(t) ==
    /\ turns[t].phase = "spawn" /\ May("spawnFails") /\ ops' = ops + 1
    /\ objs' = [objs EXCEPT ![turns[t].obj].lock = FALSE, ![turns[t].obj].force = FALSE]
    /\ turns' = [turns EXCEPT ![t].phase = "ended", ![t].answer = Failed]
    /\ UNCHANGED <<pool, insts, file, taught, killing>>

----------------------------------------------------------------------------
(* A turn.                                                                 *)

\* _send_raw_message: takes the lock; the subprocess must run.
Written(o, m) ==
    insts' = [insts EXCEPT ![objs[o].proc].input = Append(@, m)]

BadNeedsContext(o) == FALSE
NeedsContext(o) == ~objs[o].ctx

\* send_message tells a fresh subprocess who it is, or writes the message.
Send(t) ==
    LET o == turns[t].obj
        context == turns[t].phase = "ready" /\ NeedsContext(o)
    IN  /\ turns[t].phase \in {"ready", "send"} /\ ~objs[o].lock
        /\ IF ~Alive(o)
           THEN /\ turns' = [turns EXCEPT ![t].phase = "ended", ![t].answer = Failed]
                /\ UNCHANGED <<objs, insts>>
           ELSE /\ Written(o, IF context THEN Ctx ELSE t)
                /\ objs' = [objs EXCEPT ![o].ctx = @ \/ context]
                /\ turns' = [turns EXCEPT ![t].phase = IF context THEN "ack" ELSE "wait"]
        /\ UNCHANGED <<pool, file, taught, killing, ops>>

\* What a turn of object o makes of a result that is broadcast: the acknowledgement is
\* drained, the answer of message m taken; Failed stands for process_died.
Heard(o, m) ==
    [t \in Turns |->
        IF turns[t].obj # o THEN turns[t]
        ELSE CASE turns[t].phase = "ack" /\ m # Failed -> [turns[t] EXCEPT !.phase = "send"]
               [] turns[t].phase = "ack" /\ m = Failed ->
                    [turns[t] EXCEPT !.phase = "ended", !.answer = Failed]
               [] turns[t].phase = "wait" ->
                    [turns[t] EXCEPT !.phase = "answered", !.answer = m]
               [] OTHER -> turns[t]]

\* The subprocess answers its oldest input and the read loop broadcasts the result; the
\* conversation becomes the one to resume.  The loop goes on with the object's process,
\* and fails when that is another one that has a reader already.
Answers(i) ==
    LET o == insts[i].obj
        m == Head(insts[i].input)
    IN  /\ insts[i].alive /\ ~insts[i].hung /\ insts[i].input # <<>>
        /\ insts[i].reader = "reading"
        /\ insts' = [insts EXCEPT ![i].input = Tail(@),
                                  ![i].reader = IF objs[o].proc = i THEN @ ELSE "ending"]
        /\ objs' = [objs EXCEPT ![o].conv = insts[i].conv]
        /\ file' = [file EXCEPT ![objs[o].session] = insts[i].conv]
        /\ taught' = IF m = Ctx THEN taught \cup {insts[i].conv} ELSE taught
        /\ turns' = Heard(o, m)
        /\ UNCHANGED <<pool, killing, ops>>

\* Nothing more will be heard: the subprocess hangs, or it is gone and so is its reader.
Silent(o) ==
    /\ ~objs[o].lock /\ ~objs[o].respawn
    /\ \A i \in Insts : insts[i].obj = o =>
         /\ insts[i].reader # "ending"
         /\ insts[i].reader = "reading" => insts[i].hung \/ insts[i].input = <<>>

BadGivesUp(t) == turns[t].phase = "ack" /\ Silent(turns[t].obj)
\* The silence watchdog of a turn, and the sixty seconds for the acknowledgement.
GivesUp(t) == turns[t].phase \in {"ack", "wait"} /\ Silent(turns[t].obj)

Silence(t) ==
    /\ GivesUp(t)
    /\ turns' = IF turns[t].phase = "ack" THEN [turns EXCEPT ![t].phase = "send"]
                ELSE [turns EXCEPT ![t].phase = "answered", ![t].answer = Failed]
    /\ UNCHANGED <<pool, objs, insts, file, taught, killing, ops>>

\* A second message of a running session goes straight to the subprocess.  The CLI takes
\* it up in what it is doing, or answers it alone when it is doing nothing.
\* While the process is started the message waits for the lock, and gets it before the turn.
Inject(t) ==
    LET o == turns[t].obj
    IN  /\ Running(t) /\ turns[t].phase # "send" /\ pool[objs[o].session] = o
        /\ May("inject") /\ ops' = ops + 1
        /\ ~objs[o].lock /\ Alive(o) /\ insts[objs[o].proc].input = <<>>
        /\ Written(o, Injected)
        /\ UNCHANGED <<pool, objs, turns, file, taught, killing>>

----------------------------------------------------------------------------
(* Ends of subprocesses.                                                   *)

\* The reader of a subprocess that has died sees the end of its output.
Dead(i) == [insts[i] EXCEPT !.alive = FALSE, !.input = <<>>,
                            !.reader = IF @ = "reading" THEN "ending" ELSE @]

Dies(i) ==
    /\ insts[i].alive /\ May("dies") /\ ops' = ops + 1
    /\ insts' = [insts EXCEPT ![i] = Dead(i)]
    /\ UNCHANGED <<pool, objs, turns, file, taught, killing>>

\* The CLI stops answering without ending.
Hangs(i) ==
    /\ insts[i].alive /\ ~insts[i].hung /\ May("hangs") /\ ops' = ops + 1
    /\ insts' = [insts EXCEPT ![i].hung = TRUE]
    /\ UNCHANGED <<pool, objs, turns, file, taught, killing>>

\* The finally of the read loop, half a second later: the turn is told, unless a token
\* refresh repaired an authentication error; the process the object has by now is killed,
\* be it the one this loop has read or its successor.
ReaderEnds(i) ==
    LET o == insts[i].obj
        p == objs[o].proc
    IN  /\ insts[i].reader = "ending"
        /\ \E recovered \in {FALSE, "auth" \in features} :
             /\ turns' = IF recovered THEN turns ELSE Heard(o, Failed)
             /\ objs' = [objs EXCEPT ![o].proc = 0, ![o].force = @ \/ recovered,
                                     ![o].ctx = @ /\ ~recovered]
        /\ insts' = [j \in Insts |->
                        IF j = i THEN [insts[i] EXCEPT !.reader = "gone", !.alive = @ /\ p # i]
                        ELSE IF j = p THEN Dead(j) ELSE insts[j]]
        /\ UNCHANGED <<pool, file, taught, killing, ops>>

\* kill under the lock: the process is killed and the latest reader cancelled.
Newest(o) == Max({i \in Insts : insts[i].obj = o} \cup {0})
Ended(o) == [j \in Insts |->
                IF j = Newest(o) THEN [Dead(j) EXCEPT !.reader = "gone"] ELSE insts[j]]

\* A turn about to write gets the lock before there is a new process, and fails; one that
\* listens is told by the cancelled reader, unless that has seen the end of the output.
Told(o) ==
    \E told \in {FALSE, Newest(o) # 0 /\ insts[Newest(o)].reader = "reading"} :
        turns' = [t \in Turns |->
                    IF turns[t].obj = o /\ turns[t].phase \in {"ready", "send"}
                    THEN [turns[t] EXCEPT !.phase = "ended", !.answer = Failed]
                    ELSE IF told THEN Heard(o, Failed)[t] ELSE turns[t]]

\* The task of an eviction, or of kill_session, gets the lock.
Kill(o) ==
    /\ o \in killing /\ ~objs[o].lock
    /\ killing' = killing \ {o}
    /\ insts' = Ended(o)
    /\ objs' = [objs EXCEPT ![o].proc = 0]
    /\ Told(o)
    /\ UNCHANGED <<pool, file, taught, ops>>

\* The idle reaper, delegation's clean-up, the callback of a sign-in: kill_session; only
\* the reaper looks whether a turn is running.
KillSession(s) ==
    /\ pool[s] # 0
    /\ \/ May("reap") /\ ~Locked(pool[s])
       \/ May("killSession")
    /\ ops' = ops + 1
    /\ pool' = [pool EXCEPT ![s] = 0]
    /\ killing' = killing \cup {pool[s]}
    /\ UNCHANGED <<objs, insts, turns, file, taught>>

\* Kills the process of o under the lock and starts a fresh one after the lock is released:
\* at once, or with "overlap" when others have had the lock in between.
Replaced(o, conv) ==
    LET i == Len(insts) + 1
        now == "overlap" \notin features
    IN  /\ Len(insts) < MaxSpawns
        /\ insts' = IF now THEN Append(Ended(o), NewInst(o, i)) ELSE Ended(o)
        /\ objs' = [objs EXCEPT ![o] = [@ EXCEPT
                      !.proc = IF now THEN i ELSE 0, !.ctx = objs[o].ctx /\ ~now,
                      !.conv = conv, !.lock = FALSE, !.respawn = ~now]]

\* The unlocked _spawn of a restart or compaction.
Respawn(o) ==
    /\ objs[o].respawn
    /\ Spawned(o, FALSE, FALSE)
    /\ UNCHANGED <<pool, turns, file, taught, killing, ops>>

BadCancelRestarts(o) == UNCHANGED <<objs, insts>>
\* api_chat_cancel restarts the subprocess, so that it stops thinking.
CancelRestarts(o) == Replaced(o, objs[o].conv)

\* The user cancels: the turn ends, the subprocess is replaced.
Cancel(t) ==
    LET o == turns[t].obj
    IN  /\ Running(t) /\ May("cancel") /\ ops' = ops + 1
        /\ pool[objs[o].session] = o /\ (objs[o].lock => turns[t].phase = "spawn")
        /\ turns' = [turns EXCEPT ![t].phase = "ended", ![t].answer = Failed]
        /\ CancelRestarts(o)
        /\ UNCHANGED <<pool, file, taught, killing>>

\* restart from the settings page or for a dismissed task, whatever the turn does.
Restart(s) ==
    LET o == pool[s]
    IN  /\ o # 0 /\ May("restart") /\ ops' = ops + 1
        /\ ~objs[o].lock
        /\ Replaced(o, objs[o].conv)
        /\ Told(o)
        /\ UNCHANGED <<pool, file, taught, killing>>

\* A refreshed token: the process is killed without the lock, the next start is fresh.
Recycle(s) ==
    LET o == pool[s]
    IN  /\ o # 0 /\ May("recycle") /\ ops' = ops + 1
        /\ Alive(o)
        /\ insts' = [insts EXCEPT ![objs[o].proc] = Dead(objs[o].proc)]
        /\ objs' = [objs EXCEPT ![o].proc = 0, ![o].ctx = FALSE, ![o].force = TRUE]
        /\ UNCHANGED <<pool, turns, file, taught, killing>>

\* The provider ends a turn that has its result, which frees chat_lock.
TurnEnds(t) ==
    /\ turns[t].phase = "answered" /\ ~objs[turns[t].obj].respawn
    /\ turns' = [turns EXCEPT ![t].phase = "ended"]
    /\ UNCHANGED <<pool, objs, insts, file, taught, killing, ops>>

\* Before that, when the context has outgrown its threshold, or when the user asks for it
\* at any time: smart_compact replaces the subprocess and forgets the conversation.
Compact(s) ==
    LET o == pool[s]
    IN  /\ o # 0 /\ May("compact") /\ ops' = ops + 1
        /\ ~objs[o].lock /\ ~objs[o].respawn
        /\ Replaced(o, IF objs[o].conv = Unread THEN Unread ELSE 0)
        /\ Told(o)
        /\ UNCHANGED <<pool, file, taught, killing>>

----------------------------------------------------------------------------

Pending(t) ==
    \/ TakesLock(t) \/ Ensure(t) \/ SpawnEnds(t) \/ Send(t) \/ Silence(t) \/ TurnEnds(t)

Progress ==
    \/ \E t \in Turns : Pending(t)
    \/ \E i \in Insts : Answers(i) \/ ReaderEnds(i)
    \/ \E o \in Objects : Kill(o) \/ Respawn(o)

Interferes ==
    \/ \E t \in Turns : SpawnFails(t) \/ Inject(t) \/ Cancel(t)
    \/ \E i \in Insts : Dies(i) \/ Hangs(i)
    \/ \E s \in Sessions : KillSession(s) \/ Restart(s) \/ Recycle(s) \/ Compact(s)

Next ==
  /\ UNCHANGED features
  /\ \/ \E t \in Turns, s \in Sessions : Message(t, s)
     \/ Progress
     \/ Interferes

Spec == Init /\ [][Next]_vars

----------------------------------------------------------------------------
(* Properties.                                                             *)

Phases == {"new", "queued", "ensure", "spawn", "ready", "ack", "send", "wait",
           "answered", "ended"}

\* The pool keeps its cap and its entries their session; the lock is held by the turn
\* that spawns, and chat_lock by one turn per object.
TypeOK ==
    /\ Cardinality(Pooled) <= Cap
    /\ \A s \in Pooled : pool[s] \in Objects /\ objs[pool[s]].session = s
    /\ \A t \in Turns : turns[t].phase \in Phases /\ turns[t].obj \in Objects \cup {0}
    /\ \A o \in Objects :
         /\ objs[o].proc \in Insts \cup {0}
         /\ objs[o].lock <=> \E t \in Turns : turns[t].obj = o /\ turns[t].phase = "spawn"
         /\ Cardinality({t \in Turns : turns[t].obj = o /\ Working(t)}) <= 1

\* A message is answered by the result of that message or by an error: no result of a
\* cancelled message, of the context or of a process that was replaced is taken for it.
AnswersAreOwn == \A t \in Turns : turns[t].answer \in {None, Failed, t}

\* A subprocess reads the context before any message of a user (send_message).
ContextRead ==
    \A i \in Insts : \A k \in DOMAIN insts[i].input :
        insts[i].input[k] # Ctx =>
            \/ insts[i].conv \in taught
            \/ \E j \in 1..(k - 1) : insts[i].input[j] = Ctx

\* So it is as long as nothing is injected and no two starts of a process overlap.
OwnAnswer == features \cap {"inject", "overlap"} = {} => AnswersAreOwn

\* And as long as nobody else replaces the process while it reads its context.
ContextFirst ==
    features \cap {"inject", "overlap", "restart", "compact"} = {} => ContextRead

\* Whatever dies, hangs or is replaced meanwhile, a message that was taken never waits for
\* something that does not come: some task, the CLI or a timer goes on until it has ended.
NeverStuck ==
    (\E t \in Turns : turns[t].phase \notin {"new", "ended"})
        => ENABLED Progress \/ Len(insts) = MaxSpawns

=============================================================================
