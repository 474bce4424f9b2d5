----------------------------- MODULE Delegation -----------------------------
(***************************************************************************)
(* Delegated tasks: delegation.py, the delegation half of                  *)
(* routes/delegation.py (dismiss, cleanup, completion hook, reconciler,    *)
(* system wake) and what /api/chat and the Claude provider do with a       *)
(* message for a "deleg-..." session.                                      *)
(*                                                                         *)
(* Three kinds of actors run at once:                                      *)
(*   - executor threads: delegate_task (one per call), the _send thread it *)
(*     starts, and check_task when a tool calls it;                        *)
(*   - the event loop: /api/chat, the provider coroutines, the monitor,    *)
(*     dismiss, check_task when the API or the monitor calls it.  A loop   *)
(*     step ends where its coroutine really suspends; a loop caller that   *)
(*     is inside check_task holds the loop until check_task returns;       *)
(*   - the environment: the model behind a session, the pool, the network, *)
(*     the clock and the process itself.                                   *)
(*                                                                         *)
(* Tasks are numbered in the order their delegate_task calls took their    *)
(* time stamp; the slots of one model and worker are 1..NumSlots and a     *)
(* slot stands for its session "deleg-<model>-<worker>-<slot>".            *)
(***************************************************************************)
EXTENDS Naturals, Sequences, FiniteSets, FiniteSetsExt

CONSTANTS
    NumTasks,     \* how many tasks are ever delegated (bound)
    NumSlots,     \* DELEGATION_MAX_SLOTS
    MaxCrashes,   \* how often the server may go down (bound)
    Features      \* what the environment may do, see AllFeatures

AllFeatures == {
    "concurrent",    \* two delegate_task calls may overlap
    "force",         \* callers pass force=true
    "unmarked",      \* a reply may lack its TASK_DONE line
    "died",          \* a Claude process may die under a run
    "silent",        \* the silence watchdog may give up on a run
    "sendError",     \* a POST to /api/chat may fail before it is handled
    "lostReply",     \* ... or after it was handled
    "poolFull",      \* the process pool may have no room
    "compaction",    \* a run may be compacted between its reply and its end
    "time",          \* tasks grow old
    "apiCheck",      \* GET /api/delegate/check
    "toolCheck",     \* the check_task tool, in an executor thread
    "dismiss",       \* POST /api/delegate/dismiss
    "remoteParent" } \* the parent is not a Claude session

ASSUME DelegationAssumption ==
    /\ NumTasks \in Nat \ {0}
    /\ NumSlots \in Nat \ {0}
    /\ MaxCrashes \in Nat
    /\ Features \subseteq AllFeatures

Tasks == 1 .. NumTasks
Slots == 1 .. NumSlots

Settled == {"completed", "failed", "timed_out", "dismissed"}
InFlight == {"dispatched", "running"}
Statuses == {"none", "dispatch_failed"} \cup InFlight \cup Settled

(***************************************************************************)
(* A run leaves one entry in its session's history: the prompt it was      *)
(* started with, the tasks whose text reached it (its own and those        *)
(* injected in mid-turn), the tasks whose TASK_DONE line the reply holds,  *)
(* and what the reply is: an answer, what a dead process left behind, or   *)
(* the watchdog's text.                                                    *)
(***************************************************************************)
Entry == [prompt : Tasks, given : SUBSET Tasks, marks : SUBSET Tasks,
          kind : {"answer", "died", "silent"}]
NoEntry == [prompt |-> 0, given |-> {}, marks |-> {}, kind |-> "none"]

Checkers == {"api", "monitor", "tool"}
NoCheck == [task |-> 0, status |-> "none", result |-> NoEntry, found |-> NoEntry]

(* How old a task is: 0 up to 600 s, 1 to one hour, 2 to two, 3 older. *)
Ages == 0 .. 3

VARIABLES
    row,       \* delegated_tasks: status and result of every task
    slot,      \* the slot a task was given, 0 before that
    age,       \* how old the task is
    thread,    \* the delegate_task call: where it is, slot tried, task found
    sender,    \* the _send thread of a dispatch
    hist,      \* history of every slot's session
    run,       \* the run a task's message started
    entry,     \* active_tasks of a slot: the run it names, "running" or not
    pooled,    \* slots that have a process in the pool
    log,       \* tasks whose token is in the chat log
    check,     \* check_task calls under way
    mon,       \* the monitor: tasks left in its cycle, their old statuses,
               \* whether it holds the loop
    told,      \* tasks whose end was put in the notification inbox
    cleaning,  \* tasks whose cleanup waits for a notification POST
    server     \* tasks the system wake has yet to look at; the task, or 0,
               \* whose end the loop has saved and not yet told; crashes so
               \* far; and, for the properties alone (nothing reads it), the
               \* tasks whose end somebody saved and nobody told

vars == <<row, slot, age, thread, sender, hist, run, entry, pooled, log,
          check, mon, told, cleaning, server>>

TypeOK ==
    /\ row \in [Tasks -> [status : Statuses, result : Entry \cup {NoEntry}]]
    /\ slot \in [Tasks -> Slots \cup {0}]
    /\ age \in [Tasks -> Ages]
    /\ thread \in [Tasks -> [pc : {"new", "scan", "verify", "clear", "post",
                                   "join", "accepted", "refused", "done"},
                             at : 1 .. NumSlots + 1, found : Tasks \cup {0}]]
    /\ sender \in [Tasks -> {"idle", "posting", "ok", "failed", "loaded", "over"}]
    /\ hist \in [Slots -> Seq(Entry)]
    /\ run \in [Tasks -> [pc : {"none", "starting", "running", "tail", "over",
                                "refused"},
                          given : SUBSET Tasks, killed : BOOLEAN]]
    /\ entry \in [Slots -> [run : Tasks \cup {0}, running : BOOLEAN]]
    /\ pooled \subseteq Slots
    /\ log \subseteq Tasks
    /\ check \in [Checkers -> [task : Tasks \cup {0}, status : Statuses,
                               result : Entry \cup {NoEntry},
                               found : Entry \cup {NoEntry}]]
    /\ mon \in [todo : SUBSET Tasks, old : [Tasks -> Statuses],
                held : BOOLEAN, waits : Tasks \cup {0}]
    /\ told \subseteq Tasks
    /\ cleaning \subseteq Tasks
    /\ server \in [wake : SUBSET Tasks, telling : Tasks \cup {0},
                   crashes : 0 .. MaxCrashes, untold : SUBSET Tasks]

NoRun == [pc |-> "none", given |-> {}, killed |-> FALSE]
IdleMonitor == [todo |-> {}, old |-> [t \in Tasks |-> "none"],
                held |-> FALSE, waits |-> 0]

Init ==
    /\ row = [t \in Tasks |-> [status |-> "none", result |-> NoEntry]]
    /\ slot = [t \in Tasks |-> 0]
    /\ age = [t \in Tasks |-> 0]
    /\ thread = [t \in Tasks |-> [pc |-> "new", at |-> 1, found |-> 0]]
    /\ sender = [t \in Tasks |-> "idle"]
    /\ hist = [s \in Slots |-> <<>>]
    /\ run = [t \in Tasks |-> NoRun]
    /\ entry = [s \in Slots |-> [run |-> 0, running |-> FALSE]]
    /\ pooled = {}
    /\ log = {}
    /\ check = [c \in Checkers |-> NoCheck]
    /\ mon = IdleMonitor
    /\ told = {}
    /\ cleaning = {}
    /\ server = [wake |-> {}, telling |-> 0, crashes |-> 0, untold |-> {}]

-----------------------------------------------------------------------------
(* Reading and writing the task table.  The definitions named Bad... are   *)
(* faulty variants of the one that follows them; nothing uses them but the *)
(* mutants of PROJECT.json.                                                *)

Status(t) == row[t].status

(* Status of row t becomes st, the rest of the row stays (an UPDATE). *)
WithStatus(t, st) == [row EXCEPT ![t].status = st]

InFlightOn(s) == {t \in Tasks : Status(t) \in InFlight /\ slot[t] = s}

BadFindInflight(s) ==
    LET running == {t \in InFlightOn(s) : Status(t) = "running"}
    IN  IF running = {} THEN 0 ELSE Max(running)

(* The youngest in-flight task of a session, 0 if there is none. *)
FindInflight(s) == IF InFlightOn(s) = {} THEN 0 ELSE Max(InFlightOn(s))

(* The loop serves someone new only when nobody is inside a blocking call. *)
LoopFree ==
    /\ check["api"] = NoCheck
    /\ check["monitor"] = NoCheck
    /\ ~mon.held
    /\ server.wake = {} /\ server.telling = 0

(***************************************************************************)
(* The reply check_task takes for task t out of a history: after the last  *)
(* prompt of t, the last reply marked for t, or else the last reply; with  *)
(* no prompt of t, the latest reply of the session whatever it answers.    *)
(***************************************************************************)
ExtractResponse(t, h) ==
    LET anchors == {i \in DOMAIN h : h[i].prompt = t}
        marked == {i \in DOMAIN h : i >= Max(anchors) /\ t \in h[i].marks}
    IN  IF h = <<>> THEN NoEntry
        ELSE IF anchors # {} /\ marked # {} THEN h[Max(marked)]
        ELSE h[Len(h)]

(* What check_task decides for a row it loaded with status st. *)
CheckedStatus(t, st, found) ==
    LET healed == IF /\ st \in {"dispatch_failed", "dispatched"}
                     /\ found # NoEntry \/ t \in log
                  THEN "running" ELSE st
    IN  IF healed \notin InFlight \/ found = NoEntry THEN healed
        ELSE IF t \notin found.marks /\ found.kind = "silent" THEN "failed"
        ELSE "completed"

-----------------------------------------------------------------------------
(* delegate_task, in its own executor thread. *)

ThreadAt(t, pc) == thread[t].pc = pc
Goto(t, pc) == thread' = [thread EXCEPT ![t].pc = pc]

Delegate(t) ==
    /\ LoopFree
    /\ ThreadAt(t, "new")
    /\ \A u \in 1 .. t - 1 : ~ThreadAt(u, "new")
    /\ "concurrent" \in Features \/ \A u \in 1 .. t - 1 : ThreadAt(u, "done")
    /\ Goto(t, "scan")
    /\ UNCHANGED <<row, slot, age, sender, hist, run, entry, pooled, log, check,
                   mon, told, cleaning, server>>

(***************************************************************************)
(* One round of the slot loop: a slot with no in-flight task is taken; one *)
(* whose task has been "dispatched" for more than 600 s has its delivery   *)
(* verified first; otherwise the next slot is tried.  Past the last slot   *)
(* the call ends without a row, or takes slot 1 by force.                  *)
(***************************************************************************)
Scan(t) ==
    /\ ThreadAt(t, "scan")
    /\ LET s == thread[t].at
           found == IF s \in Slots THEN FindInflight(s) ELSE 0
       IN  \/ /\ s \in Slots /\ found = 0
              /\ slot' = [slot EXCEPT ![t] = s]
              /\ Goto(t, "clear")
           \/ /\ found # 0
              /\ IF Status(found) = "dispatched" /\ age[found] >= 1
                 THEN thread' = [thread EXCEPT ![t].pc = "verify", ![t].found = found]
                 ELSE thread' = [thread EXCEPT ![t].at = s + 1]
              /\ UNCHANGED slot
           \/ /\ s \notin Slots
              /\ \/ Goto(t, "done") /\ UNCHANGED slot
                 \/ /\ "force" \in Features
                    /\ slot' = [slot EXCEPT ![t] = 1]
                    /\ Goto(t, "clear")
    /\ UNCHANGED <<row, age, sender, hist, run, entry, pooled, log, check, mon,
                   told, cleaning, server>>

(* After up to five seconds of polling: expire the stale task, by id alone. *)
Verify(t) ==
    /\ ThreadAt(t, "verify")
    /\ IF thread[t].found \in log
       THEN /\ thread' = [thread EXCEPT ![t].pc = "scan", ![t].at = @ + 1]
            /\ UNCHANGED <<row, slot>>
       ELSE /\ row' = WithStatus(thread[t].found, "failed")
            /\ slot' = [slot EXCEPT ![t] = thread[t].at]
            /\ Goto(t, "clear")
    /\ UNCHANGED <<age, sender, hist, run, entry, pooled, log, check, mon, told,
                   cleaning, server>>

(* clear_history, then the capacity check that may end the call early. *)
Clear(t) ==
    /\ ThreadAt(t, "clear")
    /\ hist' = [hist EXCEPT ![slot[t]] = <<>>]
    /\ \/ Goto(t, "post") /\ UNCHANGED row
       \/ /\ "poolFull" \in Features
          /\ row' = WithStatus(t, "dispatch_failed")
          /\ Goto(t, "done")
    /\ UNCHANGED <<slot, age, sender, run, entry, pooled, log, check, mon, told,
                   cleaning, server>>

Dispatch(t) ==
    /\ ThreadAt(t, "post")
    /\ sender' = [sender EXCEPT ![t] = "posting"]
    /\ Goto(t, "join")
    /\ UNCHANGED <<row, slot, age, hist, run, entry, pooled, log, check, mon,
                   told, cleaning, server>>

(* The join returned, on an answer or after ten seconds without one. *)
Join(t) ==
    /\ ThreadAt(t, "join")
    /\ Goto(t, IF sender[t] \in {"posting", "ok"} THEN "accepted" ELSE "refused")
    /\ UNCHANGED <<row, slot, age, sender, hist, run, entry, pooled, log, check,
                   mon, told, cleaning, server>>

BadSaveTask(t) ==
    /\ thread[t].pc \in {"accepted", "refused"}
    /\ row' = WithStatus(t, IF ThreadAt(t, "accepted")
                            THEN "pending" ELSE "dispatch_failed")
    /\ Goto(t, "done")
    /\ UNCHANGED <<slot, age, sender, hist, run, entry, pooled, log, check, mon,
                   told, cleaning, server>>

(* Only now is the row of the task written. *)
SaveTask(t) ==
    /\ thread[t].pc \in {"accepted", "refused"}
    /\ row' = WithStatus(t, IF ThreadAt(t, "accepted")
                            THEN "dispatched" ELSE "dispatch_failed")
    /\ Goto(t, "done")
    /\ UNCHANGED <<slot, age, sender, hist, run, entry, pooled, log, check, mon,
                   told, cleaning, server>>

-----------------------------------------------------------------------------
(* The _send thread. *)

SendError(t) ==
    /\ "sendError" \in Features
    /\ sender[t] = "posting"
    /\ sender' = [sender EXCEPT ![t] = "failed"]
    /\ UNCHANGED <<row, slot, age, thread, hist, run, entry, pooled, log, check,
                   mon, told, cleaning, server>>

(* One second later it loads the row ... *)
SenderLoad(t) ==
    /\ sender[t] = "failed"
    /\ sender' = [sender EXCEPT ![t] = IF Status(t) = "dispatched"
                                       THEN "loaded" ELSE "over"]
    /\ UNCHANGED <<row, slot, age, thread, hist, run, entry, pooled, log, check,
                   mon, told, cleaning, server>>

(* ... and writes it back, whatever has become of it since. *)
SenderSave(t) ==
    /\ sender[t] = "loaded"
    /\ sender' = [sender EXCEPT ![t] = "over"]
    /\ row' = [row EXCEPT ![t] = [status |-> "dispatch_failed", result |-> NoEntry]]
    /\ UNCHANGED <<slot, age, thread, hist, run, entry, pooled, log, check, mon,
                   told, cleaning, server>>

-----------------------------------------------------------------------------
(* The server's side of a dispatch: /api/chat and the Claude provider. *)

NewRun(t) == [pc |-> "starting", given |-> {t}, killed |-> FALSE]
Live(r) == run[r].pc \in {"starting", "running", "tail"}

Reply(t) ==
    \/ sender' = [sender EXCEPT ![t] = "ok"]
    \/ /\ "lostReply" \in Features
       /\ sender' = [sender EXCEPT ![t] = "failed"]

(***************************************************************************)
(* /api/chat handles the POST.  While the session's entry says "running",  *)
(* the text is injected into that run's process, or refused with 409 when  *)
(* there is no process to take it; otherwise a new run starts.  Only the   *)
(* latter writes the text, and so the token, to the chat log.              *)
(***************************************************************************)
ApiChat(t) ==
    /\ LoopFree
    /\ sender[t] = "posting"
    /\ LET s == slot[t]
           r == entry[s].run
       IN  IF entry[s].running /\ Live(r)
           THEN /\ \/ /\ run[r].pc = "running" /\ ~run[r].killed
                      /\ run' = [run EXCEPT ![r].given = @ \cup {t}]
                      /\ Reply(t)
                   \/ /\ run[r].pc # "running" \/ run[r].killed
                      /\ sender' = [sender EXCEPT ![t] = "failed"]
                      /\ UNCHANGED run
                /\ UNCHANGED <<entry, log>>
           ELSE /\ entry' = [entry EXCEPT ![s] = [run |-> t, running |-> TRUE]]
                /\ run' = [run EXCEPT ![t] = NewRun(t)]
                /\ log' = log \cup {t}
                /\ Reply(t)
    /\ UNCHANGED <<row, slot, age, thread, hist, pooled, check, mon, told,
                   cleaning, server>>

(* The coroutine gets its process ... *)
RunStart(t) ==
    /\ LoopFree
    /\ run[t].pc = "starting" /\ ~run[t].killed
    /\ run' = [run EXCEPT ![t].pc = "running"]
    /\ pooled' = pooled \cup {slot[t]}
    /\ UNCHANGED <<row, slot, age, thread, sender, hist, entry, log, check, mon,
                   told, cleaning, server>>

(* ... or finds the pool full and fails whatever is in flight there. *)
RunRefused(t) ==
    /\ "poolFull" \in Features
    /\ LoopFree
    /\ run[t].pc = "starting" /\ ~run[t].killed
    /\ slot[t] \notin pooled
    /\ run' = [run EXCEPT ![t].pc = "refused"]
    /\ row' = [u \in Tasks |-> IF u \in InFlightOn(slot[t])
                               THEN [row[u] EXCEPT !.status = "dispatch_failed"]
                               ELSE row[u]]
    /\ entry' = [entry EXCEPT ![slot[t]].running = FALSE]
    /\ UNCHANGED <<slot, age, thread, sender, hist, pooled, log, check, mon, told,
                   cleaning, server>>

-----------------------------------------------------------------------------
(* The end of a task: notification, cleanup. *)

Suspends == "remoteParent" \in Features

Cleared(s) == [hist EXCEPT ![s] = <<>>]

(* The runs rs after the process session s has in the pool was killed. *)
ProcessKilled(s, rs) ==
    [r \in Tasks |-> IF slot[r] = s /\ rs[r].pc \in {"running", "tail"}
                     THEN [rs[r] EXCEPT !.killed = TRUE] ELSE rs[r]]

(* The history of the task's session is cleared and its process killed. *)
DoCleanup(t) ==
    /\ hist' = Cleared(slot[t])
    /\ run' = ProcessKilled(slot[t], run)
    /\ pooled' = pooled \ {slot[t]}

(* The saved end of t is told next, before the loop serves anybody else. *)
ToTell(t) == server' = [server EXCEPT !.telling = t]

(* The POST to the parent returned: the cleanup it held up. *)
Cleanup(t) ==
    /\ LoopFree
    /\ t \in cleaning
    /\ cleaning' = cleaning \ {t}
    /\ DoCleanup(t)
    /\ mon' = IF mon.waits = t THEN [mon EXCEPT !.waits = 0] ELSE mon
    /\ UNCHANGED <<row, slot, age, thread, sender, entry, log, check, told, server>>

BadCompletionHook(s, h, rs) ==
    LET t == FindInflight(s)
        found == IF t = 0 THEN NoEntry ELSE ExtractResponse(t, h[s])
    IN  /\ hist' = h /\ run' = rs
        /\ row' = IF t # 0 /\ t \in found.marks
                  THEN [row EXCEPT ![t] = [status |-> "completed", result |-> found]]
                  ELSE row
        /\ UNCHANGED server

(***************************************************************************)
(* on_target_run_finished, when a run on session s has ended, the history  *)
(* is h and the runs are rs: the youngest in-flight task there is          *)
(* completed if its response holds its own TASK_DONE line.  The row is     *)
(* committed here; telling it is the next step, Tell.                      *)
(***************************************************************************)
CompletionHook(s, h, rs) ==
    LET t == FindInflight(s)
        found == IF t = 0 THEN NoEntry ELSE ExtractResponse(t, h[s])
    IN  /\ hist' = h /\ run' = rs
        /\ IF t # 0 /\ t \in found.marks
           THEN /\ row' = [row EXCEPT ![t] = [status |-> "completed", result |-> found]]
                /\ ToTell(t)
           ELSE UNCHANGED <<row, server>>

(* How run r may end: what its reply is, the TASK_DONE lines it holds. *)
Endings(r) ==
    {e \in [kind : {"answer", "died", "silent"}, marks : SUBSET run[r].given] :
        /\ e.kind = "answer" =>
              ~run[r].killed /\ ("unmarked" \in Features \/ e.marks = run[r].given)
        /\ e.kind # "answer" => e.marks = {}
        /\ e.kind \in {"died", "silent"} => run[r].killed \/ e.kind \in Features}

(***************************************************************************)
(* The stream of run r ends.  Its reply goes into the history, whatever    *)
(* entry active_tasks has for the session is no longer "running", and the  *)
(* completion hook runs; a compaction may come between the two.            *)
(***************************************************************************)
RunEnd(r) ==
    /\ LoopFree
    /\ run[r].pc = "running"
    /\ \E e \in Endings(r) :
        LET s == slot[r]
            h == [hist EXCEPT ![s] = Append(@, [prompt |-> r, given |-> run[r].given,
                                                marks |-> e.marks, kind |-> e.kind])]
        IN  /\ entry' = [entry EXCEPT ![s].running = FALSE]
            /\ \/ CompletionHook(s, h, [run EXCEPT ![r].pc = "over"])
               \/ /\ "compaction" \in Features /\ e.kind = "answer"
                  /\ hist' = h
                  /\ run' = [run EXCEPT ![r].pc = "tail"]
                  /\ UNCHANGED <<row, server>>
    /\ UNCHANGED <<slot, age, thread, sender, pooled, log, check, mon, told,
                   cleaning>>

RunTail(r) ==
    /\ LoopFree
    /\ run[r].pc = "tail"
    /\ entry' = [entry EXCEPT ![slot[r]].running = FALSE]
    /\ CompletionHook(slot[r], hist, [run EXCEPT ![r].pc = "over"])
    /\ UNCHANGED <<slot, age, thread, sender, pooled, log, check, mon, told,
                   cleaning>>

-----------------------------------------------------------------------------
(* check_task: load the row and the history, look, write the row back. *)

Looked(t, st) == [task |-> t, status |-> st, result |-> row[t].result,
                  found |-> ExtractResponse(t, hist[slot[t]])]

BadCheckedRow(c) ==
    [status |-> CheckedStatus(c.task, c.status, c.found), result |-> c.found]

(* The row a check writes back over whatever the table holds by then. *)
CheckedRow(c) ==
    LET new == CheckedStatus(c.task, c.status, c.found)
    IN  [status |-> new,
         result |-> IF c.status \notin Settled /\ new \in Settled
                    THEN c.found ELSE c.result]

(* The API's call, on the loop, and the tool's, in a thread. *)
CheckLoad(c, t) ==
    /\ \/ c = "api" /\ "apiCheck" \in Features /\ LoopFree
       \/ c = "tool" /\ "toolCheck" \in Features /\ server.wake = {}
    /\ check[c] = NoCheck
    /\ Status(t) # "none"
    /\ check' = [check EXCEPT ![c] = Looked(t, Status(t))]
    /\ UNCHANGED <<row, slot, age, thread, sender, hist, run, entry, pooled, log,
                   mon, told, cleaning, server>>

(* The end a check by hand finds is saved, and nobody is told of it. *)
Ends(c) == c.status \notin Settled /\ CheckedRow(c).status \in Settled

CheckSave(c) ==
    /\ c # "monitor"
    /\ check[c] # NoCheck
    /\ row' = [row EXCEPT ![check[c].task] = CheckedRow(check[c])]
    /\ server' = IF Ends(check[c])
                 THEN [server EXCEPT !.untold = @ \cup {check[c].task}] ELSE server
    /\ check' = [check EXCEPT ![c] = NoCheck]
    /\ UNCHANGED <<slot, age, thread, sender, hist, run, entry, pooled, log, mon,
                   told, cleaning>>

-----------------------------------------------------------------------------
(* The delegation monitor. *)

BadWatched == {t \in Tasks : Status(t) = "running"}

Watched == {t \in Tasks : Status(t) \in InFlight \cup {"dispatch_failed"}}

(* A cycle begins with the rows it will look at and their statuses. *)
MonStart ==
    /\ LoopFree
    /\ mon.todo = {} /\ mon.waits = 0
    /\ Watched # {}
    /\ mon' = [todo |-> Watched, old |-> [t \in Tasks |-> Status(t)],
               held |-> TRUE, waits |-> 0]
    /\ UNCHANGED <<row, slot, age, thread, sender, hist, run, entry, pooled, log,
                   check, told, cleaning, server>>

(* The monitor has the loop: it never let go, or it is its turn again. *)
MonTurn ==
    /\ check["monitor"] = NoCheck
    /\ mon.waits = 0 /\ server.telling = 0
    /\ mon.held \/ LoopFree

(* Done with task t; the loop stays held up to the end of the cycle. *)
MonNext(t) == [mon EXCEPT !.todo = @ \ {t}, !.held = (mon.todo # {t})]

(* More than two hours old: timed out, and nothing else happens to it. *)
MonTimeout ==
    /\ MonTurn
    /\ mon.todo # {}
    /\ LET t == Min(mon.todo)
       IN  /\ age[t] = 3
           /\ row' = WithStatus(t, "timed_out")
           /\ mon' = MonNext(t)
    /\ UNCHANGED <<slot, age, thread, sender, hist, run, entry, pooled, log, check,
                   told, cleaning, server>>

(***************************************************************************)
(* A task seen as "dispatched" is promoted, by id alone, if its token is   *)
(* in the log or its session is active or has a process; then check_task.  *)
(***************************************************************************)
MonVisit ==
    /\ MonTurn
    /\ mon.todo # {}
    /\ LET t == Min(mon.todo)
           s == slot[t]
           promote == /\ mon.old[t] = "dispatched"
                      /\ t \in log \/ entry[s].running \/ s \in pooled
           st == IF promote THEN "running" ELSE Status(t)
       IN  /\ age[t] < 3
           /\ row' = WithStatus(t, st)
           /\ mon' = [mon EXCEPT !.held = TRUE,
                                 !.old[t] = IF promote THEN st ELSE @]
           /\ check' = [check EXCEPT !["monitor"] = Looked(t, st)]
    /\ UNCHANGED <<slot, age, thread, sender, hist, run, entry, pooled, log, told,
                   cleaning, server>>

BadMonSave ==
    /\ check["monitor"] # NoCheck
    /\ row' = [row EXCEPT ![check["monitor"].task] = CheckedRow(check["monitor"])]
    /\ ToTell(check["monitor"].task)
    /\ check' = [check EXCEPT !["monitor"] = NoCheck]
    /\ UNCHANGED <<slot, age, thread, sender, hist, run, entry, pooled, log, mon,
                   told, cleaning>>

(***************************************************************************)
(* check_task committed the row.  A status that is final and new is told   *)
(* next (Tell), and the monitor keeps its place in the list until then.    *)
(***************************************************************************)
MonSave ==
    /\ check["monitor"] # NoCheck
    /\ LET c == check["monitor"]
           t == c.task
           new == CheckedRow(c).status
       IN  /\ row' = [row EXCEPT ![t] = CheckedRow(c)]
           /\ IF /\ new \in {"completed", "failed", "dispatch_failed", "timed_out"}
                 /\ new # mon.old[t]
              THEN ToTell(t) /\ UNCHANGED mon
              ELSE mon' = MonNext(t) /\ UNCHANGED server
    /\ check' = [check EXCEPT !["monitor"] = NoCheck]
    /\ UNCHANGED <<slot, age, thread, sender, hist, run, entry, pooled, log, told,
                   cleaning>>

(***************************************************************************)
(* What the hook and the monitor do about an end they have committed, with *)
(* no other coroutine in between, but threads and a crash may be.  Both    *)
(* notifications, the worker's and the parent's, are put in the inbox      *)
(* (_deliver_or_queue_parent_notification), which is one step here.  For a *)
(* Claude parent the cleanup follows at once, and the monitor lets go of   *)
(* the loop to kill a process; for another one the notification is also    *)
(* POSTed, the cleanup waits for the answer and so does the monitor.       *)
(***************************************************************************)
Tell ==
    /\ server.telling # 0
    /\ LET t == server.telling
       IN  /\ told' = told \cup {t}
           /\ IF Suspends
              THEN cleaning' = cleaning \cup {t} /\ UNCHANGED <<hist, run, pooled>>
              ELSE DoCleanup(t) /\ UNCHANGED cleaning
           /\ mon' = CASE ~mon.held -> mon
                       [] mon.held /\ Suspends ->
                            [MonNext(t) EXCEPT !.held = FALSE, !.waits = t]
                       [] mon.held /\ ~Suspends ->
                            [MonNext(t) EXCEPT !.held = @ /\ slot[t] \notin pooled]
           /\ server' = [server EXCEPT !.telling = 0]
    /\ UNCHANGED <<row, slot, age, thread, sender, entry, log, check>>

-----------------------------------------------------------------------------
BadDismiss(t) ==
    /\ "dismiss" \in Features
    /\ LoopFree
    /\ Status(t) # "none"
    /\ row' = WithStatus(t, "dismissed")
    /\ UNCHANGED <<slot, age, thread, sender, hist, run, entry, pooled, log, check,
                   mon, told, cleaning, server>>

(***************************************************************************)
(* Dismiss: the row, if it is still in flight; then, whatever the row was, *)
(* the run the session's entry names is cancelled and its process          *)
(* restarted.  A run cancelled before it began never reaches its end.      *)
(***************************************************************************)
Dismiss(t) ==
    /\ "dismiss" \in Features
    /\ LoopFree
    /\ Status(t) # "none"
    /\ LET s == slot[t]
           r == entry[s].run
           cancelled == [u \in Tasks |->
                           IF u # r \/ ~Live(u) THEN run[u]
                           ELSE IF run[u].pc = "starting" THEN [run[u] EXCEPT !.pc = "over"]
                           ELSE [run[u] EXCEPT !.killed = TRUE]]
       IN  /\ row' = IF Status(t) \in InFlight THEN WithStatus(t, "dismissed") ELSE row
           /\ entry' = [entry EXCEPT ![s].running = FALSE]
           /\ run' = IF s \in pooled THEN ProcessKilled(s, cancelled) ELSE cancelled
    /\ UNCHANGED <<slot, age, thread, sender, hist, pooled, log, check, mon, told,
                   cleaning, server>>

-----------------------------------------------------------------------------
(* A row that is not settled, a parked one included. *)
IsOpen(t) == Status(t) \notin Settled \cup {"none"}

(* The clock: task t crosses the next of 600 s, one hour, two hours. *)
Tick(t) ==
    /\ "time" \in Features
    /\ age[t] < 3
    /\ IsOpen(t) /\ ThreadAt(t, "done")
    /\ sender[t] \in {"idle", "ok", "over"}
    /\ \A u \in 1 .. t - 1 : IsOpen(u) => age[u] > age[t]
    /\ age' = [age EXCEPT ![t] = @ + 1]
    /\ UNCHANGED <<row, slot, thread, sender, hist, run, entry, pooled, log, check,
                   mon, told, cleaning, server>>

(***************************************************************************)
(* The server goes down: what is left is the database and the chat log.    *)
(* An end that was saved and not told stays so: nobody looks at its row.   *)
(***************************************************************************)
Crash ==
    /\ server.crashes < MaxCrashes
    /\ server' = [wake |-> Watched, telling |-> 0, crashes |-> server.crashes + 1,
                  untold |-> server.untold \cup ({server.telling} \ {0})]
    /\ thread' = [t \in Tasks |-> IF ThreadAt(t, "new") THEN thread[t]
                                  ELSE [thread[t] EXCEPT !.pc = "done"]]
    /\ sender' = [t \in Tasks |-> IF sender[t] = "idle" THEN "idle" ELSE "over"]
    /\ run' = [t \in Tasks |-> IF run[t].pc = "none" THEN NoRun
                               ELSE [run[t] EXCEPT !.pc = "over"]]
    /\ entry' = [s \in Slots |-> [run |-> 0, running |-> FALSE]]
    /\ pooled' = {}
    /\ check' = [c \in Checkers |-> NoCheck]
    /\ mon' = IdleMonitor
    /\ cleaning' = {}
    /\ UNCHANGED <<row, slot, age, hist, log, told>>

BadWakeTask ==
    /\ server.wake # {}
    /\ LET t == Min(server.wake)
       IN  /\ server' = [server EXCEPT !.wake = @ \ {t}]
           /\ IF age[t] = 3
              THEN row' = WithStatus(t, "timed_out") /\ UNCHANGED sender
              ELSE IF Status(t) = "running" \/ age[t] = 2
              THEN UNCHANGED <<row, sender>>
              ELSE /\ row' = WithStatus(t, "dispatched")
                   /\ sender' = [sender EXCEPT ![t] = "posting"]
    /\ UNCHANGED <<slot, age, thread, hist, run, entry, pooled, log, check, mon,
                   told, cleaning>>

(***************************************************************************)
(* The system wake goes through the open rows without letting go of the    *)
(* loop: too old is timed out, a delivered one is promoted, an undelivered *)
(* one is dispatched again.  The loop cannot answer that POST meanwhile,   *)
(* so after ten seconds the dispatch is taken for accepted, unless the     *)
(* POST, whose connection also waits that long, has given up just before.  *)
(***************************************************************************)
WakeTask ==
    /\ server.wake # {}
    /\ LET t == Min(server.wake)
       IN  /\ server' = [server EXCEPT !.wake = @ \ {t}]
           /\ IF age[t] = 3
              THEN row' = WithStatus(t, "timed_out") /\ UNCHANGED sender
              ELSE IF Status(t) = "running" \/ age[t] = 2
              THEN UNCHANGED <<row, sender>>
              ELSE IF t \in log
              THEN row' = WithStatus(t, "running") /\ UNCHANGED sender
              ELSE \/ /\ row' = WithStatus(t, "dispatched")
                      /\ sender' = [sender EXCEPT ![t] = "posting"]
                   \/ /\ "sendError" \in Features
                      /\ row' = WithStatus(t, "dispatch_failed")
                      /\ sender' = [sender EXCEPT ![t] = "failed"]
    /\ UNCHANGED <<slot, age, thread, hist, run, entry, pooled, log, check, mon,
                   told, cleaning>>

-----------------------------------------------------------------------------
ThreadStep(t) ==
    \/ Scan(t) \/ Verify(t) \/ Clear(t) \/ Dispatch(t) \/ Join(t) \/ SaveTask(t)
    \/ SenderLoad(t) \/ SenderSave(t)

LoopStep(t) ==
    \/ ApiChat(t) \/ RunStart(t) \/ RunRefused(t) \/ RunTail(t) \/ Cleanup(t)

MonStep == MonStart \/ MonTimeout \/ MonVisit \/ MonSave

Next ==
    \/ \E t \in Tasks :
        \/ Delegate(t) \/ ThreadStep(t) \/ SendError(t) \/ LoopStep(t) \/ RunEnd(t)
        \/ Dismiss(t) \/ Tick(t)
        \/ \E c \in Checkers : CheckLoad(c, t)
    \/ \E c \in Checkers : CheckSave(c)
    \/ MonStep
    \/ Tell
    \/ WakeTask
    \/ Crash

Spec == Init /\ [][Next]_vars

(***************************************************************************)
(* What the program's own scheduling promises.  Threads run.  The event    *)
(* loop takes its ready callbacks in the order they became ready, so one   *)
(* that is ready again and again is served although other callers hold the *)
(* loop in between: strong fairness.  A run ends, the silence watchdog     *)
(* sees to it, and time passes.  Nobody promises to delegate, check,       *)
(* dismiss or crash.                                                       *)
(***************************************************************************)
Fairness ==
    /\ \A t \in Tasks : WF_vars(ThreadStep(t)) /\ SF_vars(LoopStep(t))
                        /\ SF_vars(RunEnd(t)) /\ WF_vars(Tick(t))
    /\ \A c \in Checkers : WF_vars(CheckSave(c))
    /\ SF_vars(MonStep)
    /\ WF_vars(Tell) /\ WF_vars(WakeTask)

FairSpec == Spec /\ Fairness

(***************************************************************************)
(* A completed task holds an answer of the model, never what a dead or     *)
(* timed-out process left, and the answer of a run that the task's text    *)
(* reached, not that of another task on the same session                   *)
(* (_extract_task_response, _is_timeout_or_error_response, check_task).    *)
(***************************************************************************)
OwnResult ==
    \A t \in Tasks : Status(t) = "completed" =>
        row[t].result.kind = "answer" /\ t \in row[t].result.given

(***************************************************************************)
(* The four writers that write a row, by its id alone, on the strength of  *)
(* something they read in an earlier step: the monitor from its list, a    *)
(* check from the copy it loaded, the _send thread and the verification of *)
(* a stale dispatch from the status they found.                            *)
(***************************************************************************)
LateWrite(t) ==
    \/ t \in mon.todo /\ (MonTimeout \/ MonVisit)
    \/ \E c \in Checkers :
        /\ check[c].task = t
        /\ row[t] # [status |-> check[c].status, result |-> check[c].result]
        /\ MonSave \/ CheckSave(c)
    \/ sender[t] = "loaded" /\ SenderSave(t)
    \/ \E u \in Tasks : thread[u].found = t /\ Verify(u)

(***************************************************************************)
(* Every other writer respects the end of a task: once a row is settled    *)
(* only a late writer, one that read it before, changes its status or its  *)
(* result.  Dismiss, the hook, a refused run, the system wake and a check  *)
(* that loaded the row as it is leave it alone.                            *)
(***************************************************************************)
SettledStays ==
    [][\A t \in Tasks : Status(t) \in Settled => row'[t] = row[t] \/ LateWrite(t)]_vars

(***************************************************************************)
(* What the comment on the hook's UPDATE claims of the race with the       *)
(* monitor: the end of a task stands.  One slot makes it so; with two, a   *)
(* monitor cycle that let go of the loop for a cleanup finds a task of its *)
(* list completed meanwhile, and opens it again.                           *)
(***************************************************************************)
SettledFinal ==
    [][\A t \in Tasks : Status(t) \in Settled => row'[t] = row[t]]_vars

(***************************************************************************)
(* While a task is in flight nothing but the death of the server stops its *)
(* run, and no cleanup and no other delegation clears its reply from the   *)
(* history: kills and cleanups only hit sessions that are done with.       *)
(***************************************************************************)
Answered(t) == \E i \in DOMAIN hist[slot[t]] : t \in hist[slot[t]][i].given

OpenTasksUntouched ==
    [][\A t \in Tasks :
          Status(t) \in InFlight /\ Status(t)' \in InFlight
          => /\ ~run[t].killed => ~run'[t].killed
             /\ slot[t] # 0 /\ Answered(t) => Answered(t)']_vars

(***************************************************************************)
(* A task's message starts at most one run: the system wake sends it again *)
(* only if no run of it was ever started (the token in the chat log).      *)
(***************************************************************************)
NeverRunTwice ==
    [][\A t \in Tasks :
          run[t].pc \notin {"none", "starting"} => run'[t].pc # "starting"]_vars

(***************************************************************************)
(* Whatever becomes of its run, its message or the server, an open task is *)
(* settled in the end, at the latest by the two-hour limit.                *)
(***************************************************************************)
OpenTasksSettle == \A t \in Tasks : IsOpen(t) ~> ~IsOpen(t)

(***************************************************************************)
(* A reply that reached the history of an in-flight task, and a task that  *)
(* is completed, is told: it reaches the notification inbox, through the   *)
(* hook or through the monitor.  Two ends are saved and told to nobody:    *)
(* one that a check by hand finds, and one whose telling a crash prevents. *)
(***************************************************************************)
RepliesAreTold ==
    \A t \in Tasks :
        Status(t) = "completed" \/ (Status(t) \in InFlight /\ slot[t] # 0 /\ Answered(t))
            ~> t \in told \cup server.untold

-----------------------------------------------------------------------------
(***************************************************************************)
(* Delegation as its users see it.  A row in status "dispatch_failed" is   *)
(* parked: check_task, the monitor and the system wake may open it again.  *)
(* A slot counts from the moment the row that names it exists.             *)
(***************************************************************************)
Phase(t) ==
    CASE Status(t) = "none" -> "idle"
      [] Status(t) \in InFlight -> "open"
      [] Status(t) = "dispatch_failed" -> "parked"
      [] Status(t) \in Settled -> "closed"

Users == INSTANCE DelegationContract
    WITH phase <- [t \in Tasks |-> Phase(t)],
         home <- [t \in Tasks |-> IF Status(t) = "none" THEN 0 ELSE slot[t]],
         reported <- told

(* Every step of the code is a step of the contract, or none. *)
Contract == Users!ContractSpec

=============================================================================
