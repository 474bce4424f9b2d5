---------------------------- MODULE PrivilegedHelper ----------------------------
(***************************************************************************)
(* The privileged helper (kukuibot_privileged_helper.py): a daemon that    *)
(* elevates a session by writing a rule file under /etc/sudoers.d and      *)
(* keeps in memory, in elevated_until, when each rule has to go.  Requests *)
(* of the server's client (privileged_client.py) are served one at a time  *)
(* by the main thread; a reaper thread wakes up beside it.  Files survive  *)
(* the daemon, its memory does not: launchd starts it again and it removes *)
(* what an earlier run left.                                               *)
(***************************************************************************)
EXTENDS Naturals

CONSTANTS Sessions,  \* session ids
          FileOf,    \* session -> rule file; two ids may share one
          MaxAsks    \* bound on the requests of a behaviour

VARIABLES elevated_until, \* session -> "none", "live", or "due" once its time is over
          rules,          \* rule files in the directory
          stray,          \* of these, those whose writing ended in an exception
          request,        \* what the main thread serves, and how far it is
          reaper,         \* what the reaper thread has decided, and how far it is
          up,             \* whether the daemon runs
          asks            \* requests so far

vars == <<elevated_until, rules, stray, request, reaper, up, asks>>

Ops == {"status", "elevate", "revoke", "run"}
Nobody == [op |-> "none", sid |-> "none", pc |-> "accept", gone |-> FALSE]
Asleep == [pc |-> "sleep", due |-> {}, sid |-> "none"]

\* Where handle sends an operation first.
FirstStep(op) == CASE op = "elevate" -> "write"
                   [] op = "revoke" -> "forget"
                   [] OTHER -> "check"

Path == FileOf[request.sid]
At(pc) == up /\ request.pc = pc
Goto(pc) == request' = [request EXCEPT !.pc = pc]

Init == /\ elevated_until = [s \in Sessions |-> "none"]
        /\ rules = {}
        /\ stray = {}
        /\ request = Nobody
        /\ reaper = Asleep
        /\ up = TRUE
        /\ asks = 0

----------------------------------------------------------------------------
\* The clock.

TimeIsUp(s) ==
    /\ up
    /\ elevated_until[s] = "live"
    /\ elevated_until' = [elevated_until EXCEPT ![s] = "due"]
    /\ UNCHANGED <<rules, stray, request, reaper, up, asks>>

----------------------------------------------------------------------------
\* The client: one request at a time, because the server's handlers wait for
\* the answer on its event loop, each with a time-out of its own.

Ask(s, op) ==
    /\ At("accept") /\ asks < MaxAsks
    /\ asks' = asks + 1
    /\ request' = [op |-> op, sid |-> s, pc |-> FirstStep(op), gone |-> FALSE]
    /\ UNCHANGED <<elevated_until, rules, stray, reaper, up>>

GiveUp ==
    /\ up /\ request.pc # "accept" /\ ~request.gone
    /\ request' = [request EXCEPT !.gone = TRUE]
    /\ UNCHANGED <<elevated_until, rules, stray, reaper, up, asks>>

----------------------------------------------------------------------------
\* The main thread.

\* _is_elevated: an entry that is due goes at once, its rule in the next step.
Check ==
    /\ At("check")
    /\ LET s == request.sid IN
       IF elevated_until[s] = "due"
       THEN elevated_until' = [elevated_until EXCEPT ![s] = "none"] /\ Goto("unlink")
       ELSE /\ Goto(IF request.op = "run" /\ elevated_until[s] = "live" THEN "act" ELSE "answer")
            /\ UNCHANGED elevated_until
    /\ UNCHANGED <<rules, stray, reaper, up, asks>>

\* _run_action: the command runs; unless it was refused or raised, the answer
\* asks _is_elevated again, as a status request would.
Act ==
    /\ At("act")
    /\ \/ Goto("answer")
       \/ request' = [request EXCEPT !.op = "status", !.pc = "check"]
    /\ UNCHANGED <<elevated_until, rules, stray, reaper, up, asks>>

\* _elevate, first step of _write_sudoers.
Write ==
    /\ At("write")
    /\ rules' = rules \cup {Path}
    /\ stray' = stray \ {Path}
    /\ Goto("validate")
    /\ UNCHANGED <<elevated_until, reaper, up, asks>>

\* The rest of _write_sudoers: the mode and visudo's verdict.  A rejected file
\* is removed; an exception (visudo missing, or silent for five seconds) passes
\* by that removal.
Validate ==
    /\ At("validate")
    /\ \/ Goto("grant") /\ UNCHANGED <<rules, stray>>
       \/ Goto("answer") /\ rules' = rules \ {Path} /\ UNCHANGED stray
       \/ Goto("answer") /\ stray' = stray \cup (rules \cap {Path}) /\ UNCHANGED rules
    /\ UNCHANGED <<elevated_until, reaper, up, asks>>

Grant ==
    /\ At("grant")
    /\ elevated_until' = [elevated_until EXCEPT ![request.sid] = "live"]
    /\ Goto("answer")
    /\ UNCHANGED <<rules, stray, reaper, up, asks>>

\* _revoke: the entry goes first.
Forget ==
    /\ At("forget")
    /\ elevated_until' = [elevated_until EXCEPT ![request.sid] = "none"]
    /\ Goto("unlink")
    /\ UNCHANGED <<rules, stray, reaper, up, asks>>

\* _remove_sudoers, called by _revoke and _is_elevated.
Unlink ==
    /\ At("unlink")
    /\ rules' = rules \ {Path}
    /\ stray' = stray \ {Path}
    /\ Goto("answer")
    /\ UNCHANGED <<elevated_until, reaper, up, asks>>

Answer ==
    /\ At("answer") /\ ~request.gone
    /\ request' = Nobody
    /\ UNCHANGED <<elevated_until, rules, stray, reaper, up, asks>>

----------------------------------------------------------------------------
\* The reaper thread: a decision about every entry, then one at a time the
\* entry and its file.

ReapDecide ==
    /\ up /\ reaper.pc = "sleep"
    /\ LET due == {s \in Sessions : elevated_until[s] = "due"} IN
       due # {} /\ reaper' = [reaper EXCEPT !.pc = "pop", !.due = due]
    /\ UNCHANGED <<elevated_until, rules, stray, request, up, asks>>

ReapPop(s) ==
    /\ up /\ reaper.pc = "pop" /\ s \in reaper.due
    /\ elevated_until' = [elevated_until EXCEPT ![s] = "none"]
    /\ reaper' = [pc |-> "unlink", due |-> reaper.due \ {s}, sid |-> s]
    /\ UNCHANGED <<rules, stray, request, up, asks>>

ReapUnlink ==
    /\ up /\ reaper.pc = "unlink"
    /\ rules' = rules \ {FileOf[reaper.sid]}
    /\ stray' = stray \ {FileOf[reaper.sid]}
    /\ reaper' = IF reaper.due = {} THEN Asleep
                 ELSE [reaper EXCEPT !.pc = "pop", !.sid = "none"]
    /\ UNCHANGED <<elevated_until, request, up, asks>>

----------------------------------------------------------------------------
\* The daemon.

\* It is killed; or, and then nothing else can follow, it answers a client that
\* has given up: sendall raises outside the handler's try and ends serve_forever.
Die ==
    /\ up
    /\ up' = FALSE
    /\ elevated_until' = [s \in Sessions |-> "none"]
    /\ request' = Nobody
    /\ reaper' = Asleep
    /\ UNCHANGED <<rules, stray, asks>>

BadLeftovers == {}
\* _cleanup_stale_sudoers: what an earlier run left in the directory.
Leftovers == rules

Start ==
    /\ ~up
    /\ up' = TRUE
    /\ rules' = rules \ Leftovers
    /\ stray' = {}
    /\ UNCHANGED <<elevated_until, request, reaper, asks>>

Next == \/ \E s \in Sessions : TimeIsUp(s) \/ ReapPop(s)
        \/ \E s \in Sessions, op \in Ops : Ask(s, op)
        \/ GiveUp \/ Check \/ Act \/ Write \/ Validate \/ Grant \/ Forget \/ Unlink \/ Answer
        \/ ReapDecide \/ ReapUnlink
        \/ Die \/ Start

Spec == Init /\ [][Next]_vars

----------------------------------------------------------------------------
\* State of the expected types, where a thread is busy only while the daemon runs.
TypeOK ==
    /\ elevated_until \in [Sessions -> {"none", "live", "due"}]
    /\ rules \subseteq {FileOf[s] : s \in Sessions}
    /\ stray \subseteq rules
    /\ \/ request = Nobody
       \/ request \in [op : Ops, sid : Sessions, gone : BOOLEAN,
             pc : {"check", "act", "write", "validate", "grant", "forget", "unlink", "answer"}]
    /\ reaper \in [pc : {"sleep", "pop", "unlink"}, due : SUBSET Sessions, sid : Sessions \cup {"none"}]
    /\ reaper.pc = "unlink" => reaper.sid \in Sessions
    /\ up \in BOOLEAN
    /\ asks \in 0..MaxAsks

\* No elevation outlives the bookkeeping that would end it: while the daemon
\* runs, every rule file is due to be removed by the entry of a session that
\* uses it or by a thread that is about to settle it, whatever order the reaper
\* and the main thread take; but for a file whose validation raised, which
\* stays until it is written again, revoked, or the daemon starts anew.
RuleHasRemover ==
    up => \A f \in rules :
        \/ \E s \in Sessions : FileOf[s] = f /\ elevated_until[s] # "none"
        \/ request.pc \in {"validate", "grant", "unlink"} /\ Path = f
        \/ reaper.pc = "unlink" /\ FileOf[reaper.sid] = f
        \/ f \in stray
=============================================================================
