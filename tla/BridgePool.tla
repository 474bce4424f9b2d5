------------------------------- MODULE BridgePool -------------------------------
(***************************************************************************)
(* How the server keeps one bridge process per worker (routes/bridge.py),  *)
(* for one worker and its port: requests look for a registered process,    *)
(* then for one that answers on the port, then start one under the         *)
(* worker's lock.  A graceful shutdown waits for the requests and stops    *)
(* what is registered; a server that crashes leaves its bridges to the     *)
(* next one, which finds them on the port.                                 *)
(***************************************************************************)
EXTENDS Naturals, Sequences

CONSTANTS Requests, MaxKids, MaxFaults \* the last two bound a behaviour

VARIABLES kids,   \* every bridge process: [alive, serving, server]
          reg,    \* _BRIDGE_PROCESSES[worker]: a process, 0 if none
          lock,   \* holder of _BRIDGE_SPAWN_LOCKS[worker], or "none"
          at,     \* request -> where it is
          own,    \* request -> the process it has started
          server, \* which server process is running
          state,  \* "up", "stopping", "down"
          faults

vars == <<kids, reg, lock, at, own, server, state, faults>>

Kids == DOMAIN kids
Goto(r, l) == at' = [at EXCEPT ![r] = l]
Faulty == faults < MaxFaults /\ faults' = faults + 1
Running == reg # 0 /\ kids[reg].alive
Served == \E k \in Kids : kids[k].alive /\ kids[k].serving
Waiting == {"new", "ok", "refused"}

Init == /\ kids = <<>> /\ reg = 0 /\ lock = "none"
        /\ at = [r \in Requests |-> "new"] /\ own = [r \in Requests |-> 0]
        /\ server = 1 /\ state = "up" /\ faults = 0

----------------------------------------------------------------------------
\* _ensure_bridge.

Ask(r) ==
    /\ state = "up" /\ at[r] = "new"
    /\ Goto(r, IF Running THEN "ok" ELSE "probe")
    /\ UNCHANGED <<kids, reg, lock, own, server, state, faults>>

\* _check_bridge_external: anything healthy on the port will do.
Probe(r) ==
    /\ at[r] = "probe"
    /\ \/ Served /\ Goto(r, "ok") /\ UNCHANGED faults
       \/ (IF Served THEN Faulty ELSE UNCHANGED faults) /\ Goto(r, "lock")
    /\ UNCHANGED <<kids, reg, lock, own, server, state>>

Leave(r, l) == Goto(r, l) /\ lock' = "none"

BadFree == TRUE
Free == lock = "none"

Lock(r) ==
    /\ at[r] = "lock" /\ Free
    /\ IF Running THEN Goto(r, "ok") /\ UNCHANGED lock
       ELSE Goto(r, "again") /\ lock' = r
    /\ UNCHANGED <<kids, reg, own, server, state, faults>>

ProbeAgain(r) ==
    /\ at[r] = "again"
    /\ \/ Served /\ Leave(r, "ok") /\ UNCHANGED faults
       \/ /\ IF Served THEN Faulty ELSE UNCHANGED faults
          /\ IF Running THEN Leave(r, "ok") ELSE Goto(r, "spawn") /\ UNCHANGED lock
    /\ UNCHANGED <<kids, reg, own, server, state>>

\* _spawn_bridge: the process is registered when it has been started.
Spawn(r) ==
    /\ at[r] = "spawn"
    /\ \/ /\ Len(kids) < MaxKids
          /\ kids' = Append(kids, [alive |-> TRUE, serving |-> FALSE, server |-> server])
          /\ reg' = Len(kids')
          /\ own' = [own EXCEPT ![r] = reg']
          /\ Goto(r, "wait")
          /\ UNCHANGED <<lock, faults>>
       \/ Faulty /\ Leave(r, "refused") /\ UNCHANGED <<kids, reg, own>>
    /\ UNCHANGED <<server, state>>

\* Fifteen seconds for it to become healthy, or another that has the port; one
\* that is not stays registered, one that has exited does not.
Wait(r) ==
    /\ at[r] = "wait"
    /\ LET k == own[r] IN
       \/ ~kids[k].alive /\ Leave(r, "refused") /\ reg' = 0 /\ UNCHANGED faults
       \/ kids[k].alive /\ Served /\ Leave(r, "ok") /\ UNCHANGED <<reg, faults>>
       \/ kids[k].alive /\ Faulty /\ Leave(r, "refused") /\ UNCHANGED reg
    /\ UNCHANGED <<kids, own, server, state>>

\* A request that was proxied, or answered 502, may come again.
Finish(r) ==
    /\ at[r] \in {"ok", "refused"}
    /\ Goto(r, "new")
    /\ own' = [own EXCEPT ![r] = 0]
    /\ UNCHANGED <<kids, reg, lock, server, state, faults>>

----------------------------------------------------------------------------
\* The bridge processes.

\* The port can be had by one of them; who does not get it exits.
Bind(k) ==
    /\ kids[k].alive /\ ~kids[k].serving
    /\ kids' = IF Served THEN [kids EXCEPT ![k].alive = FALSE] ELSE [kids EXCEPT ![k].serving = TRUE]
    /\ UNCHANGED <<reg, lock, at, own, server, state, faults>>

Ended(k) == kids' = [kids EXCEPT ![k].alive = FALSE, ![k].serving = FALSE]

Die(k) ==
    /\ kids[k].alive /\ Faulty
    /\ Ended(k)
    /\ UNCHANGED <<reg, lock, at, own, server, state>>

----------------------------------------------------------------------------
\* The server: shutdown_bridges, and a crash.

Shutdown ==
    /\ state = "up" /\ Faulty
    /\ \A r \in Requests : at[r] \in Waiting
    /\ state' = "stopping"
    /\ UNCHANGED <<kids, reg, lock, at, own, server>>

\* _stop_bridge: terminated, or killed after five seconds.
Stop ==
    /\ state = "stopping"
    /\ IF reg # 0 THEN Ended(reg) ELSE UNCHANGED kids
    /\ reg' = 0
    /\ state' = "down"
    /\ UNCHANGED <<lock, at, own, server, faults>>

Crash ==
    /\ state = "up" /\ Faulty
    /\ reg' = 0 /\ lock' = "none"
    /\ at' = [r \in Requests |-> "new"] /\ own' = [r \in Requests |-> 0]
    /\ server' = server + 1
    /\ UNCHANGED <<kids, state>>

Start ==
    /\ state = "down"
    /\ state' = "up" /\ server' = server + 1
    /\ UNCHANGED <<kids, reg, lock, at, own, faults>>

Next == \/ \E r \in Requests : Ask(r) \/ Probe(r) \/ Lock(r) \/ ProbeAgain(r) \/ Spawn(r) \/ Wait(r) \/ Finish(r)
        \/ \E k \in Kids : Bind(k) \/ Die(k)
        \/ Shutdown \/ Stop \/ Crash \/ Start

Spec == Init /\ [][Next]_vars

----------------------------------------------------------------------------
\* State of the expected types; a request that starts a process holds the lock.
TypeOK ==
    /\ \A k \in Kids : kids[k] \in [alive : BOOLEAN, serving : BOOLEAN, server : 1..server]
    /\ reg \in 0..Len(kids) /\ lock \in Requests \cup {"none"}
    /\ at \in [Requests -> Waiting \cup {"probe", "lock", "again", "spawn", "wait"}]
    /\ \A r \in Requests : at[r] \in {"again", "spawn", "wait"} <=> lock = r
    /\ own \in [Requests -> 0..Len(kids)]
    /\ state \in {"up", "stopping", "down"} /\ faults \in 0..MaxFaults

\* A server that was shut down leaves none of the bridges it has started behind,
\* however its requests, their starts and time-outs crossed.
NoneLeft == state = "down" => \A k \in Kids : kids[k].server = server => ~kids[k].alive
=============================================================================
