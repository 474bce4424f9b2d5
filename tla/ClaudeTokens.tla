------------------------------ MODULE ClaudeTokens ------------------------------
(***************************************************************************)
(* The OAuth tokens of the Claude processes: the credentials file that the *)
(* CLI and the server both write, the copy in the server's configuration,  *)
(* the sign-in whose callback a thread of its own answers, the monitor     *)
(* that refreshes a token before it expires, and the processes, which      *)
(* refresh before they start and after an authentication error.            *)
(*                                                                         *)
(* A token stands for the pair the service issued with it and is numbered  *)
(* in the order of issue, which is also the order of expiry; 0 is none. A  *)
(* synchronous stretch of the event loop is one step.                      *)
(***************************************************************************)
EXTENDS Naturals, Sequences

CONSTANTS
    Procs,        \* the processes of the pool
    Flows,        \* sign-ins that have been started in a browser
    MaxTokens,    \* bound on the tokens issued
    MaxFaults     \* bound on failed requests and writes, time-outs and crashes

Refreshers == Procs \cup {"monitor"}

VARIABLES
    issued,     \* the tokens issued so far: account and age
    good,       \* refresh tokens the service still accepts
    file,       \* ~/.claude/.credentials.json
    db,         \* claude_code.* in the configuration
    strategy,   \* where the processes of the pool take their token from
    proc,       \* each process: where it is and the token it was started with
    ask,        \* each refresher's call of refresh_cli_oauth_token
    flow,       \* each sign-in
    last,       \* account of the last sign-in to reach the file (history)
    crossed,    \* a sign-in overlapped another or a refresh or start, was pasted over, or did not
                \* reach the file (history)
    lost,       \* an answer of the service did not reach the file, or a copy was stale (history)
    faults

vars == <<issued, good, file, db, strategy, proc, ask, flow, last, crossed, lost, faults>>

Tokens == 0..MaxTokens
NotAsking == [at |-> "idle", held |-> 0, old |-> 0, got |-> 0, again |-> FALSE]
Dead == [at |-> "dead", token |-> 0]
NewFlow == [at |-> "waiting", token |-> 0]

TypeOK ==
    /\ issued \in Seq([account : Nat, age : {"fresh", "hour", "gone"}]) /\ Len(issued) \in Tokens
    /\ good \subseteq Tokens
    /\ file \in [access : Tokens, refresh : Tokens]
    /\ db \in [access : Tokens, refresh : Tokens, expires : Tokens]
    /\ strategy \in {"configured", "local"}
    /\ proc \in [Procs -> [at : {"dead", "checking", "starting", "up", "failed"}, token : Tokens]]
    /\ ask \in [Refreshers -> [at : {"idle", "asked", "answered", "cli", "done", "failed", "waiting"},
                               held : Tokens, old : Tokens, got : Tokens, again : BOOLEAN]]
    /\ flow \in [Flows -> [at : {"waiting", "saving", "writing", "recycling", "over"}, token : Tokens]]
    /\ last \in Nat /\ crossed \in BOOLEAN /\ lost \in BOOLEAN /\ faults \in 0..MaxFaults

Init == /\ issued = <<>> /\ good = {} /\ file = [access |-> 0, refresh |-> 0]
        /\ db = [access |-> 0, refresh |-> 0, expires |-> 0] /\ strategy = "configured"
        /\ proc = [p \in Procs |-> Dead] /\ ask = [r \in Refreshers |-> NotAsking]
        /\ flow = [f \in Flows |-> NewFlow]
        /\ last = 0 /\ crossed = FALSE /\ lost = FALSE /\ faults = 0

----------------------------------------------------------------------------
\* The service (external).

Age(t) == IF t = 0 THEN "gone" ELSE issued[t].age
Account(t) == IF t = 0 THEN 0 ELSE issued[t].account
Next1 == Len(issued) + 1

Issue(account) == /\ Next1 <= MaxTokens
                  /\ issued' = Append(issued, [account |-> account, age |-> "fresh"])

Fault == faults < MaxFaults /\ faults' = faults + 1

\* Time passes for a token and all those before it: hours, while a
\* request to the service takes seconds.
Older == /\ \A r \in Refreshers : ask[r].at \notin {"asked", "answered"}
         /\ \A f \in Flows : flow[f].at \notin {"saving", "writing"}
         /\ \E t \in 1..Len(issued), age \in {"hour", "gone"} :
               /\ issued[t].age = (IF age = "hour" THEN "fresh" ELSE "hour")
               /\ issued' = [u \in 1..Len(issued) |->
                                IF u > t \/ issued[u].age = "gone" THEN issued[u]
                                ELSE [issued[u] EXCEPT !.age = age]]
         /\ UNCHANGED <<good, file, db, strategy, proc, ask, flow, last, crossed, lost, faults>>

\* "claude login" in a terminal writes the file, and nothing else: the server keeps
\* the processes it has.
CliLogin ==
    /\ Issue(Next1) /\ good' = good \cup {Next1} /\ last' = Next1
    /\ file' = [access |-> Next1, refresh |-> Next1]
    /\ crossed' = (crossed \/ (\E r \in Refreshers : ask[r].at # "idle") \/ (\E p \in Procs : proc[p].at # "dead")
                          \/ \E f \in Flows : flow[f].at \notin {"waiting", "over"})
    /\ UNCHANGED <<db, strategy, proc, ask, flow, lost, faults>>

\* A CLI that finds its token expired refreshes the file by itself.
CliRefreshed == /\ file.refresh \in good /\ Age(file.access) # "fresh"
                /\ Issue(Account(file.refresh)) /\ good' = (good \ {file.refresh}) \cup {Next1}
                /\ file' = [access |-> Next1, refresh |-> Next1]

----------------------------------------------------------------------------
\* refresh_cli_oauth_token.

\* The refresh token of the file, or that of the configuration.
ToSend == IF file.refresh # 0 THEN file.refresh ELSE db.refresh

Asking(r) == [ask EXCEPT ![r].at = IF ToSend # 0 THEN "asked" ELSE "cli", ![r].held = ToSend,
                         ![r].old = file.access]

\* The service answers with a new pair, and accepts the old refresh token no more.
Granted(r) ==
    /\ ask[r].at = "asked" /\ ask[r].held \in good /\ Issue(Account(ask[r].held))
    /\ good' = (good \ {ask[r].held}) \cup {Next1}
    /\ ask' = [ask EXCEPT ![r].at = "answered", ![r].got = Next1]
    /\ UNCHANGED <<file, db, strategy, proc, flow, last, crossed, lost, faults>>

\* Refused, or unreachable: a throwaway CLI is tried.
Refused(r) ==
    /\ ask[r].at = "asked"
    /\ IF ask[r].held \in good THEN Fault ELSE UNCHANGED faults
    /\ ask' = [ask EXCEPT ![r].at = "cli"]
    /\ UNCHANGED <<issued, good, file, db, strategy, proc, flow, last, crossed, lost>>

\* The connection breaks when the service has answered already.
AnswerLost(r) ==
    /\ ask[r].at = "answered" /\ Fault /\ lost' = TRUE
    /\ ask' = [ask EXCEPT ![r].at = "cli", ![r].got = 0]
    /\ UNCHANGED <<issued, good, file, db, strategy, proc, flow, last, crossed>>

BadWritten(r) == [access |-> ask[r].got, refresh |-> ask[r].held]
\* The answer is written over whatever the file holds by now.
Written(r) == [access |-> ask[r].got, refresh |-> ask[r].got]

\* The CLI has run, and may have refreshed the file, also when it then hangs and is killed.
CliRuns(r) ==
    /\ ask[r].at = "cli"
    /\ \/ ask' = [ask EXCEPT ![r].at = "done"] /\ UNCHANGED faults
       \/ ask' = [ask EXCEPT ![r].at = "failed"] /\ Fault
    /\ \/ CliRefreshed
       \/ UNCHANGED <<issued, good, file>>
    /\ UNCHANGED <<db, strategy, proc, flow, last, crossed, lost>>

\* What the call returns: the service has given a new token, or the file has a later one.
Over(r) == ask[r].at \in {"answered", "done", "failed"}
Succeeded(r) == ask[r].at = "answered" \/ (ask[r].at = "done" /\ file.access > ask[r].old)
NewToken(r) == IF ask[r].at = "answered" THEN ask[r].got ELSE file.access

\* An answer is written before the call returns.  That the file could not be written is
\* logged, and the call has succeeded all the same.
Returned(r) ==
    \/ file' = (IF ask[r].at = "answered" THEN Written(r) ELSE file) /\ UNCHANGED <<lost, faults>>
    \/ ask[r].at = "answered" /\ Fault /\ lost' = TRUE /\ UNCHANGED file

----------------------------------------------------------------------------
\* A process of the pool: it refreshes an expiring token before it starts, starts
\* with the token of the file or else of the configuration, and refreshes again
\* after an authentication error.

Ensure(p) ==
    /\ proc[p].at = "dead"
    /\ \/ /\ file.access # 0 /\ Age(file.access) = "gone" /\ ask' = Asking(p)
          /\ proc' = [proc EXCEPT ![p].at = "checking"] /\ UNCHANGED db
       \/ /\ (file.access = 0 \/ Age(file.access) # "gone") /\ UNCHANGED ask
          /\ LET valid == Age(file.access) # "gone" IN
             /\ db' = IF valid /\ strategy = "configured" THEN [db EXCEPT !.access = file.access] ELSE db
             /\ proc' = [proc EXCEPT ![p] =
                    [at |-> "starting",
                     token |-> IF strategy = "local" THEN 0 ELSE IF valid THEN file.access ELSE db.access]]
    /\ UNCHANGED <<issued, good, file, strategy, flow, last, crossed, lost, faults>>

Checked(p) ==
    /\ proc[p].at = "checking" /\ Over(p)
    /\ Returned(p) /\ ask' = [ask EXCEPT ![p] = NotAsking]
    /\ LET valid == Age(file'.access) # "gone" IN
       /\ db' = IF valid /\ strategy = "configured" THEN [db EXCEPT !.access = file'.access] ELSE db
       /\ proc' = [proc EXCEPT ![p] =
              [at |-> "starting",
               token |-> IF strategy = "local" THEN 0 ELSE IF valid THEN file'.access ELSE db.access]]
    /\ UNCHANGED <<issued, good, strategy, flow, last, crossed>>

Started(p) ==
    /\ proc[p].at = "starting" /\ proc' = [proc EXCEPT ![p].at = "up"]
    /\ UNCHANGED <<issued, good, file, db, strategy, ask, flow, last, crossed, lost, faults>>

\* Its own token has expired: the process ends. The third failure within ten
\* minutes is not followed by a refresh.
AuthFails(p) ==
    /\ proc[p].at = "up" /\ proc[p].token # 0 /\ Age(proc[p].token) = "gone"
    /\ \/ proc' = [proc EXCEPT ![p].at = "failed"] /\ ask' = Asking(p)
       \/ proc' = [proc EXCEPT ![p] = Dead] /\ UNCHANGED ask
    /\ UNCHANGED <<issued, good, file, db, strategy, flow, last, crossed, lost, faults>>

Recovered(p) ==
    /\ proc[p].at = "failed" /\ Over(p)
    /\ Returned(p) /\ ask' = [ask EXCEPT ![p] = NotAsking]
    /\ proc' = [proc EXCEPT ![p] = Dead]
    /\ UNCHANGED <<issued, good, db, strategy, flow, last, crossed>>

\* With the local strategy the process keeps the file fresh itself.
RefreshesItself(p) ==
    /\ proc[p].at = "up" /\ proc[p].token = 0 /\ CliRefreshed
    /\ UNCHANGED <<db, strategy, proc, ask, flow, last, crossed, lost, faults>>

----------------------------------------------------------------------------
\* The monitor, every five minutes: the expiry of the file, or else of the
\* configuration; a file without refresh token gets the configured pair first.

Expiring == IF file.access # 0 THEN file.access ELSE db.expires

Completed == IF file.refresh = 0 /\ db.refresh # 0 /\ db.access # 0
             THEN [access |-> db.access, refresh |-> db.refresh] ELSE file

MonitorChecks ==
    /\ ask["monitor"].at = "idle" /\ Expiring # 0 /\ Age(Expiring) # "fresh"
    /\ \/ file' = Completed /\ UNCHANGED faults
       \/ Completed # file /\ Fault /\ UNCHANGED file
    /\ lost' = (lost \/ (file' # file /\ db.refresh \notin good))
    /\ LET send == IF file'.refresh # 0 THEN file'.refresh ELSE db.refresh IN
       ask' = [ask EXCEPT !["monitor"].at = IF send # 0 THEN "asked" ELSE "cli",
                          !["monitor"].held = send, !["monitor"].old = file'.access]
    /\ UNCHANGED <<issued, good, db, strategy, proc, flow, last, crossed>>

\* A success is copied to the configuration, as far as the file shows it, and the running
\* processes are ended; a failure is tried once more.
MonitorEnds ==
    /\ Over("monitor") /\ Returned("monitor")
    /\ IF Succeeded("monitor")
       THEN /\ db' = [access |-> NewToken("monitor"),
                      expires |-> IF file'.access # 0 THEN file'.access ELSE db.expires,
                      refresh |-> IF file'.refresh # 0 THEN file'.refresh ELSE db.refresh]
            /\ proc' = [p \in Procs |-> IF proc[p].at = "up" THEN Dead ELSE proc[p]]
       ELSE UNCHANGED <<db, proc>>
    /\ ask' = [ask EXCEPT !["monitor"] = IF Succeeded("monitor") \/ @.again THEN NotAsking
                                         ELSE [NotAsking EXCEPT !.at = "waiting"]]
    /\ UNCHANGED <<issued, good, strategy, flow, last, crossed>>

\* Thirty seconds later.
MonitorRetries ==
    /\ ask["monitor"].at = "waiting"
    /\ ask' = [Asking("monitor") EXCEPT !["monitor"].again = TRUE]
    /\ UNCHANGED <<issued, good, file, db, strategy, proc, flow, last, crossed, lost, faults>>

----------------------------------------------------------------------------
\* The sign-in: the callback's thread exchanges the code, saves the tokens in the
\* configuration, writes the file, and ends the processes of the pool.

Busy == \/ \E r \in Refreshers : ask[r].at # "idle"
        \/ \E p \in Procs : proc[p].at = "starting"

Exchanged(f) ==
    /\ flow[f].at = "waiting" /\ Issue(Next1) /\ good' = good \cup {Next1}
    /\ flow' = [flow EXCEPT ![f] = [at |-> "saving", token |-> Next1]]
    /\ UNCHANGED <<file, db, strategy, proc, ask, last, crossed, lost, faults>>

\* An error, another state, no code, a refusal, or five minutes without callback.
FlowFails(f) ==
    /\ flow[f].at = "waiting" /\ Fault /\ flow' = [flow EXCEPT ![f].at = "over"]
    /\ UNCHANGED <<issued, good, file, db, strategy, proc, ask, last, crossed, lost>>

Saved(f) ==
    /\ flow[f].at = "saving" /\ flow' = [flow EXCEPT ![f].at = "writing"]
    /\ db' = [access |-> flow[f].token, refresh |-> flow[f].token, expires |-> flow[f].token]
    /\ crossed' = (crossed \/ Busy \/ \E g \in Flows \ {f} : flow[g].at = "writing")
    /\ UNCHANGED <<issued, good, file, strategy, proc, ask, last, lost, faults>>

\* A file that cannot be written goes unnoticed.
FileWritten(f) ==
    /\ flow[f].at = "writing" /\ flow' = [flow EXCEPT ![f].at = "recycling"]
    /\ strategy' = "configured"
    /\ \/ /\ file' = [access |-> flow[f].token, refresh |-> flow[f].token]
          /\ last' = Account(flow[f].token)
          /\ crossed' = (crossed \/ Busy \/ db.access # flow[f].token)
          /\ lost' = (lost \/ flow[f].token \notin good)
          /\ UNCHANGED faults
       \/ Fault /\ crossed' = TRUE /\ UNCHANGED <<file, last, lost>>
    /\ UNCHANGED <<issued, good, db, proc, ask>>

Recycled(f) ==
    /\ flow[f].at = "recycling" /\ flow' = [flow EXCEPT ![f].at = "over"]
    /\ proc' = [p \in Procs |-> IF proc[p].at = "up" THEN Dead ELSE proc[p]]
    /\ UNCHANGED <<issued, good, file, db, strategy, ask, last, crossed, lost, faults>>

\* The settings page: a pasted token, or none, replaces the configured one; the
\* strategy is for processes that start from now on.
Configure(s) ==
    /\ strategy' = s
    /\ \/ /\ (strategy # s \/ db.access # 0) /\ db' = [db EXCEPT !.access = 0]
          /\ UNCHANGED <<issued, crossed>>
       \/ Issue(Next1) /\ db' = [db EXCEPT !.access = Next1] /\ crossed' = TRUE
    /\ UNCHANGED <<good, file, proc, ask, flow, last, lost, faults>>

\* The server ends, and its processes with it.
Crash ==
    /\ Fault /\ proc' = [p \in Procs |-> Dead] /\ ask' = [r \in Refreshers |-> NotAsking]
    /\ flow' = [f \in Flows |-> [flow[f] EXCEPT !.at = "over"]]
    /\ lost' = (lost \/ \E r \in Refreshers : ask[r].at = "answered")
    /\ crossed' = (crossed \/ \E f \in Flows : flow[f].at \in {"writing", "recycling"})
    /\ UNCHANGED <<issued, good, file, db, strategy, last>>

Next == \/ Older \/ CliLogin \/ MonitorChecks \/ MonitorEnds \/ MonitorRetries \/ Crash
        \/ \E r \in Refreshers : Granted(r) \/ Refused(r) \/ AnswerLost(r) \/ CliRuns(r)
        \/ \E p \in Procs : \/ Ensure(p) \/ Checked(p) \/ Started(p) \/ AuthFails(p) \/ Recovered(p)
                            \/ RefreshesItself(p)
        \/ \E f \in Flows : Exchanged(f) \/ FlowFails(f) \/ Saved(f) \/ FileWritten(f) \/ Recycled(f)
        \/ \E s \in {"configured", "local"} : Configure(s)

Spec == Init /\ [][Next]_vars

----------------------------------------------------------------------------
Idle == (\A r \in Refreshers : ask[r].at = "idle") /\ \A f \in Flows : flow[f].at \in {"waiting", "over"}

\* Whoever refreshed, and in whatever order the answers came, the file holds a refresh
\* token that the service accepts: nobody has to sign in again.
LoginAlive == Idle /\ ~lost /\ file.refresh # 0 => file.refresh \in good

\* The file and the processes keep to the last sign-in: no token of an earlier one
\* comes back with a late refresh or is still used by a process that was not ended.
SignInKept == Idle /\ ~crossed =>
    /\ Account(file.access) = last
    /\ \A p \in Procs : proc[p].at = "up" /\ Age(proc[p].token) # "gone" => Account(proc[p].token) = last
=============================================================================
