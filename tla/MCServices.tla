------------------------------- MODULE MCServices -------------------------------
(***************************************************************************)
(* The services of the server that share no state with one another, for    *)
(* TLC: a behaviour belongs to one of them (part), and its variables are   *)
(* kept in the cells a to n, which mean something else in each part.       *)
(***************************************************************************)
EXTENDS Naturals, Sequences

CONSTANTS j1, j2  \* the jobs

VARIABLES part, a, b, c, d, e, f, g, h, i, j, k, l, m, n

cells == <<part, a, b, c, d, e, f, g, h, i, j, k, l, m, n>>

----------------------------------------------------------------------------
\* Timed elevation: three sessions, of which two share a rule file.

Helper == INSTANCE PrivilegedHelper WITH
    Sessions <- {"s1", "s2", "s3"},
    FileOf <- [s1 |-> "file", s2 |-> "file", s3 |-> "other"],
    MaxAsks <- 4,
    elevated_until <- a, rules <- b, stray <- c, request <- d, reaper <- e, up <- f, asks <- g

----------------------------------------------------------------------------
\* Cron: four minutes an hour, two hours a day, months of three and two days.

Range(lo, hi, by) == [star |-> FALSE, single |-> FALSE, slash |-> by > 1, lo |-> lo, hi |-> hi, step |-> by]
One(v) == [star |-> FALSE, single |-> TRUE, slash |-> FALSE, lo |-> v, hi |-> v, step |-> 1]
Star(by) == [star |-> TRUE, single |-> FALSE, slash |-> by # 1, lo |-> 0, hi |-> 0, step |-> by]

Cron == INSTANCE CronSchedule WITH
    FieldRanges <- [Minute |-> <<0, 3>>, Hour |-> <<0, 1>>, Day |-> <<1, 3>>, Month |-> <<1, 2>>,
                    Weekday |-> <<0, 7>>],
    FieldTexts <-
        [Minute  |-> {<<Star(1)>>, <<One(0)>>, <<Star(0)>>, <<Star(2)>>, <<Range(0, 1, 1), One(3)>>,
                      <<Range(1, 3, 2)>>},
         Hour    |-> {<<Star(1)>>, <<One(1)>>, <<Star(2)>>},
         Day     |-> {<<Star(1)>>, <<One(1)>>, <<Range(2, 3, 1)>>},
         Month   |-> {<<Star(1)>>, <<One(2)>>},
         Weekday |-> {<<Star(1)>>, <<One(7)>>, <<Range(1, 6, 1)>>, <<Range(0, 5, 1), One(7)>>,
                      <<One(0), Range(6, 7, 1)>>, <<Star(3)>>}],
    Calendar <- [day \in 1..15 |->
                    LET y == (day - 1) % 5 IN
                    [Month |-> IF y < 3 THEN 1 ELSE 2, Day |-> IF y < 3 THEN y + 1 ELSE y - 2,
                     Weekday |-> day % 7]],
    Starts <- {1, 5}, MaxDays <- 10, Count <- 3,
    expr <- a, cursor <- b, end <- c, results <- d

----------------------------------------------------------------------------
\* The job registry and launchd.

Registry == INSTANCE Scheduler WITH
    Jobs <- {j1, j2}, Slugs <- {"s", "t"}, Contents <- {"c", "d"}, Broken <- "b", MaxChanges <- 3,
    jobs <- a, plists <- b, agents <- c, todo <- d, managed <- e, phase <- f, clean <- g,
    stuck <- h, synced <- i, changes <- j

----------------------------------------------------------------------------
\* The database, one thread of requests; and a week of its backups.

Store == INSTANCE Database WITH
    Requests <- {"request"}, MaxCommits <- 2, MaxFiles <- 3, MaxBackups <- 2, MaxFaults <- 2,
    file <- a, pc <- b, conn <- c, todo <- d, aside <- e, backups <- f, holder <- g, up <- h,
    schema <- i, count <- j, stray <- k, bare <- l

Backups == INSTANCE BackupRotation WITH
    HourlyKeep <- 2, DailyKeep <- 2, MaxBackups <- 7, MaxDays <- 4,
    backups <- a, day <- b, made <- c, n <- d

----------------------------------------------------------------------------
\* One worker's bridge: two chat turns; and the processes the server keeps for it.

Worker == INSTANCE WorkerBridge WITH
    Turns <- {"t", "u"}, MaxKids <- 3, MaxFaults <- 2,
    at <- a, chat <- b, lock <- c, proc <- d, kids <- e, readers <- f, injected <- g, session <- h,
    heard <- i, faults <- j, beside <- k, disturbed <- l, bare <- m

Bridges == INSTANCE BridgePool WITH
    Requests <- {"p", "q"}, MaxKids <- 3, MaxFaults <- 3,
    kids <- a, reg <- b, lock <- c, at <- d, own <- e, server <- f, state <- g, faults <- h

----------------------------------------------------------------------------
\* Mail: two mails, both spam and one without Message-ID, and two runs of the drafter,
\* which keeps one id; the cache under two jobs; two drafts under two requests.

Drafter == INSTANCE MailDrafter WITH
    Mails <- {"x", "y"}, Spam <- {"x", "y"}, Unnamed <- {"y"}, Runs <- {"loop", "button"},
    MaxPerRun <- 2, MaxIds <- 1, MaxFaults <- 1,
    inbox <- a, arrived <- b, moved <- c, drafts <- d, ids <- e, at <- f, todo <- g, mine <- h,
    acted <- i, profile <- j, faults <- k, shifted <- l, hit <- m, forgotten <- n

Cache == INSTANCE MailCache WITH
    Mails <- {"x", "y"}, Jobs <- {"sync", "request"}, MaxFaults <- 2,
    server <- a, rows <- b, bodies <- c, job <- d, late <- e, doubt <- f, faults <- g

Drafts == INSTANCE DraftBox WITH
    Drafts <- {"x", "y"}, Requests <- {"p", "q"}, MaxUids <- 3, MaxFaults <- 1,
    box <- a, job <- b, sent <- c, discarded <- d, crossed <- e, faults <- f

----------------------------------------------------------------------------
\* Signing in: one Claude process and one sign-in; two OpenAI sign-ins, the monitor
\* and a run; the failed logins of two requests; two names for accounts.

Claude == INSTANCE ClaudeTokens WITH
    Procs <- {"p"}, Flows <- {"f"}, MaxTokens <- 3, MaxFaults <- 1,
    issued <- a, good <- b, file <- c, db <- d, strategy <- e, proc <- f, ask <- g, flow <- h,
    last <- i, crossed <- j, lost <- k, faults <- l

OpenAi == INSTANCE OpenAiSignIn WITH
    Flows <- {"f", "g"}, Refreshers <- {"monitor", "run"}, MaxTokens <- 3, MaxFaults <- 1,
    accounts <- a, good <- b, used <- c, active <- d, flow <- e, paste <- f, row <- g, ask <- h,
    chosen <- i, crossed <- j, faults <- k

Limits == INSTANCE LoginLimits WITH
    Requests <- {"f", "g"}, Few <- 2, Short <- 3, ShortLock <- 1, Many <- 4, Long <- 9, LongLock <- 6,
    MaxTime <- 12,
    now <- a, attempts <- b, lockout <- c, admitted <- d, failures <- e

People == INSTANCE Accounts WITH
    Users <- {"a", "b"}, Requests <- {"f", "g"}, MaxSessions <- 2, MaxPasswords <- 3, MaxFaults <- 1,
    up <- a, complete <- b, password <- c, memory <- d, table <- e, made <- f, expired <- g, at <- h,
    passwords <- i, cleared <- j, gone <- k, together <- l, faults <- m

\* Two pages open three workers under one change of the policy; 9 is a missing key.
Maximum == INSTANCE MaxSessions WITH
    Sessions <- {"a", "b", "c"}, ModelOf <- [a |-> "codex", b |-> "codex", c |-> "spark"], Pages <- {"p", "q"},
    Values <- {0, 1, 2, 4, 9}, Absent <- 9, MaxValue <- 3, Defaults <- [total |-> 2, codex |-> 1, spark |-> 1],
    MaxChanges <- 1,
    policy <- a, rows <- b, tombs <- c, page <- d, unasked <- e, lowered <- f, changes <- g

----------------------------------------------------------------------------
\* Speech.

\* The microphone is turned on twice and hears two things, beside another listener's events.
Mic == INSTANCE VoiceInput WITH
    MaxSessions <- 2, MaxWords <- 2, Modes <- {"local", "server", "remote"},
    voice <- a, live <- b, results <- c, listener <- d, box <- e, sends <- f, loading <- g, sent <- h,
    due <- i, past <- j, count <- k

\* Two listener processes and two restarts; one speaker, who may be enrolled again.
Enroll == INSTANCE Enrollment WITH
    Procs <- {"p", "q"}, Restarts <- {"r", "s"}, Names <- {"x"}, MaxAsks <- 3, MaxFaults <- 1,
    server <- a, proc <- b, restart <- c, upload <- d, disk <- e, waiting <- f, again <- g, extra <- h,
    past <- i, count <- j

\* Two utterances, a change of the configuration and a fault.
Listener == INSTANCE WakeWord WITH
    MaxHeard <- 2, MaxChanges <- 1, MaxFaults <- 1,
    config <- a, cached <- b, task <- c, cooling <- d, recent <- e, posts <- f, effects <- g,
    outcome <- h, order <- i, past <- j, count <- k

----------------------------------------------------------------------------
\* The server's updates.

Clone == INSTANCE Updates WITH
    Changes <- {"x", "y"}, MaxUpstream <- 1, MaxRequests <- 3, MaxRestarts <- 1, MaxFaults <- 1,
    repo <- a, remote <- b, origin <- c, saved <- d, running <- e, stamps <- f, exiting <- g, page <- h,
    made <- i, past <- j, count <- k

----------------------------------------------------------------------------
\* A network of a gateway and a simple device.

Audit == INSTANCE NetworkAudit WITH
    Hosts <- {"x", "y"}, Gateway <- "y", Simple <- {"x"}, Methods <- {"arp", "nmap_ping"}, Shows <- {"old"},
    Modes <- {"full", "scanning", "probes", "classify", "vulns"}, MaxFaults <- 1,
    mode <- a, at <- b, log <- c, disk <- d, progress <- e, tasks <- f, snapshot <- g, shown <- h,
    alone <- i, report <- j, faults <- k

----------------------------------------------------------------------------
\* What differs by names only, such as two idle runs, two new turns, two edits, or two sign-ins
\* before the first, is followed for one of them.  Runs of the drafter that have begun when both
\* mails are excused, as runs beside one another excuse them, are the last.
Alike(at, p, q, idle) == ~(at[p] = idle /\ at[q] = idle /\ at'[q] # idle)
LastRuns == n = {"x", "y"} => \A r \in {"loop", "button"} : f[r] = "idle" => f'[r] = "idle"
MailRuns == LastRuns /\ Alike(f, "loop", "button", "idle")
\* Claude's tokens are followed until both their claims are excused; once a sign-in is crossed,
\* no settings are changed, which a step of no process, call or sign-in would be.
ClaudeOpen == /\ ~(j /\ k)
              /\ j /\ <<d, e>>' # <<d, e>> => <<f, g, h>>' # <<f, g, h>>
EditsAlike == "y" \in i' => "x" \in i'
AlikeAt(at, p, q) == ~(at[p].at = "idle" /\ at[q].at = "idle" /\ at'[q].at # "idle")
FirstUser == i = 0 => c'["b"] = 0
FlowsAlike == ~(e'["g"].status # "none" /\ e'["f"].status = "none")

Init == \/ part = "helper" /\ Helper!Init /\ h = 0 /\ i = 0 /\ j = 0 /\ k = 0 /\ l = 0 /\ m = 0 /\ n = 0
        \/ part = "cron" /\ Cron!Init /\ e = 0 /\ f = 0 /\ g = 0 /\ h = 0 /\ i = 0 /\ j = 0 /\ k = 0
           /\ l = 0 /\ m = 0 /\ n = 0
        \/ part = "registry" /\ Registry!Init /\ k = 0 /\ l = 0 /\ m = 0 /\ n = 0
        \/ part = "database" /\ Store!Init /\ m = 0 /\ n = 0
        \/ part = "backups" /\ Backups!Init /\ e = 0 /\ f = 0 /\ g = 0 /\ h = 0 /\ i = 0 /\ j = 0 /\ k = 0
           /\ l = 0 /\ m = 0 /\ n = 0
        \/ part = "worker" /\ Worker!Init /\ n = 0
        \/ part = "bridges" /\ Bridges!Init /\ i = 0 /\ j = 0 /\ k = 0 /\ l = 0 /\ m = 0 /\ n = 0
        \/ part = "drafter" /\ Drafter!Init
        \/ part = "cache" /\ Cache!Init /\ h = 0 /\ i = 0 /\ j = 0 /\ k = 0 /\ l = 0 /\ m = 0 /\ n = 0
        \/ part = "drafts" /\ Drafts!Init /\ g = 0 /\ h = 0 /\ i = 0 /\ j = 0 /\ k = 0 /\ l = 0 /\ m = 0
           /\ n = 0
        \/ part = "claude" /\ Claude!Init /\ m = 0 /\ n = 0
        \/ part = "openai" /\ OpenAi!Init /\ l = 0 /\ m = 0 /\ n = 0
        \/ part = "limits" /\ Limits!Init /\ f = 0 /\ g = 0 /\ h = 0 /\ i = 0 /\ j = 0 /\ k = 0 /\ l = 0
           /\ m = 0 /\ n = 0
        \/ part = "accounts" /\ People!Init /\ n = 0
        \/ part = "workers" /\ Maximum!Init /\ h = 0 /\ i = 0 /\ j = 0 /\ k = 0 /\ l = 0 /\ m = 0 /\ n = 0
        \/ part = "mic" /\ Mic!Init /\ l = 0 /\ m = 0 /\ n = 0
        \/ part = "enroll" /\ Enroll!Init /\ k = 0 /\ l = 0 /\ m = 0 /\ n = 0
        \/ part = "listener" /\ Listener!Init /\ l = 0 /\ m = 0 /\ n = 0
        \/ part = "clone" /\ Clone!Init /\ l = 0 /\ m = 0 /\ n = 0
        \/ part = "audit" /\ Audit!Init /\ l = 0 /\ m = 0 /\ n = 0

Next == \/ part = "helper" /\ Helper!Next /\ UNCHANGED <<part, h, i, j, k, l, m, n>>
        \/ part = "cron" /\ Cron!Next /\ UNCHANGED <<part, e, f, g, h, i, j, k, l, m, n>>
        \/ part = "registry" /\ Registry!Next /\ UNCHANGED <<part, k, l, m, n>>
        \/ part = "database" /\ Store!Next /\ UNCHANGED <<part, m, n>>
        \/ part = "backups" /\ Backups!Next /\ UNCHANGED <<part, e, f, g, h, i, j, k, l, m, n>>
        \/ part = "worker" /\ Worker!Next /\ Alike(a, "t", "u", "new") /\ UNCHANGED <<part, n>>
        \/ part = "bridges" /\ Bridges!Next /\ UNCHANGED <<part, i, j, k, l, m, n>>
        \/ part = "drafter" /\ Drafter!Next /\ MailRuns /\ UNCHANGED part
        \/ part = "cache" /\ Cache!Next /\ UNCHANGED <<part, h, i, j, k, l, m, n>>
        \/ part = "drafts" /\ Drafts!Next /\ UNCHANGED <<part, g, h, i, j, k, l, m, n>>
        \/ part = "claude" /\ Claude!Next /\ ClaudeOpen /\ UNCHANGED <<part, m, n>>
        \/ part = "openai" /\ OpenAi!Next /\ FlowsAlike /\ UNCHANGED <<part, l, m, n>>
        \/ part = "limits" /\ Limits!Next /\ UNCHANGED <<part, f, g, h, i, j, k, l, m, n>>
        \/ part = "accounts" /\ People!Next /\ AlikeAt(h, "f", "g") /\ FirstUser /\ UNCHANGED <<part, n>>
        \/ part = "workers" /\ Maximum!Next /\ UNCHANGED <<part, h, i, j, k, l, m, n>>
        \/ part = "mic" /\ Mic!Next /\ UNCHANGED <<part, l, m, n>>
        \/ part = "enroll" /\ Enroll!Next /\ UNCHANGED <<part, k, l, m, n>>
        \/ part = "listener" /\ Listener!Next /\ UNCHANGED <<part, l, m, n>>
        \/ part = "clone" /\ Clone!Next /\ EditsAlike /\ UNCHANGED <<part, l, m, n>>
        \/ part = "audit" /\ Audit!Next /\ UNCHANGED <<part, l, m, n>>

Spec == Init /\ [][Next]_cells

----------------------------------------------------------------------------
\* Each part keeps its types.
TypeOK == /\ part = "helper" => Helper!TypeOK
          /\ part = "cron" => Cron!TypeOK
          /\ part = "registry" => Registry!TypeOK
          /\ part = "database" => Store!TypeOK
          /\ part = "backups" => Backups!TypeOK
          /\ part = "worker" => Worker!TypeOK
          /\ part = "bridges" => Bridges!TypeOK
          /\ part = "drafter" => Drafter!TypeOK
          /\ part = "cache" => Cache!TypeOK
          /\ part = "drafts" => Drafts!TypeOK
          /\ part = "claude" => Claude!TypeOK
          /\ part = "openai" => OpenAi!TypeOK
          /\ part = "limits" => Limits!TypeOK
          /\ part = "accounts" => People!TypeOK
          /\ part = "workers" => Maximum!TypeOK
          /\ part = "mic" => Mic!TypeOK
          /\ part = "enroll" => Enroll!TypeOK
          /\ part = "listener" => Listener!TypeOK
          /\ part = "clone" => Clone!TypeOK
          /\ part = "audit" => Audit!TypeOK

\* The preview of a cron expression shows exactly the runs it names, the launchd
\* calendar fires when cron would, and a plist without its job is imported as a job
\* that writes the same plist; a complete sync leaves launchd with the enabled jobs,
\* whatever went before.
JobsRunAsTold ==
    /\ part = "cron" => Cron!PreviewIsExact /\ Cron!LaunchdFiresAsCron /\ Cron!ImportKeepsSchedule
    /\ part = "registry" => Registry!SyncRepairs

\* Recoveries, crashes and requests lose no acknowledged commit and leave a
\* database with its tables; backups are kept of every recent day; whatever git refuses
\* half-way, an update loses no local change without a word, and the server runs the
\* commit its clone is at; an audit whose phases fail or end in any order keeps what its
\* tools have shown, and reports it.
DataKept == /\ part = "database" => Store!NothingThrownAway /\ Store!TablesThere
            /\ part = "backups" => Backups!DaysCovered
            /\ part = "clone" => Clone!ChangesKept /\ Clone!RunsHead
            /\ part = "audit" => /\ Audit!FoundKept /\ Audit!OldFound /\ Audit!SilentScanned
                                 /\ Audit!ReportComplete

\* A worker's chat turn gets the answer to its own message, and no message goes to a
\* subprocess without context; a shut-down server leaves no bridge of its own behind.
BridgeKeeps == /\ part = "worker" => Worker!OwnAnswer /\ Worker!ContextFirst
               /\ part = "bridges" => Bridges!NoneLeft


\* Every rule file of the helper has something that will remove it; refreshes and sign-ins
\* in any order leave tokens that the service accepts, of the account signed in last;
\* failed logins are limited; a session that ended stays out; and there are no more workers
\* of a model than the policy allows.
AccessKeeps == /\ part = "helper" => Helper!RuleHasRemover
               /\ part = "claude" => Claude!LoginAlive /\ Claude!SignInKept
               /\ part = "openai" => OpenAi!SignedIn
               /\ part = "limits" => Limits!FailuresBounded
               /\ part = "accounts" => People!StaysOut /\ People!ResetClears /\ People!OneAdmin
               /\ part = "workers" => Maximum!Capped /\ Maximum!StatusTrue

\* The microphone of the page is off when it shows so, comes back for the listener, and what
\* was said goes out once; one request is one enrollment, which its asker hears of, by one
\* listener that knows the voices; each thing it hears comes to something once, and in order.
VoiceKeeps == /\ part = "mic" => Mic!OffMeansOff /\ Mic!SpokenOnce /\ Mic!ListensAgain
              /\ part = "enroll" => /\ Enroll!EnrollOnce /\ Enroll!Served /\ Enroll!Told
                                   /\ Enroll!OneListener /\ Enroll!KnownVoices
              /\ part = "listener" => Listener!EachOnce /\ Listener!InOrder
=============================================================================
