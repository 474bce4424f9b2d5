------------------------------- MODULE Scheduler -------------------------------
(***************************************************************************)
(* The job registry of cron_manager.py and its copy in launchd.  The table *)
(* scheduled_jobs is the truth; sync_launchd, which ends every change of   *)
(* it, writes one plist per enabled shell job and has launchd load it.     *)
(* The handlers of routes/scheduler.py do all this on the event loop, so   *)
(* no two changes overlap; but each launchctl call may fail unnoticed, the *)
(* server may stop half-way, and launchd reads the plists anew at login.   *)
(***************************************************************************)
EXTENDS Naturals

CONSTANTS Jobs,       \* ids of the jobs that may be made
          Slugs,      \* names of plists and agents
          Contents,   \* what command and schedule make of a plist
          Broken,     \* the content of a job whose schedule was set to ""
          MaxChanges  \* bound on the changes of a behaviour

VARIABLES jobs,     \* id -> row of scheduled_jobs, or None
          plists,   \* slug -> content of the file, or "none"
          agents,   \* slug -> content launchd has loaded, or "none"
          todo,     \* rows the running sync has still to go through
          managed,  \* slugs of the rows it has read
          phase,    \* "idle", "rows" or "orphans"
          clean,    \* whether no launchctl load failed in the last sync, complete or not
          stuck,    \* slugs of agents whose unload failed since the last login
          synced,   \* whether the last change was followed by a complete sync
          changes   \* changes so far

vars == <<jobs, plists, agents, todo, managed, phase, clean, stuck, synced, changes>>

None == [slug |-> "none"]
Rows == [slug : Slugs, content : Contents \cup {Broken}, enabled : BOOLEAN, shell : BOOLEAN]

Made == {j \in Jobs : jobs[j] # None}
BadTaken == {}
\* The slugs that are in use: _unique_slug, or the unique column, keeps off them.
Taken == {jobs[j].slug : j \in Made}

Init == /\ jobs = [j \in Jobs |-> None]
        /\ plists \in {[s \in Slugs |-> "none"]} \cup {[s \in Slugs |-> c] : c \in Contents}
        /\ agents = plists
        /\ todo = {} /\ managed = {}
        /\ phase = "idle"
        /\ clean = TRUE
        /\ stuck = {}
        /\ synced = FALSE
        /\ changes = 0

----------------------------------------------------------------------------
\* Changes of the table.  Each reads its row, writes it and goes on to sync.

\* What the query of sync_launchd selects.
ShellRows(rows) == {rows[j] : j \in {x \in Jobs : rows[x] # None /\ rows[x].shell}}

Change(rows) ==
    /\ phase = "idle" /\ changes < MaxChanges
    /\ changes' = changes + 1
    /\ jobs' = rows
    /\ todo' = ShellRows(rows)
    /\ managed' = {r.slug : r \in ShellRows(rows)}
    /\ phase' = "rows"
    /\ clean' = TRUE
    /\ synced' = FALSE
    /\ UNCHANGED <<plists, agents, stuck>>

\* create_job: _unique_slug or the unique column keeps names apart; a job from
\* the route is a shell job with a valid schedule.
CreateJob(j, s, c, on) ==
    /\ jobs[j] = None /\ s \notin Taken
    /\ Change([jobs EXCEPT ![j] = [slug |-> s, content |-> c, enabled |-> on, shell |-> TRUE]])

\* update_job: any of the fields; a slug of another job fails on the unique
\* column before anything is written, and "" as the schedule is not validated.
UpdateJob(j, s, c, shell) ==
    /\ j \in Made /\ s \notin Taken \ {jobs[j].slug}
    /\ Change([jobs EXCEPT ![j] = [@ EXCEPT !.slug = s, !.content = c, !.shell = shell]])

ToggleJob(j) ==
    /\ j \in Made
    /\ Change([jobs EXCEPT ![j].enabled = ~@])

DeleteJob(j) ==
    /\ j \in Made
    /\ Change([jobs EXCEPT ![j] = None])

\* import_from_legacy: only into an empty table, a job for each plist that can
\* be read back (as CronSchedule says), one of another kind is passed over.
ImportLegacy ==
    /\ Made = {}
    /\ \E f \in [Jobs -> Slugs \cup {"none"}] :
          LET Of(s) == {j \in Jobs : f[j] = s}
          IN  /\ \A s \in Slugs : plists[s] = "none" => Of(s) = {}
              /\ \A s \in Slugs, j, k \in Jobs : {j, k} \subseteq Of(s) => j = k
              /\ \E s \in Slugs : Of(s) # {}
              /\ Change([j \in Jobs |-> IF f[j] = "none" THEN None
                           ELSE [slug |-> f[j], content |-> plists[f[j]], enabled |-> TRUE, shell |-> TRUE]])

----------------------------------------------------------------------------
\* launchctl, whose result nobody looks at.

\* An agent that is already loaded is not loaded again.
LoadOk(s, c) == /\ agents' = [agents EXCEPT ![s] = IF @ = "none" THEN c ELSE @]
                /\ UNCHANGED clean
LoadFails == clean' = FALSE /\ UNCHANGED agents

\* Unload and load of one agent whose plist becomes c.
Reload(s, c) ==
    \/ stuck' = stuck \ {s} /\ agents' = [agents EXCEPT ![s] = c] /\ UNCHANGED clean
    \/ stuck' = stuck \ {s} /\ agents' = [agents EXCEPT ![s] = "none"] /\ clean' = FALSE
    \/ agents[s] # "none" /\ stuck' = stuck \cup {s} /\ UNCHANGED <<agents, clean>>

\* An agent whose plist goes.
Unload(s) ==
    /\ plists' = [plists EXCEPT ![s] = "none"]
    /\ \/ agents' = [agents EXCEPT ![s] = "none"] /\ stuck' = stuck \ {s}
       \/ agents[s] # "none" /\ stuck' = stuck \cup {s} /\ UNCHANGED agents

----------------------------------------------------------------------------
\* sync_launchd

BadSame(s, c) == plists[s] # "none"
Same(s, c) == plists[s] = c

SyncRow(r) ==
    /\ phase = "rows" /\ r \in todo
    /\ todo' = todo \ {r}
    /\ LET s == r.slug IN
       \/ /\ r.enabled /\ r.content # Broken /\ Same(s, r.content)  \* _ensure_launchd_loaded
          /\ LoadOk(s, r.content) \/ (agents[s] = "none" /\ LoadFails)
          /\ UNCHANGED <<plists, stuck>>
       \/ /\ r.enabled /\ r.content # Broken /\ ~Same(s, r.content)
          /\ plists' = [plists EXCEPT ![s] = r.content]
          /\ IF plists[s] # "none" THEN Reload(s, r.content)
             ELSE UNCHANGED stuck /\ (LoadOk(s, r.content) \/ LoadFails)
       \/ /\ r.enabled /\ r.content = Broken  \* the plist cannot be built: logged
          /\ UNCHANGED <<plists, agents, stuck, clean>>
       \/ /\ ~r.enabled
          /\ IF plists[s] # "none" THEN Unload(s) ELSE UNCHANGED <<plists, agents, stuck>>
          /\ UNCHANGED clean
    /\ UNCHANGED <<jobs, managed, phase, synced, changes>>

RowsDone ==
    /\ phase = "rows" /\ todo = {}
    /\ phase' = "orphans"
    /\ UNCHANGED <<jobs, plists, agents, todo, managed, clean, stuck, synced, changes>>

Orphans == {s \in Slugs : plists[s] # "none" /\ s \notin managed}

RemoveOrphan(s) ==
    /\ phase = "orphans" /\ s \in Orphans
    /\ Unload(s)
    /\ UNCHANGED <<jobs, todo, managed, phase, clean, synced, changes>>

SyncDone ==
    /\ phase = "orphans" /\ Orphans = {}
    /\ phase' = "idle"
    /\ synced' = TRUE
    /\ managed' = {}
    /\ UNCHANGED <<jobs, plists, agents, todo, clean, stuck, changes>>

----------------------------------------------------------------------------
\* The server stops and comes back, without a sync; the user logs in again.

Crash ==
    /\ phase \in {"rows", "orphans"}
    /\ phase' = "idle"
    /\ todo' = {} /\ managed' = {}
    /\ UNCHANGED <<jobs, plists, agents, clean, stuck, synced, changes>>

Login ==
    /\ phase = "idle"
    /\ agents # plists
    /\ agents' = plists
    /\ stuck' = {}
    /\ UNCHANGED <<jobs, plists, todo, managed, phase, clean, synced, changes>>

Next == \/ \E j \in Jobs, s \in Slugs :
              \/ \E c \in Contents, on \in BOOLEAN : CreateJob(j, s, c, on)
              \/ \E c \in Contents \cup {Broken}, shell \in BOOLEAN : UpdateJob(j, s, c, shell)
        \/ \E j \in Jobs : ToggleJob(j) \/ DeleteJob(j)
        \/ ImportLegacy
        \/ \E r \in Rows : SyncRow(r)
        \/ \E s \in Slugs : RemoveOrphan(s)
        \/ RowsDone \/ SyncDone \/ Crash \/ Login

Spec == Init /\ [][Next]_vars

----------------------------------------------------------------------------
\* State of the expected types; no two jobs share a slug.
TypeOK ==
    /\ jobs \in [Jobs -> Rows \cup {None}]
    /\ \A j, k \in Made : jobs[j].slug = jobs[k].slug => j = k
    /\ plists \in [Slugs -> Contents \cup {"none"}]
    /\ agents \in [Slugs -> Contents \cup {"none"}]
    /\ todo \subseteq Rows
    /\ managed \subseteq Slugs
    /\ phase \in {"idle", "rows", "orphans"}
    /\ {clean, synced} \subseteq BOOLEAN
    /\ stuck \subseteq Slugs

Wanted(s) == {j \in Made : jobs[j].slug = s /\ jobs[j].enabled /\ jobs[j].shell}

\* Whatever was left behind by a renamed, disabled, retyped or deleted job, by a
\* stop half-way through an earlier sync or by earlier failures of launchctl, a
\* sync that ran to its end without a failed load leaves launchd with exactly
\* the enabled shell jobs in their present form; but for jobs whose schedule was
\* emptied, and for agents that launchctl did not unload since the last login.
SyncRepairs ==
    phase = "idle" /\ synced /\ clean =>
        \A s \in Slugs \ stuck :
            /\ Wanted(s) = {} => agents[s] = "none" /\ plists[s] = "none"
            /\ \A j \in Wanted(s) : jobs[j].content # Broken =>
                  agents[s] = jobs[j].content /\ plists[s] = jobs[j].content
=============================================================================
