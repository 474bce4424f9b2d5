-------------------------------- MODULE Database --------------------------------
(***************************************************************************)
(* The SQLite file of the server (auth.py): requests that open, use and    *)
(* close it, the health monitor, the hourly backup, and the recovery that    *)
(* any of them may start when the file is found damaged.                   *)
(* Recovery is serialized by a lock, but those who only use the file do    *)
(* not take it: they may open the file before it is moved away, while it   *)
(* is missing, or while a backup is copied over it.                        *)
(***************************************************************************)
EXTENDS Naturals, FiniteSets

CONSTANTS Requests,   \* threads that serve requests
          MaxCommits, MaxFiles, MaxBackups, \* bounds on what a behaviour makes,
          MaxFaults   \* and on damages, crashes, failing copies or checks, manual recoveries

VARIABLES file,      \* the database: [ino, ok, content, tables], or NoFile
          pc,        \* thread -> where it is
          conn,      \* thread -> number of the file it has open, 0 if none
          todo,      \* backups the recovery under way has still to try
          aside,     \* commits copied to the directory of corrupt files
          backups,   \* backup files: [n, ok, content, tables]
          holder,    \* thread that holds _recovery_lock, or "none"
          up,        \* whether the start-up gate has been passed
          schema,    \* _schema_initialized
          count,     \* [commits, files, backups, faults] so far
          stray,     \* acknowledged commits that went where no recovery looks
          bare       \* numbers of files whose tables _schema_initialized hides

vars == <<file, pc, conn, todo, aside, backups, holder, up, schema, count, stray, bare>>

NoFile == [ino |-> 0]
Threads == Requests \cup {"monitor", "backup"}
Replacing == holder # "none" /\ pc[holder] \in {"list", "restore", "copying"}

Goto(t, l) == pc' = [pc EXCEPT ![t] = l]
Faulty == count.faults < MaxFaults /\ count' = [count EXCEPT !.faults = @ + 1]

\* sqlite3.connect on a path without a file makes an empty one.
NewFile(content, tables, ok) ==
    [ino |-> count.files + 1, ok |-> ok, content |-> content, tables |-> tables]
MakeFile(f) == /\ count.files < MaxFiles
               /\ file' = f
               /\ count' = [count EXCEPT !.files = @ + 1]

Init == /\ file = [ino |-> 1, ok |-> TRUE, content |-> {}, tables |-> TRUE]
        /\ pc = [t \in Threads |-> "idle"]
        /\ conn = [t \in Threads |-> 0]
        /\ todo = {} /\ aside = {} /\ backups = {}
        /\ holder = "none"
        /\ up = TRUE
        /\ schema = TRUE
        /\ count = [commits |-> 0, files |-> 1, backups |-> 0, faults |-> 0]
        /\ stray = {} /\ bare = {}

----------------------------------------------------------------------------
\* A request: db_connection.

Open(t) ==
    /\ up /\ t \in Requests /\ pc[t] = "idle"
    /\ \/ /\ file # NoFile /\ file.ok
          /\ conn' = [conn EXCEPT ![t] = file.ino]
          /\ Goto(t, "schema")
          /\ UNCHANGED <<file, count, bare>>
       \/ /\ file = NoFile
          /\ MakeFile(NewFile({}, FALSE, TRUE))
          /\ conn' = [conn EXCEPT ![t] = file'.ino]
          /\ bare' = IF schema THEN bare \cup {file'.ino} ELSE bare
          /\ Goto(t, "schema")
       \/ /\ file # NoFile /\ (IF file.ok THEN Faulty ELSE UNCHANGED count)
          /\ Goto(t, "recover")
          /\ UNCHANGED <<file, conn, bare>>
    /\ UNCHANGED <<todo, aside, backups, holder, up, schema, stray>>

\* _ensure_schema, on whatever file the thread has open.
Schema(t) ==
    /\ pc[t] = "schema"
    /\ IF t \in Requests THEN Goto(t, "use") /\ UNCHANGED <<conn, up>>
       ELSE Goto(t, "idle") /\ conn' = [conn EXCEPT ![t] = 0] /\ up' = TRUE
    /\ schema' = TRUE
    /\ IF schema \/ file = NoFile THEN UNCHANGED <<file, bare>>
       ELSE IF conn[t] = file.ino THEN file' = [file EXCEPT !.tables = TRUE] /\ UNCHANGED bare
       ELSE bare' = bare \cup {file.ino} /\ UNCHANGED file
    /\ UNCHANGED <<todo, aside, backups, holder, count, stray>>

\* The request's write.  One that reads only, or fails, changes nothing.
Commit(t) ==
    /\ pc[t] = "use" /\ count.commits < MaxCommits
    /\ count' = [count EXCEPT !.commits = @ + 1]
    /\ LET k == count.commits + 1 IN
       \/ /\ file # NoFile /\ conn[t] = file.ino /\ file.tables
          /\ file' = [file EXCEPT !.content = @ \cup {k}]
          /\ stray' = IF Replacing THEN stray \cup {k} ELSE stray
       \/ /\ conn[t] # file.ino
          /\ stray' = stray \cup {k}
          /\ UNCHANGED file
    /\ Goto(t, "close")
    /\ UNCHANGED <<conn, todo, aside, backups, holder, up, schema, bare>>

Close(t) ==
    /\ pc[t] \in {"use", "close"}
    /\ conn' = [conn EXCEPT ![t] = 0]
    /\ Goto(t, "idle")
    /\ UNCHANGED <<file, todo, aside, backups, holder, up, schema, count, stray, bare>>

----------------------------------------------------------------------------
\* The monitor: periodic_health_check, the manual recovery, the start-up gate.

HealthCheck ==
    /\ up /\ pc["monitor"] = "idle"
    /\ \/ /\ file = NoFile
          /\ MakeFile(NewFile({}, FALSE, TRUE))
          /\ bare' = IF schema THEN bare \cup {file'.ino} ELSE bare
          /\ UNCHANGED pc
       \/ /\ file # NoFile /\ ~file.ok
          /\ Goto("monitor", "recover")
          /\ UNCHANGED <<file, count, bare>>
    /\ UNCHANGED <<conn, todo, aside, backups, holder, up, schema, stray>>

ManualRecover ==
    /\ up /\ pc["monitor"] = "idle" /\ Faulty
    /\ Goto("monitor", "recover")
    /\ UNCHANGED <<file, conn, todo, aside, backups, holder, up, schema, stray, bare>>

\* startup_db_health_gate: a missing file is made anew, whatever backups there are.
Gate ==
    /\ ~up /\ pc["monitor"] = "idle"
    /\ \/ /\ file = NoFile
          /\ MakeFile(NewFile({}, TRUE, TRUE))
          /\ schema' = TRUE /\ up' = TRUE
          /\ UNCHANGED pc
       \/ /\ file # NoFile /\ file.ok
          /\ up' = TRUE
          /\ UNCHANGED <<file, count, schema, pc>>
       \/ /\ file # NoFile /\ ~file.ok
          /\ Goto("monitor", "recover")
          /\ UNCHANGED <<file, count, schema, up>>
    /\ UNCHANGED <<conn, todo, aside, backups, holder, stray, bare>>

----------------------------------------------------------------------------
\* _recover_db.

Acquire(t) ==
    /\ pc[t] = "recover" /\ holder = "none"
    /\ holder' = t
    /\ Goto(t, "checkpoint")
    /\ UNCHANGED <<file, conn, todo, aside, backups, up, schema, count, stray, bare>>

\* Thirty seconds without the lock, or an error of the last step.
Fail(t) ==
    /\ \/ pc[t] = "recover" /\ holder \notin {"none", t} /\ UNCHANGED holder
       \/ pc[t] = "restore" /\ todo = {} /\ file # NoFile /\ ~file.ok /\ holder' = "none"
    /\ Goto(t, "idle")
    /\ up' = TRUE
    /\ UNCHANGED <<file, conn, todo, aside, backups, schema, count, stray, bare>>

BadRecovered(t) ==
    /\ conn' = [conn EXCEPT ![t] = file'.ino]
    /\ holder' = "none"
    /\ Goto(t, "schema")
    /\ UNCHANGED schema
\* The lock is released.  The monitor and the gate then have the tables made
\* anew; a request trusts the flag.
Recovered(t) ==
    /\ conn' = [conn EXCEPT ![t] = file'.ino]
    /\ holder' = "none"
    /\ Goto(t, "schema")
    /\ schema' = IF t = "monitor" THEN FALSE ELSE schema

\* A file whose WAL can be checkpointed and that passes the integrity check is
\* kept; a lock or an I/O error counts as damage.
Checkpoint(t) ==
    /\ pc[t] = "checkpoint"
    /\ \/ /\ file # NoFile /\ file.ok
          /\ UNCHANGED <<file, count>>
          /\ Recovered(t)
       \/ /\ file # NoFile /\ (IF file.ok THEN Faulty ELSE UNCHANGED count)
          /\ Goto(t, "aside")
          /\ UNCHANGED <<file, conn, holder, schema>>
       \/ /\ file = NoFile
          /\ MakeFile(NewFile({}, FALSE, TRUE))
          /\ Recovered(t)
    /\ bare' = IF file = NoFile /\ t # "monitor" /\ schema THEN bare \cup {file'.ino} ELSE bare
    /\ UNCHANGED <<todo, aside, backups, up, stray>>

\* Copy, then unlink.  If the copy fails the file stays, to be overwritten.
PutAside(t) ==
    /\ pc[t] = "aside"
    /\ \/ /\ aside' = aside \cup file.content
          /\ file' = NoFile
          /\ UNCHANGED <<count, stray>>
       \/ /\ Faulty
          /\ stray' = stray \cup file.content
          /\ UNCHANGED <<aside, file>>
    /\ Goto(t, "list")
    /\ UNCHANGED <<conn, todo, backups, holder, up, schema, bare>>

List(t) ==
    /\ pc[t] = "list"
    /\ todo' = backups
    /\ Goto(t, "restore")
    /\ UNCHANGED <<file, conn, aside, backups, holder, up, schema, count, stray, bare>>

Newest(bs) == CHOOSE b \in bs : \A x \in bs : x.n <= b.n

\* shutil.copy2 over the path, onto a file that somebody may have made there.
Restore(t) ==
    /\ pc[t] = "restore" /\ todo # {}
    /\ LET b == Newest(todo) IN
       IF file = NoFile THEN MakeFile(NewFile(b.content, b.tables, FALSE))
       ELSE /\ file' = [file EXCEPT !.content = b.content, !.tables = b.tables, !.ok = FALSE]
            /\ UNCHANGED count
    /\ Goto(t, "copying")
    /\ UNCHANGED <<conn, todo, aside, backups, holder, up, schema, stray, bare>>

\* The integrity check; who has the file open may have spoilt it.
Restored(t) ==
    /\ pc[t] = "copying"
    /\ LET b == Newest(todo)
           Opened == \E u \in Threads \ {t} : conn[u] = file.ino
       IN  \/ /\ b.ok
              /\ file' = [file EXCEPT !.ok = TRUE]
              /\ bare' = IF ~file.tables /\ t # "monitor" THEN bare \cup {file.ino} ELSE bare
              /\ Recovered(t)
              /\ todo' = {}
           \/ /\ ~b.ok \/ Opened
              /\ file' = NoFile
              /\ todo' = todo \ {b}
              /\ Goto(t, "restore")
              /\ UNCHANGED <<conn, holder, schema, bare>>
    /\ UNCHANGED <<aside, backups, up, count, stray>>

\* No usable backup: _open_db on the path.
Fresh(t) ==
    /\ pc[t] = "restore" /\ todo = {}
    /\ \/ file = NoFile /\ MakeFile(NewFile({}, FALSE, TRUE))
       \/ file # NoFile /\ file.ok /\ UNCHANGED <<file, count>>
    /\ bare' = IF t # "monitor" /\ schema THEN bare \cup {file'.ino} ELSE bare
    /\ Recovered(t)
    /\ UNCHANGED <<todo, aside, backups, up, stray>>

----------------------------------------------------------------------------
\* _db_backup_loop and the manual backup.

BackupStart ==
    /\ up /\ pc["backup"] = "idle" /\ file # NoFile /\ count.backups < MaxBackups
    /\ Goto("backup", "save")
    /\ UNCHANGED <<file, conn, todo, aside, backups, holder, up, schema, count, stray, bare>>

\* db_backup opens the path again; a damaged file is copied as it is, or not at all.
BackupSave ==
    /\ pc["backup"] = "save"
    /\ IF file = NoFile THEN count.files < MaxFiles /\ file' = NewFile({}, FALSE, TRUE) ELSE UNCHANGED file
    /\ bare' = IF file = NoFile /\ schema THEN bare \cup {file'.ino} ELSE bare
    /\ \/ /\ backups' = backups \cup {[n |-> count.backups + 1, ok |-> file'.ok,
                                       content |-> file'.content, tables |-> file'.tables]}
          /\ count' = [count EXCEPT !.backups = @ + 1, !.files = file'.ino]
       \/ /\ ~file'.ok
          /\ UNCHANGED <<backups, count>>
    /\ Goto("backup", "idle")
    /\ UNCHANGED <<conn, todo, aside, holder, up, schema, stray>>

----------------------------------------------------------------------------
\* Faults.

Damage ==
    /\ file # NoFile /\ file.ok
    /\ Faulty
    /\ file' = [file EXCEPT !.ok = FALSE]
    /\ UNCHANGED <<pc, conn, todo, aside, backups, holder, up, schema, stray, bare>>

Crash ==
    /\ Faulty
    /\ pc' = [t \in Threads |-> "idle"]
    /\ conn' = [t \in Threads |-> 0]
    /\ todo' = {}
    /\ holder' = "none"
    /\ up' = FALSE
    /\ schema' = FALSE
    /\ UNCHANGED <<file, aside, backups, stray, bare>>

Next == \/ \E t \in Threads :
              \/ Open(t) \/ Schema(t) \/ Commit(t) \/ Close(t)
              \/ Acquire(t) \/ Fail(t) \/ Checkpoint(t) \/ PutAside(t) \/ List(t)
              \/ Restore(t) \/ Restored(t) \/ Fresh(t)
        \/ HealthCheck \/ ManualRecover \/ Gate
        \/ BackupStart \/ BackupSave
        \/ Damage \/ Crash

Spec == Init /\ [][Next]_vars

----------------------------------------------------------------------------
\* State of the expected types; one recovery at a time.
TypeOK ==
    /\ file = NoFile \/ file \in [ino : 1..MaxFiles, ok : BOOLEAN, content : SUBSET (1..MaxCommits), tables : BOOLEAN]
    /\ pc \in [Threads -> {"idle", "schema", "use", "close", "recover", "checkpoint", "aside", "list",
                           "restore", "copying", "save"}]
    /\ conn \in [Threads -> 0..MaxFiles]
    /\ holder \in Threads \cup {"none"}
    /\ \A t \in Threads : pc[t] \in {"checkpoint", "aside", "list", "restore", "copying"} <=> holder = t
    /\ todo \subseteq [n : 1..MaxBackups, ok : BOOLEAN, content : SUBSET (1..MaxCommits), tables : BOOLEAN]
    /\ \A t \in Threads : pc[t] = "copying" => file # NoFile /\ todo # {}
    /\ aside \cup stray \subseteq 1..MaxCommits
    /\ {up, schema} \subseteq BOOLEAN

\* Whatever recoveries, backups, crashes and requests do to one another, a commit
\* that was acknowledged is in the database or in a copy of a corrupt file; but
\* for one that was made through a connection to a file that had been replaced or
\* was just being replaced, or in a file whose copy failed.
NothingThrownAway ==
    1..count.commits \subseteq
        stray \cup aside \cup (IF file = NoFile THEN {} ELSE file.content)

\* A database that requests are served from has its tables once
\* _schema_initialized is set, or every request fails until the next restart;
\* but for the files that were started, or restored, empty behind the flag.
TablesThere ==
    schema /\ file # NoFile /\ holder = "none" => file.tables \/ file.ino \in bare
=============================================================================
