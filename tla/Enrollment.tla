------------------------------- MODULE Enrollment -------------------------------
(***************************************************************************)
(* Voice enrollment: the server keeps a flag in memory that the wake       *)
(* listener (tools/wake-listener.py) finds when it refreshes its           *)
(* configuration, records the speaker, reports and clears; the admin may   *)
(* ask again, upload a recording or restart the listener at any time.      *)
(***************************************************************************)
EXTENDS Naturals, FiniteSets

CONSTANTS Procs,     \* listener processes
          Restarts,  \* requests to restart the listener
          Names,     \* speakers
          MaxAsks,   \* requests of the admin: enrollments, uploads, restarts
          MaxFaults  \* lost reports, failed launches, restarts of the server

VARIABLES
    server,     \* flag (listener_enroll_speaker) and status of _enroll_progress
    proc,       \* per process: at, stop, flag and name, what its refresh holds, loaded
    restart,    \* per restart request: idle, or killed (the old processes)
    upload,     \* the speaker of an uploaded recording at work
    disk,       \* the saved profiles
    waiting,    \* speakers asked for whose recording has not begun
    again,      \* speakers whose flag a refresh read before the report of their recording
    extra,      \* a recording began that nobody had asked for
    past,       \* reported and dropped speakers, those saved behind a listener's back, overlapping restarts
    count      \* requests and faults so far

vars == <<server, proc, restart, upload, disk, waiting, again, extra, past, count>>

None == "none"
Speakers == Names \union {None}
Nothing == [some |-> FALSE, name |-> None, early |-> FALSE]

----------------------------------------------------------------------------
Off == [at |-> "off", stop |-> FALSE, flag |-> None, name |-> None, held |-> Nothing, loaded |-> {}]

\* main() until its loop: the first configuration fills the settings but not the flag.
Started == [Off EXCEPT !.at = "listening", !.loaded = disk]

Init == /\ server = [flag |-> None, status |-> "none"]
        /\ disk = {}
        /\ LET first == CHOOSE p \in Procs : TRUE IN
           proc = [p \in Procs |-> IF p = first THEN Started ELSE Off]
        /\ restart = [r \in Restarts |-> "idle"]
        /\ upload = None
        /\ waiting = {}
        /\ again = {}
        /\ extra = FALSE
        /\ past = [reported |-> {}, dropped |-> {}, newer |-> {}, overlapped |-> FALSE]
        /\ count = [asks |-> 0, faults |-> 0]

Running(p) == proc[p].at # "off"
Fault == count.faults < MaxFaults /\ count' = [count EXCEPT !.faults = @ + 1]

Asked == count.asks < MaxAsks /\ count' = [count EXCEPT !.asks = @ + 1]

\* Whatever the flag named is not asked for by it any more.
Dropping(past0) == [past0 EXCEPT !.dropped = @ \union ({server.flag} \intersect waiting)]

----------------------------------------------------------------------------
\* The server.

\* api_eagle_enroll: one flag, whoever it names already.
Ask(n) == /\ Asked
          /\ server' = [flag |-> n, status |-> "pending"]
          /\ waiting' = waiting \union {n}
          /\ past' = [past EXCEPT !.dropped = (@ \union ({server.flag} \intersect waiting)) \ {n},
                                  !.reported = @ \ {n}]
          /\ UNCHANGED <<proc, restart, upload, disk, again, extra>>

\* api_eagle_enroll_file: the profile is saved without a word to the listener.
UploadBegins(n) == /\ upload = None
                   /\ upload' = n
                   /\ Asked
                   /\ server' = [server EXCEPT !.status = "enrolling"]
                   /\ UNCHANGED <<proc, restart, disk, waiting, again, extra, past>>

UploadEnds(ok) == /\ upload # None
                  /\ upload' = None
                  /\ server' = [server EXCEPT !.status = IF ok THEN "complete" ELSE "failed"]
                  /\ disk' = IF ok THEN disk \union {upload} ELSE disk
                  /\ past' = IF ok THEN [past EXCEPT !.newer = @ \union {upload}] ELSE past
                  /\ UNCHANGED <<proc, restart, waiting, again, extra, count>>

\* The flag and the progress are in memory only.
ServerRestarts == /\ Fault
                  /\ server' = [flag |-> None, status |-> "none"]
                  /\ upload' = None
                  /\ past' = Dropping(past)
                  /\ UNCHANGED <<proc, restart, disk, waiting, again, extra>>

----------------------------------------------------------------------------
\* The refresh thread of a listener: fetch, probe the backend, and only then update.

Fetch(p) == /\ Running(p) /\ ~proc[p].held.some
            /\ proc' = [proc EXCEPT ![p].held = [some |-> TRUE, name |-> server.flag,
                                                early |-> server.flag \notin past.reported]]
            /\ UNCHANGED <<server, restart, upload, disk, waiting, again, extra, past, count>>

\* A flag that was read before the report of its recording starts another one.
Update(p) == LET held == proc[p].held IN
             /\ held.some
             /\ proc' = [proc EXCEPT ![p].flag = held.name, ![p].held = Nothing]
             /\ again' = IF held.name \in Names \ waiting /\ held.early
                         THEN again \union {held.name} ELSE again
             /\ UNCHANGED <<server, restart, upload, disk, waiting, extra, past, count>>

----------------------------------------------------------------------------
\* The loop of a listener.

\* The local flag is cleared first, and the recording takes as long as the admin said.
BadBegin(p) == LET n == proc[p].flag IN
               /\ proc[p].at = "listening" /\ ~proc[p].stop /\ n # None
               /\ proc' = [proc EXCEPT ![p].at = "recording", ![p].name = n]
               /\ waiting' = waiting \ {n}
               /\ again' = IF n \in waiting THEN again ELSE again \ {n}
               /\ extra' = (extra \/ n \notin waiting \union again)
               /\ server' = [server EXCEPT !.status = "enrolling"]
               /\ UNCHANGED <<restart, upload, disk, past, count>>

Begin(p) == LET n == proc[p].flag IN
            /\ proc[p].at = "listening" /\ ~proc[p].stop /\ n # None
            /\ proc' = [proc EXCEPT ![p].at = "recording", ![p].flag = None, ![p].name = n]
            /\ waiting' = waiting \ {n}
            /\ again' = IF n \in waiting THEN again ELSE again \ {n}
            /\ extra' = (extra \/ n \notin waiting \union again)
            /\ server' = [server EXCEPT !.status = "enrolling"]
            /\ UNCHANGED <<restart, upload, disk, past, count>>

\* run_enrollment's end, for better or worse: the profiles are loaded again after a
\* success, and the report clears the server's flag.
Finish(p, ok, told) ==
    LET n == proc[p].name
        saved == IF ok THEN disk \union {n} ELSE disk
        others == \E q \in Procs \ {p} : Running(q) IN
    /\ proc[p].at = "recording"
    /\ disk' = saved
    /\ proc' = [proc EXCEPT ![p].at = "clearing", ![p].loaded = IF ok THEN saved ELSE @]
    /\ IF told
       THEN /\ server' = [flag |-> None, status |-> IF ok THEN "complete" ELSE "failed"]
            /\ past' = [Dropping(past) EXCEPT !.reported = @ \union ({n} \ waiting),
                                              !.newer = @ \union IF ok /\ others THEN {n} ELSE {}]
       ELSE /\ past' = [past EXCEPT !.newer = @ \union IF ok /\ others THEN {n} ELSE {}]
            /\ UNCHANGED server
    /\ IF told THEN UNCHANGED count ELSE Fault
    /\ UNCHANGED <<restart, upload, waiting, again, extra>>

\* The POST to /api/config that clears the flag once more; a listener on another
\* machine has no session and is refused.
Clear(p, accepted) == /\ proc[p].at = "clearing"
                      /\ proc' = [proc EXCEPT ![p].at = "listening", ![p].name = None]
                      /\ IF accepted
                         THEN /\ server' = [server EXCEPT !.flag = None]
                              /\ past' = Dropping(past)
                         ELSE UNCHANGED <<server, past>>
                      /\ UNCHANGED <<restart, upload, disk, waiting, again, extra, count>>

\* A process that was told to stop sees it between two rounds of its loop.
Exit(p) == /\ proc[p].at = "listening" /\ proc[p].stop
           /\ proc' = [proc EXCEPT ![p] = Off]
           /\ past' = [past EXCEPT !.dropped = @ \union ({proc[p].flag, proc[p].held.name} \intersect waiting)]
           /\ UNCHANGED <<server, restart, upload, disk, waiting, again, extra, count>>

----------------------------------------------------------------------------
\* api_listener_restart: every process that pgrep finds is told to stop, and half a
\* second later a new one is started, whatever the old ones and other requests do.

Kill(r) == /\ restart[r] = "idle"
           /\ Asked
           /\ restart' = [restart EXCEPT ![r] = "killed"]
           /\ proc' = [p \in Procs |-> IF Running(p) THEN [proc[p] EXCEPT !.stop = TRUE] ELSE proc[p]]
           /\ past' = [past EXCEPT !.overlapped = @ \/ \E q \in Restarts : restart[q] = "killed"]
           /\ UNCHANGED <<server, upload, disk, waiting, again, extra>>

Launch(r) == /\ restart[r] = "killed"
             /\ restart' = [restart EXCEPT ![r] = "idle"]
             /\ \/ /\ \E p \in Procs : /\ ~Running(p)
                                       /\ proc' = [proc EXCEPT ![p] = Started]
                   /\ UNCHANGED count
                \/ Fault /\ UNCHANGED proc
             /\ UNCHANGED <<server, upload, disk, waiting, again, extra, past>>

----------------------------------------------------------------------------
Next == \/ \E n \in Names : Ask(n) \/ UploadBegins(n)
        \/ \E ok \in BOOLEAN : UploadEnds(ok)
        \/ ServerRestarts
        \/ \E p \in Procs : \/ Fetch(p) \/ Update(p) \/ Begin(p) \/ Exit(p)
                            \/ \E ok, told \in BOOLEAN : Finish(p, ok, told)
                            \/ \E accepted \in BOOLEAN : Clear(p, accepted)
        \/ \E r \in Restarts : Kill(r) \/ Launch(r)

Spec == Init /\ [][Next]_vars

----------------------------------------------------------------------------
TypeOK ==
    /\ server \in [flag : Speakers, status : {"none", "pending", "enrolling", "complete", "failed"}]
    /\ proc \in [Procs -> [at : {"off", "listening", "recording", "clearing"}, stop : BOOLEAN,
                           flag : Speakers, name : Speakers,
                           held : [some : BOOLEAN, name : Speakers, early : BOOLEAN], loaded : SUBSET Names]]
    /\ restart \in [Restarts -> {"idle", "killed"}]
    /\ upload \in Speakers /\ disk \subseteq Names /\ waiting \subseteq Names
    /\ again \subseteq Names /\ extra \in BOOLEAN
    /\ past.overlapped \in BOOLEAN
    /\ count \in [asks : 0..MaxAsks, faults : 0..MaxFaults]

\* One request is one recording, except for each time the refresh read the flag before
\* the report of the recording cleared it ("Clear immediately to prevent re-trigger from
\* config refresh" clears only the listener's copy), or two listeners ran.
EnrollOnce == extra => past.overlapped

\* A request waits where a listener will find it, unless another request or the end of
\* another recording took its place.
Served == \A n \in waiting \ past.dropped :
              n = server.flag \/ \E p \in Procs : n \in {proc[p].flag, proc[p].held.name}

\* The admin who waits for the outcome of a recording is told one.
Told == /\ count.faults = 0 /\ past.dropped = {} /\ upload = None /\ server.flag = None
        /\ \A p \in Procs : proc[p].at \in {"off", "listening"} /\ {proc[p].flag, proc[p].held.name} = {None}
        => server.status \notin {"pending", "enrolling"}

\* Restarts that do not overlap leave one listener.
OneListener == (~past.overlapped /\ \A r \in Restarts : restart[r] = "idle")
                   => Cardinality({p \in Procs : Running(p) /\ ~proc[p].stop}) <= 1

\* A listener knows every profile that was not saved behind its back.
KnownVoices == \A p \in Procs : proc[p].at = "listening" => disk \subseteq proc[p].loaded \union past.newer
=============================================================================
