------------------------------- MODULE MailCache --------------------------------
(***************************************************************************)
(* The local copy of one mail folder (email_cache.py), filled and changed  *)
(* by the sync loop, by listings, by opened mails and by what the user     *)
(* does to a mail.  Each job has a step on the server, in a worker thread  *)
(* (gmail_bridge.py), and a later one on the cache; other jobs may come    *)
(* between, and other clients change the folder without a word.            *)
(***************************************************************************)
EXTENDS Naturals

CONSTANTS Mails,
          Jobs,      \* what may be under way at once: the loop and requests
          MaxFaults  \* bound on failures, changes by other clients and clean-ups

VARIABLES server, \* mail -> "none", "unread", "read"
          rows,   \* mail -> the same as the cache has it
          bodies, \* mails whose row has a body
          job,    \* job -> [op, read, unread]: what it does, and the mails it has read or changed
          late,   \* job -> mails changed on the server since its own step there
          doubt,  \* mails whose row something out of order may have left wrong
          faults

vars == <<server, rows, bodies, job, late, doubt, faults>>

Idle == [op |-> "idle", read |-> {}, unread |-> {}]
On(j) == job[j].read \cup job[j].unread
Faulty == faults < MaxFaults /\ faults' = faults + 1
Take(j, o, r, u) == job[j] = Idle /\ job' = [job EXCEPT ![j] = [op |-> o, read |-> r, unread |-> u]]

\* A mail changes on the server while jobs, but for those in js, are under way.
Changed(js, m, f) ==
    /\ server' = [server EXCEPT ![m] = f]
    /\ late' = [q \in Jobs |-> IF q \notin js /\ m \in On(q) THEN late[q] \cup {m} ELSE late[q]]

Init == /\ server = [m \in Mails |-> "none"] /\ rows = server
        /\ bodies = {}
        /\ job = [j \in Jobs |-> Idle] /\ late = [j \in Jobs |-> {}]
        /\ doubt = {} /\ faults = 0

Ends(j) == job' = [job EXCEPT ![j] = Idle] /\ late' = [late EXCEPT ![j] = {}]

----------------------------------------------------------------------------
\* Listings: the sync loop, and the search request without a cached answer.

List(j) ==
    /\ \E m \in Mails : server[m] # "none"
    /\ Take(j, "list", {m \in Mails : server[m] = "read"}, {m \in Mails : server[m] = "unread"})
    /\ UNCHANGED <<server, rows, bodies, late, doubt, faults>>

BadListed(j, m) == IF rows[m] = "none" /\ m \in job[j].unread THEN "unread"
                   ELSE IF rows[m] = "none" /\ m \in job[j].read THEN "read" ELSE rows[m]
\* upsert_messages: is_read is the listing's.
Listed(j, m) == IF m \in job[j].read THEN "read" ELSE IF m \in job[j].unread THEN "unread" ELSE rows[m]

\* Rows of mails that are not listed stay.
Upsert(j) ==
    /\ job[j].op = "list"
    /\ rows' = [m \in Mails |-> Listed(j, m)]
    /\ doubt' = (doubt \ On(j)) \cup late[j]
    /\ Ends(j)
    /\ UNCHANGED <<server, bodies, faults>>

----------------------------------------------------------------------------
\* A whole mail: the sync loop's prefetch, and the message request without a
\* cached body.  Fetching it read-only does not mark it read.

Open(j, m) ==
    /\ server[m] # "none"
    /\ Take(j, "open", {m}, {})
    /\ UNCHANGED <<server, rows, bodies, late, doubt, faults>>

\* upsert_full_message: a row it has to make is marked read, one it finds keeps its flag.
UpsertFull(j) ==
    /\ job[j].op = "open"
    /\ rows' = [m \in Mails |-> IF m \in On(j) /\ rows[m] = "none" THEN "read" ELSE rows[m]]
    /\ doubt' = doubt \cup {m \in On(j) : rows[m] = "none"}
    /\ bodies' = bodies \cup On(j)
    /\ Ends(j)
    /\ UNCHANGED <<server, faults>>

----------------------------------------------------------------------------
\* The user moves a mail to the trash or sets a flag: first there, then here.

Trash(j, m) ==
    /\ server[m] # "none" \/ rows[m] # "none"
    /\ Take(j, "trash", {m}, {})
    /\ IF server[m] = "none" THEN UNCHANGED <<server, late>> ELSE Changed({j}, m, "none")
    /\ UNCHANGED <<rows, bodies, doubt, faults>>

TrashRow(j) ==
    /\ job[j].op = "trash"
    /\ rows' = [m \in Mails |-> IF m \in On(j) THEN "none" ELSE rows[m]]
    /\ bodies' = bodies \ On(j)
    /\ doubt' = (doubt \ On(j)) \cup late[j]
    /\ Ends(j)
    /\ UNCHANGED <<server, faults>>

SetFlag(j, m, f) ==
    /\ server[m] # "none"
    /\ IF f = "read" THEN Take(j, "flag", {m}, {}) ELSE Take(j, "flag", {}, {m})
    /\ Changed({j}, m, f)
    /\ UNCHANGED <<rows, bodies, doubt, faults>>

FlagRow(j) ==
    /\ job[j].op = "flag"
    /\ rows' = [m \in Mails |-> IF rows[m] = "none" THEN "none" ELSE Listed(j, m)]
    /\ doubt' = doubt \cup late[j]
    /\ Ends(j)
    /\ UNCHANGED <<server, bodies, faults>>

\* The connection breaks, perhaps after the server has done it; or the cache does.
Fail(j) ==
    /\ job[j] # Idle /\ Faulty
    /\ doubt' = doubt \cup (IF job[j].op \in {"trash", "flag"} THEN On(j) ELSE {})
    /\ Ends(j)
    /\ UNCHANGED <<server, rows, bodies>>

----------------------------------------------------------------------------
\* Other clients; cleanup_old_messages and clear_cache.

Outside(m, f) ==
    /\ server[m] # f /\ Faulty
    /\ Changed({}, m, f)
    /\ doubt' = doubt \cup {m}
    /\ UNCHANGED <<rows, bodies, job>>

Forget(S) ==
    /\ Faulty
    /\ rows' = [m \in Mails |-> IF m \in S THEN "none" ELSE rows[m]]
    /\ bodies' = bodies \ S
    /\ doubt' = doubt \cup S
    /\ UNCHANGED <<server, job, late>>

Next == \/ \E j \in Jobs : \/ List(j) \/ Upsert(j) \/ UpsertFull(j) \/ TrashRow(j) \/ FlagRow(j) \/ Fail(j)
                           \/ \E m \in Mails : \/ Open(j, m) \/ Trash(j, m)
                                               \/ \E f \in {"read", "unread"} : SetFlag(j, m, f)
        \/ \E m \in Mails, f \in {"none", "unread", "read"} : Outside(m, f)
        \/ \E S \in SUBSET Mails : Forget(S)

Spec == Init /\ [][Next]_vars

----------------------------------------------------------------------------
\* State of the expected types; only a row has a body.
TypeOK ==
    /\ {server, rows} \subseteq [Mails -> {"none", "unread", "read"}]
    /\ bodies \subseteq {m \in Mails : rows[m] # "none"}
    /\ \A j \in Jobs : /\ job[j].op \in {"idle", "list", "open", "trash", "flag"}
                       /\ late[j] \subseteq On(j) /\ On(j) \subseteq Mails
    /\ doubt \subseteq Mails /\ faults \in 0..MaxFaults

\* While nothing is being done to a mail, the cache shows it as the server has it,
\* except where another client, a failure, a clean-up or a change between the two
\* steps of a job came in the way; and the next undisturbed listing repairs those it lists.
RowsTrue == \A m \in Mails \ doubt :
    (\A j \in Jobs : m \in On(j) => job[j].op \in {"list", "open"}) => rows[m] = server[m]
=============================================================================
