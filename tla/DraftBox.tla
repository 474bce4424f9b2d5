-------------------------------- MODULE DraftBox --------------------------------
(***************************************************************************)
(* The drafts folder (email_drafter.py: update_draft, send_draft,          *)
(* discard_draft), whose requests run in worker threads beside one         *)
(* another.  IMAP cannot edit a message: an update appends a copy with a   *)
(* uid of its own and then deletes the old one.                            *)
(***************************************************************************)
EXTENDS Naturals, Sequences

CONSTANTS Drafts, Requests,
          MaxUids,  \* bound on the uids of the folder
          MaxFaults \* bound on connections that break

VARIABLES box,       \* uid -> [draft, there]
          job,       \* request -> [op, uid, acted]
          sent,      \* draft -> times it went out, where 2 stands for more
          discarded, \* drafts the user has discarded
          crossed,   \* drafts with requests beside one another, or a broken connection
          faults

vars == <<box, job, sent, discarded, crossed, faults>>

Idle == [op |-> "idle", uid |-> 0, acted |-> FALSE]
Of(r) == IF job[r] = Idle THEN {} ELSE {box[job[r].uid].draft}
Copies(d) == {u \in DOMAIN box : box[u].draft = d /\ box[u].there}
Faulty == faults < MaxFaults /\ faults' = faults + 1

Init == /\ box = <<>>
        /\ job = [r \in Requests |-> Idle]
        /\ sent = [d \in Drafts |-> 0]
        /\ discarded = {} /\ crossed = {}
        /\ faults = 0

----------------------------------------------------------------------------
Appended(d) == /\ Len(box) < MaxUids
               /\ box' = Append(box, [draft |-> d, there |-> TRUE])

\* A reply is drafted, by hand or by the drafter.
Create(d) ==
    /\ \A u \in DOMAIN box : box[u].draft # d
    /\ Appended(d)
    /\ UNCHANGED <<job, sent, discarded, crossed, faults>>

\* The draft is fetched by its uid; "not found" if it is gone.
Ask(r, op, u) ==
    /\ job[r] = Idle /\ box[u].there
    /\ job' = [job EXCEPT ![r] = [op |-> op, uid |-> u, acted |-> FALSE]]
    /\ crossed' = crossed \cup ({box[u].draft} \cap UNION {Of(q) : q \in Requests})
    /\ UNCHANGED <<box, sent, discarded, faults>>

Out(r) == sent' = [sent EXCEPT ![box[job[r].uid].draft] = IF @ = 0 THEN 1 ELSE 2]
Acted(r) == job' = [job EXCEPT ![r].acted = TRUE]
Ends(r) == job' = [job EXCEPT ![r] = Idle]

Send(r) ==
    /\ job[r].op = "send" /\ ~job[r].acted
    /\ Out(r) /\ Acted(r)
    /\ UNCHANGED <<box, discarded, crossed, faults>>

Update(r) ==
    /\ job[r].op = "update" /\ ~job[r].acted
    /\ Appended(box[job[r].uid].draft) /\ Acted(r)
    /\ UNCHANGED <<sent, discarded, crossed, faults>>

BadMayDelete(r) == job[r] # Idle
\* A draft is deleted when it has gone out, or its new copy is there.
MayDelete(r) == job[r].op = "discard" \/ job[r].acted

Delete(r) ==
    /\ MayDelete(r)
    /\ box' = [box EXCEPT ![job[r].uid].there = FALSE]
    /\ discarded' = IF job[r].op = "discard" THEN discarded \cup Of(r) ELSE discarded
    /\ Ends(r)
    /\ UNCHANGED <<sent, crossed, faults>>

\* The connection breaks, to the mail server perhaps after the mail went out.
Fail(r) ==
    /\ job[r] # Idle /\ Faulty
    /\ \/ UNCHANGED sent
       \/ job[r].op = "send" /\ ~job[r].acted /\ Out(r)
    /\ crossed' = crossed \cup Of(r)
    /\ Ends(r)
    /\ UNCHANGED <<box, discarded>>

Next == \/ \E d \in Drafts : Create(d)
        \/ \E r \in Requests : \/ Send(r) \/ Update(r) \/ Delete(r) \/ Fail(r)
                               \/ \E op \in {"send", "update", "discard"}, u \in DOMAIN box : Ask(r, op, u)

Spec == Init /\ [][Next]_vars

----------------------------------------------------------------------------
\* State of the expected types.
TypeOK ==
    /\ \A u \in DOMAIN box : box[u] \in [draft : Drafts, there : BOOLEAN]
    /\ \A r \in Requests : job[r] = Idle \/ job[r].uid \in DOMAIN box
    /\ sent \in [Drafts -> 0..2]
    /\ discarded \cup crossed \subseteq Drafts

\* Whatever requests crossed and whatever broke, a draft that was neither sent nor
\* discarded is still in the folder.
DraftKept == \A u \in DOMAIN box : LET d == box[u].draft IN
    sent[d] = 0 /\ d \notin discarded => Copies(d) # {}

\* But for those a draft goes out once, has one copy, and is gone afterwards.
SentOnce == \A d \in Drafts \ crossed :
    /\ sent[d] <= 1
    /\ (\A r \in Requests : d \notin Of(r)) =>
           (sent[d] > 0 \/ d \in discarded) = (Copies(d) = {} /\ \E u \in DOMAIN box : box[u].draft = d)
=============================================================================
