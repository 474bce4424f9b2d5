------------------------------- MODULE MailDrafter -------------------------------
(***************************************************************************)
(* The auto-drafter (email_drafter.py): a run lists the unread mail of the *)
(* inbox, moves or relabels spam, drafts replies, and at its end writes    *)
(* down the ids it has dealt with, so that no mail is answered twice.  The *)
(* loop, the button and the tool may start runs beside one another.        *)
(* Mail is addressed by its sequence number, which is only good while      *)
(* nothing below it is removed.                                            *)
(***************************************************************************)
EXTENDS Naturals, Sequences, FiniteSets, SequencesExt

CONSTANTS Mails, Spam, \* what may arrive, and what of it is classified as spam
          Unnamed,     \* mails without a Message-ID
          Runs,        \* who starts check_and_draft
          MaxPerRun, MaxIds, \* drafter.max_per_run, MAX_PROCESSED_IDS
          MaxFaults    \* bound on failures, aborted runs and what the user does to the inbox

VARIABLES inbox,      \* the INBOX: [mail, unread, label], by sequence number
          arrived,    \* mails that have come
          moved,      \* mails in Trash or Spam
          drafts,     \* mail -> replies drafted, where 2 stands for more
          ids,        \* processed_ids in the state file
          at,         \* run -> where it is
          todo,       \* run -> [num, mail, unread, label] still to look at
          mine,       \* run -> processed_ids as it has them
          acted,      \* run -> acted_count
          profile,    \* {processed_ids as a save of the style profile has read them}, or {}
          faults,
          shifted,    \* runs beside which somebody else removed mail
          hit,        \* mails removed instead of the spam that was meant
          forgotten   \* mails whose id was not, or not to the end, kept in the state file, or has changed

vars == <<inbox, arrived, moved, drafts, ids, at, todo, mine, acted, profile, faults, shifted, hit, forgotten>>

\* The id of a listed mail: its Message-ID, or one made of its sequence number.
IdOf(entry) == IF entry.mail \in Unnamed THEN <<entry.num, "generated">> ELSE <<0, entry.mail>>
Named(s) == {m \in Mails \ Unnamed : <<0, m>> \in s}

\* Mails that a step gives another number, and with it another id.
Places(box, m) == {i \in DOMAIN box : box[i].mail = m}
Renumbered == {m \in Unnamed : Places(inbox', m) # Places(inbox, m)}

Goto(r, l) == at' = [at EXCEPT ![r] = l]
Faulty == faults < MaxFaults /\ faults' = faults + 1
Active == {r \in Runs : at[r] # "idle"}

Init == /\ inbox = <<>> /\ arrived = {} /\ moved = {}
        /\ drafts = [m \in Mails |-> 0]
        /\ ids = {}
        /\ at = [r \in Runs |-> "idle"]
        /\ todo = [r \in Runs |-> <<>>]
        /\ mine = [r \in Runs |-> {}]
        /\ acted = [r \in Runs |-> 0]
        /\ profile = {}
        /\ faults = 0
        /\ shifted = {} /\ hit = {} /\ forgotten = {}

----------------------------------------------------------------------------
\* check_and_draft.

\* _load_state.  What another run has done so far this one will not know.
Start(r) ==
    /\ at[r] = "idle"
    /\ mine' = [mine EXCEPT ![r] = ids]
    /\ acted' = [acted EXCEPT ![r] = 0]
    /\ Goto(r, "search")
    /\ forgotten' = IF Active = {} THEN forgotten ELSE Mails
    /\ UNCHANGED <<inbox, arrived, moved, drafts, ids, todo, profile, faults, shifted, hit>>

Numbered == [i \in DOMAIN inbox |-> [num |-> i] @@ inbox[i]]

\* Newest first, so that what is removed shifts no number that is still to come.
Order(s) == Reverse(s)

Unread == SelectSeq(Order(Numbered), LAMBDA e : e.unread)
Scanned == SubSeq(Unread, 1, IF Len(Unread) < 5 * MaxPerRun THEN Len(Unread) ELSE 5 * MaxPerRun)

Search(r) ==
    /\ at[r] = "search"
    /\ todo' = [todo EXCEPT ![r] = Scanned]
    /\ Goto(r, IF Unread = <<>> THEN "save" ELSE "scan")
    /\ shifted' = shifted \ {r}
    /\ UNCHANGED <<inbox, arrived, moved, drafts, ids, mine, acted, profile, faults, hit, forgotten>>

Current(r) == Head(todo[r])
Done(r) == /\ todo' = [todo EXCEPT ![r] = Tail(@)]
           /\ Goto(r, "scan")
Processed(r) == mine' = [mine EXCEPT ![r] = @ \cup {IdOf(Current(r))}]

\* The next mail: fetched from the session the list came from, if it is still there.
Look(r) ==
    /\ at[r] = "scan" /\ todo[r] # <<>> /\ acted[r] < MaxPerRun
    /\ IF (\E i \in DOMAIN inbox : inbox[i].mail = Current(r).mail) /\ IdOf(Current(r)) \notin mine[r]
       THEN /\ acted' = [acted EXCEPT ![r] = @ + 1]
            /\ Goto(r, "judge")
            /\ UNCHANGED todo
       ELSE Done(r) /\ UNCHANGED acted
    /\ UNCHANGED <<inbox, arrived, moved, drafts, ids, mine, profile, faults, shifted, hit, forgotten>>

\* Filtered, declined, empty or blocked: noted as dealt with.  Failed: left for the
\* next run.  Otherwise spam, or, also when the classification fails, a reply.
Judge(r) ==
    /\ at[r] = "judge"
    /\ \/ Done(r) /\ Processed(r) /\ UNCHANGED faults
       \/ Done(r) /\ Faulty /\ UNCHANGED mine
       \/ Current(r).mail \in Spam /\ Goto(r, "spam") /\ UNCHANGED <<todo, mine, faults>>
       \/ /\ IF Current(r).mail \in Spam THEN Faulty ELSE UNCHANGED faults
          /\ Goto(r, "reply")
          /\ UNCHANGED <<todo, mine>>
    /\ UNCHANGED <<inbox, arrived, moved, drafts, ids, acted, profile, shifted, hit, forgotten>>

\* A mail is removed from the inbox by its number, as a new session counts it.
Removed(r) ==
    LET n == Current(r).num IN
    /\ n \in DOMAIN inbox
    /\ hit' = IF inbox[n].mail # Current(r).mail /\ r \notin shifted THEN hit \cup {inbox[n].mail} ELSE hit
    /\ shifted' = shifted \cup (Active \ {r})

\* _imap_move_to_folder: copied to the folder, then deleted.  A failure is noted as done.
Move(r) ==
    /\ at[r] = "spam"
    /\ \/ /\ Removed(r)
          /\ moved' = moved \cup {inbox[Current(r).num].mail}
          /\ inbox' = RemoveAt(inbox, Current(r).num)
          /\ UNCHANGED faults
       \/ Faulty /\ UNCHANGED <<inbox, moved, shifted, hit>>
    /\ Done(r) /\ Processed(r)
    /\ forgotten' = forgotten \cup Renumbered
    /\ UNCHANGED <<arrived, drafts, ids, acted, profile>>

\* _imap_rewrite_subject: the relabelled copy, with the flags of the original, is
\* appended before that goes; what is labelled already stays.
Relabel(r) ==
    /\ at[r] = "spam"
    /\ LET n == Current(r).num
           copy == Append(inbox, [mail |-> Current(r).mail, label |-> TRUE,
                                  unread |-> n \in DOMAIN inbox => inbox[n].unread])
       IN
       \/ /\ ~Current(r).label /\ Removed(r)
          /\ inbox' = RemoveAt(copy, n)
          /\ moved' = IF inbox[n].mail = Current(r).mail THEN moved ELSE moved \cup {inbox[n].mail}
          /\ UNCHANGED faults
       \/ ~Current(r).label /\ Faulty /\ inbox' \in {inbox, copy} /\ UNCHANGED <<moved, shifted, hit>>
       \/ Current(r).label /\ UNCHANGED <<inbox, moved, faults, shifted, hit>>
    /\ Done(r) /\ Processed(r)
    /\ forgotten' = forgotten \cup Renumbered
    /\ UNCHANGED <<arrived, drafts, ids, acted, profile>>

\* _create_threaded_draft; a failed append is noted as done, an exception is not.
Reply(r) ==
    /\ at[r] = "reply"
    /\ LET m == Current(r).mail IN
       \/ drafts' = [drafts EXCEPT ![m] = IF @ = 0 THEN 1 ELSE 2] /\ Processed(r) /\ UNCHANGED faults
       \/ Faulty /\ Processed(r) /\ UNCHANGED drafts
       \/ Faulty /\ UNCHANGED <<drafts, mine>>
    /\ Done(r)
    /\ UNCHANGED <<inbox, arrived, moved, ids, acted, profile, shifted, hit, forgotten>>

\* What a run has in memory goes with it.
Gone(r) == /\ Goto(r, "idle")
           /\ todo' = [todo EXCEPT ![r] = <<>>]
           /\ mine' = [mine EXCEPT ![r] = {}]
           /\ acted' = [acted EXCEPT ![r] = 0]
           /\ shifted' = shifted \ {r}

Finish(r) ==
    /\ at[r] = "scan" /\ (todo[r] = <<>> \/ acted[r] >= MaxPerRun)
    /\ Goto(r, "save")
    /\ UNCHANGED <<inbox, arrived, moved, drafts, ids, todo, mine, acted, profile, faults, shifted, hit, forgotten>>

\* _save_state: of more ids than are kept, any are dropped, for they come from a set.
Save(r) ==
    /\ at[r] = "save"
    /\ ids' \in IF Cardinality(mine[r]) <= MaxIds THEN {mine[r]}
                ELSE {s \in SUBSET mine[r] : Cardinality(s) = MaxIds}
    /\ forgotten' = forgotten \cup Named(mine[r] \ ids')
    /\ Gone(r)
    /\ UNCHANGED <<inbox, arrived, moved, drafts, profile, faults, hit>>

\* The connection breaks between two mails, or the server stops.
Abort(r) ==
    /\ at[r] # "idle" /\ Faulty
    /\ Gone(r)
    /\ forgotten' = forgotten \cup Named(mine[r] \ ids)
    /\ UNCHANGED <<inbox, arrived, moved, drafts, ids, profile, hit>>

----------------------------------------------------------------------------
\* A save of the style profile rewrites the state file.

LoadProfile ==
    /\ profile = {} /\ Faulty
    /\ profile' = {ids}
    /\ UNCHANGED <<inbox, arrived, moved, drafts, ids, at, todo, mine, acted, shifted, hit, forgotten>>

SaveProfile ==
    /\ profile # {}
    /\ ids' = UNION profile
    /\ profile' = {}
    /\ forgotten' = forgotten \cup Named(ids \ ids')
    /\ UNCHANGED <<inbox, arrived, moved, drafts, at, todo, mine, acted, faults, shifted, hit>>

----------------------------------------------------------------------------
\* Mail arrives; the user reads and deletes it in another client.

Arrive(m) ==
    /\ m \notin arrived
    /\ arrived' = arrived \cup {m}
    /\ inbox' = Append(inbox, [mail |-> m, unread |-> TRUE, label |-> FALSE])
    /\ UNCHANGED <<moved, drafts, ids, at, todo, mine, acted, profile, faults, shifted, hit, forgotten>>

UserReads(n) ==
    /\ inbox[n].unread /\ Faulty
    /\ inbox' = [inbox EXCEPT ![n].unread = FALSE]
    /\ UNCHANGED <<arrived, moved, drafts, ids, at, todo, mine, acted, profile, shifted, hit, forgotten>>

UserDeletes(n) ==
    /\ Faulty
    /\ moved' = moved \cup {inbox[n].mail}
    /\ inbox' = RemoveAt(inbox, n)
    /\ shifted' = shifted \cup Active
    /\ forgotten' = forgotten \cup Renumbered
    /\ UNCHANGED <<arrived, drafts, ids, at, todo, mine, acted, profile, hit>>

Next == \/ \E r \in Runs : \/ Start(r) \/ Search(r) \/ Look(r) \/ Judge(r) \/ Move(r) \/ Relabel(r)
                           \/ Reply(r) \/ Finish(r) \/ Save(r) \/ Abort(r)
        \/ \E m \in Mails : Arrive(m)
        \/ \E n \in DOMAIN inbox : UserReads(n) \/ UserDeletes(n)
        \/ LoadProfile \/ SaveProfile

Spec == Init /\ [][Next]_vars

----------------------------------------------------------------------------
Ids == (Nat \X {"generated"}) \cup ({0} \X (Mails \ Unnamed))

\* State of the expected types.
TypeOK ==
    /\ inbox \in Seq([mail : Mails, unread : BOOLEAN, label : BOOLEAN])
    /\ arrived \cup moved \cup hit \cup forgotten \subseteq Mails
    /\ ids \subseteq Ids /\ Cardinality(ids) <= MaxIds
    /\ drafts \in [Mails -> 0..2]
    /\ at \in [Runs -> {"idle", "search", "scan", "judge", "spam", "reply", "save"}]
    /\ \A r \in Runs : /\ todo[r] \in Seq([num : Nat, mail : Mails, unread : BOOLEAN, label : BOOLEAN])
                       /\ at[r] \in {"judge", "spam", "reply"} => todo[r] # <<>>
                       /\ acted[r] \in 0..MaxPerRun
    /\ mine \in [Runs -> SUBSET Ids] /\ shifted \subseteq Runs

\* No mail is answered twice, also when it stays unread, fails, is relabelled or comes
\* up in every run; but for runs beside one another, for ids that a broken-off run, a
\* full list or a save of the profile has lost, and for mails without a Message-ID that
\* got another number.
OneDraftEach == \A m \in Mails \ forgotten : drafts[m] <= 1

\* What a run removes from the inbox is the spam it has classified, though it goes by
\* numbers of a list made before it removed others; but for somebody else's removals.
RightMail == hit = {}

\* No mail disappears: it is in the inbox, or was moved out of it as a whole.
MailKept == arrived \subseteq moved \cup {inbox[n].mail : n \in DOMAIN inbox}
=============================================================================
