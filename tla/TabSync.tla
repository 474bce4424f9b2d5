------------------------------ MODULE TabSync ------------------------------
(***************************************************************************)
(* One user's tabs on several devices: the browsers keep them, push them   *)
(* as a whole to /api/tabs/sync, and fetch /api/history/sessions when they *)
(* start or when another device's push is broadcast.  The server keeps     *)
(* tab_meta, the tombstones of deleted tabs and the histories; limits and  *)
(* the guard against phantom default tabs apply to new rows of a sync.     *)
(* Source: routes/tabs.py, the _max_* helpers and the naming endpoints of  *)
(* server.py, the tab functions of static/app.js.                          *)
(***************************************************************************)
EXTENDS Integers, FiniteSets, FiniteSetsExt, SequencesExt

CONSTANTS
    Devices,    \* browsers of the user
    Sessions,   \* session ids; the browser draws them at random, none twice
    Model,      \* the model each session id is of, "codex", "spark" or other
    Workers,    \* sessions of tabs created with a role (worker identity)
    Explicit,   \* sessions of tabs created in the dialog
    Shared,     \* sessions every device and the server know at first
    Limits,     \* [total, codex, spark], the max-session policy
    MaxEdits,   \* bound on what the users and the calendar do
    Features    \* "run", "name", "week": what else happens

ASSUME SessionsAssumption == IsFiniteSet(Sessions) /\ Shared \subseteq Sessions /\ Shared # {}
ASSUME EditsAssumption == MaxEdits \in Nat
ASSUME LimitsAssumption == \A l \in {"total", "codex", "spark"} : Limits[l] \in Int

VARIABLES
    meta,       \* rows of tab_meta: session -> [label, at, worker, explicit, old]
    tomb,       \* tab_tombstones: sessions deleted less than seven days ago
    hist,       \* sessions with a row in history
    cleaning,   \* deletions posted and not yet carried out
    roles,      \* sessions whose worker identity is being posted
    tabs,       \* per device: session -> [label, at]
    due,        \* per device: a push is scheduled
    pull,       \* per device: the sessions list that is under way
    heard,      \* per device: tabs_updated has arrived and a pull is scheduled
    edits,      \* edits so far; also the clock of label_updated_at
    fresh,      \* history variable: devices opened since the last edit or deletion
    gone,       \* history variable: sessions whose deletion was carried out
    missed      \* history variable: those of which a device still showed the tab when
                \* the tombstone was dropped

server == <<meta, tomb, hist, cleaning, roles, gone, missed>>
devices == <<tabs, due, pull, heard>>
vars == <<server, devices, edits, fresh>>

Idle == [kind |-> "idle"]
Limited(s) == Model[s] \in {"codex", "spark"}
Default == -1                   \* the label "Codex 1", "Spark 1"
NoLabel == 0                    \* no label in the row

Init ==
    /\ meta = [s \in Shared |-> [label |-> -2, at |-> 0, worker |-> s \in Workers,
                                 explicit |-> s \in Explicit, old |-> FALSE]]
    /\ tomb = {} /\ hist = {} /\ cleaning = {} /\ roles = {}
    /\ tabs = [d \in Devices |-> [s \in Shared |-> [label |-> -2, at |-> 0]]]
    /\ due = [d \in Devices |-> FALSE]
    /\ pull = [d \in Devices |-> Idle] /\ heard = [d \in Devices |-> FALSE]
    /\ edits = 0 /\ gone = {} /\ missed = {} /\ fresh = Devices

Put(f, s, v) == [x \in DOMAIN f \cup {s} |-> IF x = s THEN v ELSE f[x]]
Without(f, S) == [x \in DOMAIN f \ S |-> f[x]]

----------------------------------------------------------------------------
(* The server's handlers.  None suspends between its first read and its    *)
(* commit, so each is one step.                                            *)

\* What a limit counts: rows without a tombstone.
Counts(rows, dead, models) ==
    Cardinality({s \in DOMAIN rows \ dead : Model[s] \in models})

AllModels == {Model[s] : s \in Sessions}

BadAtLimit(st, mk) == mk = "codex" /\ st.codex > Limits["codex"]
\* The policy refuses a new session of model mk; st carries the counts of this request.
AtLimit(st, mk) ==
    \/ st.total >= Limits["total"]
    \/ mk = "codex" /\ st.codex >= Limits["codex"]
    \/ mk = "spark" /\ st.spark >= Limits["spark"]

\* A new row of a limited model uses up the limits for the rest of the request.
Counted(st, s) ==
    IF s \in st.known \/ ~Limited(s) THEN st
    ELSE [st EXCEPT !.known = @ \cup {s},
                    !.total = @ + 1,
                    !.codex = IF Model[s] = "codex" THEN @ + 1 ELSE @,
                    !.spark = IF Model[s] = "spark" THEN @ + 1 ELSE @]

\* A default tab without history, while another such row exists.
Phantom(st, s, t) ==
    /\ Limited(s) /\ t.label = Default /\ s \notin hist
    /\ \E r \in DOMAIN st.rows \ {s} :
          Model[r] = Model[s] /\ st.rows[r].label = Default /\ r \notin hist

BadUpserted(rows, s, t, wk, ex) ==
    Put(rows, s, [label |-> t.label, at |-> t.at, worker |-> wk, explicit |-> ex, old |-> FALSE])
\* INSERT ... ON CONFLICT DO UPDATE: the label with the later stamp wins.
Upserted(rows, s, t, wk, ex) ==
    LET older == s \in DOMAIN rows /\ t.at < rows[s].at
    IN  Put(rows, s, [label |-> IF older THEN rows[s].label ELSE t.label,
                      at |-> IF older THEN rows[s].at ELSE t.at,
                      worker |-> wk,
                      explicit |-> ex \/ (s \in DOMAIN rows /\ rows[s].explicit),
                      old |-> FALSE])

BadTombstoned(s) == FALSE
Tombstoned(s) == s \in tomb

\* One row of the payload.
SyncRow(st, s, t) ==
    IF Tombstoned(s) THEN st
    ELSE IF s \notin st.known /\ Limited(s) /\ AtLimit(st, Model[s])
    THEN [st EXCEPT !.rejected = @ \cup {s}]
    ELSE IF Phantom(st, s, t) THEN st
    ELSE [Counted(st, s) EXCEPT !.saved = TRUE,
                                !.rows = Upserted(@, s, t, s \in Workers, s \in Explicit)]

\* Rows nobody pushed for a day, without role and history, are collected.
Collected(rows) ==
    Without(rows, {s \in DOMAIN rows : ~rows[s].worker /\ rows[s].old /\ s \notin hist})

\* pushTabsToServer and api_tabs_sync: the server takes the rows in the order the device
\* shows its tabs and broadcasts what it saved; the device drops the tabs the answer
\* rejects.  The order matters only among the tabs that are new to the server.
Sync(d) ==
    /\ due[d]
    /\ \E new \in SetToSeqs(DOMAIN tabs[d] \ DOMAIN meta) :
         LET start == [rows |-> meta, known |-> DOMAIN meta, rejected |-> {}, saved |-> FALSE,
                       total |-> Counts(meta, tomb, AllModels),
                       codex |-> Counts(meta, tomb, {"codex"}),
                       spark |-> Counts(meta, tomb, {"spark"})]
             Step(s, a) == SyncRow(a, s, tabs[d][s])
             known == FoldSet(Step, start, DOMAIN tabs[d] \cap DOMAIN meta)
             st == FoldLeft(LAMBDA a, s : Step(s, a), known, new)
             refused == st.rejected \cap DOMAIN tabs[d]
         IN  /\ meta' = Collected(st.rows)
             /\ heard' = [e \in Devices |-> heard[e] \/ st.saved]
             /\ tabs' = [tabs EXCEPT ![d] = Without(@, refused)]
             /\ due' = [due EXCEPT ![d] = refused # {}]
    /\ UNCHANGED <<tomb, hist, cleaning, roles, gone, missed, pull, edits>>

\* api_history_sessions: rows and histories without the tombstoned, and the tombstones.
SessionsList ==
    [kind |-> "list",
     rows |-> Without(meta, tomb),
     sids |-> (DOMAIN meta \cup hist) \ tomb,
     dead |-> tomb]

\* _cleanup_tab_session, from the close button or from terminate.
Cleanup(s) ==
    /\ s \in cleaning
    /\ cleaning' = cleaning \ {s}
    /\ hist' = hist \ {s}
    /\ meta' = Without(meta, {s})
    /\ tomb' = tomb \cup {s}
    /\ gone' = gone \cup {s} /\ missed' = missed \ {s}
    /\ UNCHANGED <<roles, devices, edits>>

\* api_set_worker_identity: inserts the row when the sync has not yet; no limit is asked.
SetRole(s) ==
    /\ s \in roles
    /\ roles' = roles \ {s}
    /\ meta' = IF s \in DOMAIN meta
               THEN [meta EXCEPT ![s].worker = TRUE, ![s].old = FALSE]
               ELSE Put(meta, s, [label |-> NoLabel, at |-> 0, worker |-> TRUE,
                                  explicit |-> FALSE, old |-> FALSE])
    /\ UNCHANGED <<tomb, hist, cleaning, gone, missed, devices, edits>>

\* A session somebody shows, or showed until it was deleted.
Known(s) == s \in tomb \/ \E d \in Devices : s \in DOMAIN tabs[d]

\* api_auto_name_single after its subagent, perhaps after the session was deleted: the name
\* is stamped with the time it is stored, and the device takes it from the answer.
NameArrives(d, s) ==
    /\ "name" \in Features /\ Known(s)
    /\ edits < MaxEdits /\ edits' = edits + 1
    /\ LET name == [label |-> edits + 1, at |-> edits + 1]
       IN  /\ meta' = IF s \in DOMAIN meta
                      THEN Upserted(meta, s, name, meta[s].worker, meta[s].explicit)
                      ELSE Upserted(meta, s, name, FALSE, FALSE)
           /\ tabs' = IF s \in DOMAIN tabs[d] THEN [tabs EXCEPT ![d][s] = name] ELSE tabs
           /\ due' = [due EXCEPT ![d] = @ \/ s \in DOMAIN tabs[d]]
    /\ UNCHANGED <<tomb, hist, cleaning, roles, gone, missed, pull, heard>>

\* The end of a run writes the history, also of a session deleted meanwhile.
RunEnds(s) ==
    /\ "run" \in Features /\ Known(s) /\ s \notin hist
    /\ edits < MaxEdits /\ edits' = edits + 1
    /\ hist' = hist \cup {s}
    /\ UNCHANGED <<meta, tomb, cleaning, roles, gone, missed, devices>>

----------------------------------------------------------------------------
(* The browsers.                                                           *)

\* createTab: from the dialog with or without a role, or the default tab of a start.
Create(d, s) ==
    /\ edits < MaxEdits /\ edits' = edits + 1
    /\ \A e \in Devices : s \notin DOMAIN tabs[e]
    /\ s \notin gone \cup DOMAIN meta \cup cleaning \cup Shared
    /\ LET n == Cardinality({r \in DOMAIN tabs[d] : Model[r] = Model[s]}) + 1
           new == IF s \in Explicit \cup Workers THEN -n ELSE Default
       IN  tabs' = [tabs EXCEPT ![d] = Put(@, s, [label |-> new, at |-> 0])]
    /\ due' = [due EXCEPT ![d] = TRUE]
    /\ roles' = IF s \in Workers THEN roles \cup {s} ELSE roles
    /\ UNCHANGED <<meta, tomb, hist, cleaning, gone, missed, pull, heard>>

Rename(d, s) ==
    /\ edits < MaxEdits /\ edits' = edits + 1
    /\ s \in DOMAIN tabs[d]
    /\ tabs' = [tabs EXCEPT ![d][s] = [label |-> edits + 1, at |-> edits + 1]]
    /\ due' = [due EXCEPT ![d] = TRUE]
    /\ UNCHANGED <<server, pull, heard>>

\* closeTab; a device keeps at least one tab (its manager).
Close(d, s) ==
    /\ edits < MaxEdits /\ edits' = edits + 1
    /\ s \in DOMAIN tabs[d] /\ DOMAIN tabs[d] # {s} /\ s \notin roles
    /\ tabs' = [tabs EXCEPT ![d] = Without(@, {s})]
    /\ due' = [due EXCEPT ![d] = TRUE]
    /\ cleaning' = cleaning \cup {s}
    /\ UNCHANGED <<meta, tomb, hist, roles, gone, missed, pull, heard>>

\* The debounced fetch after tabs_updated.
PullStarts(d) ==
    /\ pull[d].kind = "idle" /\ heard[d]
    /\ heard' = [heard EXCEPT ![d] = FALSE]
    /\ pull' = [pull EXCEPT ![d] = SessionsList]
    /\ UNCHANGED <<server, tabs, due, edits>>

\* The label of a tab after the list: with forceServerLabels the server's label wins,
\* but the tab keeps the later of the two stamps.
Relabelled(t, row) ==
    IF row.label \in {NoLabel, t.label} THEN t
    ELSE [label |-> row.label, at |-> IF row.at >= t.at THEN row.at ELSE t.at]

\* Tabs the list adds: those with a role or created in the dialog.
Added(own, list) ==
    {s \in DOMAIN list.rows \ DOMAIN own : list.rows[s].worker \/ list.rows[s].explicit}

BadKept(own, list) == DOMAIN own
\* Tabs that stay: not deleted elsewhere, and known to a server that knows any.
Kept(own, list) ==
    {s \in DOMAIN own \ list.dead : list.sids = {} \/ s \in list.sids}

\* The tabs of a device after the list.
Merged(own, list) ==
    [s \in Kept(own, list) \cup Added(own, list) |->
        IF s \notin DOMAIN own THEN [label |-> list.rows[s].label, at |-> list.rows[s].at]
        ELSE IF s \in DOMAIN list.rows THEN Relabelled(own[s], list.rows[s]) ELSE own[s]]

\* syncTabsFromServerSessions applies the answer.
PullEnds(d) ==
    /\ pull[d].kind = "list"
    /\ LET new == Merged(tabs[d], pull[d])
       IN  /\ tabs' = [tabs EXCEPT ![d] = new]
           /\ due' = [due EXCEPT ![d] = @ \/ new # tabs[d]]
    /\ pull' = [pull EXCEPT ![d] = Idle]
    /\ UNCHANGED <<server, heard, edits>>

DeviceQuiet(d) == pull[d] = Idle /\ ~due[d] /\ ~heard[d]

\* boot: the page starts with its stored tabs, takes the list and pushes in any case.
Boot(d) ==
    /\ DeviceQuiet(d) /\ d \notin fresh
    /\ fresh' = fresh \cup {d}
    /\ tabs' = [tabs EXCEPT ![d] = Merged(@, SessionsList)]
    /\ due' = [due EXCEPT ![d] = TRUE]
    /\ UNCHANGED <<server, pull, heard, edits>>

----------------------------------------------------------------------------
(* Time.                                                                   *)

Quiet ==
    /\ cleaning = {} /\ roles = {}
    /\ \A d \in Devices : DeviceQuiet(d)

\* A day without a push, or a week, after which a push drops the tombstones by their age
\* alone.  Meanwhile a device may be asleep or closed: a list it was waiting for is lost,
\* and with the page a push and a fetch it had scheduled.
TimePasses ==
    /\ "week" \in Features /\ cleaning = {} /\ roles = {}
    /\ edits < MaxEdits /\ edits' = edits + 1
    /\ meta' = [s \in DOMAIN meta |-> [meta[s] EXCEPT !.old = TRUE]]
    /\ \/ UNCHANGED <<tomb, missed>>
       \/ /\ tomb' = {}
          /\ missed' = missed \cup {s \in tomb : \E d \in Devices : s \in DOMAIN tabs[d]}
    /\ \E closed \in SUBSET Devices :
         /\ heard' = [d \in Devices |-> heard[d] /\ d \notin closed]
         /\ due' = [d \in Devices |-> due[d] /\ d \notin closed]
    /\ pull' = [d \in Devices |-> Idle]
    /\ UNCHANGED <<hist, cleaning, roles, gone, tabs>>

Changes ==
    /\ \/ \E d \in Devices, s \in Sessions :
             Create(d, s) \/ Rename(d, s) \/ Close(d, s) \/ NameArrives(d, s)
       \/ \E s \in Sessions : RunEnds(s) \/ Cleanup(s) \/ SetRole(s)
       \/ TimePasses
    /\ fresh' = {}

Settles(d) ==
    \/ Boot(d)
    \/ (Sync(d) \/ PullStarts(d) \/ PullEnds(d)) /\ UNCHANGED fresh

Next == Changes \/ \E d \in Devices : Settles(d)

Spec == Init /\ [][Next]_vars

----------------------------------------------------------------------------
(* Properties.                                                             *)

Row == [label : (-1 - Cardinality(Sessions))..MaxEdits, at : 0..MaxEdits,
        worker : BOOLEAN, explicit : BOOLEAN, old : BOOLEAN]

\* The tables keep their shape; what a late name leaves of a deleted session is neither a
\* role nor an explicit tab, so that no device takes it up when the tombstone is gone.
TypeOK ==
    /\ DOMAIN meta \subseteq Sessions /\ \A s \in DOMAIN meta : meta[s] \in Row
    /\ tomb \subseteq gone \ missed
    /\ \A s \in DOMAIN meta \cap (gone \ missed) : ~meta[s].worker /\ ~meta[s].explicit
    /\ \A d \in Devices : /\ DOMAIN tabs[d] \subseteq Sessions
                          /\ pull[d].kind \in {"idle", "list"}

\* However many new tabs one sync brings and in whatever order, it never takes a model's
\* persisted sessions beyond the policy (api_tabs_sync, docs/MAX_SESSIONS.md).
SyncKeepsLimits ==
    [][\A mk \in {"codex", "spark"} :
         (\E d \in Devices : Sync(d))
           => \/ Counts(meta', tomb', {mk}) <= Limits[mk]
              \/ Counts(meta', tomb', {mk}) <= Counts(meta, tomb, {mk})]_vars

\* A name that was stored is never replaced by an older one, whichever device pushes last.
LabelsForward ==
    [][\A s \in DOMAIN meta \cap DOMAIN meta' : meta'[s].at >= meta[s].at]_vars

Settled == Quiet /\ fresh = Devices

\* When every device has been opened since the last change and nothing is under way, all
\* devices show the tabs the server keeps: lists overtaken by pushes, pushes made before a
\* deletion was heard of and rejected rows, in whatever order, leave neither a missing tab
\* nor one the server does not know.
Converged ==
    Settled => \A d \in Devices :
      /\ {s \in DOMAIN meta \ tomb : meta[s].worker \/ meta[s].explicit} \subseteq DOMAIN tabs[d]
      /\ DOMAIN tabs[d] \subseteq DOMAIN meta \ tomb

\* A tab deleted on one device is then off every device, and stays off when its tombstone
\* has expired, though a device may have pushed it again before it heard.  One case is left
\* out, for there the tab comes back: a device that still showed the tab when a push dropped
\* the tombstone, because it was away for more than the week.
DeletedStaysDeleted ==
    Settled => \A d \in Devices : DOMAIN tabs[d] \cap gone \subseteq missed

=============================================================================
