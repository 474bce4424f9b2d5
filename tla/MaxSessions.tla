------------------------------ MODULE MaxSessions ------------------------------
(***************************************************************************)
(* The max-session policy (server.py, /api/max/...): the admin sets limits,*)
(* a page asks for the status before it opens a worker, and the tab's first*)
(* sync asks again (routes/tabs.py; see TabSync for what else a sync does).*)
(* Between the two questions other pages open tabs, the admin changes the  *)
(* policy and terminates sessions.                                         *)
(***************************************************************************)
EXTENDS Naturals, FiniteSets

CONSTANTS Sessions, ModelOf,   \* the workers that may be opened, and "codex", "spark" or another
          Pages,
          Values,              \* what a body may give for a limit
          Absent, MaxValue,    \* the value of a key that is missing; 500
          Defaults,            \* _MAX_DEFAULTS
          MaxChanges           \* changes of the policy

VARIABLES policy,    \* what _load_max_policy returns
          rows,      \* sessions of the owner in tab_meta
          tombs,     \* and in tab_tombstones
          page,      \* the worker a page is opening, and how far it is
          unasked,   \* sessions inserted by a handler that asks no limit
          lowered,   \* the policy was set below what was open
          changes

vars == <<policy, rows, tombs, page, unasked, lowered, changes>>

Keys == {"total", "codex", "spark"}
Limited(s) == ModelOf[s] \in Keys
Idle == [at |-> "idle", s |-> CHOOSE s \in Sessions : TRUE]

Init == /\ policy = Defaults
        /\ rows = {} /\ tombs = {} /\ unasked = {}
        /\ page = [p \in Pages |-> Idle]
        /\ lowered = FALSE
        /\ changes = 0

\* _max_counts_for_owner
Counted == rows \ tombs
Active(key) == IF key = "total" THEN Cardinality(Counted)
               ELSE Cardinality({s \in Counted : ModelOf[s] = key})

----------------------------------------------------------------------------
\* The admin.

\* _validate_max_policy: what the body leaves out goes back to its default.
Cleaned(body) == [key \in Keys |-> IF body[key] = Absent THEN Defaults[key] ELSE body[key]]
Valid(new) == /\ \A key \in Keys : new[key] <= MaxValue
              /\ new.total > 0 => new.codex <= new.total /\ new.spark <= new.total

ConfigSet(body) == LET new == Cleaned(body) IN
                   /\ changes < MaxChanges /\ changes' = changes + 1
                   /\ Valid(new)
                   /\ policy' = new
                   /\ lowered' = (lowered \/ \E key \in Keys : Active(key) > new[key])
                   /\ UNCHANGED <<rows, tombs, page, unasked>>

\* api_max_session_terminate, of a session of the admin; a page that shows it is told later.
Terminate(s) == /\ s \in rows
                /\ rows' = rows \ {s}
                /\ tombs' = tombs \union {s}
                /\ UNCHANGED <<policy, page, unasked, lowered, changes>>

----------------------------------------------------------------------------
\* A page opens a worker.

\* _max_at_limit, where a limit of zero is reached by the first session.
AtLimit(key) == IF policy[key] = 0 THEN Active(key) > 0 ELSE Active(key) >= policy[key]
Refuses(model) == AtLimit("total") \/ (model \in Keys /\ AtLimit(model))

\* A status that cannot be fetched refuses nothing.
Ask(p, s, fetched) ==
    /\ page[p].at = "idle"
    /\ s \notin rows \union tombs
    /\ \A q \in Pages : page[q].at # "idle" => page[q].s # s
    /\ fetched => ~Refuses(ModelOf[s])
    /\ page' = [page EXCEPT ![p] = [at |-> "opened", s |-> s]]
    /\ UNCHANGED <<policy, rows, tombs, unasked, lowered, changes>>

\* A worker with an identity is registered first, and nobody counts.
RegisterIdentity(p) == /\ page[p].at = "opened"
                       /\ page' = [page EXCEPT ![p].at = "registered"]
                       /\ rows' = rows \union {page[p].s}
                       /\ unasked' = unasked \union {page[p].s}
                       /\ UNCHANGED <<policy, tombs, lowered, changes>>

\* api_tabs_sync: zero is no capacity here, and sessions that are there are never refused.
NoRoom(key) == policy[key] = 0 \/ Active(key) >= policy[key]
Rejects(s) == Limited(s) /\ s \notin rows /\ (NoRoom("total") \/ NoRoom(ModelOf[s]))

Sync(p) == LET s == page[p].s IN
           /\ page[p].at # "idle"
           /\ rows' = IF s \in tombs \/ Rejects(s) THEN rows ELSE rows \union {s}
           /\ page' = [page EXCEPT ![p] = IF s \notin tombs /\ Rejects(s) THEN Idle
                                         ELSE [@ EXCEPT !.at = "synced"]]
           /\ UNCHANGED <<policy, tombs, unasked, lowered, changes>>

\* The page goes on to its next worker.
Done(p) == /\ page[p].at = "synced"
           /\ page' = [page EXCEPT ![p] = Idle]
           /\ UNCHANGED <<policy, rows, tombs, unasked, lowered, changes>>

----------------------------------------------------------------------------
Next == \/ \E body \in [Keys -> Values] : ConfigSet(body)
        \/ \E s \in Sessions : Terminate(s)
        \/ \E p \in Pages : RegisterIdentity(p) \/ Sync(p) \/ Done(p)
        \/ \E p \in Pages, s \in Sessions, fetched \in BOOLEAN : Ask(p, s, fetched)

Spec == Init /\ [][Next]_vars

----------------------------------------------------------------------------
TypeOK ==
    /\ policy \in [Keys -> 0..MaxValue] /\ Valid(policy)
    /\ rows \subseteq Sessions /\ tombs \subseteq Sessions /\ unasked \subseteq Sessions
    /\ page \in [Pages -> [at : {"idle", "opened", "registered", "synced"}, s : Sessions]]
    /\ lowered \in BOOLEAN
    /\ changes \in 0..MaxChanges

\* However many pages asked before any of them opened its worker, there are no more sessions
\* of a limited model than its limit, but for those registered unasked and those that were
\* open when the limit was lowered (api_tabs_sync, "Phase C").
Capped == lowered \/ \A key \in {"codex", "spark"} :
                         Cardinality({s \in Counted \ unasked : ModelOf[s] = key}) <= policy[key]

\* What the status tells a page is what a sync would do at once, unless a limit is zero.
StatusTrue == \A s \in Sessions : Limited(s) /\ s \notin rows
                  => (Rejects(s) <=> Refuses(ModelOf[s])) \/ policy.total = 0 \/ policy[ModelOf[s]] = 0
=============================================================================
