--------------------------------- MODULE Updates ---------------------------------
(***************************************************************************)
(* The updates of the server from its git repository (server.py, app.js):  *)
(* check, apply, roll back and restart. A handler never awaits between its *)
(* git commands, so requests do not interleave; what matters is what each  *)
(* command leaves when it fails, which the handlers mostly do not ask.     *)
(***************************************************************************)
EXTENDS Naturals, Sequences

CONSTANTS Changes,     \* changes made on this machine: edits that may become commits
          MaxUpstream, \* commits that appear on the remote
          MaxRequests, \* requests of pages
          MaxRestarts, \* _RESTART_MAX_IN_WINDOW
          MaxFaults    \* requests in which git commands fail or run into their timeout

VARIABLES
    repo,     \* the clone: head, tree (changes not committed), missing (a file), unmerged, stash,
              \* rebasing, and orig (head before the rebase)
    remote,   \* commits on the remote
    origin,   \* and those the last fetch saw
    saved,    \* .update-rollback: the commit before the last update
    running,  \* the commit the process was started from
    stamps,   \* _RESTART_TIMESTAMPS, in memory
    exiting,  \* the process ends in 0.3 s
    page,     \* the daily check of the page: checked, available
    made,     \* changes made so far
    past,     \* changes wiped by a repair or a reset, commits dropped by a reset, why the running
              \* commit is not the head, whether roll-backs did so
    count     \* requests and faults

vars == <<repo, remote, origin, saved, running, stamps, exiting, page, made, past, count>>

Commit == [base : 0..MaxUpstream, own : SUBSET Changes]
NoCommit == [base |-> 0, own |-> {}]

Init == /\ repo = [head |-> NoCommit, tree |-> {}, missing |-> FALSE, unmerged |-> FALSE, stash |-> <<>>,
                   rebasing |-> FALSE, orig |-> NoCommit]
        /\ remote = 0 /\ origin = 0
        /\ saved = [some |-> FALSE, commit |-> NoCommit]
        /\ running = NoCommit
        /\ stamps = 0
        /\ exiting = FALSE
        /\ page = [checked |-> FALSE, available |-> FALSE]
        /\ made = {}
        /\ past = [wiped |-> {}, dropped |-> {}, behind |-> "", rolled |-> TRUE]
        /\ count = [requests |-> 0, faults |-> 0]

----------------------------------------------------------------------------
\* The git commands, by what they do to the clone; conflict says whether changes collide.

\* Nothing to stash is no error, and neither is a stash that was refused.
Stash(r) == IF r.unmerged \/ (r.tree = {} /\ ~r.missing) THEN r
            ELSE [r EXCEPT !.stash = <<[tree |-> r.tree, missing |-> r.missing]>> \o @,
                           !.tree = {}, !.missing = FALSE]

\* The newest entry, whoever stashed it; on a conflict it is applied half and kept.
Pop(r, conflict) ==
    IF r.stash = <<>> \/ r.unmerged \/ r.tree # {} THEN r
    ELSE IF conflict /\ Head(r.stash).tree # {}
         THEN [r EXCEPT !.tree = Head(r.stash).tree, !.unmerged = TRUE]
         ELSE [r EXCEPT !.tree = Head(r.stash).tree, !.missing = Head(r.stash).missing,
                        !.stash = Tail(@)]

Diverged(r) == r.head.own # {} /\ r.head.base < remote

PullOk(r) == ~r.unmerged /\ r.tree = {}
RebaseOk(r, fails) == PullOk(r) /\ ~r.rebasing /\ "rebase" \notin fails
Forwarded(r) == [r EXCEPT !.head.base = remote]

\* A rebase that meets a conflict stops half-way.
Rebased(r, conflict) ==
    IF conflict /\ Diverged(r)
    THEN [r EXCEPT !.head = [base |-> remote, own |-> {}], !.unmerged = TRUE, !.rebasing = TRUE,
                   !.orig = r.head]
    ELSE Forwarded(r)

\* One that is killed stops half-way without a conflict.
HalfRebased(r) == [Rebased(r, TRUE) EXCEPT !.unmerged = FALSE]

RebaseAbort(r) == IF r.rebasing THEN [r EXCEPT !.head = r.orig, !.rebasing = FALSE, !.unmerged = FALSE,
                                              !.orig = NoCommit, !.tree = {}]
                  ELSE r

ResetHard(r, to) == [r EXCEPT !.head = [base |-> to, own |-> {}], !.tree = {}, !.missing = FALSE,
                              !.unmerged = FALSE]

\* git branch -f: refused for the branch that is checked out, or being rebased.
BranchForce(r, commit) == r

\* git checkout of the branch, which leaves a rebase that stopped half-way as it is.
CheckoutOk(r) == ~r.unmerged
Checkout(r) == IF CheckoutOk(r) /\ r.rebasing THEN [r EXCEPT !.head = r.orig] ELSE r

\* _git_repair_working_tree: with one tracked file missing, everything is checked out.
Repair(r) == IF r.missing THEN [r EXCEPT !.tree = {}, !.missing = FALSE, !.unmerged = FALSE] ELSE r

\* What is on this machine but in no commit.
StashedIn(r) == UNION {r.stash[k].tree : k \in DOMAIN r.stash}
Uncommitted(r) == r.tree \union StashedIn(r)
Committed(r) == r.head.own \union r.orig.own

----------------------------------------------------------------------------
\* The requests.

Request == count.requests < MaxRequests
Served == count' = [count EXCEPT !.requests = @ + 1]
Slow == count.faults < MaxFaults /\ count' = [requests |-> count.requests + 1, faults |-> count.faults + 1]

\* Commands that fail for a reason of their own: a pull does not reach the remote, the reset
\* is refused.
Failing == SUBSET {"ff", "rebase", "reset"}
Answered(fails) == IF fails = {} THEN Served ELSE Slow

\* What a repair or a reset wiped is remembered; what is in a commit is not among it.
Wiped(r, why) == IF why THEN past.wiped \union (Uncommitted(repo) \ (Uncommitted(r) \union Committed(r)))
                 ELSE past.wiped

FileMissing == repo.missing \/ \E k \in DOMAIN repo.stash : repo.stash[k].missing

\* update_check, and what it does to a clone that has diverged: the clone after the pull,
\* and after the pop.
CheckPulled(rebase, fails) ==
    LET stashed == Stash(repo)
    IN  IF RebaseOk(stashed, fails) THEN Rebased(stashed, rebase) ELSE stashed
CheckPopped(pop, rebase, fails) ==
    IF Diverged(repo) THEN Pop(CheckPulled(rebase, fails), pop) ELSE repo

Moved(r) == IF r.head = repo.head THEN past.behind ELSE "checked"

Check(pop, rebase, fails) ==
    LET r == Repair(CheckPopped(pop, rebase, fails)) IN
    /\ Request /\ Answered(fails)
    /\ origin' = remote
    /\ repo' = r
    /\ past' = [past EXCEPT !.wiped = Wiped(r, FileMissing), !.behind = Moved(r)]
    /\ page' = [checked |-> TRUE, available |-> r.head.base < remote]
    /\ UNCHANGED <<remote, saved, running, stamps, exiting, made>>

\* The page asks by itself once a day.
DailyCheck(pop, rebase, fails) == ~page.checked /\ Check(pop, rebase, fails)
CheckButton(pop, rebase, fails) == page.checked /\ Check(pop, rebase, fails)

\* A command that runs into its timeout ends the handler, whatever was done before: what
\* was stashed and not popped stays stashed.
CheckTimesOut(pop, rebase) ==
    LET stashed == Stash(repo)
        left == {stashed, CheckPulled(rebase, {}), CheckPopped(pop, rebase, {})}
                \union (IF RebaseOk(stashed, {}) THEN {HalfRebased(stashed)} ELSE {}) IN
    /\ Request /\ Slow /\ Diverged(repo)
    /\ origin' = remote
    /\ \E r \in left : repo' = r /\ past' = [past EXCEPT !.behind = Moved(r)]
    /\ UNCHANGED <<remote, saved, running, stamps, exiting, page, made>>

\* _schedule_restart: the limit counts the requests this process has had.
ScheduleRestart(why) == IF stamps >= MaxRestarts
                        THEN /\ past' = [why EXCEPT !.behind = "limited"]
                             /\ UNCHANGED <<stamps, exiting>>
                        ELSE /\ past' = why
                             /\ stamps' = stamps + 1
                             /\ exiting' = TRUE

\* update_apply: fast-forward; whatever made that fail, rebase; whatever made that fail,
\* throw away what the last fetch did not see.
Fetched(fails) == IF {"ff", "rebase"} \subseteq fails THEN origin ELSE remote
FastForward(r, fails) == "ff" \notin fails /\ PullOk(r) /\ ~Diverged(r)
Nuclear(r, rebase, fails) ==
    ~FastForward(r, fails) /\ (~RebaseOk(r, fails) \/ (rebase /\ Diverged(r)))
Aborted(r, fails) == RebaseAbort(IF RebaseOk(r, fails) THEN Rebased(r, TRUE) ELSE r)
Pulled(r, rebase, fails) ==
    CASE FastForward(r, fails) -> Forwarded(r)
      [] ~FastForward(r, fails) /\ ~Nuclear(r, rebase, fails) -> Rebased(r, FALSE)
      [] Nuclear(r, rebase, fails) -> ResetHard(Aborted(r, fails), Fetched(fails))

\* All three have failed.
Refused(r, rebase, fails) == Nuclear(r, rebase, fails) /\ "reset" \in fails

\* applyUpdate and rollbackUpdate of the page: what the page remembers of the last check.
PageUpdated == [checked |-> FALSE, available |-> FALSE]
PageRolledBack == [page EXCEPT !.checked = FALSE]

AfterApply(pop, rebase, fails) == Pop(Repair(Pulled(Stash(repo), rebase, fails)), pop)

\* What an update that leaves the clone as r has wiped and dropped.
Applied(r, rebase, fails) ==
    [past EXCEPT !.wiped = Wiped(r, Nuclear(Stash(repo), rebase, fails)),
                 !.dropped = @ \union (Committed(repo) \ Committed(r))]

Apply(pop, rebase, fails) ==
    LET r == AfterApply(pop, rebase, fails) IN
    /\ Request /\ Answered(fails)
    /\ ~Refused(Stash(repo), rebase, fails)
    /\ saved' = [some |-> TRUE, commit |-> repo.head]
    /\ origin' = Fetched(fails)
    /\ repo' = r
    /\ page' = PageUpdated
    /\ ScheduleRestart(Applied(r, rebase, fails))
    /\ UNCHANGED <<remote, running, made>>

\* The clones an update may leave when a command runs into its timeout or the reset fails:
\* the handler ends with an error, whatever was done before, and without a restart.
ApplyLeaves(pop, rebase, fails) ==
    LET stashed == Stash(repo)
        pulled == Pulled(stashed, rebase, fails)
        repaired == Repair(pulled)
    IN  {stashed}
        \union (IF RebaseOk(stashed, fails) /\ ~FastForward(stashed, fails)
                THEN {HalfRebased(stashed)} ELSE {})
        \union (IF Nuclear(stashed, rebase, fails) THEN {Aborted(stashed, fails)} ELSE {})
        \union (IF Refused(stashed, rebase, fails) THEN {}
                ELSE {pulled, repaired, Pop(repaired, pop)})

ApplyFails(pop, rebase, fails) ==
    /\ Request /\ Slow
    /\ saved' = [some |-> TRUE, commit |-> repo.head]
    /\ origin' \in {origin, Fetched(fails)}
    /\ \E r \in ApplyLeaves(pop, rebase, fails) :
          /\ repo' = r
          /\ past' = [Applied(r, rebase, fails) EXCEPT !.behind = IF r.head = repo.head THEN @ ELSE "failed"]
    /\ UNCHANGED <<remote, running, stamps, exiting, page, made>>

\* update_rollback: only the last of its commands is asked for its result.
Rollback(pop) ==
    LET moved == BranchForce(Stash(repo), saved.commit)
        r == Pop(Checkout(moved), pop) IN
    /\ Request /\ Served
    /\ saved.some
    /\ repo' = r
    /\ IF CheckoutOk(moved)
       THEN /\ saved' = [some |-> FALSE, commit |-> NoCommit]
            /\ page' = PageRolledBack
            /\ ScheduleRestart([past EXCEPT !.rolled = @ /\ r.head = saved.commit])
       ELSE UNCHANGED <<saved, page, stamps, exiting, past>>
    /\ UNCHANGED <<remote, origin, running, made>>

\* A command that runs into its timeout, here too, leaves what was done.
RollbackTimesOut(pop) ==
    LET moved == BranchForce(Stash(repo), saved.commit)
        left == {moved, Checkout(moved), Pop(Checkout(moved), pop)} IN
    /\ Request /\ Slow
    /\ saved.some
    /\ \E r \in left :
          repo' = r /\ past' = [past EXCEPT !.behind = IF r.head = repo.head THEN @ ELSE "failed"]
    /\ UNCHANGED <<remote, origin, saved, running, stamps, exiting, page, made>>

\* api_restart.
RestartButton == /\ Request /\ Served
                 /\ stamps < MaxRestarts
                 /\ stamps' = stamps + 1
                 /\ exiting' = TRUE
                 /\ UNCHANGED <<repo, remote, origin, saved, running, page, made, past>>

\* The process ends and launchd starts it again, with no memory of restarts.
Respawn == /\ exiting
           /\ exiting' = FALSE
           /\ stamps' = 0
           /\ running' = repo.head
           /\ past' = [past EXCEPT !.behind = ""]
           /\ UNCHANGED <<repo, remote, origin, saved, page, made, count>>

----------------------------------------------------------------------------
\* What others do: the remote, the admin and the agents, the calendar.

Upstream == /\ remote < MaxUpstream
            /\ remote' = remote + 1
            /\ UNCHANGED <<repo, origin, saved, running, stamps, exiting, page, made, past, count>>

Edit(c) == /\ c \notin made /\ ~repo.unmerged
           /\ made' = made \union {c}
           /\ repo' = [repo EXCEPT !.tree = @ \union {c}]
           /\ UNCHANGED <<remote, origin, saved, running, stamps, exiting, page, past, count>>

Commits == /\ repo.tree # {} /\ ~repo.unmerged /\ ~repo.rebasing
           /\ repo' = [repo EXCEPT !.head.own = @ \union repo.tree, !.tree = {}]
           /\ past' = [past EXCEPT !.behind = "committed"]
           /\ UNCHANGED <<remote, origin, saved, running, stamps, exiting, page, made, count>>

FileGone == /\ ~repo.missing
            /\ repo' = [repo EXCEPT !.missing = TRUE]
            /\ UNCHANGED <<remote, origin, saved, running, stamps, exiting, page, made, past, count>>

Tomorrow == /\ page.checked
            /\ page' = [page EXCEPT !.checked = FALSE]
            /\ UNCHANGED <<repo, remote, origin, saved, running, stamps, exiting, made, past, count>>

----------------------------------------------------------------------------
\* A pop only conflicts with what was stashed, a rebase only when the clone has diverged.
PopConflicts == IF Uncommitted(repo) = {} THEN {FALSE} ELSE BOOLEAN
RebaseConflicts == IF Diverged(repo) THEN BOOLEAN ELSE {FALSE}

Next == \/ \E pop \in PopConflicts, rebase \in RebaseConflicts :
             \/ \E fails \in SUBSET {"rebase"} :
                   DailyCheck(pop, rebase, fails) \/ CheckButton(pop, rebase, fails)
             \/ CheckTimesOut(pop, rebase)
             \/ \E fails \in Failing : Apply(pop, rebase, fails) \/ ApplyFails(pop, rebase, fails)
             \/ Rollback(pop) \/ RollbackTimesOut(pop)
        \/ RestartButton \/ Respawn
        \/ Upstream \/ (\E c \in Changes : Edit(c)) \/ Commits \/ FileGone \/ Tomorrow

Spec == Init /\ [][Next]_vars

----------------------------------------------------------------------------
TypeOK ==
    /\ repo.head \in Commit /\ repo.orig \in Commit /\ repo.tree \subseteq Changes
    /\ {repo.missing, repo.unmerged, repo.rebasing} \subseteq BOOLEAN
    /\ \A k \in DOMAIN repo.stash : repo.stash[k] \in [tree : SUBSET Changes, missing : BOOLEAN]
    /\ remote \in 0..MaxUpstream /\ origin \in 0..remote
    /\ saved \in [some : BOOLEAN, commit : Commit]
    /\ running \in Commit
    /\ stamps \in 0..MaxRestarts
    /\ exiting \in BOOLEAN
    /\ page \in [checked : BOOLEAN, available : BOOLEAN]
    /\ made \subseteq Changes

\* A change made on this machine is in the working tree, in a stash or in a commit, unless a
\* repair checked everything out over it, or an update reset the clone.
ChangesKept == made \subseteq Uncommitted(repo) \union Committed(repo) \union past.wiped \union past.dropped

\* The process runs the commit its clone is at: a restart follows every update and roll-back
\* that is answered as done.  Behind are only a process whose restart was limited, a check that
\* rebased the clone under it, a commit made on this machine, and an update or a roll-back
\* that failed after it had moved the clone.
RunsHead == running = repo.head \/ exiting \/ past.behind # ""

\* "Roll back to the pre-update commit" (server.py:5168): a roll-back that reports success
\* has done so.
RollbackRestores == past.rolled
=============================================================================
