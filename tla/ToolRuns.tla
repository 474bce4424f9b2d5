------------------------------ MODULE ToolRuns ------------------------------
(***************************************************************************)
(* The runs of a session whose model is called over an API: Codex,         *)
(* Anthropic or OpenRouter.  A run loads the session's history, asks the   *)
(* model, has its tools executed by a thread, asks the user before a       *)
(* restricted one, and saves the history.  The user approves, refuses,     *)
(* cancels and compacts meanwhile, and the server may be restarted.        *)
(* Source: chat_providers/{codex,anthropic,openrouter}_provider.py,        *)
(* security.py, tools.py, compaction.py, routes/chat.py, server.py.        *)
(***************************************************************************)
EXTENDS Integers, Sequences, FiniteSets

CONSTANTS
    Providers,      \* the providers of the session, one per behaviour
    NumRuns,        \* messages sent
    RoundLimit,     \* TOOL_ROUND_LIMIT
    Keep,           \* RECENT_MESSAGES_TO_KEEP
    Window,         \* history items an OpenRouter request takes
    MaxCalls,       \* bound on the tool calls of a behaviour
    MaxOps,         \* bound on what the user does and on what fails
    Cases           \* sets of what may happen; each behaviour has one of them

VARIABLES
    provider,   \* of this session
    history,    \* the items of its row in table history
    entry,      \* active_tasks[session]: status and run, run 0 for no entry
    runs,       \* every run: where its coroutine stands and what it has collected
    asked,      \* _requests: calls the user is asked about
    approved,   \* _approved
    granted,    \* subset of {"all", "elevated"}: approve-all, an elevated session
    performed,  \* calls in the order in which they took effect
    refused,    \* calls the user has refused, or whose request was dropped
    compacting, \* items /api/compact has loaded, <<>> when it does nothing
    ops,        \* operations so far
    features    \* the case of this behaviour

elevation == <<asked, approved, granted, performed, refused>>
vars == <<provider, history, entry, runs, elevation, compacting, ops, features>>

Runs == 1..NumRuns

\* The items of a history.  A call item holds the calls the model made at once.
User(r) == [kind |-> "user", of |-> r]
Text(r) == [kind |-> "text", of |-> r]
Call(ids) == [kind |-> "call", ids |-> ids]
Out(id, how) == [kind |-> "out", id |-> id, how |-> how]
Summary == [kind |-> "summary"]

NewRun == [phase |-> "new", items |-> <<>>, sent |-> <<>>, round |-> 0, todo |-> <<>>,
           paused |-> FALSE, late |-> ""]

Init ==
    /\ provider \in Providers /\ features \in Cases
    /\ history = <<>> /\ entry = [status |-> "none", run |-> 0]
    /\ runs = [r \in Runs |-> NewRun]
    /\ asked = {} /\ approved = {} /\ granted = {} /\ performed = <<>> /\ refused = {}
    /\ compacting = <<>> /\ ops = 0

May(f) == f \in features /\ ops < MaxOps
Waiting == {"load", "request", "tool", "asking", "again"}
Live(r) == runs[r].phase \in Waiting \cup {"marked", "stopped"}
Performed == {performed[k] : k \in DOMAIN performed}

IdsOf(i) == IF i.kind = "call" THEN {i.ids[k] : k \in DOMAIN i.ids} ELSE {}
Calls(s) == UNION {IdsOf(s[k]) : k \in DOMAIN s}

----------------------------------------------------------------------------
(* What a history becomes before it is sent.                               *)

\* The items of s but for those at gone.
Without(s, gone) ==
    LET kept[k \in 0..Len(s)] ==
            IF k = 0 THEN <<>>
            ELSE IF k \in gone THEN kept[k - 1] ELSE Append(kept[k - 1], s[k])
    IN  kept[Len(s)]

\* repair_tool_items: an output goes that has no call before it,
Stray(s, k) == s[k].kind = "out" /\ \A j \in 1..(k - 1) : s[k].id \notin IdsOf(s[j])
WithoutStray(s) == Without(s, {k \in DOMAIN s : Stray(s, k)})

\* and a call gets one that is not followed by its own.
Unanswered(s, k) ==
    /\ s[k].kind = "call"
    /\ k < Len(s) => ~(s[k + 1].kind = "out" /\ s[k + 1].id = s[k].ids[1])
WithLost(s) ==
    LET full[k \in 0..Len(s)] ==
            IF k = 0 THEN <<>>
            ELSE Append(full[k - 1], s[k])
                     \o IF Unanswered(s, k) THEN <<Out(s[k].ids[1], "lost")>> ELSE <<>>
    IN  full[Len(s)]

RepairTools(s) == WithLost(WithoutStray(s))

\* convert_history_to_anthropic prunes the results without a call.
ConvertAnthropic(s) ==
    Without(s, {k \in DOMAIN s : s[k].kind = "out" /\ s[k].id \notin Calls(s)})

\* An OpenRouter request takes the last items as they are.
LastItems(s) == SubSeq(s, IF Len(s) > Window THEN Len(s) - Window + 1 ELSE 1, Len(s))

BadSplit(s) == Len(s) - Keep
\* compact_messages keeps the last items, and one more while the first of them is the
\* output of a Codex call.
Split(s) ==
    LET codexOut(k) == provider = "codex" /\ s[k + 1].kind = "out"
    IN  CHOOSE k \in 0..(Len(s) - Keep) :
            /\ k = 0 \/ ~codexOut(k)
            /\ \A j \in (k + 1)..(Len(s) - Keep) : codexOut(j)

CompactMessages(s) ==
    IF Len(s) <= Keep THEN s
    ELSE <<Summary>> \o SubSeq(s, Split(s) + 1, Len(s))

----------------------------------------------------------------------------
(* The beginning of a run.                                                 *)

\* api_chat: a session with a running run gets 409.  Between done and its finally a run
\* of before may still be there, unless "early" is left out.
Message(r) ==
    /\ runs[r].phase = "new" /\ \A q \in Runs : q < r => runs[q].phase # "new"
    /\ entry.status # "running"
    /\ "early" \in features \/ \A q \in Runs : runs[q].phase \notin {"marked", "stopped"}
    /\ entry' = [status |-> "running", run |-> r]
    /\ runs' = [runs EXCEPT ![r].phase = "load"]
    /\ UNCHANGED <<history, elevation, compacting, ops>>

Loaded(r, items, sent) ==
    /\ runs' = [runs EXCEPT ![r].items = items, ![r].sent = sent, ![r].phase = "request"]
    /\ UNCHANGED <<history, entry, elevation, compacting, ops>>

\* Codex: the history is compacted when it is long, and repaired.
LoadCodex(r) ==
    LET s == Append(history, User(r))
    IN  /\ provider = "codex" /\ runs[r].phase = "load"
        /\ \E t \in {s} \cup IF "compaction" \in features THEN {CompactMessages(s)} ELSE {} :
              Loaded(r, RepairTools(t), RepairTools(t))

\* Anthropic: the whole history, converted.
LoadAnthropic(r) ==
    /\ provider = "anthropic" /\ runs[r].phase = "load"
    /\ Loaded(r, Append(history, User(r)), Append(ConvertAnthropic(history), User(r)))

BadLoadOpenRouter(r) ==
    /\ provider = "openrouter" /\ runs[r].phase = "load"
    /\ Loaded(r, Append(LastItems(history), User(r)), Append(LastItems(history), User(r)))

\* OpenRouter: the last items, as they are.
LoadOpenRouter(r) ==
    /\ provider = "openrouter" /\ runs[r].phase = "load"
    /\ Loaded(r, Append(history, User(r)), Append(LastItems(history), User(r)))

\* No key, no token: the run ends before it has begun (OpenRouter saves an error).
NoKey(r) ==
    /\ runs[r].phase = "load" /\ May("noKey") /\ ops' = ops + 1
    /\ history' = IF provider = "openrouter" THEN Append(history, Text(r)) ELSE history
    /\ runs' = [runs EXCEPT ![r].phase = "stopped"]
    /\ UNCHANGED <<entry, elevation, compacting>>

----------------------------------------------------------------------------
(* The model answers.                                                      *)

\* The end of a run that has left its loop: the history is saved, and the entry is done
\* before the event that says so.
Saves(r, items) ==
    /\ history' = items
    /\ entry' = [entry EXCEPT !.status = "done"]
    /\ runs' = [runs EXCEPT ![r].phase = "marked", ![r].items = items]

\* A run that returns from within: what has been saved by now is all there is.
Stops(r, saved) ==
    /\ history' = saved
    /\ runs' = [runs EXCEPT ![r].phase = "stopped"]
    /\ UNCHANGED entry

Answer(r) ==
    /\ runs[r].phase = "request"
    /\ Saves(r, Append(runs[r].items, Text(r)))
    /\ UNCHANGED <<elevation, compacting, ops>>

Failing(r, p) ==
    /\ provider = p /\ runs[r].phase = "request" /\ May("requestFails") /\ ops' = ops + 1
    /\ UNCHANGED <<elevation, compacting>>

\* A refused or broken request ends the loop of Codex, which saves what there is.
RequestFailsCodex(r) == Failing(r, "codex") /\ Saves(r, runs[r].items)

\* An error event saves nothing, a broken stream what the run has.
RequestFailsAnthropic(r) ==
    Failing(r, "anthropic") /\ \E saved \in {history, runs[r].items} : Stops(r, saved)

\* So does OpenRouter; a second timeout is saved as an error.
RequestFailsOpenRouter(r) ==
    /\ Failing(r, "openrouter")
    /\ \E saved \in {history, runs[r].items, Append(runs[r].items, Text(r))} : Stops(r, saved)

\* The loop is over after the last round: Codex ends as ever, the others save and report
\* an empty answer, OpenRouter in the history too.
OutOfRounds(r, items) ==
    IF provider = "codex" THEN Saves(r, items)
    ELSE Stops(r, IF provider = "anthropic" THEN items ELSE Append(items, Text(r)))

\* A round without a usable answer: Anthropic's empty one, and OpenRouter's, whose tools
\* may also time out, fail or come in no known format.
TriesAgain(r) ==
    /\ \E p \in {"anthropic", "openrouter"} : Failing(r, p)
    /\ IF runs[r].round + 1 < RoundLimit
       THEN /\ runs' = [runs EXCEPT ![r].round = @ + 1]
            /\ UNCHANGED <<history, entry>>
       ELSE OutOfRounds(r, runs[r].items)

\* The model wants n tools at once.
NextCalls(r, n) == [k \in 1..n |-> <<r, runs[r].round, k>>]
MoreCalls(n) == Cardinality(UNION {Calls(runs[r].sent) : r \in Runs}) + n <= MaxCalls
Collect(run, item) == [run EXCEPT !.items = Append(@, item), !.sent = Append(@, item)]

Wants(r, p, n) ==
    provider = p /\ runs[r].phase = "request" /\ MoreCalls(n)

Working(r, ids) == [runs[r] EXCEPT !.phase = "tool", !.todo = ids]

\* Codex adds each call when its turn has come.
WantsToolsCodex(r, n) ==
    LET ids == NextCalls(r, n)
    IN  /\ Wants(r, "codex", n)
        /\ runs' = [runs EXCEPT ![r] = Collect(Working(r, ids), Call(<<Head(ids)>>))]
        /\ UNCHANGED <<history, entry, elevation, compacting, ops>>

\* Anthropic adds them at once.
WantsToolsAnthropic(r, n) ==
    LET ids == NextCalls(r, n)
    IN  /\ Wants(r, "anthropic", n)
        /\ runs' = [runs EXCEPT ![r] = Collect(Working(r, ids), Call(ids))]
        /\ UNCHANGED <<history, entry, elevation, compacting, ops>>

\* With pause_turn it wants its tools run as well, but the call is added to the request only.
Pauses(r) ==
    LET ids == NextCalls(r, 1)
    IN  /\ Wants(r, "anthropic", 1) /\ May("pause") /\ ops' = ops + 1
        /\ runs' = [runs EXCEPT ![r] = [Working(r, ids) EXCEPT !.paused = TRUE,
                                                             !.sent = Append(@, Call(ids))]]
        /\ UNCHANGED <<history, entry, elevation, compacting>>

\* OpenRouter adds them at once; the calls may also stand in the text.
WantsToolsOpenRouter(r, n) ==
    LET ids == NextCalls(r, n)
    IN  /\ Wants(r, "openrouter", n)
        /\ runs' = [runs EXCEPT ![r] = Collect(Working(r, ids), Call(ids))]
        /\ UNCHANGED <<history, entry, elevation, compacting, ops>>

----------------------------------------------------------------------------
(* A tool is executed.                                                     *)

BadDone(r, how) ==
    [Collect(runs[r], Out(Head(runs[r].todo), how)) EXCEPT !.phase = "tool"]
\* The output of the first call left is collected.
Done(r, how) ==
    [Collect(runs[r], Out(Head(runs[r].todo), how)) EXCEPT !.todo = Tail(@), !.phase = "tool"]
NextRound(run) ==
    [run EXCEPT !.phase = "request", !.round = @ + 1, !.paused = FALSE]

\* Codex goes on to the next call; after the last one it may compact.
CollectsCodex(r, how) ==
    LET run == Done(r, how)
        next == NextRound(run)
        small == [next EXCEPT !.items = CompactMessages(@), !.sent = CompactMessages(@)]
    IN  /\ provider = "codex"
        /\ IF run.todo # <<>>
           THEN /\ runs' = [runs EXCEPT ![r] = Collect(run, Call(<<Head(run.todo)>>))]
                /\ UNCHANGED <<history, entry>>
           ELSE \E to \in {next} \cup IF "compaction" \in features THEN {small} ELSE {} :
                  IF next.round = RoundLimit THEN OutOfRounds(r, to.items)
                  ELSE runs' = [runs EXCEPT ![r] = to] /\ UNCHANGED <<history, entry>>

\* Anthropic saves the history after every round that was not paused.
CollectsAnthropic(r, how) ==
    LET run == Done(r, how)
    IN  /\ provider = "anthropic"
        /\ IF run.todo = <<>> /\ run.round + 1 = RoundLimit THEN OutOfRounds(r, run.items)
           ELSE /\ runs' = [runs EXCEPT ![r] = IF run.todo = <<>> THEN NextRound(run) ELSE run]
                /\ history' = IF run.todo = <<>> /\ ~run.paused THEN run.items ELSE history
                /\ UNCHANGED entry

CollectsOpenRouter(r, how) ==
    LET run == Done(r, how)
    IN  /\ provider = "openrouter"
        /\ IF run.todo = <<>> /\ run.round + 1 = RoundLimit THEN OutOfRounds(r, run.items)
           ELSE /\ runs' = [runs EXCEPT ![r] = IF run.todo = <<>> THEN NextRound(run) ELSE run]
                /\ history' = IF run.todo = <<>> THEN run.items ELSE history
                /\ UNCHANGED entry

Continues(r, how) ==
    CollectsCodex(r, how) \/ CollectsAnthropic(r, how) \/ CollectsOpenRouter(r, how)

\* The call a thread of run r is at, or was when the run was cancelled.
Current(r) == Head(runs[r].todo)
Thread(r, mode) == runs[r].phase = mode \/ runs[r].late = mode

\* The thread returns; its run may have been cancelled meanwhile.
Returns(r, how) ==
    IF runs[r].late # ""
    THEN /\ runs' = [runs EXCEPT ![r].late = ""]
         /\ UNCHANGED <<history, entry>>
    ELSE Continues(r, how)

\* execute_tool of a call that is not restricted, or in a session that is elevated.
Execute(r) ==
    /\ Thread(r, "tool")
    /\ performed' = Append(performed, Current(r))
    /\ Returns(r, "done")
    /\ UNCHANGED <<asked, approved, granted, refused, compacting, ops>>

\* execute_tool of a restricted call: the user is asked, a paused turn passes it on.
RequestElevation(r) ==
    /\ Thread(r, "tool") /\ "elevated" \notin granted /\ "restricted" \in features
    /\ asked' = asked \cup {Current(r)}
    /\ IF runs[r].late # "" \/ runs[r].paused THEN Returns(r, "asked")
       ELSE /\ runs' = [runs EXCEPT ![r].phase = "asking"]
            /\ UNCHANGED <<history, entry>>
    /\ UNCHANGED <<approved, granted, performed, refused, compacting, ops>>

\* The run looks once a second whether the request was approved, or is gone.
PollApproved(r) ==
    LET id == Current(r)
        now == IF "all" \in granted /\ id \in asked THEN approved \cup {id} ELSE approved
    IN  /\ runs[r].phase = "asking" /\ id \in now
        /\ approved' = now
        /\ runs' = [runs EXCEPT ![r].phase = "again"]
        /\ UNCHANGED <<history, entry, asked, granted, performed, refused, compacting, ops>>

\* It is gone, or the sixty seconds are over.
PollDenied(r) ==
    /\ runs[r].phase = "asking" /\ Current(r) \notin approved
    /\ "all" \in granted => Current(r) \notin asked
    /\ Continues(r, "denied")
    /\ UNCHANGED <<elevation, compacting, ops>>

BadConsume(id) == TRUE
\* consume_elevation
Consume(id) == id \in approved

\* execute_tool with the approval, which is used up.
ExecuteApproved(r) ==
    LET id == Current(r)
    IN  /\ Thread(r, "again")
        /\ asked' = IF Consume(id) THEN asked \ {id} ELSE asked
        /\ approved' = approved \ {id}
        /\ performed' = IF Consume(id) THEN Append(performed, id) ELSE performed
        /\ Returns(r, IF Consume(id) THEN "done" ELSE "blocked")
        /\ UNCHANGED <<granted, refused, compacting, ops>>

\* Something in a round raises: Codex leaves the loop and saves, the others save what
\* they have in the handler.
Raises(r) ==
    /\ runs[r].phase = "tool" /\ May("raises") /\ ops' = ops + 1
    /\ IF provider = "codex" THEN Saves(r, runs[r].items) ELSE Stops(r, runs[r].items)
    /\ UNCHANGED <<elevation, compacting>>

----------------------------------------------------------------------------
(* The end of a run.                                                       *)

\* The finally: whatever entry the session has by now is done.
Finally(r) ==
    /\ runs[r].phase \in {"marked", "stopped"}
    /\ entry' = [entry EXCEPT !.status = "done"]
    /\ runs' = [runs EXCEPT ![r].phase = "ended"]
    /\ UNCHANGED <<history, elevation, compacting, ops>>

\* api_chat_cancel: the coroutine is cancelled, a thread it waits for goes on.
Cancel(r) ==
    /\ entry.run = r /\ runs[r].phase \in Waiting /\ May("cancel") /\ ops' = ops + 1
    /\ entry' = [entry EXCEPT !.status = "cancelled"]
    /\ runs' = [runs EXCEPT ![r].phase = "stopped",
                  ![r].late = IF runs[r].phase \in {"tool", "again"} THEN runs[r].phase ELSE ""]
    /\ UNCHANGED <<history, elevation, compacting>>

\* The memory reaper drops an entry that had no event for long.
ReapEntry ==
    /\ entry.run # 0 /\ May("reap") /\ ops' = ops + 1
    /\ entry' = [status |-> "none", run |-> 0]
    /\ UNCHANGED <<history, runs, elevation, compacting>>

Restart ==
    /\ May("restart") /\ ops' = ops + 1
    /\ entry' = [status |-> "none", run |-> 0]
    /\ runs' = [r \in Runs |-> IF runs[r].phase = "new" THEN runs[r]
                               ELSE [runs[r] EXCEPT !.phase = "ended", !.late = ""]]
    /\ asked' = {} /\ approved' = {} /\ granted' = {} /\ compacting' = <<>>
    /\ refused' = refused \cup asked
    /\ UNCHANGED <<history, performed>>

----------------------------------------------------------------------------
(* The user.                                                               *)

Approve(id) ==
    /\ id \in asked \ approved
    /\ approved' = approved \cup {id}
    /\ UNCHANGED <<history, entry, runs, asked, granted, performed, refused, compacting, ops>>

BadDropped(ids) == asked' = asked \ ids /\ UNCHANGED approved
Dropped(ids) == asked' = asked \ ids /\ approved' = approved \ ids

\* deny_elevation, approved or not.
Deny(id) ==
    /\ id \in asked /\ May("deny") /\ ops' = ops + 1
    /\ Dropped({id}) /\ refused' = refused \cup {id}
    /\ UNCHANGED <<history, entry, runs, granted, performed, compacting>>

\* clear_session_security, when the tab is closed.
ClearSession ==
    /\ May("deny") /\ ops' = ops + 1 /\ (asked # {} \/ granted # {})
    /\ Dropped(asked) /\ refused' = refused \cup asked /\ granted' = {}
    /\ UNCHANGED <<history, entry, runs, performed, compacting>>

\* get_pending_elevations forgets what was asked five minutes ago and not approved.
Expire ==
    /\ May("deny") /\ ops' = ops + 1 /\ asked \ approved # {}
    /\ asked' = approved /\ refused' = refused \cup (asked \ approved)
    /\ UNCHANGED <<history, entry, runs, approved, granted, performed, compacting>>

\* set_approve_all, set_elevated_session with its expiry.
Grant ==
    /\ May("grant") /\ ops' = ops + 1
    /\ \E g \in {"all", "elevated"} :
         granted' = IF g \in granted THEN granted \ {g} ELSE granted \cup {g}
    /\ UNCHANGED <<history, entry, runs, asked, approved, performed, refused, compacting>>

\* /api/compact loads the history, and saves it when it has been compacted.
CompactStarts ==
    /\ May("compact") /\ ops' = ops + 1 /\ compacting = <<>> /\ Len(history) > Keep
    /\ "beside" \in features \/ \A r \in Runs : ~Live(r)
    /\ compacting' = history
    /\ UNCHANGED <<history, entry, runs, elevation>>

CompactEnds ==
    /\ compacting # <<>>
    /\ history' = CompactMessages(compacting)
    /\ compacting' = <<>>
    /\ UNCHANGED <<entry, runs, elevation, ops>>

----------------------------------------------------------------------------

RunStep(r) ==
    \/ LoadCodex(r) \/ LoadAnthropic(r) \/ LoadOpenRouter(r) \/ NoKey(r)
    \/ Answer(r) \/ RequestFailsCodex(r) \/ RequestFailsAnthropic(r)
    \/ RequestFailsOpenRouter(r) \/ Pauses(r) \/ TriesAgain(r)
    \/ \E n \in 1..2 : \/ WantsToolsCodex(r, n) \/ WantsToolsAnthropic(r, n)
                       \/ WantsToolsOpenRouter(r, n)
    \/ Execute(r) \/ RequestElevation(r) \/ PollApproved(r) \/ PollDenied(r)
    \/ ExecuteApproved(r) \/ Raises(r) \/ Finally(r) \/ Cancel(r)

Next ==
  /\ UNCHANGED <<provider, features>>
  /\ \/ \E r \in Runs : (Message(r) /\ ("beside" \in features \/ compacting = <<>>)) \/ RunStep(r)
     \/ ReapEntry \/ Restart \/ CompactStarts \/ CompactEnds
     \/ \E id \in asked : Approve(id) \/ Deny(id)
     \/ ClearSession \/ Expire \/ Grant

Spec == Init /\ [][Next]_vars

----------------------------------------------------------------------------
(* Properties.                                                             *)

Phases == Waiting \cup {"new", "marked", "stopped", "ended"}

\* Only a pending request can be approved, a run waits with a call in hand and under its
\* round limit, and a session whose runs do not overlap has one live run.
TypeOK ==
    /\ approved \subseteq asked /\ granted \subseteq {"all", "elevated"}
    /\ \A r \in Runs :
         /\ runs[r].phase \in Phases /\ runs[r].round <= RoundLimit
         /\ runs[r].phase \in {"tool", "asking", "again"} => runs[r].todo # <<>>
    /\ features \cap {"early", "reap"} = {} =>
         \A q, r \in Runs : Live(q) /\ Live(r) => q = r

\* What a run tells the model of a call is what happened to it: a call reported as done
\* took effect once, one reported as denied, blocked or asked about never does.
OutcomeTrue ==
    \A r \in Runs : \A k \in DOMAIN runs[r].items :
        LET i == runs[r].items[k]
            times == Cardinality({n \in DOMAIN performed : performed[n] = i.id})
        IN  i.kind = "out" =>
                times = IF i.how = "done" THEN 1 ELSE IF i.how = "lost" THEN times ELSE 0

\* A call that was refused, or whose request was dropped, takes effect no more.
NoneRefused == \A n \in DOMAIN performed' \ DOMAIN performed : performed'[n] \notin refused
RefusedStays == [][NoneRefused]_vars

\* Every call is followed by its outputs and every output belongs to such a call: what
\* the three APIs demand of a request.
Paired(s) ==
    LET block(k, j) == s[k].kind = "call" /\ j - k \in 1..Len(s[k].ids)
                         /\ s[j].kind = "out" /\ s[j].id = s[k].ids[j - k]
    IN  \A k \in DOMAIN s :
          /\ s[k].kind = "call" =>
               k + Len(s[k].ids) <= Len(s) /\ \A j \in (k + 1)..(k + Len(s[k].ids)) : block(k, j)
          /\ s[k].kind = "out" => \E j \in 1..(k - 1) : block(j, k)

\* A request of Codex is well formed whatever was interrupted or compacted before it; one
\* of Anthropic as long as no round raised, one of OpenRouter as long as besides it holds
\* all that the run has and the history is not compacted.
RequestPaired ==
    \A r \in Runs : runs[r].phase = "request" =>
        \/ provider # "codex" /\ "raises" \in features
        \/ provider = "openrouter" /\ (\/ Len(runs[r].sent) < Len(runs[r].items)
                                       \/ "compact" \in features)
        \/ Paired(runs[r].sent)

\* What the user said and was answered stays in the history, unless it is compacted, as
\* long as neither runs overlap nor a compaction runs beside one.
Said(s) == {s[k] : k \in {j \in DOMAIN s : s[j].kind \in {"user", "text"}}}

KeepsHistory == \/ features \cap {"early", "reap", "beside"} # {}
                \/ Said(history) \subseteq Said(history')
                \/ history'[1] = Summary
HistoryKept == [][KeepsHistory]_vars

=============================================================================
