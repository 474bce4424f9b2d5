--------------------------------- MODULE MCChat ---------------------------------
(***************************************************************************)
(* The runs of an API session on the server, the wakes of a Claude session *)
(* in all that may go wrong, and the tab of the page that shows what comes *)
(* of both, for TLC: a behaviour belongs to one of them (part).  The runs  *)
(* have the variables of ToolRuns, the other two keep theirs in the cells  *)
(* a to j.                                                                 *)
(***************************************************************************)
EXTENDS ToolRuns

VARIABLES part, a, b, c, d, e, f, g, h, i, j

cells == <<a, b, c, d, e, f, g, h, i, j>>
chat == <<part, vars, cells>>

----------------------------------------------------------------------------
\* Two messages to a session of each provider; a behaviour meets one set of troubles.
MCCases == {{"restricted", "cancel", "deny", "grant", "restart"},
            {"requestFails", "noKey", "raises", "cancel", "compact"},
            {"restricted", "pause", "compaction", "compact"},
            {"early", "reap", "beside", "compact", "raises"}}

\* The wakes of three notifications to a Claude session under everything that goes wrong.
Wakes == INSTANCE Notifications WITH
    NumNotes <- 3, Fleeting <- {2}, InboxCap <- 2, ClaimLimit <- 1, MaxAttempts <- 2, QueueCap <- 2,
    NumRuns <- 2,
    Features <- {"cancel", "refused", "spawnFails", "dies", "reapProcess", "reapSession", "crash",
                 "compaction"},
    inbox <- a, stale <- b, proc <- c, queue <- d, loop <- e, deferred <- f, run <- g, entry <- h, seen <- i, lost <- j

\* Two messages, one of which may be sent again; one fault.
Page == INSTANCE ChatPage WITH
    MaxTyped <- 2, MaxSends <- 3, MaxFaults <- 1,
    srv <- a, page <- b, proc <- c, typed <- d, told <- e, faults <- f

----------------------------------------------------------------------------
NoCells == /\ a = 0 /\ b = 0 /\ c = 0 /\ d = 0 /\ e = 0 /\ f = 0 /\ g = 0 /\ h = 0 /\ i = 0 /\ j = 0

\* Where another part is at work, the session of ToolRuns gets no message.
NoRuns == Init /\ provider = "codex" /\ features = {"restricted", "pause", "compaction", "compact"}

ChatInit == \/ part = "tools" /\ Init /\ NoCells
            \/ part = "wakes" /\ NoRuns /\ Wakes!Init
            \/ part = "page" /\ NoRuns /\ Page!Init /\ g = 0 /\ h = 0 /\ i = 0 /\ j = 0

ChatNext == \/ part = "tools" /\ Next /\ UNCHANGED <<part, cells>>
            \/ part = "wakes" /\ Wakes!Next /\ UNCHANGED <<part, vars>>
            \/ part = "page" /\ Page!Next /\ UNCHANGED <<part, vars, g, h, i, j>>

ChatSpec == ChatInit /\ [][ChatNext]_chat

----------------------------------------------------------------------------
\* Two tasks that end together do not start two internal runs, whatever dies or is reaped,
\* and no notification is let go of on its way to the model.
WakesKeep == part = "wakes" => Wakes!TypeOK /\ Wakes!OneWake /\ Wakes!Accounted

\* The page sends a message once, loses none without a word, and shows every answer once.
PageKeeps == part = "page" => Page!TypeOK /\ Page!SentOnce /\ Page!NothingLost /\ Page!AnswersShown
=============================================================================
