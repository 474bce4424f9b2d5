-------------------------------- MODULE ChatPage --------------------------------
(***************************************************************************)
(* One chat tab of the page whose answers come in the reply to the request *)
(* (Codex, OpenRouter): messages sent, queued behind a running turn and    *)
(* drained after it; a stream that breaks and is resumed; the recovery     *)
(* loop that runs beside it; the watchdog; stop; a server that restarts.   *)
(***************************************************************************)
EXTENDS Naturals, Sequences, FiniteSets, FiniteSetsExt

CONSTANTS
    MaxTyped,   \* bound on the messages the user types
    MaxSends,   \* bound on the requests that send() makes
    MaxFaults   \* bound on crashes, broken streams, stops, switches and long silences

Messages == 1..MaxTyped

Senders == {"one", "two"}  \* calls of send() under way
Procs == Senders \cup {"loop"}

VARIABLES
    srv,    \* the server: its current run and what it has emitted and kept
    page,   \* the tab, its queue and the input box
    proc,   \* the asynchronous functions of the page
    typed,  \* messages the user has typed
    told,   \* messages whose failure was shown
    faults

vars == <<srv, page, proc, typed, told, faults>>

None == 0
Runs == 1..MaxSends

\* A text: some of a run's answer (1) or all of it (2); of no run: a notice.
Empty == [of |-> 0, n |-> 0]
Notice == [of |-> 0, n |-> 1]
Texts == [of : 0..MaxSends, n : 0..2]

\* Every run emits two events: some text, and done with all of it.
Chunk(r) == 2 * r - 1
Done(r) == 2 * r
RunOf(e) == (e + 1) \div 2
Current == Len(srv.accepted)
Running == srv.up /\ srv.at \in {"running", "saved"}
Past(cur) == {e \in srv.emitted : e > cur}

Over == [at |-> "over", msg |-> None, epoch |-> 0, text |-> Empty, cur |-> 0, drained |-> FALSE, tries |-> 0]

\* Of the page's fields cut to ctl are its state: cut and flushed of a turn the user cut into,
\* ctl the call whose request can be stopped.  The others are history: messages lost with
\* nobody told (typed over in the box, turned away again, never sent), answers hidden until
\* the tab is read anew, late when an earlier send has acted on a later one's tab, and what
\* the user or a timer sent that the page had put back.
TypeOK ==
    /\ srv \in [up : BOOLEAN, at : {"none", "running", "saved", "over"}, accepted : Seq(Messages),
                emitted : SUBSET (1..(2 * MaxSends)), history : SUBSET Runs, stopped : SUBSET Runs,
                cancel : BOOLEAN]
    /\ page \in [loading : BOOLEAN, run : 0..MaxSends, final : 0..MaxSends, live : Texts,
                 cut : BOOLEAN, flushed : Nat, cancelled : BOOLEAN, reconnecting : BOOLEAN,
                 seen : 0..(2 * MaxSends), epoch : Nat, active : BOOLEAN, drained : Messages \cup {None},
                 tries : 0..3, last : Texts, shown : [Runs -> Nat], queue : Seq(Messages),
                 box : Messages \cup {None}, sends : Nat, drains : Nat, ctl : Senders \cup {"none"},
                 lost : SUBSET Messages, hidden : SUBSET Runs, late : BOOLEAN,
                 resent : SUBSET (Messages \cup {None})]
    /\ proc \in [Procs -> [at : {"over", "posting", "reading", "aborted", "resumed", "status",
                                 "asking", "recovered", "waiting"},
                           msg : Messages \cup {None}, epoch : Nat, text : Texts, cur : 0..(2 * MaxSends),
                           drained : BOOLEAN, tries : 0..3]]
    /\ typed \subseteq Messages /\ told \subseteq Messages /\ faults \in 0..MaxFaults

Init ==
    /\ srv = [up |-> TRUE, at |-> "none", accepted |-> <<>>, emitted |-> {}, history |-> {},
              stopped |-> {}, cancel |-> FALSE]
    /\ page = [loading |-> FALSE, run |-> 0, final |-> 0, live |-> Empty, cut |-> FALSE, flushed |-> 0,
               cancelled |-> FALSE, reconnecting |-> FALSE, seen |-> 0, epoch |-> 0, active |-> TRUE,
               drained |-> None, tries |-> 0, last |-> Empty, shown |-> [r \in Runs |-> 0],
               queue |-> <<>>, box |-> None, sends |-> 0, drains |-> 0, ctl |-> "none",
               lost |-> {}, hidden |-> {}, late |-> FALSE, resent |-> {}]
    /\ proc = [p \in Procs |-> Over] /\ typed = {} /\ told = {} /\ faults = 0

----------------------------------------------------------------------------
\* What the page's functions make of the tab.

\* The input box is set, over whatever the user was typing.
Put(pg, m) == [pg EXCEPT !.box = m, !.lost = IF pg.box \in {None, m} THEN @ ELSE @ \cup {pg.box}]

Drain(pg) == IF pg.queue = <<>> \/ ~pg.active THEN pg
             ELSE [Put(pg, Head(pg.queue)) EXCEPT
                       !.queue = Tail(@), !.drained = Head(pg.queue), !.sends = @ + 1]

Cleared(pg) == [pg EXCEPT !.loading = FALSE, !.live = Empty]

\* An answer from the history, not of the run heard of, may be one that is shown already.
Shows(pg, text) == IF text.n < 2 THEN pg
                   ELSE [pg EXCEPT !.shown[text.of] = @ + 1,
                                   !.late = @ \/ (pg.run # text.of /\ pg.shown[text.of] > 0)]

\* A turn cut into by the user's next message ends in the message flushed then.
Pushed(pg, text) ==
    IF pg.cut
    THEN IF pg.flushed > 0 THEN [Shows(pg, text) EXCEPT !.cut = FALSE, !.flushed = @ - 1]
         ELSE [pg EXCEPT !.cut = FALSE, !.hidden = IF text.n = 2 THEN @ \cup {text.of} ELSE @]
    ELSE IF text.n > 0 /\ pg.last # text THEN [Shows(pg, text) EXCEPT !.last = text] ELSE pg

BadFinalize(pg, text) == Drain([Cleared(Pushed(pg, text)) EXCEPT !.final = IF pg.run # 0 THEN pg.run ELSE @])
Finalize(pg, text) ==
    IF pg.run # 0 /\ pg.run = pg.final THEN pg
    ELSE Drain([Cleared(Pushed(pg, text)) EXCEPT !.final = IF pg.run # 0 THEN pg.run ELSE @])

\* Runs whose answer is not to be seen until the tab is read anew.
Unshown == {r \in 1..Current : page.shown[r] = 0}
Partly(pg, text) == IF text.n = 2 THEN pg ELSE [pg EXCEPT !.hidden = @ \cup Unshown]

\* What the loop does with its text.
Concluded(pg, text) == IF text.n > 0 /\ pg.last # text THEN Finalize(pg, text) ELSE Drain(Cleared(pg))

\* An event is of the tab's run, or of the first run heard of since the last send, which
\* may be an earlier one.
Earlier(e) == RunOf(e) # Current \/ \E p \in Senders : proc[p].at = "posting"
Heard(pg, e) == [pg EXCEPT !.seen = IF e > @ THEN e ELSE @, !.run = IF @ = 0 THEN RunOf(e) ELSE @,
                           !.late = @ \/ (pg.run = 0 /\ Earlier(e))]
Told(pg, e, text) ==
    IF Heard(pg, e).run # RunOf(e) THEN text
    ELSE IF e = Chunk(RunOf(e)) THEN [of |-> RunOf(e), n |-> 1]
    ELSE IF RunOf(e) \notin srv.stopped THEN [of |-> RunOf(e), n |-> 2]
    ELSE IF text.n = 0 THEN Notice ELSE text

\* A function of an earlier send acts on the tab of a later one.
Late(p, pg) == [pg EXCEPT !.late = @ \/ proc[p].epoch # page.epoch]

Ends(p, pg) == /\ page' = [Late(p, pg) EXCEPT !.ctl = IF @ = p THEN "none" ELSE @]
               /\ proc' = [proc EXCEPT ![p] = Over]

\* The finally block of send: a stream that ended or was stopped is not asked about.
Finally(p, pg, text, ended) ==
    IF ended \/ pg.cancelled THEN Ends(p, Finalize([pg EXCEPT !.cancelled = FALSE], text))
    ELSE /\ page' = Late(p, pg)
         /\ proc' = [proc EXCEPT ![p].at = IF @ = "resumed" THEN "recovered" ELSE "asking", ![p].text = text]

\* A message that failed to reach a server that is up by now: nobody is told.
Unsent(pg, m) == [pg EXCEPT !.lost = IF m \in {srv.accepted[r] : r \in 1..Current} THEN @ ELSE @ \cup {m}]

\* resumeStreamForTab: one at a time; the others are refused and ask for the status.
Resumes(p, rec) ==
    /\ page' = [page EXCEPT !.reconnecting = TRUE]
    /\ proc' = [proc EXCEPT ![p] = IF page.reconnecting THEN [rec EXCEPT !.at = "status"]
                                   ELSE [rec EXCEPT !.at = "resumed", !.cur = page.seen]]

Goes(p, at) == proc' = [proc EXCEPT ![p].at = at]

----------------------------------------------------------------------------
\* The user.

Type(m) == /\ page.active /\ m = Cardinality(typed) + 1 /\ page.box = None /\ m \notin typed
           /\ page' = [page EXCEPT !.box = m] /\ typed' = typed \cup {m}
           /\ UNCHANGED <<srv, proc, told, faults>>

Abort(pr) == IF page.ctl # "none" /\ pr[page.ctl].at \in {"posting", "reading"}
             THEN [pr EXCEPT ![page.ctl].at = "aborted"] ELSE pr

\* send(): behind a running turn the message is queued, and what was streamed so far is kept.
Enqueue(pg) == LET cuts == pg.live.n > 0 IN
    [pg EXCEPT !.queue = Append(@, pg.box), !.box = None, !.live = Empty, !.cut = @ \/ cuts,
               !.flushed = IF cuts THEN @ + 1 ELSE @, !.last = Empty]

Begin(pg, p) ==
    /\ pg.epoch < MaxSends /\ proc[p].at = "over" /\ p # pg.ctl
    /\ p = "one" \/ proc["one"].at # "over" \/ pg.ctl = "one"
    /\ LET drained == pg.drained = pg.box IN
       /\ page' = [pg EXCEPT !.loading = TRUE, !.run = 0, !.live = Empty, !.epoch = @ + 1, !.ctl = p,
                             !.box = None, !.last = IF drained THEN @ ELSE Empty,
                             !.drained = IF drained THEN None ELSE @, !.tries = IF drained THEN 0 ELSE @]
       /\ proc' = [Abort(proc) EXCEPT ![p] = [Over EXCEPT !.at = "posting", !.msg = pg.box,
                       !.epoch = pg.epoch + 1, !.drained = drained,
                       !.tries = IF drained THEN pg.tries ELSE 0]]

Send(pg) == IF pg.box = None \/ ~pg.active THEN page' = pg /\ UNCHANGED proc
            ELSE IF pg.loading THEN page' = Enqueue(pg) /\ UNCHANGED proc
            ELSE \E p \in Senders : Begin(pg, p)

Submit == /\ page.box # None /\ page.active
          /\ Send([page EXCEPT !.resent = IF \E p \in Senders : proc[p].at = "waiting"
                                             THEN @ \cup {page.box} ELSE @])
          /\ UNCHANGED <<srv, typed, told, faults>>

Fault == faults < MaxFaults /\ faults' = faults + 1

Stop == /\ Fault /\ page.active /\ page.loading
        /\ page' = [Cleared(page) EXCEPT !.cancelled = TRUE, !.last = Empty, !.hidden = @ \cup Unshown]
        /\ proc' = Abort(proc) /\ srv' = [srv EXCEPT !.cancel = TRUE]
        /\ UNCHANGED <<typed, told>>

Switch == /\ Fault /\ page.active /\ page' = [page EXCEPT !.active = FALSE]
          /\ UNCHANGED <<srv, proc, typed, told>>
SwitchBack == /\ ~page.active /\ page' = [page EXCEPT !.active = TRUE]
              /\ UNCHANGED <<srv, proc, typed, told, faults>>

----------------------------------------------------------------------------
\* A call of send: its request.

PostArrives(p) ==
    /\ proc[p].at = "posting" /\ srv.up /\ ~Running
    /\ srv' = [srv EXCEPT !.accepted = Append(@, proc[p].msg), !.at = "running"]
    /\ proc' = [proc EXCEPT ![p].at = "reading", ![p].cur = Done(Current)]
    /\ UNCHANGED <<page, typed, told, faults>>

\* Turned away: a drained message is to be drained again, but is no longer queued.
PostBusy(p) ==
    /\ proc[p].at = "posting" /\ Running
    /\ IF proc[p].drained /\ proc[p].tries < 3
       THEN /\ page' = [page EXCEPT !.drained = proc[p].msg, !.tries = proc[p].tries + 1,
                                    !.loading = FALSE, !.drains = @ + 1, !.lost = @ \cup {proc[p].msg}]
            /\ proc' = [proc EXCEPT ![p] = Over] /\ UNCHANGED told
       ELSE told' = told \cup {proc[p].msg} /\ Finally(p, page, Notice, FALSE)
    /\ UNCHANGED <<srv, typed, faults>>

PostFails(p) ==
    /\ proc[p].at = "posting" /\ Resumes(p, proc[p])
    /\ IF srv.up THEN Fault ELSE UNCHANGED faults
    /\ UNCHANGED <<srv, typed, told>>

Aborted(p) ==
    /\ proc[p].at = "aborted"
    /\ Finally(p, page, IF proc[p].text # Empty \/ page.cancelled THEN proc[p].text ELSE Notice, FALSE)
    /\ told' = told \cup {proc[p].msg} /\ UNCHANGED <<srv, typed, faults>>

----------------------------------------------------------------------------
\* Its stream, or that of a resume: the reply has the run's events, a resume everyone's.

Read(p) ==
    /\ proc[p].at \in {"reading", "resumed"} /\ srv.up /\ Past(proc[p].cur) # {}
    /\ LET e == Min(Past(proc[p].cur))
           text == Told(page, e, proc[p].text)
           hears == Heard(page, e)
           pg == [hears EXCEPT !.live = IF hears.run = RunOf(e) THEN text ELSE @]
       IN  IF e # Done(RunOf(e))
           THEN page' = Late(p, pg) /\ proc' = [proc EXCEPT ![p].cur = e, ![p].text = text]
           ELSE IF p = "loop" THEN Ends(p, Concluded([pg EXCEPT !.reconnecting = FALSE], text))
           ELSE IF proc[p].at = "reading" THEN Finally(p, pg, text, TRUE)
           ELSE Finally(p, Unsent([pg EXCEPT !.reconnecting = FALSE], proc[p].msg), text, FALSE)
    /\ UNCHANGED <<srv, typed, told, faults>>

\* Some browsers' messages are taken for a lost connection, others' are not.
Breaks(p) ==
    /\ proc[p].at = "reading" /\ (IF srv.up THEN Fault ELSE UNCHANGED faults)
    /\ \/ Resumes(p, proc[p])
       \/ Finally(p, page, IF proc[p].text = Empty THEN Notice ELSE proc[p].text, FALSE)
    /\ UNCHANGED <<srv, typed, told>>

ResumeBreaks(p) ==
    /\ proc[p].at = "resumed" /\ (IF srv.up THEN Fault ELSE UNCHANGED faults)
    /\ page' = [page EXCEPT !.reconnecting = FALSE] /\ Goes(p, "status")
    /\ UNCHANGED <<srv, typed, told>>

\* Nothing left to replay and no run: the latest answer is taken from the history, be it an
\* earlier one.
Latest(text) == IF srv.at = "over" \/ srv.history = {} \/ text.n = 2 THEN text
                ELSE [of |-> Max(srv.history), n |-> 2]
ResumeEnds(p) ==
    /\ proc[p].at = "resumed" /\ srv.up /\ ~Running /\ Past(proc[p].cur) = {}
    /\ LET text == Latest(proc[p].text)
           pg == [page EXCEPT !.reconnecting = FALSE, 
                              !.live = IF text # proc[p].text THEN text ELSE @]
       IN  IF srv.at = "none" /\ text.n = 0 THEN page' = pg /\ Goes(p, "status")
           ELSE IF p = "loop" THEN Ends(p, Concluded(pg, text))
           ELSE Finally(p, Unsent(pg, proc[p].msg), text, FALSE)
    /\ UNCHANGED <<srv, typed, told, faults>>

\* Not recovered: left to the loop, or to the wait for a server that does not answer.
Status(p) ==
    /\ proc[p].at = "status"
    /\ IF Running
       THEN /\ page' = Late(p, IF p = "loop" THEN [page EXCEPT !.loading = TRUE]
                              ELSE Unsent(page, proc[p].msg))
            /\ proc' = [proc EXCEPT ![p] = Over]
       ELSE IF p = "loop" THEN Ends(p, Concluded(Partly(page, proc[p].text), proc[p].text))
       ELSE IF srv.up THEN Finally(p, Unsent(page, proc[p].msg), proc[p].text, FALSE)
       ELSE page' = Late(p, [Put(page, proc[p].msg) EXCEPT !.loading = FALSE]) /\ Goes(p, "waiting")
    /\ UNCHANGED <<srv, typed, told, faults>>

\* A run that ended after its stream broke is not looked up in the history.
Ask(p) ==
    /\ proc[p].at \in {"asking", "recovered"}
    /\ IF Running
       THEN /\ page' = Late(p, [page EXCEPT !.loading = TRUE,
                                            !.live = IF @ = Empty THEN proc[p].text ELSE @])
            /\ proc' = [proc EXCEPT ![p] = Over]
       ELSE Ends(p, Finalize(IF proc[p].at = "asking" THEN Partly(page, proc[p].text) ELSE page,
                             proc[p].text))
    /\ UNCHANGED <<srv, typed, told, faults>>

\* The server is back: the tab is read anew, and the message taken back from the box
\* if it is the last one the server has.
Reloaded(pg) ==
    [pg EXCEPT !.shown = [r \in Runs |-> IF r \in srv.history THEN 1 ELSE 0], !.flushed = 0,
               !.last = IF Current \in srv.history THEN [of |-> Current, n |-> 2] ELSE Empty]
Waited(p) ==
    /\ proc[p].at = "waiting"
    /\ Ends(p, IF ~srv.up THEN [page EXCEPT !.hidden = @ \cup Unshown, !.resent = @ \cup {proc[p].msg}]
               ELSE IF Current > 0 /\ srv.accepted[Current] = proc[p].msg
                    THEN [Reloaded(page) EXCEPT !.box = None,
                              !.lost = IF page.box \in {None, proc[p].msg} THEN @ ELSE @ \cup {page.box}]
                    ELSE Reloaded(page))
    /\ UNCHANGED <<srv, typed, told, faults>>

----------------------------------------------------------------------------
\* Timers: of the drain, of a retry, of the recovery loop and of the watchdog.

\* Whatever is in the box by then is sent.
TimerSend == /\ page.sends > 0
             /\ Send([page EXCEPT !.sends = @ - 1,
                                  !.resent = IF page.box = page.drained THEN @ ELSE @ \cup {page.box}])
             /\ UNCHANGED <<srv, typed, told, faults>>
TimerDrain == /\ page.drains > 0 /\ page' = Drain([page EXCEPT !.drains = @ - 1])
              /\ UNCHANGED <<srv, proc, typed, told, faults>>

Loop == /\ proc["loop"].at = "over" /\ page.active /\ page.loading
        /\ Resumes("loop", [Over EXCEPT !.text = page.live, !.epoch = page.epoch])
        /\ UNCHANGED <<srv, typed, told, faults>>

\* Long loading and no run, or a minute's silence: the tab is unlocked, without its text.
Watchdog ==
    /\ page.loading /\ \A p \in Senders : proc[p].at # "posting"
    /\ IF Running \/ \E p \in Procs : proc[p].at # "over" THEN Fault ELSE UNCHANGED faults
    /\ page' = Drain([Cleared(page) EXCEPT !.hidden = @ \cup Unshown])
    /\ UNCHANGED <<srv, proc, typed, told>>

----------------------------------------------------------------------------
\* The server.

Emit == /\ Running /\ srv.at = "running" /\ Chunk(Current) \notin srv.emitted
        /\ srv' = [srv EXCEPT !.emitted = @ \cup {Chunk(Current)}]
        /\ UNCHANGED <<page, proc, typed, told, faults>>

Save == /\ Running /\ srv.at = "running" /\ srv' = [srv EXCEPT !.at = "saved", !.history = @ \cup {Current}]
        /\ UNCHANGED <<page, proc, typed, told, faults>>

\* The run is over before its last event is sent.
Finish == /\ Running /\ srv.at = "saved"
          /\ srv' = [srv EXCEPT !.at = "over", !.emitted = @ \cup {Done(Current)}]
          /\ UNCHANGED <<page, proc, typed, told, faults>>

CancelArrives ==
    /\ srv.cancel
    /\ srv' = IF Running
              THEN [srv EXCEPT !.cancel = FALSE, !.at = "over", !.emitted = @ \cup {Done(Current)},
                               !.stopped = @ \cup {Current}]
              ELSE [srv EXCEPT !.cancel = FALSE]
    /\ UNCHANGED <<page, proc, typed, told, faults>>

Crash == /\ Fault /\ srv.up /\ srv' = [srv EXCEPT !.up = FALSE, !.at = "none", !.cancel = FALSE]
         /\ UNCHANGED <<page, proc, typed, told>>
Restart == /\ ~srv.up /\ srv' = [srv EXCEPT !.up = TRUE]
           /\ UNCHANGED <<page, proc, typed, told, faults>>

\* A tab that an earlier send has acted on is not followed further.
Next ==
    /\ ~page.late
    /\ \/ \E m \in Messages : Type(m)
       \/ Submit \/ Stop \/ Switch \/ SwitchBack
       \/ \E p \in Senders : PostArrives(p) \/ PostBusy(p) \/ PostFails(p) \/ Aborted(p) \/ Breaks(p)
                             \/ Ask(p) \/ Waited(p)
       \/ \E p \in Procs : Read(p) \/ ResumeBreaks(p) \/ ResumeEnds(p) \/ Status(p)
       \/ TimerSend \/ TimerDrain \/ Loop \/ Watchdog
       \/ Emit \/ Save \/ Finish \/ CancelArrives \/ Crash \/ Restart

Spec == Init /\ [][Next]_vars

----------------------------------------------------------------------------
Quiet == /\ srv.up /\ ~Running /\ ~srv.cancel /\ ~page.loading /\ page.sends = 0 /\ page.drains = 0
         /\ \A p \in Procs : proc[p].at = "over"

\* The server gets a message once, unless the user sends again what the page put back.
SentOnce == \A r, s \in 1..Current :
                r # s /\ srv.accepted[r] = srv.accepted[s] => srv.accepted[r] \in page.resent

\* What was typed is with the server, queued, in the box, or its failure was shown.
NothingLost == Quiet => \A m \in typed :
    \/ m \in {srv.accepted[r] : r \in 1..Current} \cup told \cup page.lost \cup {page.box}
    \/ \E k \in DOMAIN page.queue : page.queue[k] = m

\* Every answer is shown, and once.
AnswersShown ==
    Quiet /\ ~page.late => \A r \in srv.history \ (page.hidden \cup srv.stopped) : page.shown[r] = 1
=============================================================================
