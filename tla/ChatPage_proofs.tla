---------------------------- MODULE ChatPage_proofs ----------------------------
(***************************************************************************)
(* Theorems about ChatPage, for every number of messages, sends and faults.*)
(*                                                                         *)
(* The argument for SentOnce: a message that was not sent again by hand or *)
(* by a timer is in one place, the box, the queue, one call of send() or   *)
(* the server (OnePlace).  The places a message may leave twice are a call *)
(* that puts its message back in the box to wait for the server, and the   *)
(* queue; a call that waits knows its message by what the server has last  *)
(* (the request that can be stopped is the only one under way, Controlled).*)
(*                                                                         *)
(* The argument for NothingLost: whoever gives a message away has seen it  *)
(* at the server, has told the user or counts it as lost (Cared).          *)
(***************************************************************************)
EXTENDS ChatPage, WellFoundedInduction, TLAPS

Bounds == MaxTyped \in Nat /\ MaxSends \in Nat /\ MaxFaults \in Nat

Accepted == {srv.accepted[r] : r \in 1..Current}
Queued == {page.queue[k] : k \in DOMAIN page.queue}

Busy(p) == proc[p].at # "over"

\* A whole answer is the answer of a run.
Ready(t) == t.n = 2 => t.of \in Runs

PageType ==
    [loading : BOOLEAN, run : 0..MaxSends, final : 0..MaxSends, live : Texts,
     cut : BOOLEAN, flushed : Nat, cancelled : BOOLEAN, reconnecting : BOOLEAN,
     seen : 0..(2 * MaxSends), epoch : Nat, active : BOOLEAN, drained : Messages \cup {None},
     tries : 0..3, last : Texts, shown : [Runs -> Nat], queue : Seq(Messages),
     box : Messages \cup {None}, sends : Nat, drains : Nat, ctl : Senders \cup {"none"},
     lost : SUBSET Messages, hidden : SUBSET Runs, late : BOOLEAN,
     resent : SUBSET (Messages \cup {None})]

ServerType ==
    [up : BOOLEAN, at : {"none", "running", "saved", "over"}, accepted : Seq(Messages),
     emitted : SUBSET (1..(2 * MaxSends)), history : SUBSET Runs, stopped : SUBSET Runs,
     cancel : BOOLEAN]

ProcType ==
    [at : {"over", "posting", "reading", "aborted", "resumed", "status", "asking", "recovered", "waiting"},
     msg : Messages \cup {None}, epoch : Nat, text : Texts, cur : 0..(2 * MaxSends),
     drained : BOOLEAN, tries : 0..3]

\* The server has emitted and kept what belongs to the runs it has accepted.
Served(s) ==
    /\ s \in ServerType
    /\ Len(s.accepted) <= MaxSends
    /\ s.emitted \subseteq 1..(2 * Len(s.accepted)) /\ s.history \subseteq 1..Len(s.accepted)
    /\ s.stopped \subseteq 1..Len(s.accepted)
    /\ s.at # "none" => Len(s.accepted) > 0

\* A function of the page in the middle of a text that it may show.
Reading(rec) == rec \in ProcType /\ Ready(rec.text)

\* No more requests were accepted than made.
Counted ==
    /\ Current <= page.epoch /\ page.epoch <= MaxSends
    /\ \A p \in Senders : proc[p].at = "posting" => Current < page.epoch

\* The request that can be stopped is the only one under way, and the latest.
Controlled ==
    \A p \in Senders : proc[p].at \in {"posting", "reading"} =>
                          page.ctl = p /\ proc[p].epoch = page.epoch

Known ==
    /\ page.box \in typed \cup {None} /\ Queued \subseteq typed /\ Accepted \subseteq typed
    /\ page.drained \in typed \cup {None}
    /\ \A p \in Senders : Busy(p) => proc[p].msg \in typed

\* A message in the box is not queued, and with the server only if the call that put it
\* there waits for the server.
BoxAlone ==
    page.box # None /\ page.box \notin page.resent =>
        /\ page.box \notin Queued
        /\ page.box \notin Accepted \/ \E p \in Senders : proc[p].at = "waiting" /\ proc[p].msg = page.box

\* A queued message is queued once, and not with the server.
QueueAlone ==
    \A k \in DOMAIN page.queue : page.queue[k] \notin page.resent =>
        /\ page.queue[k] \notin Accepted
        /\ \A l \in DOMAIN page.queue : page.queue[l] = page.queue[k] => l = k

\* A message a call is busy with is nowhere else; the latest call's is the last that the
\* server has, if it has it.
CallAlone(p) ==
    /\ proc[p].msg \notin Queued
    /\ proc[p].msg # page.drained
    /\ proc[p].msg = page.box => proc[p].at = "waiting"
    /\ proc[p].at = "posting" => proc[p].msg \notin Accepted
    /\ proc[p].epoch = page.epoch => \A r \in 1..Current - 1 : srv.accepted[r] # proc[p].msg
    /\ \A q \in Senders : Busy(q) /\ proc[q].msg = proc[p].msg => q = p

CallsAlone == \A p \in Senders : Busy(p) /\ proc[p].msg \notin page.resent => CallAlone(p)

Epochs == /\ \A p, q \in Senders : Busy(p) /\ Busy(q) /\ proc[p].epoch = proc[q].epoch => p = q
          /\ \A p \in Senders : Busy(p) => proc[p].epoch <= page.epoch

OnePlace == BoxAlone /\ QueueAlone /\ CallsAlone

\* A message is with the server, with the page, or with a call of send() that will tell.
Carrying == {"posting", "aborted", "resumed", "status"}
Cared ==
    /\ \A m \in typed : \/ m \in Accepted \cup told \cup page.lost \cup {page.box} \cup Queued
                        \/ \E p \in Senders : proc[p].at \in Carrying /\ proc[p].msg = m
    /\ \A p \in Senders : proc[p].at = "reading" => proc[p].msg \in Accepted

Typing ==
    /\ Served(srv) /\ page \in PageType /\ Ready(page.live)
    /\ proc \in [Procs -> ProcType] /\ \A p \in Procs : Ready(proc[p].text)
    /\ typed \subseteq Messages /\ told \subseteq Messages /\ faults \in 0..MaxFaults

PageInv == /\ Typing /\ Counted /\ Controlled /\ Known /\ Epochs /\ Cared
           /\ SentOnce /\ (~page.late => OnePlace)

LEMMA TypingType == Typing => TypeOK
BY DEF Typing, TypeOK, Served, ServerType, PageType, ProcType

-----------------------------------------------------------------------------
(* What the page's functions make of the tab *)

\* What all of them leave alone.
Stays(pg, qg) ==
    /\ qg.epoch = pg.epoch /\ qg.ctl = pg.ctl /\ pg.resent \subseteq qg.resent
    /\ pg.late => qg.late
    /\ pg.lost \subseteq qg.lost

SameTab(pg, qg) == Stays(pg, qg) /\ qg.box = pg.box /\ qg.queue = pg.queue /\ qg.drained = pg.drained

\* The first of the queue is put in the box, to be sent.
DrainedTab(pg, qg) ==
    /\ Stays(pg, qg) /\ pg.queue # <<>>
    /\ qg.box = Head(pg.queue) /\ qg.queue = Tail(pg.queue) /\ qg.drained = Head(pg.queue)
    /\ pg.box \in {None, Head(pg.queue)} \cup qg.lost

MovedTab(pg, qg) == SameTab(pg, qg) \/ DrainedTab(pg, qg)

LEMMA TextTypes == Bounds => /\ Empty \in Texts /\ Notice \in Texts /\ Ready(Empty) /\ Ready(Notice)
                             /\ Over \in ProcType /\ Ready(Over.text)
BY DEF Bounds, Empty, Notice, Texts, Ready, Over, ProcType, None

LEMMA SameMoves ==
    ASSUME NEW pg, NEW qg, NEW rg, SameTab(pg, qg), MovedTab(qg, rg)
    PROVE  MovedTab(pg, rg)
BY DEF SameTab, MovedTab, DrainedTab, Stays

LEMMA SameSame ==
    ASSUME NEW pg, NEW qg, NEW rg, SameTab(pg, qg), SameTab(qg, rg)
    PROVE  SameTab(pg, rg)
BY DEF SameTab, Stays

LEMMA MovesSame ==
    ASSUME NEW pg, NEW qg, NEW rg, MovedTab(pg, qg), SameTab(qg, rg)
    PROVE  MovedTab(pg, rg)
BY DEF SameTab, MovedTab, DrainedTab, Stays

LEMMA PutTab ==
    ASSUME NEW pg \in PageType, NEW m \in Messages \cup {None}
    PROVE  /\ Put(pg, m) \in PageType
           /\ Stays(pg, Put(pg, m)) /\ Put(pg, m).box = m
           /\ pg.box \in {None, m} \cup Put(pg, m).lost
           /\ Put(pg, m).queue = pg.queue /\ Put(pg, m).drained = pg.drained
           /\ Put(pg, m).live = pg.live /\ Put(pg, m).sends = pg.sends
           /\ Put(pg, m).resent = pg.resent
<1> DEFINE gone == IF pg.box \in {None, m} THEN pg.lost ELSE pg.lost \cup {pg.box}
<1>1. gone \subseteq Messages /\ pg.lost \subseteq gone /\ pg.box \in {None, m} \cup gone
  BY DEF PageType
<1>2. Put(pg, m) = [pg EXCEPT !.box = m, !.lost = gone]
  BY DEF Put
<1> HIDE DEF gone
<1> QED
  BY <1>1, <1>2, ZenonT(60) DEF PageType, Stays

LEMMA DrainTab ==
    ASSUME NEW pg \in PageType
    PROVE  Drain(pg) \in PageType /\ MovedTab(pg, Drain(pg)) /\ Drain(pg).live = pg.live
<1>1. CASE pg.queue = <<>> \/ ~pg.active
  BY <1>1 DEF Drain, MovedTab, SameTab, Stays
<1>2. CASE ~(pg.queue = <<>> \/ ~pg.active)
  <2> DEFINE m == Head(pg.queue)
             rest == Tail(pg.queue)
             qg == Put(pg, m)
             more == pg.sends + 1
  <2>1. m \in Messages /\ rest \in Seq(Messages) /\ more \in Nat
    BY <1>2 DEF PageType
  <2>2. /\ qg \in PageType /\ qg.queue = pg.queue /\ qg.sends = pg.sends /\ Stays(pg, qg)
        /\ qg.box = m /\ qg.live = pg.live /\ pg.box \in {None, m} \cup qg.lost
    BY <2>1, PutTab
  <2>3. Drain(pg) = [qg EXCEPT !.queue = rest, !.drained = m, !.sends = more]
    BY <1>2, <2>2 DEF Drain
  <2>4. pg.queue # <<>> /\ m = Head(pg.queue) /\ rest = Tail(pg.queue)
    BY <1>2
  <2> HIDE DEF m, rest, qg, more
  <2>5. Drain(pg) \in PageType
    BY <2>1, <2>2, <2>3, ZenonT(60) DEF PageType
  <2>6. /\ Drain(pg).box = m /\ Drain(pg).queue = rest /\ Drain(pg).drained = m
        /\ Drain(pg).live = pg.live /\ Drain(pg).lost = qg.lost /\ Stays(qg, Drain(pg))
    BY <2>2, <2>3 DEF PageType, Stays
  <2>7. Stays(pg, Drain(pg))
    BY <2>2, <2>6 DEF Stays
  <2> QED
    BY <2>2, <2>4, <2>5, <2>6, <2>7 DEF MovedTab, DrainedTab
<1> QED
  BY <1>1, <1>2

LEMMA ClearedTab ==
    ASSUME Bounds, NEW pg \in PageType
    PROVE  Cleared(pg) \in PageType /\ SameTab(pg, Cleared(pg)) /\ Cleared(pg).live = Empty
BY TextTypes, ZenonT(60) DEF Cleared, PageType, SameTab, Stays

LEMMA ShownTab ==
    ASSUME Bounds, NEW pg \in PageType, NEW text \in Texts, Ready(text)
    PROVE  Shows(pg, text) \in PageType /\ SameTab(pg, Shows(pg, text)) /\ Shows(pg, text).live = pg.live
           /\ Shows(pg, text).flushed = pg.flushed
<1>1. CASE text.n < 2
  BY <1>1 DEF Shows, SameTab, Stays
<1>2. CASE ~(text.n < 2)
  <2> DEFINE s == [pg.shown EXCEPT ![text.of] = @ + 1]
             l == pg.late \/ (pg.run # text.of /\ pg.shown[text.of] > 0)
  <2>1. text.of \in Runs /\ pg.shown \in [Runs -> Nat] /\ pg.shown[text.of] + 1 \in Nat
    BY <1>2, SMTT(30) DEF Texts, PageType, Ready, Bounds
  <2>2. s \in [Runs -> Nat] /\ l \in BOOLEAN /\ (pg.late => l)
    BY <2>1 DEF PageType
  <2>3. Shows(pg, text) = [pg EXCEPT !.shown = s, !.late = l]
    BY <1>2 DEF Shows
  <2> HIDE DEF s, l
  <2> QED
    BY <2>2, <2>3, ZenonT(60) DEF PageType, SameTab, Stays
<1> QED
  BY <1>1, <1>2

LEMMA PushedTab ==
    ASSUME Bounds, NEW pg \in PageType, NEW text \in Texts, Ready(text)
    PROVE  Pushed(pg, text) \in PageType /\ SameTab(pg, Pushed(pg, text))
<1> DEFINE qg == Shows(pg, text)
<1>1. qg \in PageType /\ SameTab(pg, qg) /\ qg.flushed = pg.flushed
  BY ShownTab
<1>2. CASE pg.cut /\ pg.flushed > 0
  <2>1. Pushed(pg, text) = [qg EXCEPT !.cut = FALSE, !.flushed = qg.flushed - 1] /\ qg.flushed - 1 \in Nat
    BY <1>1, <1>2, SMTT(30) DEF Pushed, PageType
  <2> HIDE DEF qg
  <2> QED
    BY <1>1, <2>1, ZenonT(60) DEF PageType, SameTab, Stays
<1>3. CASE pg.cut /\ ~(pg.flushed > 0)
  <2> DEFINE h == IF text.n = 2 THEN pg.hidden \cup {text.of} ELSE pg.hidden
  <2>1. h \subseteq Runs
    BY DEF PageType, Ready
  <2>2. Pushed(pg, text) = [pg EXCEPT !.cut = FALSE, !.hidden = h]
    BY <1>3 DEF Pushed
  <2> HIDE DEF h
  <2> QED
    BY <2>1, <2>2, ZenonT(60) DEF PageType, SameTab, Stays
<1>4. CASE ~pg.cut /\ text.n > 0 /\ pg.last # text
  <2>1. Pushed(pg, text) = [qg EXCEPT !.last = text]
    BY <1>4 DEF Pushed
  <2> HIDE DEF qg
  <2> QED
    BY <1>1, <2>1, ZenonT(60) DEF PageType, SameTab, Stays
<1>5. CASE ~pg.cut /\ ~(text.n > 0 /\ pg.last # text)
  BY <1>5 DEF Pushed, SameTab, Stays
<1> QED
  BY <1>2, <1>3, <1>4, <1>5

LEMMA FinalizedTab ==
    ASSUME Bounds, NEW pg \in PageType, Ready(pg.live), NEW text \in Texts, Ready(text)
    PROVE  LET fg == Finalize(pg, text) IN fg \in PageType /\ MovedTab(pg, fg) /\ Ready(fg.live)
<1>1. CASE pg.run # 0 /\ pg.run = pg.final
  BY <1>1 DEF Finalize, MovedTab, SameTab, Stays
<1>2. CASE ~(pg.run # 0 /\ pg.run = pg.final)
  <2> DEFINE qg == Pushed(pg, text)
             f == IF pg.run # 0 THEN pg.run ELSE Cleared(qg).final
             rg == [Cleared(qg) EXCEPT !.final = f]
  <2>1. qg \in PageType /\ SameTab(pg, qg)
    BY PushedTab
  <2>2. Cleared(qg) \in PageType /\ SameTab(qg, Cleared(qg)) /\ Cleared(qg).live = Empty
    BY <2>1, ClearedTab
  <2>3. f \in 0..MaxSends
    BY <2>2 DEF PageType
  <2>4. rg \in PageType /\ SameTab(Cleared(qg), rg) /\ rg.live = Empty
    <3> HIDE DEF f, qg
    <3> QED
      BY <2>2, <2>3, ZenonT(60) DEF PageType, SameTab, Stays
  <2>5. Finalize(pg, text) = Drain(rg)
    BY <1>2 DEF Finalize
  <2>6. SameTab(pg, rg)
    BY <2>1, <2>2, <2>4, SameSame
  <2> HIDE DEF rg
  <2>7. Drain(rg) \in PageType /\ MovedTab(rg, Drain(rg)) /\ Drain(rg).live = Empty
    BY <2>4, DrainTab
  <2> QED
    BY <2>5, <2>6, <2>7, SameMoves, TextTypes
<1> QED
  BY <1>1, <1>2

LEMMA ConcludedTab ==
    ASSUME Bounds, NEW pg \in PageType, Ready(pg.live), NEW text \in Texts, Ready(text)
    PROVE  LET cg == Concluded(pg, text) IN cg \in PageType /\ MovedTab(pg, cg) /\ Ready(cg.live)
<1>1. CASE text.n > 0 /\ pg.last # text
  BY <1>1, FinalizedTab DEF Concluded
<1>2. CASE ~(text.n > 0 /\ pg.last # text)
  <2>1. Cleared(pg) \in PageType /\ SameTab(pg, Cleared(pg)) /\ Cleared(pg).live = Empty
    BY ClearedTab
  <2>2. Concluded(pg, text) = Drain(Cleared(pg))
    BY <1>2 DEF Concluded
  <2>3. /\ Drain(Cleared(pg)) \in PageType /\ MovedTab(Cleared(pg), Drain(Cleared(pg)))
        /\ Drain(Cleared(pg)).live = Empty
    BY <2>1, DrainTab
  <2> QED
    BY <2>1, <2>2, <2>3, SameMoves, TextTypes
<1> QED
  BY <1>1, <1>2

LEMMA EventRuns ==
    ASSUME Typing, NEW e \in 1..(2 * Current), Bounds
    PROVE  RunOf(e) \in 1..Current /\ RunOf(e) \in Runs /\ e \in 0..(2 * MaxSends)
<1>1. Current \in Nat /\ Current <= MaxSends /\ MaxSends \in Nat
  BY DEF Typing, Served, ServerType, Current, Bounds
<1>2. (e + 1) \div 2 \in 1..Current
  BY <1>1
<1> QED
  BY <1>1, <1>2 DEF RunOf, Runs

LEMMA HeardTab ==
    ASSUME Bounds, Typing, NEW pg \in PageType, NEW e \in 1..(2 * Current)
    PROVE  Heard(pg, e) \in PageType /\ SameTab(pg, Heard(pg, e)) /\ Heard(pg, e).live = pg.live
<1> DEFINE s == IF e > pg.seen THEN e ELSE pg.seen
           r == IF pg.run = 0 THEN RunOf(e) ELSE pg.run
           l == pg.late \/ (pg.run = 0 /\ Earlier(e))
<1>1. s \in 0..(2 * MaxSends) /\ r \in 0..MaxSends
  BY EventRuns DEF PageType, Runs
<1>2. l \in BOOLEAN /\ (pg.late => l)
  BY DEF PageType
<1>3. Heard(pg, e) = [pg EXCEPT !.seen = s, !.run = r, !.late = l]
  BY DEF Heard
<1> HIDE DEF s, r, l
<1>4. Heard(pg, e) \in PageType
  BY <1>1, <1>2, <1>3, ZenonT(60) DEF PageType
<1>5. SameTab(pg, Heard(pg, e)) /\ Heard(pg, e).live = pg.live
  BY <1>2, <1>3 DEF PageType, SameTab, Stays
<1> QED
  BY <1>4, <1>5

LEMMA ToldText ==
    ASSUME Bounds, Typing, NEW pg, NEW e \in 1..(2 * Current), NEW text \in Texts, Ready(text)
    PROVE  Told(pg, e, text) \in Texts /\ Ready(Told(pg, e, text))
<1>1. RunOf(e) \in Runs /\ RunOf(e) \in 0..MaxSends
  BY EventRuns DEF Runs
<1>2. /\ [of |-> RunOf(e), n |-> 1] \in Texts /\ Ready([of |-> RunOf(e), n |-> 1])
      /\ [of |-> RunOf(e), n |-> 2] \in Texts /\ Ready([of |-> RunOf(e), n |-> 2])
  BY <1>1 DEF Texts, Ready
<1> QED
  BY <1>2, TextTypes DEF Told

LEMMA LateTab ==
    ASSUME NEW pg \in PageType, NEW p
    PROVE  /\ Late(p, pg) \in PageType /\ SameTab(pg, Late(p, pg)) /\ Late(p, pg).live = pg.live
           /\ proc[p].epoch # page.epoch => Late(p, pg).late
           /\ Late(p, pg).lost = pg.lost
<1> DEFINE l == pg.late \/ proc[p].epoch # page.epoch
<1>1. l \in BOOLEAN /\ (pg.late => l) /\ (proc[p].epoch # page.epoch => l)
  BY DEF PageType
<1>2. Late(p, pg) = [pg EXCEPT !.late = l]
  BY DEF Late
<1> HIDE DEF l
<1> QED
  BY <1>1, <1>2, ZenonT(60) DEF PageType, SameTab, Stays

LEMMA UnsentTab ==
    ASSUME NEW pg \in PageType, NEW m \in Messages
    PROVE  /\ Unsent(pg, m) \in PageType /\ SameTab(pg, Unsent(pg, m)) /\ Unsent(pg, m).live = pg.live
           /\ m \in Accepted \cup Unsent(pg, m).lost
<1> DEFINE l == IF m \in {srv.accepted[r] : r \in 1..Current} THEN pg.lost ELSE pg.lost \cup {m}
<1>1. l \subseteq Messages /\ pg.lost \subseteq l /\ m \in Accepted \cup l
  BY DEF PageType, Accepted
<1>2. Unsent(pg, m) = [pg EXCEPT !.lost = l]
  BY DEF Unsent
<1> HIDE DEF l
<1> QED
  BY <1>1, <1>2, ZenonT(60) DEF PageType, SameTab, Stays

LEMMA UnshownRuns == ASSUME Bounds, Typing PROVE Unshown \subseteq Runs
BY DEF Unshown, Typing, Served, ServerType, Current, Runs, Bounds

LEMMA PartlyTab ==
    ASSUME Bounds, Typing, NEW pg \in PageType, NEW text
    PROVE  Partly(pg, text) \in PageType /\ SameTab(pg, Partly(pg, text)) /\ Partly(pg, text).live = pg.live
<1> DEFINE h == pg.hidden \cup Unshown
<1>1. h \subseteq Runs
  BY UnshownRuns DEF PageType
<1>2. CASE text.n = 2
  BY <1>2 DEF Partly, SameTab, Stays
<1>3. CASE text.n # 2
  <2>1. Partly(pg, text) = [pg EXCEPT !.hidden = h]
    BY <1>3 DEF Partly
  <2> HIDE DEF h
  <2> QED
    BY <1>1, <2>1, ZenonT(60) DEF PageType, SameTab, Stays
<1> QED
  BY <1>2, <1>3

LEMMA ReloadedTab ==
    ASSUME Bounds, Typing, NEW pg \in PageType
    PROVE  Reloaded(pg) \in PageType /\ SameTab(pg, Reloaded(pg)) /\ Reloaded(pg).live = pg.live
           /\ Reloaded(pg).lost = pg.lost
<1> DEFINE s == [r \in Runs |-> IF r \in srv.history THEN 1 ELSE 0]
           t == IF Current \in srv.history THEN [of |-> Current, n |-> 2] ELSE Empty
<1>1. s \in [Runs -> Nat]
  OBVIOUS
<1>2. t \in Texts
  BY TextTypes DEF Typing, Served, ServerType, Current, Texts, Bounds
<1> DEFINE qg == [pg EXCEPT !.shown = s]
<1>3. Reloaded(pg) = [qg EXCEPT !.flushed = 0, !.last = t]
  BY DEF Reloaded
<1> HIDE DEF s, t
<1>4. qg \in PageType /\ SameTab(pg, qg) /\ qg.live = pg.live /\ qg.lost = pg.lost
  BY <1>1 DEF PageType, SameTab, Stays
<1> HIDE DEF qg
<1>5. [qg EXCEPT !.flushed = 0, !.last = t] \in PageType
  BY <1>2, <1>4 DEF PageType
<1>6. SameTab(qg, Reloaded(pg)) /\ Reloaded(pg).live = qg.live /\ Reloaded(pg).lost = qg.lost
  BY <1>3, <1>4 DEF PageType, SameTab, Stays
<1> QED
  BY <1>3, <1>4, <1>5, <1>6, SameSame

LEMMA LeastNumber ==
    ASSUME NEW S \in SUBSET Nat, S # {}
    PROVE  \E x \in S : \A y \in S : x <= y
<1> DEFINE R == OpToRel(<, Nat)
<1>1. IsWellFoundedOn(R, Nat)
  BY NatLessThanWellFounded
<1>2. \A x, y \in Nat : y < x => <<y, x>> \in R
  BY DEF OpToRel
<1> HIDE DEF R
<1>3. PICK x \in S : \A y \in S : ~(<<y, x>> \in R)
  BY <1>1, WFMin
<1>4. x \in Nat /\ \A y \in S : y \in Nat /\ ~(y < x)
  BY <1>2, <1>3
<1>5. \A y \in S : x <= y
  BY <1>4
<1> QED
  BY <1>5

\* The least event that is left to read, and the latest run in the history.
LEMMA LeastEvent ==
    ASSUME NEW S \in SUBSET Nat, S # {}
    PROVE  Min(S) \in S
BY LeastNumber DEF Min

LEMMA LatestRun ==
    ASSUME NEW n \in Nat, NEW S \in SUBSET (1..n), S # {}
    PROVE  Max(S) \in S
<1> DEFINE B == {n - x : x \in S}
<1>1. B \in SUBSET Nat /\ B # {}
  <2>1. \A x \in S : x \in 1..n /\ n - x \in Nat
    OBVIOUS
  <2> QED
    BY <2>1
<1>2. PICK z \in B : \A y \in B : z <= y
  BY <1>1, LeastNumber
<1>3. PICK x \in S : z = n - x
  BY <1>2
<1>4. ASSUME NEW y \in S PROVE x >= y
  <2>1. n - x <= n - y
    BY <1>2, <1>3
  <2>2. x \in Nat /\ y \in Nat
    OBVIOUS
  <2> QED
    BY <2>1, <2>2
<1> QED
  BY <1>4 DEF Max

LEMMA LatestText ==
    ASSUME Bounds, Typing, NEW text \in Texts, Ready(text)
    PROVE  Latest(text) \in Texts /\ Ready(Latest(text))
<1>1. CASE srv.at = "over" \/ srv.history = {} \/ text.n = 2
  BY <1>1 DEF Latest
<1>2. CASE ~(srv.at = "over" \/ srv.history = {} \/ text.n = 2)
  <2>0. srv.history \in SUBSET (1..Len(srv.accepted)) /\ Len(srv.accepted) \in Nat
    BY DEF Typing, Served, ServerType
  <2>1. Max(srv.history) \in srv.history
    BY <1>2, <2>0, LatestRun
  <2>2. Max(srv.history) \in Runs /\ Max(srv.history) \in 0..MaxSends
    BY <2>1 DEF Typing, Served, ServerType, Runs, Bounds
  <2> QED
    BY <1>2, <2>2 DEF Latest, Texts, Ready
<1> QED
  BY <1>1, <1>2

-----------------------------------------------------------------------------
(* A step that accepts nothing and sends nothing *)

\* What becomes of a call in such a step: it ends, unless it waits, or goes on.
GoesOn(p) ==
    \/ proc'[p].at = "over" /\ proc[p].at # "waiting"
    \/ /\ proc'[p].msg = proc[p].msg /\ proc'[p].epoch = proc[p].epoch
       /\ \/ proc'[p].at = proc[p].at
          \/ /\ Busy(p) /\ proc[p].at # "waiting"
             /\ proc'[p].at \in {"aborted", "resumed", "status", "asking", "recovered"}

\* A call that gives its message away has seen it at the server or has told.
GivesAway(p) ==
    proc[p].at \in Carrying =>
        \/ proc'[p].at \in Carrying /\ proc'[p].msg = proc[p].msg
        \/ proc[p].msg \in Accepted \cup told' \cup page'.lost

LEMMA MovedQueue ==
    ASSUME NEW pg \in PageType, NEW qg, MovedTab(pg, qg)
    PROVE  /\ \A k \in DOMAIN qg.queue : \E l \in DOMAIN pg.queue : qg.queue[k] = pg.queue[l]
           /\ SameTab(pg, qg) \/
              /\ qg.box = pg.queue[1] /\ qg.drained = qg.box /\ 1 \in DOMAIN pg.queue
              /\ pg.box \in {None, qg.box} \cup qg.lost
              /\ \A k \in DOMAIN qg.queue : /\ k + 1 \in DOMAIN pg.queue /\ k + 1 # 1 /\ k \in Nat
                                            /\ qg.queue[k] = pg.queue[k + 1]
              /\ \A l \in DOMAIN pg.queue : l # 1 =>
                    l - 1 \in DOMAIN qg.queue /\ qg.queue[l - 1] = pg.queue[l]
<1>1. CASE SameTab(pg, qg)
  BY <1>1 DEF SameTab
<1>2. CASE DrainedTab(pg, qg)
  <2> DEFINE q == pg.queue
  <2>1. q \in Seq(Messages) /\ q # <<>>
    BY <1>2 DEF PageType, DrainedTab
  <2>2. /\ Head(q) = q[1] /\ Len(q) \in Nat \ {0} /\ DOMAIN q = 1..Len(q)
        /\ DOMAIN Tail(q) = 1..(Len(q) - 1) /\ \A k \in 1..(Len(q) - 1) : Tail(q)[k] = q[k + 1]
    BY <2>1
  <2>3. \A k \in DOMAIN Tail(q) : k + 1 \in DOMAIN q /\ k + 1 # 1 /\ k \in Nat /\ Tail(q)[k] = q[k + 1]
    BY <2>2
  <2>4. \A l \in DOMAIN q : l # 1 => l - 1 \in DOMAIN Tail(q) /\ Tail(q)[l - 1] = q[l]
    BY <2>2
  <2>5. 1 \in DOMAIN q
    BY <2>2
  <2>6. qg.box = q[1] /\ qg.queue = Tail(q) /\ qg.drained = qg.box /\ pg.box \in {None, qg.box} \cup qg.lost
    BY <1>2, <2>2 DEF DrainedTab
  <2> HIDE DEF q
  <2> QED
    BY <2>3, <2>4, <2>5, <2>6 DEF q
<1> QED
  BY <1>1, <1>2 DEF MovedTab

LEMMA TurnStep ==
    ASSUME Bounds, PageInv, ~page.late, typed' = typed,
           Served(srv'), srv'.accepted = srv.accepted,
           told' \subseteq Messages, told \subseteq told', faults' \in 0..MaxFaults,
           proc' \in [Procs -> ProcType], \A p \in Procs : Ready(proc'[p].text),
           NEW pg \in PageType, MovedTab(page, pg), Ready(pg.live),
           NEW c \in Senders \cup {"none"}, NEW d \in Messages \cup {None},
           page' = [pg EXCEPT !.ctl = c, !.drained = d],
           \/ d = pg.drained
           \/ \E p \in Senders : Busy(p) /\ d = proc[p].msg /\ proc'[p].at = "over",
           \A p \in Senders : /\ GoesOn(p) /\ GivesAway(p)
                              /\ proc'[p].at \in {"posting", "reading"} => c = pg.ctl
    PROVE  PageInv'
<1>1. /\ page' \in PageType /\ page'.live = pg.live /\ page'.ctl = c /\ page'.epoch = pg.epoch
      /\ page'.box = pg.box /\ page'.queue = pg.queue /\ page'.drained = d
      /\ page'.resent = pg.resent /\ page'.late = pg.late /\ page'.lost = pg.lost
  BY DEF PageType
<1>2. /\ page'.epoch = page.epoch /\ pg.ctl = page.ctl
      /\ page.resent \subseteq page'.resent /\ page.lost \subseteq page'.lost
  BY <1>1 DEF MovedTab, SameTab, DrainedTab, Stays
<1>3. Current' = Current /\ Accepted' = Accepted /\ Current \in Nat /\ Current <= MaxSends
  BY DEF Current, Accepted, PageInv, Typing, Served, ServerType
<1>4. page \in PageType
  BY DEF PageInv, Typing
<1>5. Queued' \subseteq Queued
  BY <1>1, <1>4, MovedQueue DEF Queued
<1>6. \/ SameTab(page, pg)
      \/ /\ page'.box = page.queue[1] /\ pg.drained = page'.box /\ 1 \in DOMAIN page.queue
         /\ page.box \in {None, page'.box} \cup page'.lost
         /\ \A k \in DOMAIN page'.queue : /\ k + 1 \in DOMAIN page.queue /\ k + 1 # 1 /\ k \in Nat
                                          /\ page'.queue[k] = page.queue[k + 1]
         /\ \A l \in DOMAIN page.queue : l # 1 =>
               l - 1 \in DOMAIN page'.queue /\ page'.queue[l - 1] = page.queue[l]
  BY <1>1, <1>4, MovedQueue
<1>7. SameTab(page, pg) => /\ page'.box = page.box /\ page'.queue = page.queue
                           /\ pg.drained = page.drained
  BY <1>1 DEF SameTab
<1>8. Typing'
  BY <1>1 DEF PageInv, Typing
<1>9. Counted'
  BY <1>2, <1>3 DEF PageInv, Counted, GoesOn
<1>10. Controlled'
  BY <1>1, <1>2 DEF PageInv, Controlled, GoesOn
<1>11. Known'
  <2>1. page'.box \in typed \cup {None} /\ pg.drained \in typed \cup {None}
    BY <1>6, <1>7 DEF PageInv, Known, Queued
  <2>3. page'.drained \in typed \cup {None}
    BY <1>1, <2>1 DEF PageInv, Known
  <2>2. \A p \in Senders : Busy(p)' => proc'[p].msg \in typed
    BY DEF PageInv, Known, GoesOn, Busy
  <2> QED
    BY <1>3, <1>5, <2>1, <2>2, <2>3 DEF PageInv, Known
<1>12. Epochs'
  BY <1>2 DEF PageInv, Epochs, GoesOn, Busy
<1>13. Cared'
  <2>1. ASSUME NEW m \in typed
        PROVE  \/ m \in Accepted' \cup told' \cup page'.lost \cup {page'.box} \cup Queued'
               \/ \E p \in Senders : proc'[p].at \in Carrying /\ proc'[p].msg = m
    <3>1. m # None
      BY DEF PageInv, Typing, Messages, None
    <3>2. CASE m \in Accepted \cup told \cup page.lost
      BY <1>2, <1>3, <3>2
    <3>3. CASE m = page.box
      BY <1>6, <1>7, <3>1, <3>3
    <3>4. CASE m \in Queued
      <4>1. PICK l \in DOMAIN page.queue : m = page.queue[l]
        BY <3>4 DEF Queued
      <4>2. CASE SameTab(page, pg)
        BY <1>7, <3>4, <4>2 DEF Queued
      <4>3. CASE l = 1 /\ page'.box = page.queue[1]
        BY <4>1, <4>3
      <4>4. CASE l # 1 /\ l - 1 \in DOMAIN page'.queue /\ page'.queue[l - 1] = page.queue[l]
        BY <4>1, <4>4 DEF Queued
      <4> QED
        BY <1>6, <4>2, <4>3, <4>4
    <3>5. CASE \E p \in Senders : proc[p].at \in Carrying /\ proc[p].msg = m
      BY <1>3, <3>5 DEF GivesAway
    <3> QED
      BY <3>2, <3>3, <3>4, <3>5 DEF PageInv, Cared
  <2>2. \A p \in Senders : proc'[p].at = "reading" => proc'[p].msg \in Accepted'
    BY <1>3 DEF PageInv, Cared, GoesOn
  <2> QED
    BY <2>1, <2>2 DEF Cared
<1>14. SentOnce'
  BY <1>2, <1>3 DEF PageInv, SentOnce
<1>15. OnePlace
  BY DEF PageInv
<1>16. BoxAlone'
  <2> SUFFICES ASSUME page'.box # None, page'.box \notin page'.resent
               PROVE  /\ page'.box \notin Queued'
                      /\ \/ page'.box \notin Accepted'
                         \/ \E p \in Senders : proc'[p].at = "waiting" /\ proc'[p].msg = page'.box
    BY DEF BoxAlone
  <2>1. page'.box \notin page.resent
    BY <1>2
  <2>2. CASE SameTab(page, pg)
    <3>1. \A p \in Senders : proc[p].at = "waiting" => proc'[p].at = "waiting" /\ proc'[p].msg = proc[p].msg
      BY DEF GoesOn
    <3> QED
      BY <1>3, <1>5, <1>7, <1>15, <2>1, <2>2, <3>1 DEF OnePlace, BoxAlone
  <2>3. CASE ~SameTab(page, pg)
    <3>1. page'.box \notin Accepted
      BY <1>6, <1>15, <2>1, <2>3 DEF OnePlace, QueueAlone
    <3>2. page'.box \notin Queued'
      BY <1>6, <1>15, <2>1, <2>3 DEF OnePlace, QueueAlone, Queued
    <3> QED
      BY <1>3, <3>1, <3>2
  <2> QED
    BY <2>2, <2>3
<1>17. QueueAlone'
  <2>1. CASE SameTab(page, pg)
    BY <1>2, <1>3, <1>7, <1>15, <2>1 DEF OnePlace, QueueAlone
  <2>2. CASE ~SameTab(page, pg)
    <3> SUFFICES ASSUME NEW k \in DOMAIN page'.queue, page'.queue[k] \notin page'.resent
                 PROVE  /\ page'.queue[k] \notin Accepted'
                        /\ \A l \in DOMAIN page'.queue : page'.queue[l] = page'.queue[k] => l = k
      BY DEF QueueAlone
    <3>1. /\ \A l \in DOMAIN page'.queue : /\ l + 1 \in DOMAIN page.queue /\ l \in Nat
                                           /\ page'.queue[l] = page.queue[l + 1]
          /\ page'.queue[k] \notin page.resent
      BY <1>2, <1>6, <2>2
    <3>2. page.queue[k + 1] \notin Accepted /\ \A l \in DOMAIN page.queue : page.queue[l] = page.queue[k + 1] => l = k + 1
      BY <1>15, <3>1 DEF OnePlace, QueueAlone
    <3> QED
      BY <1>3, <3>1, <3>2
  <2> QED
    BY <2>1, <2>2
<1>18. CallsAlone'
  <2> SUFFICES ASSUME NEW p \in Senders, Busy(p)', proc'[p].msg \notin page'.resent
               PROVE  CallAlone(p)'
    BY DEF CallsAlone
  <2>1. /\ \A q \in Senders : Busy(q)' => /\ Busy(q)
                                          /\ proc'[q].msg = proc[q].msg /\ proc'[q].epoch = proc[q].epoch
        /\ proc[p].msg \notin page.resent
        /\ proc[p].at = "waiting" => proc'[p].at = "waiting"
        /\ proc'[p].at = "posting" => proc[p].at = "posting"
    BY <1>2 DEF GoesOn, Busy
  <2>2. CallAlone(p)
    BY <1>15, <2>1 DEF OnePlace, CallsAlone
  <2>3. proc'[p].msg \notin Queued' /\ proc'[p].msg # page'.drained
    <3>1. proc'[p].msg \notin Queued' /\ proc'[p].msg # pg.drained
      BY <1>5, <1>6, <1>7, <2>1, <2>2 DEF CallAlone, Queued
    <3>2. ASSUME NEW q \in Senders, Busy(q), proc'[q].at = "over"
          PROVE  proc'[p].msg # proc[q].msg
      BY <2>1, <2>2, <3>2 DEF CallAlone, Busy
    <3> QED
      BY <1>1, <3>1, <3>2
  <2>4. proc'[p].msg = page'.box => proc'[p].at = "waiting"
    BY <1>6, <1>7, <2>1, <2>2 DEF CallAlone, Queued
  <2>5. proc'[p].at = "posting" => proc'[p].msg \notin Accepted'
    BY <1>3, <2>1, <2>2 DEF CallAlone
  <2>6. proc'[p].epoch = page'.epoch => \A r \in 1..Current' - 1 : srv'.accepted[r] # proc'[p].msg
    BY <1>2, <1>3, <2>1, <2>2 DEF CallAlone
  <2>7. \A q \in Senders : Busy(q)' /\ proc'[q].msg = proc'[p].msg => q = p
    BY <2>1, <2>2 DEF CallAlone
  <2> QED
    BY <2>3, <2>4, <2>5, <2>6, <2>7 DEF CallAlone
<1> QED
  BY <1>8, <1>9, <1>10, <1>11, <1>12, <1>13, <1>14, <1>16, <1>17, <1>18 DEF PageInv, OnePlace

\* The same, where no request is over and nothing is to be drained again.
LEMMA PlainStep ==
    ASSUME Bounds, PageInv, ~page.late, typed' = typed,
           Served(srv'), srv'.accepted = srv.accepted,
           told' \subseteq Messages, told \subseteq told', faults' \in 0..MaxFaults,
           proc' \in [Procs -> ProcType], \A p \in Procs : Ready(proc'[p].text),
           page' \in PageType, MovedTab(page, page'), Ready(page'.live),
           \A p \in Senders : GoesOn(p) /\ GivesAway(p)
    PROVE  PageInv'
<1> DEFINE pg == page'
           c == pg.ctl
           d == pg.drained
<1>1. pg \in PageType /\ c \in Senders \cup {"none"} /\ d \in Messages \cup {None}
  BY DEF PageType
<1>2. page' = [pg EXCEPT !.ctl = c, !.drained = d]
  BY DEF PageType
<1> HIDE DEF c, d
<1>3. \A p \in Senders : proc'[p].at \in {"posting", "reading"} => c = pg.ctl
  BY DEF c
<1>4. d = pg.drained
  BY DEF d
<1> HIDE DEF pg
<1>5. MovedTab(page, pg) /\ Ready(pg.live)
  BY DEF pg
<1> QED
  BY <1>1, <1>2, <1>3, <1>4, <1>5, TurnStep

\* A function of the page ends.
LEMMA EndsStep ==
    ASSUME Bounds, PageInv, ~page.late, typed' = typed, srv' = srv,
           told' \subseteq Messages, told \subseteq told', faults' \in 0..MaxFaults,
           NEW p \in Procs, proc[p].at # "waiting",
           NEW pg \in PageType, MovedTab(page, pg), Ready(pg.live), Ends(p, pg),
           p \in Senders /\ proc[p].at \in Carrying => proc[p].msg \in Accepted \cup told' \cup pg.lost
    PROVE  PageInv'
<1> DEFINE qg == Late(p, pg)
           c == IF qg.ctl = p THEN "none" ELSE qg.ctl
           d == qg.drained
<1>1. qg \in PageType /\ SameTab(pg, qg) /\ qg.live = pg.live /\ qg.lost = pg.lost
  BY LateTab
<1>2. MovedTab(page, qg)
  BY <1>1, MovesSame
<1>3. /\ c \in Senders \cup {"none"} /\ d \in Messages \cup {None} /\ qg.ctl = page.ctl
      /\ c = qg.ctl \/ (c = "none" /\ page.ctl = p)
  BY <1>1, <1>2 DEF PageType, MovedTab, SameTab, DrainedTab, Stays
<1>4. page' = [qg EXCEPT !.ctl = c]
  BY DEF Ends
<1> HIDE DEF qg, c, d
<1>5. page' = [qg EXCEPT !.ctl = c, !.drained = d] /\ page'.lost = qg.lost
  BY <1>1, <1>3, <1>4 DEF PageType, d
<1>6. proc \in [Procs -> ProcType] /\ Served(srv') /\ srv'.accepted = srv.accepted
  BY DEF PageInv, Typing
<1>7. proc' = [proc EXCEPT ![p] = Over]
  BY DEF Ends
<1>8. proc' \in [Procs -> ProcType] /\ \A q \in Procs : Ready(proc'[q].text)
  BY <1>6, <1>7, TextTypes DEF PageInv, Typing
<1>9. /\ proc'[p].at = "over" /\ \A q \in Procs : q # p => proc'[q] = proc[q]
      /\ Senders \subseteq Procs
  BY <1>6, <1>7 DEF Over, Procs
<1>10. \A q \in Senders : GoesOn(q)
  BY <1>9 DEF GoesOn
<1>11. \A q \in Senders : GivesAway(q)
  BY <1>1, <1>5, <1>9 DEF GivesAway
<1>12. \A q \in Senders : proc'[q].at \in {"posting", "reading"} => c = qg.ctl
  BY <1>3, <1>9 DEF PageInv, Controlled
<1>13. d = qg.drained /\ Ready(qg.live)
  BY <1>1 DEF d
<1> QED
  BY <1>1, <1>2, <1>3, <1>5, <1>6, <1>8, <1>10, <1>11, <1>12, <1>13, TurnStep

\* A function of the page goes on.
LEMMA MovesOnStep ==
    ASSUME Bounds, PageInv, ~page.late, typed' = typed, srv' = srv,
           told' \subseteq Messages, told \subseteq told', faults' \in 0..MaxFaults,
           NEW p \in Procs, NEW rec \in ProcType, Ready(rec.text), proc' = [proc EXCEPT ![p] = rec],
           p \in Senders => /\ Busy(p) /\ proc[p].at # "waiting"
                            /\ rec.msg = proc[p].msg /\ rec.epoch = proc[p].epoch
                            /\ \/ rec.at = proc[p].at
                               \/ rec.at \in {"aborted", "resumed", "status", "asking", "recovered"},
           page' \in PageType, MovedTab(page, page'), Ready(page'.live),
           p \in Senders /\ proc[p].at \in Carrying =>
               rec.at \in Carrying \/ proc[p].msg \in Accepted \cup told' \cup page'.lost
    PROVE  PageInv'
<1>1. proc \in [Procs -> ProcType] /\ Served(srv') /\ srv'.accepted = srv.accepted
  BY DEF PageInv, Typing
<1>2. /\ proc'[p] = rec /\ \A q \in Procs : q # p => proc'[q] = proc[q]
      /\ Senders \subseteq Procs
  BY <1>1 DEF Procs
<1>3. proc' \in [Procs -> ProcType] /\ \A q \in Procs : Ready(proc'[q].text)
  BY <1>1, <1>2 DEF PageInv, Typing
<1>4. \A q \in Senders : GoesOn(q)
  BY <1>2 DEF GoesOn
<1>5. \A q \in Senders : GivesAway(q)
  BY <1>2 DEF GivesAway
<1> QED
  BY <1>1, <1>3, <1>4, <1>5, PlainStep

\* The end of send.
LEMMA FinallyStep ==
    ASSUME Bounds, PageInv, ~page.late, typed' = typed, srv' = srv,
           told' \subseteq Messages, told \subseteq told', faults' \in 0..MaxFaults,
           NEW p \in Senders, Busy(p), proc[p].at # "waiting",
           NEW pg \in PageType, SameTab(page, pg), Ready(pg.live),
           NEW text \in Texts, Ready(text), NEW ended \in BOOLEAN, Finally(p, pg, text, ended),
           proc[p].at \in Carrying => proc[p].msg \in Accepted \cup told' \cup pg.lost
    PROVE  PageInv'
<1>1. p \in Procs /\ proc \in [Procs -> ProcType]
  BY DEF Procs, PageInv, Typing
<1>2. CASE ended \/ pg.cancelled
  <2> DEFINE qg == [pg EXCEPT !.cancelled = FALSE]
             fg == Finalize(qg, text)
  <2>1. qg \in PageType /\ SameTab(pg, qg) /\ qg.live = pg.live /\ qg.lost = pg.lost
    BY ZenonT(60) DEF PageType, SameTab, Stays
  <2>2. Ends(p, fg)
    BY <1>2 DEF Finally
  <2> HIDE DEF qg
  <2>3. fg \in PageType /\ MovedTab(qg, fg) /\ Ready(fg.live)
    BY <2>1, FinalizedTab
  <2>4. MovedTab(page, fg) /\ pg.lost \subseteq fg.lost
    BY <2>1, <2>3, SameSame, SameMoves DEF MovedTab, SameTab, DrainedTab, Stays
  <2> HIDE DEF fg
  <2> QED
    BY <1>1, <2>2, <2>3, <2>4, EndsStep
<1>3. CASE ~(ended \/ pg.cancelled)
  <2> DEFINE at == IF proc[p].at = "resumed" THEN "recovered" ELSE "asking"
             rec == [proc[p] EXCEPT !.at = at, !.text = text]
  <2>1. page' = Late(p, pg) /\ proc' = [proc EXCEPT ![p] = rec]
    BY <1>1, <1>3 DEF Finally
  <2>2. Late(p, pg) \in PageType /\ SameTab(pg, Late(p, pg)) /\ Late(p, pg).live = pg.live
        /\ Late(p, pg).lost = pg.lost
    BY LateTab
  <2>3. page' \in PageType /\ MovedTab(page, page') /\ Ready(page'.live) /\ page'.lost = pg.lost
    BY <2>1, <2>2, SameSame DEF MovedTab
  <2>4. /\ rec \in ProcType /\ rec.at \in {"recovered", "asking"} /\ rec.text = text
        /\ rec.msg = proc[p].msg /\ rec.epoch = proc[p].epoch
    BY <1>1 DEF ProcType
  <2> HIDE DEF at, rec
  <2> QED
    BY <1>1, <2>1, <2>3, <2>4, MovesOnStep
<1> QED
  BY <1>2, <1>3

-----------------------------------------------------------------------------
(* The steps of the page *)

LEMMA SameItself == \A pg : SameTab(pg, pg) /\ MovedTab(pg, pg)
BY DEF MovedTab, SameTab, Stays

LEMMA SenderFacts ==
    ASSUME PageInv, NEW p \in Procs
    PROVE  /\ page \in PageType /\ Ready(page.live) /\ proc \in [Procs -> ProcType]
           /\ proc[p] \in ProcType /\ Ready(proc[p].text) /\ proc[p].text \in Texts
           /\ typed \subseteq Messages /\ told \subseteq Messages /\ faults \in 0..MaxFaults
           /\ Served(srv)
           /\ p \in Senders /\ Busy(p) => proc[p].msg \in Messages
BY DEF PageInv, Typing, Known, ProcType

LEMMA FaultBound ==
    ASSUME Bounds, PageInv, Fault
    PROVE  faults' \in 0..MaxFaults
BY DEF Fault, PageInv, Typing, Bounds

LEMMA ResumesStep ==
    ASSUME Bounds, PageInv, ~page.late, typed' = typed, srv' = srv, told' = told,
           faults' \in 0..MaxFaults,
           NEW p \in Procs, NEW rec \in ProcType, Ready(rec.text), Resumes(p, rec),
           p \in Senders => /\ Busy(p) /\ proc[p].at # "waiting"
                            /\ rec.msg = proc[p].msg /\ rec.epoch = proc[p].epoch
    PROVE  PageInv'
<1> DEFINE new == IF page.reconnecting THEN [rec EXCEPT !.at = "status"]
                  ELSE [rec EXCEPT !.at = "resumed", !.cur = page.seen]
<1>1. /\ page \in PageType /\ Ready(page.live) /\ told \subseteq Messages
  BY SenderFacts
<1>2. /\ new \in ProcType /\ new.at \in {"status", "resumed"} /\ new.text = rec.text
      /\ new.msg = rec.msg /\ new.epoch = rec.epoch
  BY <1>1 DEF ProcType, PageType
<1>3. proc' = [proc EXCEPT ![p] = new] /\ page' = [page EXCEPT !.reconnecting = TRUE]
  BY DEF Resumes
<1> HIDE DEF new
<1>4. page' \in PageType /\ SameTab(page, page') /\ page'.live = page.live
  BY <1>1, <1>3 DEF PageType, SameTab, Stays
<1>5. new.at \in Carrying
  BY <1>2 DEF Carrying
<1> QED
  BY <1>1, <1>2, <1>3, <1>4, <1>5, MovesOnStep DEF MovedTab

LEMMA PostFailsStep ==
    ASSUME Bounds, PageInv, ~page.late, NEW p \in Senders, PostFails(p)
    PROVE  PageInv'
<1>1. p \in Procs /\ Busy(p) /\ proc[p].at # "waiting"
  BY DEF PostFails, Procs, Busy
<1>2. faults' \in 0..MaxFaults
  BY FaultBound, <1>1, SenderFacts DEF PostFails
<1> QED
  BY <1>1, <1>2, SenderFacts, ResumesStep DEF PostFails

LEMMA BreaksStep ==
    ASSUME Bounds, PageInv, ~page.late, NEW p \in Senders, Breaks(p)
    PROVE  PageInv'
<1>1. p \in Procs /\ Busy(p) /\ proc[p].at = "reading"
  BY DEF Breaks, Procs, Busy
<1>2. faults' \in 0..MaxFaults
  BY FaultBound, <1>1, SenderFacts DEF Breaks
<1>3. CASE Resumes(p, proc[p])
  BY <1>1, <1>2, <1>3, SenderFacts, ResumesStep DEF Breaks
<1>4. CASE Finally(p, page, IF proc[p].text = Empty THEN Notice ELSE proc[p].text, FALSE)
  <2> DEFINE text == IF proc[p].text = Empty THEN Notice ELSE proc[p].text
  <2>1. text \in Texts /\ Ready(text)
    BY <1>1, SenderFacts, TextTypes
  <2>2. proc[p].at \notin Carrying
    BY <1>1 DEF Carrying
  <2>3. Finally(p, page, text, FALSE) /\ typed' = typed /\ srv' = srv /\ told' = told
    BY <1>4 DEF Breaks
  <2> HIDE DEF text
  <2> QED
    BY <1>1, <1>2, <2>1, <2>2, <2>3, SenderFacts, SameItself, FinallyStep
<1> QED
  BY <1>3, <1>4 DEF Breaks

LEMMA AbortedStep ==
    ASSUME Bounds, PageInv, ~page.late, NEW p \in Senders, Aborted(p)
    PROVE  PageInv'
<1> DEFINE text == IF proc[p].text # Empty \/ page.cancelled THEN proc[p].text ELSE Notice
<1>1. p \in Procs /\ Busy(p) /\ proc[p].at = "aborted"
  BY DEF Aborted, Procs, Busy
<1>2. text \in Texts /\ Ready(text)
  BY <1>1, SenderFacts, TextTypes
<1>3. Finally(p, page, text, FALSE) /\ typed' = typed /\ srv' = srv /\ told' = told \cup {proc[p].msg}
      /\ faults' = faults
  BY DEF Aborted
<1>4. told' \subseteq Messages /\ proc[p].msg \in told'
  BY <1>1, <1>3, SenderFacts
<1> HIDE DEF text
<1> QED
  BY <1>1, <1>2, <1>3, <1>4, SenderFacts, SameItself, FinallyStep

LEMMA PostBusyStep ==
    ASSUME Bounds, PageInv, ~page.late, NEW p \in Senders, PostBusy(p)
    PROVE  PageInv'
<1>1. p \in Procs /\ Busy(p) /\ proc[p].at = "posting"
  BY DEF PostBusy, Procs, Busy
<1>2. /\ page \in PageType /\ Ready(page.live) /\ proc \in [Procs -> ProcType]
      /\ proc[p] \in ProcType /\ told \subseteq Messages /\ faults \in 0..MaxFaults
      /\ Served(srv) /\ proc[p].msg \in Messages
  BY <1>1, SenderFacts
<1>3. CASE proc[p].drained /\ proc[p].tries < 3
  <2> DEFINE m == proc[p].msg
             t == proc[p].tries + 1
             n == page.drains + 1
             l == page.lost \cup {m}
             pg == [page EXCEPT !.tries = t, !.loading = FALSE, !.drains = n, !.lost = l]
             c == page.ctl
  <2>1. t \in 0..3 /\ n \in Nat /\ l \subseteq Messages
    BY <1>2, <1>3, SMTT(30) DEF ProcType, PageType
  <2>2. /\ page' = [page EXCEPT !.drained = m, !.tries = t, !.loading = FALSE, !.drains = n, !.lost = l]
        /\ proc' = [proc EXCEPT ![p] = Over] /\ typed' = typed /\ srv' = srv /\ told' = told
        /\ faults' = faults
    BY <1>3 DEF PostBusy
  <2> HIDE DEF t, n
  <2>3. /\ pg \in PageType /\ SameTab(page, pg) /\ pg.live = page.live /\ pg.ctl = c
        /\ c \in Senders \cup {"none"}
    BY <1>2, <2>1, ZenonT(60) DEF PageType, SameTab, Stays
  <2>4. page' = [pg EXCEPT !.ctl = c, !.drained = m] /\ page'.lost = l
    BY <1>2, <2>2 DEF PageType
  <2>5. proc' \in [Procs -> ProcType] /\ \A q \in Procs : Ready(proc'[q].text)
    BY <1>2, <2>2, TextTypes, SenderFacts
  <2>6. /\ proc'[p].at = "over" /\ \A q \in Procs : q # p => proc'[q] = proc[q]
        /\ Senders \subseteq Procs
    BY <1>1, <1>2, <2>2 DEF Over, Procs
  <2>7. \A q \in Senders : GoesOn(q)
    BY <1>1, <2>6 DEF GoesOn
  <2>8. \A q \in Senders : GivesAway(q)
    BY <2>4, <2>6 DEF GivesAway
  <2> HIDE DEF pg, c, l, m
  <2>9. m = proc[p].msg /\ m \in Messages
    BY <1>2 DEF m
  <2> QED
    BY <1>1, <1>2, <2>2, <2>3, <2>4, <2>5, <2>6, <2>7, <2>8, <2>9, TurnStep DEF MovedTab
<1>4. CASE ~(proc[p].drained /\ proc[p].tries < 3)
  <2>1. /\ told' = told \cup {proc[p].msg} /\ Finally(p, page, Notice, FALSE)
        /\ typed' = typed /\ srv' = srv /\ faults' = faults
    BY <1>4 DEF PostBusy
  <2>2. told' \subseteq Messages /\ proc[p].msg \in told'
    BY <1>2, <2>1
  <2> QED
    BY <1>1, <1>2, <2>1, <2>2, TextTypes, SameItself, FinallyStep
<1> QED
  BY <1>3, <1>4

LEMMA ResumeBreaksStep ==
    ASSUME Bounds, PageInv, ~page.late, NEW p \in Procs, ResumeBreaks(p)
    PROVE  PageInv'
<1> DEFINE rec == [proc[p] EXCEPT !.at = "status"]
<1>1. proc[p].at = "resumed"
  BY DEF ResumeBreaks
<1>2. faults' \in 0..MaxFaults
  BY FaultBound, SenderFacts DEF ResumeBreaks
<1>3. page \in PageType /\ proc \in [Procs -> ProcType] /\ proc[p] \in ProcType /\ Ready(proc[p].text)
  BY SenderFacts
<1>4. /\ rec \in ProcType /\ rec.text = proc[p].text /\ rec.at = "status"
      /\ rec.msg = proc[p].msg /\ rec.epoch = proc[p].epoch
  BY <1>3 DEF ProcType
<1>5. page' = [page EXCEPT !.reconnecting = FALSE] /\ proc' = [proc EXCEPT ![p] = rec]
  BY <1>3 DEF ResumeBreaks, Goes
<1>6. page' \in PageType /\ SameTab(page, page') /\ page'.live = page.live
  BY <1>3, <1>5 DEF PageType, SameTab, Stays
<1> HIDE DEF rec
<1>7. Busy(p) /\ rec.at \in Carrying
  BY <1>1, <1>4 DEF Busy, Carrying
<1> QED
  BY <1>1, <1>2, <1>3, <1>4, <1>5, <1>6, <1>7, SenderFacts, MovesOnStep DEF MovedTab, ResumeBreaks

LEMMA ReadStep ==
    ASSUME Bounds, PageInv, ~page.late, NEW p \in Procs, Read(p)
    PROVE  PageInv'
<1> DEFINE e == Min(Past(proc[p].cur))
           text == Told(page, e, proc[p].text)
           hears == Heard(page, e)
           live == IF hears.run = RunOf(e) THEN text ELSE hears.live
           pg == [hears EXCEPT !.live = live]
<1>1. /\ page \in PageType /\ Ready(page.live) /\ proc \in [Procs -> ProcType]
      /\ proc[p] \in ProcType /\ Ready(proc[p].text) /\ proc[p].text \in Texts
      /\ told \subseteq Messages /\ faults \in 0..MaxFaults /\ Served(srv) /\ Typing
      /\ p \in Senders /\ Busy(p) => proc[p].msg \in Messages
  BY SenderFacts DEF PageInv
<1>2. proc[p].at \in {"reading", "resumed"} /\ Busy(p)
  BY DEF Read, Busy
<1>3. typed' = typed /\ srv' = srv /\ told' = told /\ faults' = faults
  BY DEF Read
<1>4. e \in 1..(2 * Current)
  <2>1. Past(proc[p].cur) # {} /\ Past(proc[p].cur) \subseteq 1..(2 * Current)
    BY <1>1 DEF Read, Past, Served, Current
  <2>2. Past(proc[p].cur) \subseteq Nat
    BY <2>1
  <2> QED
    BY <2>1, <2>2, LeastEvent
<1> HIDE DEF e
<1>5. text \in Texts /\ Ready(text)
  BY <1>1, <1>4, ToldText
<1>6. hears \in PageType /\ SameTab(page, hears) /\ hears.live = page.live
  BY <1>1, <1>4, HeardTab
<1> HIDE DEF text, hears
<1>7. pg \in PageType /\ SameTab(hears, pg) /\ Ready(pg.live)
  BY <1>1, <1>5, <1>6, ZenonT(60) DEF PageType, SameTab, Stays
<1>8. SameTab(page, pg)
  BY <1>6, <1>7, SameSame
<1>9. /\ IF e # Done(RunOf(e))
         THEN page' = Late(p, pg) /\ proc' = [proc EXCEPT ![p].cur = e, ![p].text = text]
         ELSE IF p = "loop" THEN Ends(p, Concluded([pg EXCEPT !.reconnecting = FALSE], text))
         ELSE IF proc[p].at = "reading" THEN Finally(p, pg, text, TRUE)
         ELSE Finally(p, Unsent([pg EXCEPT !.reconnecting = FALSE], proc[p].msg), text, FALSE)
  BY DEF Read, e, text, hears
<1> HIDE DEF pg
<1>10. CASE e # Done(RunOf(e))
  <2> DEFINE rec == [proc[p] EXCEPT !.cur = e, !.text = text]
  <2>1. page' = Late(p, pg) /\ proc' = [proc EXCEPT ![p] = rec]
    BY <1>1, <1>9, <1>10
  <2>2. page' \in PageType /\ SameTab(page, page') /\ Ready(page'.live)
    BY <1>7, <1>8, <2>1, LateTab, SameSame
  <2>3. e \in 0..(2 * MaxSends)
    BY <1>1, <1>4, EventRuns
  <2>4. /\ rec \in ProcType /\ rec.text = text /\ rec.at = proc[p].at
        /\ rec.msg = proc[p].msg /\ rec.epoch = proc[p].epoch
    BY <1>1, <1>5, <2>3 DEF ProcType
  <2> HIDE DEF rec
  <2> QED
    BY <1>1, <1>2, <1>3, <1>5, <2>1, <2>2, <2>4, MovesOnStep DEF MovedTab
<1> DEFINE qg == [pg EXCEPT !.reconnecting = FALSE]
<1>11. qg \in PageType /\ SameTab(page, qg) /\ Ready(qg.live)
  <2>1. qg \in PageType /\ SameTab(pg, qg) /\ qg.live = pg.live
    BY <1>7, ZenonT(60) DEF PageType, SameTab, Stays
  <2> QED
    BY <1>7, <1>8, <2>1, SameSame
<1> HIDE DEF qg
<1>12. CASE ~(e # Done(RunOf(e))) /\ p = "loop"
  <2>1. Ends(p, Concluded(qg, text))
    BY <1>9, <1>12 DEF qg
  <2>2. Concluded(qg, text) \in PageType /\ MovedTab(page, Concluded(qg, text)) /\ Ready(Concluded(qg, text).live)
    BY <1>5, <1>11, ConcludedTab, SameMoves
  <2>3. p \notin Senders /\ proc[p].at # "waiting"
    BY <1>2, <1>12 DEF Senders
  <2> QED
    BY <1>1, <1>3, <2>1, <2>2, <2>3, EndsStep
<1>13. CASE ~(e # Done(RunOf(e))) /\ p # "loop" /\ proc[p].at = "reading"
  <2>1. Finally(p, pg, text, TRUE) /\ p \in Senders /\ proc[p].at \notin Carrying
    BY <1>9, <1>13 DEF Procs, Carrying
  <2> QED
    BY <1>1, <1>2, <1>3, <1>5, <1>7, <1>8, <1>13, <2>1, FinallyStep
<1>14. CASE ~(e # Done(RunOf(e))) /\ p # "loop" /\ proc[p].at # "reading"
  <2> DEFINE ug == Unsent(qg, proc[p].msg)
  <2>1. Finally(p, ug, text, FALSE) /\ p \in Senders
    BY <1>9, <1>14 DEF Procs, qg
  <2>2. /\ ug \in PageType /\ SameTab(qg, ug) /\ ug.live = qg.live
        /\ proc[p].msg \in Accepted \cup ug.lost
    BY <1>1, <1>2, <1>11, <2>1, UnsentTab
  <2>3. SameTab(page, ug) /\ Ready(ug.live)
    BY <1>11, <2>2, SameSame
  <2> HIDE DEF ug
  <2> QED
    BY <1>1, <1>2, <1>3, <1>5, <2>1, <2>2, <2>3, FinallyStep
<1> QED
  BY <1>10, <1>12, <1>13, <1>14

LEMMA ResumeEndsStep ==
    ASSUME Bounds, PageInv, ~page.late, NEW p \in Procs, ResumeEnds(p)
    PROVE  PageInv'
<1> DEFINE text == Latest(proc[p].text)
           live == IF text # proc[p].text THEN text ELSE page.live
           pg == [page EXCEPT !.reconnecting = FALSE, !.live = live]
<1>1. /\ page \in PageType /\ Ready(page.live) /\ proc \in [Procs -> ProcType]
      /\ proc[p] \in ProcType /\ Ready(proc[p].text) /\ proc[p].text \in Texts
      /\ told \subseteq Messages /\ faults \in 0..MaxFaults /\ Typing
      /\ p \in Senders /\ Busy(p) => proc[p].msg \in Messages
  BY SenderFacts DEF PageInv
<1>2. proc[p].at = "resumed" /\ Busy(p)
  BY DEF ResumeEnds, Busy
<1>3. typed' = typed /\ srv' = srv /\ told' = told /\ faults' = faults
  BY DEF ResumeEnds
<1>4. text \in Texts /\ Ready(text)
  BY <1>1, LatestText
<1>5. IF srv.at = "none" /\ text.n = 0 THEN page' = pg /\ Goes(p, "status")
      ELSE IF p = "loop" THEN Ends(p, Concluded(pg, text))
      ELSE Finally(p, Unsent(pg, proc[p].msg), text, FALSE)
  BY DEF ResumeEnds
<1> HIDE DEF text
<1>6. live \in Texts /\ Ready(live)
  BY <1>1, <1>4 DEF PageType
<1> HIDE DEF live
<1>7. pg \in PageType /\ SameTab(page, pg) /\ Ready(pg.live)
  BY <1>1, <1>6, ZenonT(60) DEF PageType, SameTab, Stays
<1> HIDE DEF pg
<1>8. CASE srv.at = "none" /\ text.n = 0
  <2> DEFINE rec == [proc[p] EXCEPT !.at = "status"]
  <2>1. page' = pg /\ proc' = [proc EXCEPT ![p] = rec]
    BY <1>1, <1>5, <1>8 DEF Goes
  <2>2. /\ rec \in ProcType /\ rec.text = proc[p].text /\ rec.at = "status" /\ rec.at \in Carrying
        /\ rec.msg = proc[p].msg /\ rec.epoch = proc[p].epoch
    BY <1>1 DEF ProcType, Carrying
  <2> HIDE DEF rec
  <2> QED
    BY <1>1, <1>2, <1>3, <1>7, <2>1, <2>2, MovesOnStep DEF MovedTab
<1>9. CASE ~(srv.at = "none" /\ text.n = 0) /\ p = "loop"
  <2>1. Ends(p, Concluded(pg, text))
    BY <1>5, <1>9
  <2>2. Concluded(pg, text) \in PageType /\ MovedTab(page, Concluded(pg, text)) /\ Ready(Concluded(pg, text).live)
    BY <1>4, <1>7, ConcludedTab, SameMoves
  <2>3. p \notin Senders /\ proc[p].at # "waiting"
    BY <1>2, <1>9 DEF Senders
  <2> QED
    BY <1>1, <1>3, <2>1, <2>2, <2>3, EndsStep
<1>10. CASE ~(srv.at = "none" /\ text.n = 0) /\ p # "loop"
  <2> DEFINE ug == Unsent(pg, proc[p].msg)
  <2>1. Finally(p, ug, text, FALSE) /\ p \in Senders
    BY <1>5, <1>10 DEF Procs
  <2>2. /\ ug \in PageType /\ SameTab(pg, ug) /\ ug.live = pg.live
        /\ proc[p].msg \in Accepted \cup ug.lost
    BY <1>1, <1>2, <1>7, <2>1, UnsentTab
  <2>3. SameTab(page, ug) /\ Ready(ug.live)
    BY <1>7, <2>2, SameSame
  <2> HIDE DEF ug
  <2> QED
    BY <1>1, <1>2, <1>3, <1>4, <2>1, <2>2, <2>3, FinallyStep
<1> QED
  BY <1>8, <1>9, <1>10

\* A call that the server's status lets go, without the end of send.
LEMMA LeavesStep ==
    ASSUME Bounds, PageInv, ~page.late, UNCHANGED <<typed, srv, told, faults>>,
           NEW p \in Procs, Busy(p), proc[p].at # "waiting",
           NEW pg \in PageType, SameTab(page, pg), Ready(pg.live),
           page' = Late(p, pg), proc' = [proc EXCEPT ![p] = Over],
           p \in Senders /\ proc[p].at \in Carrying => proc[p].msg \in Accepted \cup pg.lost
    PROVE  PageInv'
<1>1. Late(p, pg) \in PageType /\ SameTab(pg, Late(p, pg)) /\ Late(p, pg).live = pg.live /\ Late(p, pg).lost = pg.lost
  BY LateTab
<1>2. page' \in PageType /\ MovedTab(page, page') /\ Ready(page'.live) /\ page'.lost = pg.lost
  BY <1>1, SameSame DEF MovedTab
<1>3. /\ proc \in [Procs -> ProcType] /\ told \subseteq Messages /\ faults \in 0..MaxFaults /\ Served(srv)
  BY SenderFacts
<1>4. proc' \in [Procs -> ProcType] /\ \A q \in Procs : Ready(proc'[q].text)
  BY <1>3, TextTypes, SenderFacts
<1>5. /\ proc'[p].at = "over" /\ \A q \in Procs : q # p => proc'[q] = proc[q]
      /\ Senders \subseteq Procs
  BY <1>3 DEF Over, Procs
<1>6. \A q \in Senders : GoesOn(q) /\ GivesAway(q)
  BY <1>2, <1>5 DEF GoesOn, GivesAway
<1> QED
  BY <1>2, <1>3, <1>4, <1>6, PlainStep

LEMMA AskStep ==
    ASSUME Bounds, PageInv, ~page.late, NEW p \in Senders, Ask(p)
    PROVE  PageInv'
<1>1. /\ page \in PageType /\ Ready(page.live) /\ proc[p].text \in Texts /\ Ready(proc[p].text)
      /\ told \subseteq Messages /\ faults \in 0..MaxFaults /\ Typing /\ p \in Procs
  BY SenderFacts DEF PageInv, Procs
<1>2. proc[p].at \notin Carrying /\ Busy(p) /\ proc[p].at # "waiting"
  BY DEF Ask, Busy, Carrying
<1>3. typed' = typed /\ srv' = srv /\ told' = told /\ faults' = faults
  BY DEF Ask
<1>4. CASE Running
  <2> DEFINE live == IF page.live = Empty THEN proc[p].text ELSE page.live
             pg == [page EXCEPT !.loading = TRUE, !.live = live]
  <2>1. page' = Late(p, pg) /\ proc' = [proc EXCEPT ![p] = Over]
    BY <1>4 DEF Ask
  <2>2. live \in Texts /\ Ready(live)
    BY <1>1 DEF PageType
  <2> HIDE DEF live
  <2>3. pg \in PageType /\ SameTab(page, pg) /\ Ready(pg.live)
    BY <1>1, <2>2 DEF PageType, SameTab, Stays
  <2> HIDE DEF pg
  <2> QED
    BY <1>1, <1>2, <1>3, <2>1, <2>3, LeavesStep
<1>5. CASE ~Running
  <2> DEFINE text == proc[p].text
             pg == IF proc[p].at = "asking" THEN Partly(page, text) ELSE page
             fg == Finalize(pg, text)
  <2>1. Ends(p, fg)
    BY <1>5 DEF Ask
  <2>2. pg \in PageType /\ SameTab(page, pg) /\ pg.live = page.live
    BY <1>1, PartlyTab, SameItself
  <2> HIDE DEF pg
  <2>3. fg \in PageType /\ MovedTab(pg, fg) /\ Ready(fg.live)
    BY <1>1, <2>2, FinalizedTab
  <2> HIDE DEF fg
  <2>4. MovedTab(page, fg)
    BY <2>2, <2>3, SameMoves
  <2> QED
    BY <1>1, <1>2, <1>3, <2>1, <2>3, <2>4, EndsStep
<1> QED
  BY <1>4, <1>5

LEMMA LoopStep ==
    ASSUME Bounds, PageInv, ~page.late, Loop
    PROVE  PageInv'
<1> DEFINE rec == [Over EXCEPT !.text = page.live, !.epoch = page.epoch]
<1>1. page \in PageType /\ Ready(page.live)
  BY DEF PageInv, Typing
<1>2. rec \in ProcType /\ Ready(rec.text)
  BY <1>1, TextTypes DEF ProcType, PageType
<1>3. Resumes("loop", rec) /\ "loop" \in Procs /\ "loop" \notin Senders
  BY DEF Loop, Procs, Senders
<1> HIDE DEF rec
<1> QED
  BY <1>2, <1>3, SenderFacts, ResumesStep DEF Loop

\* The page moves, and the functions under way do not.
LEMMA TabStep ==
    ASSUME Bounds, PageInv, ~page.late, UNCHANGED <<srv, proc, typed, told>>, faults' \in 0..MaxFaults,
           page' \in PageType, MovedTab(page, page'), Ready(page'.live)
    PROVE  PageInv'
<1>1. Served(srv') /\ srv'.accepted = srv.accepted /\ told' \subseteq Messages
  BY DEF PageInv, Typing
<1>2. proc' \in [Procs -> ProcType] /\ \A p \in Procs : Ready(proc'[p].text)
  BY DEF PageInv, Typing
<1>3. \A p \in Senders : GoesOn(p) /\ GivesAway(p)
  BY DEF GoesOn, GivesAway
<1> QED
  BY <1>1, <1>2, <1>3, PlainStep

LEMMA TabSteps ==
    ASSUME Bounds, PageInv, ~page.late, Watchdog \/ TimerDrain \/ Switch \/ SwitchBack
    PROVE  PageInv'
<1>1. page \in PageType /\ Ready(page.live) /\ Typing
  BY DEF PageInv, Typing
<1>2. UNCHANGED <<srv, proc, typed, told>>
  BY DEF Watchdog, TimerDrain, Switch, SwitchBack
<1>3. faults' \in 0..MaxFaults
  <2>1. faults' = faults \/ Fault
    BY DEF Watchdog, TimerDrain, Switch, SwitchBack
  <2>2. faults \in 0..MaxFaults
    BY <1>1 DEF Typing
  <2> QED
    BY <2>1, <2>2, FaultBound
<1>4. CASE Watchdog
  <2> DEFINE h == page.hidden \cup Unshown
             cg == Cleared(page)
             pg == [cg EXCEPT !.hidden = cg.hidden \cup Unshown]
  <2>1. cg \in PageType /\ SameTab(page, cg) /\ cg.live = Empty
    BY <1>1, ClearedTab
  <2>2. Unshown \subseteq Runs
    BY <1>1, UnshownRuns
  <2>3. page' = Drain(pg)
    BY <1>4 DEF Watchdog
  <2> HIDE DEF cg
  <2>4. pg \in PageType /\ SameTab(cg, pg) /\ pg.live = Empty
    BY <2>1, <2>2 DEF PageType, SameTab, Stays
  <2> HIDE DEF pg
  <2>5. Drain(pg) \in PageType /\ MovedTab(pg, Drain(pg)) /\ Drain(pg).live = Empty
    BY <2>4, DrainTab
  <2> QED
    BY <1>2, <1>3, <2>1, <2>3, <2>4, <2>5, SameSame, SameMoves, TextTypes, TabStep
<1>5. CASE TimerDrain
  <2> DEFINE n == page.drains - 1
             pg == [page EXCEPT !.drains = n]
  <2>1. page' = Drain(pg) /\ n \in Nat
    BY <1>1, <1>5 DEF TimerDrain, PageType
  <2> HIDE DEF n
  <2>2. pg \in PageType /\ SameTab(page, pg) /\ pg.live = page.live
    BY <1>1, <2>1 DEF PageType, SameTab, Stays
  <2> HIDE DEF pg
  <2>3. Drain(pg) \in PageType /\ MovedTab(pg, Drain(pg)) /\ Drain(pg).live = pg.live
    BY <2>2, DrainTab
  <2> QED
    BY <1>1, <1>2, <1>3, <2>1, <2>2, <2>3, SameMoves, TabStep
<1>6. CASE Switch \/ SwitchBack
  <2>1. PICK a \in BOOLEAN : page' = [page EXCEPT !.active = a]
    BY <1>6 DEF Switch, SwitchBack
  <2>2. page' \in PageType /\ SameTab(page, page') /\ page'.live = page.live
    BY <1>1, <2>1 DEF PageType, SameTab, Stays
  <2> QED
    BY <1>1, <1>2, <1>3, <2>2, TabStep DEF MovedTab
<1> QED
  BY <1>4, <1>5, <1>6

\* The request under way, if it can be stopped, is.
LEMMA AbortedCalls ==
    ASSUME PageInv
    PROVE  /\ Abort(proc) \in [Procs -> ProcType]
           /\ \A p \in Procs : Ready(Abort(proc)[p].text)
           /\ \A p \in Senders : /\ Abort(proc)[p].msg = proc[p].msg /\ Abort(proc)[p].epoch = proc[p].epoch
                                 /\ \/ Abort(proc)[p].at = proc[p].at
                                    \/ proc[p].at \in {"posting", "reading"} /\ Abort(proc)[p].at = "aborted"
                                 /\ Abort(proc)[p].at \notin {"posting", "reading"}
<1> DEFINE c == page.ctl
<1>1. /\ page \in PageType /\ proc \in [Procs -> ProcType] /\ \A p \in Procs : Ready(proc[p].text)
      /\ Senders \subseteq Procs
  BY DEF PageInv, Typing, Procs
<1>2. \A p \in Senders : proc[p].at \in {"posting", "reading"} => c = p /\ c # "none"
  BY DEF PageInv, Controlled, Senders
<1>3. CASE c # "none" /\ proc[c].at \in {"posting", "reading"}
  <2>1. Abort(proc) = [proc EXCEPT ![c].at = "aborted"]
    BY <1>3 DEF Abort
  <2>2. c \in Senders
    BY <1>1, <1>3 DEF PageType
  <2>3. /\ [proc[c] EXCEPT !.at = "aborted"] \in ProcType
        /\ [proc[c] EXCEPT !.at = "aborted"].text = proc[c].text
        /\ [proc[c] EXCEPT !.at = "aborted"].msg = proc[c].msg
        /\ [proc[c] EXCEPT !.at = "aborted"].epoch = proc[c].epoch
        /\ [proc[c] EXCEPT !.at = "aborted"].at = "aborted"
    BY <1>1, <2>2 DEF ProcType
  <2> HIDE DEF c
  <2>4. Abort(proc) = [proc EXCEPT ![c] = [proc[c] EXCEPT !.at = "aborted"]]
    BY <2>1
  <2>5. /\ Abort(proc)[c] = [proc[c] EXCEPT !.at = "aborted"]
        /\ \A p \in Procs : p # c => Abort(proc)[p] = proc[p]
    BY <1>1, <2>2, <2>4
  <2> QED
    BY <1>1, <1>2, <1>3, <2>2, <2>3, <2>4, <2>5
<1>4. CASE ~(c # "none" /\ proc[c].at \in {"posting", "reading"})
  <2>1. Abort(proc) = proc
    BY <1>4 DEF Abort
  <2> QED
    BY <1>1, <1>2, <1>4, <2>1
<1> QED
  BY <1>3, <1>4

LEMMA StopStep ==
    ASSUME Bounds, PageInv, ~page.late, Stop
    PROVE  PageInv'
<1>1. page \in PageType /\ Ready(page.live) /\ Typing /\ Served(srv) /\ told \subseteq Messages
  BY DEF PageInv, Typing
<1>2. faults' \in 0..MaxFaults
  BY FaultBound DEF Stop
<1>3. srv' = [srv EXCEPT !.cancel = TRUE] /\ typed' = typed /\ told' = told /\ proc' = Abort(proc)
  BY DEF Stop
<1>4. Served(srv') /\ srv'.accepted = srv.accepted
  BY <1>1, <1>3 DEF Served, ServerType
<1> DEFINE cg == Cleared(page)
           pg == [cg EXCEPT !.cancelled = TRUE, !.last = Empty, !.hidden = cg.hidden \cup Unshown]
<1>5. cg \in PageType /\ SameTab(page, cg) /\ cg.live = Empty
  BY <1>1, ClearedTab
<1>6. Unshown \subseteq Runs
  BY <1>1, UnshownRuns
<1>7. page' = pg
  BY DEF Stop
<1> HIDE DEF cg
<1>8. pg \in PageType /\ SameTab(cg, pg) /\ pg.live = Empty
  BY <1>5, <1>6, TextTypes, ZenonT(60) DEF PageType, SameTab, Stays
<1> HIDE DEF pg
<1>9. page' \in PageType /\ MovedTab(page, page') /\ Ready(page'.live)
  BY <1>5, <1>7, <1>8, SameSame, TextTypes DEF MovedTab
<1>10. \A p \in Senders : GoesOn(p) /\ GivesAway(p)
  BY <1>3, AbortedCalls DEF GoesOn, GivesAway, Busy, Carrying
<1> QED
  BY <1>1, <1>2, <1>3, <1>4, <1>9, <1>10, AbortedCalls, PlainStep

\* The server works, or is down, and accepts nothing.
LEMMA ServerStep ==
    ASSUME Bounds, PageInv, ~page.late, Emit \/ Save \/ Finish \/ CancelArrives \/ Crash \/ Restart
    PROVE  PageInv'
<1>1. UNCHANGED <<page, proc, typed, told>>
  BY DEF Emit, Save, Finish, CancelArrives, Crash, Restart
<1>2. page \in PageType /\ Ready(page.live) /\ Served(srv) /\ told \subseteq Messages /\ faults \in 0..MaxFaults
  BY DEF PageInv, Typing
<1>3. faults' \in 0..MaxFaults
  BY <1>2, FaultBound DEF Emit, Save, Finish, CancelArrives, Crash, Restart
<1>4. Current \in Nat /\ Current <= MaxSends /\ MaxSends \in Nat /\ Current = Len(srv.accepted)
  BY <1>2 DEF Served, ServerType, Current, Bounds
<1>5. Running => Current > 0
  BY <1>2, <1>4 DEF Served, Running
<1>6. Current > 0 => /\ Current \in 1..Len(srv.accepted) /\ Current \in Runs
                     /\ Chunk(Current) \in 1..(2 * Len(srv.accepted)) /\ Chunk(Current) \in 1..(2 * MaxSends)
                     /\ Done(Current) \in 1..(2 * Len(srv.accepted)) /\ Done(Current) \in 1..(2 * MaxSends)
  BY <1>4 DEF Chunk, Done, Runs
<1>7. Served(srv') /\ srv'.accepted = srv.accepted
  <2>1. CASE Emit
    <3>1. srv' = [srv EXCEPT !.emitted = srv.emitted \cup {Chunk(Current)}] /\ Current > 0
      BY <1>5, <2>1 DEF Emit
    <3> QED
      BY <1>2, <1>6, <3>1 DEF Served, ServerType
  <2> DEFINE e == srv.emitted \cup {Done(Current)}
             h == srv.history \cup {Current}
             t == srv.stopped \cup {Current}
  <2>0. Current > 0 => /\ e \subseteq 1..(2 * Len(srv.accepted)) /\ e \subseteq 1..(2 * MaxSends)
                       /\ h \subseteq 1..Len(srv.accepted) /\ h \subseteq Runs
                       /\ t \subseteq 1..Len(srv.accepted) /\ t \subseteq Runs
    BY <1>2, <1>6 DEF Served, ServerType
  <2>2. CASE Save
    <3>1. srv' = [srv EXCEPT !.at = "saved", !.history = h] /\ Current > 0
      BY <1>5, <2>2 DEF Save
    <3> HIDE DEF h
    <3>2. /\ srv' \in ServerType /\ srv'.accepted = srv.accepted /\ srv'.emitted = srv.emitted
          /\ srv'.history = h /\ srv'.stopped = srv.stopped
      BY <1>2, <2>0, <3>1 DEF Served, ServerType
    <3> QED
      BY <1>2, <1>4, <2>0, <3>1, <3>2 DEF Served
  <2>3. CASE Finish
    <3>1. srv' = [srv EXCEPT !.at = "over", !.emitted = e] /\ Current > 0
      BY <1>5, <2>3 DEF Finish
    <3> HIDE DEF e
    <3>2. /\ srv' \in ServerType /\ srv'.accepted = srv.accepted /\ srv'.emitted = e
          /\ srv'.history = srv.history /\ srv'.stopped = srv.stopped
      BY <1>2, <2>0, <3>1 DEF Served, ServerType
    <3> QED
      BY <1>2, <1>4, <2>0, <3>1, <3>2 DEF Served
  <2>4. CASE CancelArrives /\ Running
    <3>1. srv' = [srv EXCEPT !.cancel = FALSE, !.at = "over", !.emitted = e, !.stopped = t] /\ Current > 0
      BY <1>5, <2>4 DEF CancelArrives
    <3> HIDE DEF e, t
    <3>2. /\ srv' \in ServerType /\ srv'.accepted = srv.accepted /\ srv'.emitted = e
          /\ srv'.history = srv.history /\ srv'.stopped = t
      BY <1>2, <2>0, <3>1 DEF Served, ServerType
    <3> QED
      BY <1>2, <1>4, <2>0, <3>1, <3>2 DEF Served
  <2>5. CASE CancelArrives /\ ~Running
    <3>1. srv' = [srv EXCEPT !.cancel = FALSE]
      BY <2>5 DEF CancelArrives
    <3> QED
      BY <1>2, <3>1 DEF Served, ServerType
  <2>6. CASE Crash
    <3>1. srv' = [srv EXCEPT !.up = FALSE, !.at = "none", !.cancel = FALSE]
      BY <2>6 DEF Crash
    <3> QED
      BY <1>2, <3>1 DEF Served, ServerType
  <2>7. CASE Restart
    <3>1. srv' = [srv EXCEPT !.up = TRUE]
      BY <2>7 DEF Restart
    <3> QED
      BY <1>2, <3>1 DEF Served, ServerType
  <2> QED
    BY <2>1, <2>2, <2>3, <2>4, <2>5, <2>6, <2>7
<1>8. proc' \in [Procs -> ProcType] /\ \A p \in Procs : Ready(proc'[p].text)
  BY <1>1 DEF PageInv, Typing
<1>9. \A p \in Senders : GoesOn(p) /\ GivesAway(p)
  BY <1>1 DEF GoesOn, GivesAway
<1> QED
  BY <1>1, <1>2, <1>3, <1>7, <1>8, <1>9, SameItself, PlainStep

-----------------------------------------------------------------------------
(* The steps that put a message in the box, take it out, send it or accept it *)

\* A call whose message failed waits for the server, with its message in the box.
LEMMA WaitStep ==
    ASSUME Bounds, PageInv, ~page.late, UNCHANGED <<typed, srv, told, faults>>,
           NEW p \in Senders, proc[p].at = "status",
           page' = Late(p, [Put(page, proc[p].msg) EXCEPT !.loading = FALSE]),
           proc' = [proc EXCEPT ![p].at = "waiting"]
    PROVE  PageInv'
<1> DEFINE m == proc[p].msg
           bg == Put(page, m)
           pg == [bg EXCEPT !.loading = FALSE]
           rec == [proc[p] EXCEPT !.at = "waiting"]
<1>1. /\ page \in PageType /\ Ready(page.live) /\ proc \in [Procs -> ProcType]
      /\ \A q \in Procs : Ready(proc[q].text)
      /\ told \subseteq Messages /\ typed \subseteq Messages /\ faults \in 0..MaxFaults /\ Served(srv)
      /\ p \in Procs /\ Senders \subseteq Procs /\ Busy(p)
  BY DEF PageInv, Typing, Procs, Busy
<1>2. m \in typed /\ m \in Messages /\ m # None
  BY <1>1 DEF PageInv, Known, Messages, None
<1>3. /\ bg \in PageType /\ Stays(page, bg) /\ bg.box = m /\ page.box \in {None, m} \cup bg.lost
      /\ bg.queue = page.queue /\ bg.drained = page.drained /\ bg.live = page.live
      /\ bg.resent = page.resent
  BY <1>1, <1>2, PutTab
<1> HIDE DEF bg
<1>4. /\ pg \in PageType /\ pg.live = bg.live /\ pg.resent = bg.resent /\ SameTab(bg, pg)
      /\ pg.lost = bg.lost
  BY <1>3, ZenonT(60) DEF PageType, SameTab, Stays
<1>5. page' = Late(p, pg)
  BY DEF bg
<1> HIDE DEF pg
<1>6. page' \in PageType /\ SameTab(pg, page') /\ page'.live = pg.live /\ page'.lost = pg.lost
  BY <1>4, <1>5, LateTab
<1>7. /\ page'.live = page.live /\ page'.box = m /\ page'.queue = page.queue
      /\ page'.drained = page.drained /\ page.resent \subseteq page'.resent
      /\ page'.epoch = page.epoch /\ page'.ctl = page.ctl /\ page.lost \subseteq page'.lost
      /\ page.box \in {None, m} \cup page'.lost
  BY <1>3, <1>4, <1>6 DEF SameTab, Stays
<1>8. proc' = [proc EXCEPT ![p] = rec]
  BY <1>1
<1>9. /\ rec \in ProcType /\ rec.at = "waiting" /\ rec.msg = m /\ rec.epoch = proc[p].epoch
      /\ rec.text = proc[p].text
  BY <1>1 DEF ProcType
<1> HIDE DEF rec
<1>10. /\ proc'[p] = rec /\ \A q \in Procs : q # p => proc'[q] = proc[q]
       /\ proc' \in [Procs -> ProcType]
  BY <1>1, <1>8, <1>9
<1>11. /\ Current' = Current /\ Accepted' = Accepted /\ Queued' = Queued
  BY <1>7 DEF Current, Accepted, Queued
<1>12. \A q \in Senders : /\ Busy(q)' <=> Busy(q)
                          /\ proc'[q].msg = proc[q].msg /\ proc'[q].epoch = proc[q].epoch
                          /\ proc'[q].at = proc[q].at \/ (q = p /\ proc'[q].at = "waiting")
  BY <1>1, <1>9, <1>10 DEF Busy
<1> HIDE DEF m
<1>13. Typing'
  BY <1>1, <1>6, <1>7, <1>9, <1>10 DEF Typing
<1>14. Counted' /\ Controlled' /\ Epochs'
  <2>1. Counted'
    BY <1>7, <1>11, <1>12 DEF PageInv, Counted
  <2>2. Controlled'
    BY <1>7, <1>12 DEF PageInv, Controlled
  <2>3. Epochs'
    BY <1>7, <1>12 DEF PageInv, Epochs
  <2> QED
    BY <2>1, <2>2, <2>3
<1>15. Known'
  <2>1. \A q \in Senders : Busy(q)' => proc'[q].msg \in typed
    BY <1>12 DEF PageInv, Known
  <2>2. page'.box \in typed /\ page'.drained \in typed \cup {None} /\ typed' = typed
    BY <1>2, <1>7 DEF PageInv, Known
  <2> QED
    BY <1>11, <2>1, <2>2 DEF PageInv, Known
<1>16. Cared'
  <2>1. \A q \in Senders : proc[q].at \in Carrying => q = p \/ proc'[q].at \in Carrying
    BY <1>12
  <2>2. m = proc[p].msg
    BY DEF m
  <2>3. \A n \in typed : n # None
    BY <1>1 DEF Messages, None
  <2>4. ASSUME NEW n \in typed'
        PROVE  \/ n \in Accepted' \cup told' \cup page'.lost \cup {page'.box} \cup Queued'
               \/ \E q \in Senders : proc'[q].at \in Carrying /\ proc'[q].msg = n
    <3>1. CASE \E q \in Senders : proc[q].at \in Carrying /\ proc[q].msg = n
      BY <1>7, <1>12, <2>1, <2>2, <3>1
    <3>2. CASE n \in Accepted \cup told \cup page.lost \cup {page.box} \cup Queued
      BY <1>7, <1>11, <2>3, <3>2, ZenonT(60)
    <3> QED
      BY <3>1, <3>2 DEF PageInv, Cared
  <2>5. \A q \in Senders : proc'[q].at = "reading" => proc'[q].msg \in Accepted'
    BY <1>11, <1>12 DEF PageInv, Cared
  <2> QED
    BY <2>4, <2>5 DEF Cared
<1>17. SentOnce'
  BY <1>7, <1>11 DEF PageInv, SentOnce
<1>18. OnePlace
  BY DEF PageInv
<1>19. m \notin page'.resent => CallAlone(p)
  BY <1>1, <1>7, <1>18 DEF OnePlace, CallsAlone, m
<1>20. BoxAlone'
  <2>1. m \notin page'.resent => m \notin Queued
    BY <1>19 DEF CallAlone, m
  <2>2. proc'[p].at = "waiting" /\ proc'[p].msg = page'.box
    BY <1>7, <1>9, <1>10
  <2> QED
    BY <1>7, <1>11, <2>1, <2>2 DEF BoxAlone
<1>21. QueueAlone'
  BY <1>7, <1>11, <1>18, ZenonT(60) DEF OnePlace, QueueAlone
<1>22. CallsAlone'
  <2> SUFFICES ASSUME NEW q \in Senders, Busy(q)', proc'[q].msg \notin page'.resent
               PROVE  CallAlone(q)'
    BY DEF CallsAlone
  <2>1. CallAlone(q) /\ proc[q].msg \notin page.resent
    BY <1>7, <1>12, <1>18 DEF OnePlace, CallsAlone
  <2>2. proc'[q].msg = page'.box => proc'[q].at = "waiting"
    BY <1>1, <1>7, <1>9, <1>10, <1>12, <2>1 DEF CallAlone, m
  <2>3. \A o \in Senders : Busy(o)' /\ proc'[o].msg = proc'[q].msg => o = q
    BY <1>12, <2>1 DEF CallAlone
  <2>4. proc'[q].epoch = page'.epoch => \A r \in 1..Current' - 1 : srv'.accepted[r] # proc'[q].msg
    BY <1>7, <1>11, <1>12, <2>1 DEF CallAlone
  <2>5. proc'[q].at = "posting" => proc'[q].msg \notin Accepted'
    BY <1>11, <1>12, <2>1 DEF CallAlone
  <2>6. proc'[q].msg \notin Queued' /\ proc'[q].msg # page'.drained
    BY <1>7, <1>11, <1>12, <2>1 DEF CallAlone
  <2> QED
    BY <2>2, <2>3, <2>4, <2>5, <2>6 DEF CallAlone
<1> QED
  BY <1>13, <1>14, <1>15, <1>16, <1>17, <1>20, <1>21, <1>22 DEF PageInv, OnePlace

LEMMA StatusStep ==
    ASSUME Bounds, PageInv, ~page.late, NEW p \in Procs, Status(p)
    PROVE  PageInv'
<1> DEFINE text == proc[p].text
           ug == Unsent(page, proc[p].msg)
<1>1. /\ page \in PageType /\ Ready(page.live) /\ text \in Texts /\ Ready(text)
      /\ told \subseteq Messages /\ faults \in 0..MaxFaults /\ Typing
      /\ p \in Senders /\ Busy(p) => proc[p].msg \in Messages
  BY SenderFacts DEF PageInv
<1>2. Busy(p) /\ proc[p].at # "waiting" /\ proc[p].at = "status"
  BY DEF Status, Busy
<1>3. typed' = typed /\ srv' = srv /\ told' = told /\ faults' = faults
  BY DEF Status
<1>4. p \in Senders \/ p = "loop"
  BY DEF Procs
<1>5. p \in Senders => /\ ug \in PageType /\ SameTab(page, ug) /\ ug.live = page.live
                       /\ proc[p].msg \in Accepted \cup ug.lost
  BY <1>1, <1>2, UnsentTab
<1>6. CASE Running /\ p = "loop"
  <2> DEFINE pg == [page EXCEPT !.loading = TRUE]
  <2>1. page' = Late(p, pg) /\ proc' = [proc EXCEPT ![p] = Over]
    BY <1>6 DEF Status
  <2>2. pg \in PageType /\ SameTab(page, pg) /\ pg.live = page.live
    BY <1>1 DEF PageType, SameTab, Stays
  <2>3. p \notin Senders
    BY <1>6 DEF Senders
  <2> HIDE DEF pg
  <2> QED
    BY <1>1, <1>2, <1>3, <2>1, <2>2, <2>3, LeavesStep
<1>7. CASE Running /\ p # "loop"
  <2>1. page' = Late(p, ug) /\ proc' = [proc EXCEPT ![p] = Over]
    BY <1>7 DEF Status
  <2> HIDE DEF ug
  <2> QED
    BY <1>1, <1>2, <1>3, <1>4, <1>5, <1>7, <2>1, LeavesStep
<1>8. CASE ~Running /\ p = "loop"
  <2> DEFINE pg == Partly(page, text)
  <2>1. Ends(p, Concluded(pg, text))
    BY <1>8 DEF Status
  <2>2. pg \in PageType /\ SameTab(page, pg) /\ pg.live = page.live
    BY <1>1, PartlyTab
  <2> HIDE DEF pg
  <2>3. Concluded(pg, text) \in PageType /\ MovedTab(page, Concluded(pg, text)) /\ Ready(Concluded(pg, text).live)
    BY <1>1, <2>2, ConcludedTab, SameMoves
  <2>4. p \notin Senders
    BY <1>8 DEF Senders
  <2> QED
    BY <1>1, <1>2, <1>3, <2>1, <2>3, <2>4, EndsStep
<1>9. CASE ~Running /\ p # "loop" /\ srv.up
  <2>1. Finally(p, ug, text, FALSE)
    BY <1>9 DEF Status
  <2> HIDE DEF ug
  <2> QED
    BY <1>1, <1>2, <1>3, <1>4, <1>5, <1>9, <2>1, FinallyStep
<1>10. CASE ~Running /\ p # "loop" /\ ~srv.up
  <2>1. /\ page' = Late(p, [Put(page, proc[p].msg) EXCEPT !.loading = FALSE])
        /\ proc' = [proc EXCEPT ![p].at = "waiting"]
    BY <1>10 DEF Status, Goes
  <2> QED
    BY <1>2, <1>3, <1>4, <1>10, <2>1, WaitStep
<1> QED
  BY <1>6, <1>7, <1>8, <1>9, <1>10

\* The wait of a call is over, and its message may be taken out of the box.
LEMMA WaitEndsStep ==
    ASSUME Bounds, PageInv, ~page.late, UNCHANGED <<typed, srv, told, faults>>,
           NEW p \in Senders, proc[p].at = "waiting",
           NEW pg \in PageType, Stays(page, pg), pg.queue = page.queue, pg.drained = page.drained,
           pg.live = page.live, Ends(p, pg),
           pg.box = page.box \/ pg.box = None,
           page.box \in {None, pg.box} \cup Accepted \cup pg.lost,
           ~pg.late /\ proc[p].epoch = page.epoch /\ pg.box = proc[p].msg =>
               pg.box \in pg.resent \/ pg.box \notin Accepted
    PROVE  PageInv'
<1> DEFINE qg == Late(p, pg)
           c == IF qg.ctl = p THEN "none" ELSE qg.ctl
<1>1. /\ page \in PageType /\ Ready(page.live) /\ proc \in [Procs -> ProcType]
      /\ \A q \in Procs : Ready(proc[q].text)
      /\ told \subseteq Messages /\ typed \subseteq Messages /\ faults \in 0..MaxFaults /\ Served(srv)
      /\ p \in Procs /\ Senders \subseteq Procs
  BY DEF PageInv, Typing, Procs
<1>2. /\ qg \in PageType /\ SameTab(pg, qg) /\ qg.live = pg.live /\ qg.lost = pg.lost
      /\ proc[p].epoch # page.epoch => qg.late
  BY LateTab
<1>3. page' = [qg EXCEPT !.ctl = c] /\ proc' = [proc EXCEPT ![p] = Over]
  BY DEF Ends
<1> HIDE DEF qg
<1>4. c \in Senders \cup {"none"} /\ (c = qg.ctl \/ qg.ctl = p)
  BY <1>2 DEF PageType
<1> HIDE DEF c
<1>5. /\ page' \in PageType /\ page'.live = page.live /\ page'.box = pg.box
      /\ page'.queue = page.queue /\ page'.drained = page.drained
      /\ page.resent \subseteq page'.resent /\ pg.resent \subseteq page'.resent
      /\ page'.epoch = page.epoch /\ page.lost \subseteq page'.lost /\ page'.lost = pg.lost
      /\ page'.ctl = c /\ qg.ctl = page.ctl
      /\ ~page'.late => ~pg.late /\ proc[p].epoch = page.epoch
  BY <1>2, <1>3, <1>4, ZenonT(60) DEF PageType, SameTab, Stays
<1>6. /\ proc'[p] = Over /\ \A q \in Procs : q # p => proc'[q] = proc[q]
      /\ proc' \in [Procs -> ProcType] /\ \A q \in Procs : Ready(proc'[q].text)
  BY <1>1, <1>3, TextTypes
<1>7. \A q \in Senders : Busy(q)' => q # p /\ Busy(q) /\ proc'[q] = proc[q]
  BY <1>1, <1>6 DEF Busy, Over
<1>8. proc'[p].at = "over"
  BY <1>6 DEF Over
<1>9. Current' = Current /\ Accepted' = Accepted /\ Queued' = Queued
  BY <1>5 DEF Current, Accepted, Queued
<1>10. Typing'
  BY <1>1, <1>5, <1>6 DEF Typing
<1>11. Counted' /\ Epochs'
  BY <1>5, <1>7, <1>9 DEF PageInv, Counted, Epochs, Busy
<1>12. Controlled'
  BY <1>4, <1>5, <1>7 DEF PageInv, Controlled, Busy
<1>13. Known'
  BY <1>5, <1>7, <1>9 DEF PageInv, Known
<1>14. Cared'
  <2>1. \A q \in Senders : proc[q].at \in Carrying => q # p
    BY DEF Carrying
  <2>2. \A q \in Senders : q # p => proc'[q] = proc[q]
    BY <1>1, <1>6
  <2>3. \A n \in typed : n # None
    BY <1>1 DEF Messages, None
  <2>4. \A n \in typed : \/ n \in Accepted' \cup told' \cup page'.lost \cup {page'.box} \cup Queued'
                         \/ \E q \in Senders : proc'[q].at \in Carrying /\ proc'[q].msg = n
    BY <1>5, <1>9, <2>1, <2>2, <2>3 DEF PageInv, Cared
  <2>5. \A q \in Senders : proc'[q].at = "reading" => proc'[q].msg \in Accepted'
    BY <1>8, <1>9, <2>2 DEF PageInv, Cared
  <2> QED
    BY <2>4, <2>5 DEF Cared
<1>15. SentOnce'
  BY <1>5, <1>9 DEF PageInv, SentOnce
<1>16. OnePlace
  BY DEF PageInv
<1>17. ~page'.late => BoxAlone'
  <2> SUFFICES ASSUME ~page'.late, page'.box # None, page'.box \notin page'.resent
               PROVE  /\ page'.box \notin Queued'
                      /\ \/ page'.box \notin Accepted'
                         \/ \E q \in Senders : proc'[q].at = "waiting" /\ proc'[q].msg = page'.box
    BY DEF BoxAlone
  <2>1. page'.box = page.box /\ page.box \notin page.resent /\ page.box # None
    BY <1>5
  <2>2. page.box \notin Queued
    BY <1>16, <2>1 DEF OnePlace, BoxAlone
  <2>3. CASE page.box \notin Accepted
    BY <1>9, <2>1, <2>2, <2>3
  <2>4. CASE page.box \in Accepted
    <3>1. PICK q \in Senders : proc[q].at = "waiting" /\ proc[q].msg = page.box
      BY <1>16, <2>1, <2>4 DEF OnePlace, BoxAlone
    <3>2. q # p
      BY <1>5, <2>1, <2>4, <3>1
    <3>3. proc'[q] = proc[q]
      BY <1>1, <1>6, <3>2
    <3> QED
      BY <1>9, <2>1, <2>2, <3>1, <3>3
  <2> QED
    BY <2>3, <2>4
<1>18. QueueAlone'
  BY <1>5, <1>9, <1>16 DEF OnePlace, QueueAlone
<1>19. CallsAlone'
  <2> SUFFICES ASSUME NEW q \in Senders, Busy(q)', proc'[q].msg \notin page'.resent
               PROVE  CallAlone(q)'
    BY DEF CallsAlone
  <2>1. CallAlone(q) /\ proc'[q] = proc[q] /\ proc[q].msg # None
    <3>1. \A n \in typed : n # None
      BY <1>1 DEF Messages, None
    <3> QED
      BY <1>5, <1>7, <1>16, <3>1 DEF OnePlace, CallsAlone, PageInv, Known
  <2>2. proc'[q].msg = page'.box => proc'[q].at = "waiting"
    BY <1>5, <2>1 DEF CallAlone
  <2>3. \A o \in Senders : Busy(o)' /\ proc'[o].msg = proc'[q].msg => o = q
    BY <1>7, <2>1 DEF CallAlone
  <2>4. proc'[q].epoch = page'.epoch => \A r \in 1..Current' - 1 : srv'.accepted[r] # proc'[q].msg
    BY <1>5, <1>9, <2>1 DEF CallAlone
  <2>5. proc'[q].at = "posting" => proc'[q].msg \notin Accepted'
    BY <1>9, <2>1 DEF CallAlone
  <2>6. proc'[q].msg \notin Queued' /\ proc'[q].msg # page'.drained
    BY <1>5, <1>9, <2>1 DEF CallAlone
  <2> QED
    BY <2>2, <2>3, <2>4, <2>5, <2>6 DEF CallAlone
<1> QED
  BY <1>10, <1>11, <1>12, <1>13, <1>14, <1>15, <1>17, <1>18, <1>19 DEF PageInv, OnePlace

LEMMA WaitedStep ==
    ASSUME Bounds, PageInv, ~page.late, NEW p \in Senders, Waited(p)
    PROVE  PageInv'
<1> DEFINE m == proc[p].msg
           rg == Reloaded(page)
<1>1. /\ page \in PageType /\ Ready(page.live) /\ Typing /\ p \in Procs
      /\ proc[p].at = "waiting" /\ Busy(p)
      /\ UNCHANGED <<typed, srv, told, faults>>
  BY DEF PageInv, Typing, Waited, Busy, Procs
<1>2. m \in Messages
  BY <1>1, SenderFacts
<1>3. rg \in PageType /\ SameTab(page, rg) /\ rg.live = page.live /\ rg.lost = page.lost
  BY <1>1, ReloadedTab
<1>4. CASE ~srv.up
  <2> DEFINE h == page.hidden \cup Unshown
             s == page.resent \cup {m}
             pg == [page EXCEPT !.hidden = h, !.resent = s]
  <2>1. h \subseteq Runs /\ s \subseteq Messages \cup {None}
    BY <1>1, <1>2, UnshownRuns DEF PageType
  <2>2. Ends(p, pg)
    BY <1>4 DEF Waited
  <2>3. m \in s /\ page.resent \subseteq s
    OBVIOUS
  <2> HIDE DEF h, s
  <2>4. /\ pg \in PageType /\ Stays(page, pg) /\ pg.queue = page.queue /\ pg.drained = page.drained
        /\ pg.live = page.live /\ pg.box = page.box /\ pg.resent = s
    BY <1>1, <2>1, <2>3 DEF PageType, Stays
  <2> HIDE DEF pg
  <2> QED
    BY <1>1, <2>2, <2>3, <2>4, WaitEndsStep
<1>5. CASE srv.up /\ Current > 0 /\ srv.accepted[Current] = m
  <2> DEFINE l == IF page.box \in {None, m} THEN rg.lost ELSE rg.lost \cup {page.box}
             pg == [rg EXCEPT !.box = None, !.lost = l]
  <2>1. Ends(p, pg)
    BY <1>5 DEF Waited
  <2>2. l \subseteq Messages /\ rg.lost \subseteq l /\ page.box \in {None, m} \cup l
    BY <1>1, <1>3 DEF PageType
  <2>3. m \in Accepted
    BY <1>1, <1>5 DEF Accepted, Typing, Served, ServerType, Current
  <2> HIDE DEF l, rg
  <2>4. /\ pg \in PageType /\ Stays(rg, pg) /\ pg.queue = rg.queue /\ pg.drained = rg.drained
        /\ pg.live = rg.live /\ pg.box = None /\ pg.lost = l
    BY <1>3, <2>2 DEF PageType, Stays
  <2> HIDE DEF pg
  <2>5. Stays(page, pg) /\ pg.queue = page.queue /\ pg.drained = page.drained /\ pg.live = page.live
    BY <1>3, <2>4 DEF SameTab, Stays
  <2>6. m # None
    BY <1>2 DEF Messages, None
  <2> QED
    BY <1>1, <2>1, <2>2, <2>3, <2>4, <2>5, <2>6, WaitEndsStep
<1>6. CASE srv.up /\ ~(Current > 0 /\ srv.accepted[Current] = m)
  <2>1. Ends(p, rg)
    BY <1>6 DEF Waited
  <2>2. proc[p].epoch = page.epoch /\ m \notin page.resent => m \notin Accepted
    <3>1. proc[p].epoch = page.epoch /\ m \notin page.resent =>
              \A r \in 1..Current - 1 : srv.accepted[r] # m
      BY <1>1 DEF PageInv, OnePlace, CallsAlone, CallAlone
    <3>2. Current \in Nat
      BY <1>1 DEF Typing, Served, ServerType, Current
    <3>3. \A r \in 1..Current : r \in 1..Current - 1 \/ (Current > 0 /\ r = Current)
      BY <3>2
    <3> QED
      BY <1>6, <3>1, <3>3 DEF Accepted
  <2> HIDE DEF rg
  <2>3. Stays(page, rg) /\ rg.queue = page.queue /\ rg.drained = page.drained /\ rg.box = page.box
    BY <1>3 DEF SameTab
  <2>4. page.resent \subseteq rg.resent
    BY <2>3 DEF Stays
  <2> QED
    BY <1>1, <1>3, <2>1, <2>2, <2>3, <2>4, WaitEndsStep
<1> QED
  BY <1>4, <1>5, <1>6

LEMMA TypeStep ==
    ASSUME Bounds, PageInv, ~page.late, NEW m \in Messages, Type(m)
    PROVE  PageInv'
<1>1. /\ page' = [page EXCEPT !.box = m] /\ typed' = typed \cup {m} /\ m \notin typed /\ page.box = None
      /\ srv' = srv /\ proc' = proc /\ told' = told /\ faults' = faults
  BY DEF Type
<1>2. page \in PageType /\ typed \subseteq Messages /\ m # None /\ None \notin typed
  BY DEF PageInv, Typing, Messages, None
<1>3. /\ page' \in PageType /\ page'.live = page.live /\ page'.box = m /\ page'.queue = page.queue
      /\ page'.drained = page.drained /\ page'.resent = page.resent /\ page'.epoch = page.epoch
      /\ page'.ctl = page.ctl /\ page'.lost = page.lost
  BY <1>1, <1>2, ZenonT(60) DEF PageType
<1>4. Current' = Current /\ Accepted' = Accepted /\ Queued' = Queued /\ \A p : Busy(p)' = Busy(p)
  BY <1>1, <1>3 DEF Current, Accepted, Queued, Busy
<1>5. m \notin Accepted /\ m \notin Queued /\ \A p \in Senders : Busy(p) => proc[p].msg # m
  BY <1>1 DEF PageInv, Known
<1>6. Typing'
  BY <1>1, <1>2, <1>3 DEF PageInv, Typing
<1>7. Counted' /\ Controlled' /\ Epochs' /\ SentOnce'
  <2>1. Counted'
    BY <1>1, <1>3, <1>4 DEF PageInv, Counted
  <2>2. Controlled'
    BY <1>1, <1>3 DEF PageInv, Controlled
  <2>3. Epochs'
    BY <1>1, <1>3, <1>4 DEF PageInv, Epochs
  <2>4. SentOnce'
    BY <1>1, <1>3, <1>4 DEF PageInv, SentOnce
  <2> QED
    BY <2>1, <2>2, <2>3, <2>4
<1>8. Known'
  BY <1>1, <1>3, <1>4 DEF PageInv, Known
<1>9. Cared'
  BY <1>1, <1>2, <1>3, <1>4 DEF PageInv, Cared
<1>10. OnePlace
  BY DEF PageInv
<1>11. BoxAlone' /\ QueueAlone'
  BY <1>1, <1>3, <1>4, <1>5, <1>10 DEF OnePlace, BoxAlone, QueueAlone
<1>12. CallsAlone'
  <2> SUFFICES ASSUME NEW q \in Senders, Busy(q)', proc'[q].msg \notin page'.resent
               PROVE  CallAlone(q)'
    BY DEF CallsAlone
  <2>1. CallAlone(q) /\ proc'[q].msg # page'.box
    BY <1>1, <1>3, <1>4, <1>5, <1>10 DEF OnePlace, CallsAlone
  <2> QED
    BY <1>1, <1>3, <1>4, <2>1 DEF CallAlone
<1> QED
  BY <1>6, <1>7, <1>8, <1>9, <1>11, <1>12 DEF PageInv, OnePlace

\* The server takes the message of the only request under way as its next run.
LEMMA PostArrivesStep ==
    ASSUME Bounds, PageInv, ~page.late, NEW p \in Senders, PostArrives(p)
    PROVE  PageInv'
<1> DEFINE m == proc[p].msg
           cur == Done(Current)
           rec == [proc[p] EXCEPT !.at = "reading", !.cur = cur]
<1>1. /\ page \in PageType /\ Ready(page.live) /\ proc \in [Procs -> ProcType]
      /\ \A q \in Procs : Ready(proc[q].text)
      /\ told \subseteq Messages /\ typed \subseteq Messages /\ faults \in 0..MaxFaults /\ Served(srv)
      /\ p \in Procs /\ Senders \subseteq Procs /\ proc[p].at = "posting" /\ Busy(p)
  BY DEF PageInv, Typing, Procs, PostArrives, Busy
<1>2. m \in typed /\ m \in Messages
  BY <1>1 DEF PageInv, Known
<1>3. /\ srv' = [srv EXCEPT !.accepted = Append(srv.accepted, m), !.at = "running"]
      /\ page' = page /\ typed' = typed /\ told' = told /\ faults' = faults
      /\ proc' = [proc EXCEPT ![p] = rec]
  BY <1>1 DEF PostArrives
<1>4. /\ Current \in Nat /\ Current < page.epoch /\ page.epoch <= MaxSends /\ MaxSends \in Nat
      /\ page.epoch \in Nat
  BY <1>1 DEF PageInv, Counted, Served, ServerType, Current, Bounds, PageType
<1>5. /\ srv.accepted \in Seq(Messages) /\ srv'.accepted = Append(srv.accepted, m)
      /\ Append(srv.accepted, m) \in Seq(Messages)
      /\ srv'.emitted = srv.emitted /\ srv'.history = srv.history /\ srv'.stopped = srv.stopped
      /\ srv' \in ServerType
  <2> DEFINE acc == Append(srv.accepted, m)
  <2>1. srv.accepted \in Seq(Messages) /\ srv \in ServerType
    BY <1>1 DEF Served, ServerType
  <2>2. acc \in Seq(Messages)
    BY <1>2, <2>1
  <2>3. srv' = [srv EXCEPT !.accepted = acc, !.at = "running"]
    BY <1>3
  <2> HIDE DEF acc
  <2>4. /\ srv'.accepted = acc /\ srv' \in ServerType
        /\ srv'.emitted = srv.emitted /\ srv'.history = srv.history /\ srv'.stopped = srv.stopped
    BY <2>1, <2>2, <2>3 DEF ServerType
  <2> QED
    BY <2>1, <2>2, <2>4 DEF acc
<1>6. /\ Len(srv'.accepted) = Current + 1 /\ srv'.accepted[Current + 1] = m
      /\ \A r \in 1..Current : srv'.accepted[r] = srv.accepted[r]
  BY <1>2, <1>5 DEF Current
<1>7. Current' = Current + 1
  BY <1>6 DEF Current
<1>8. Accepted' = Accepted \cup {m}
  <2>1. \A r \in 1..Current' : r \in 1..Current \/ r = Current + 1
    BY <1>4, <1>7
  <2>2. \A r \in 1..Current : r \in 1..Current'
    BY <1>4, <1>7
  <2>3. Current + 1 \in 1..Current'
    BY <1>4, <1>7
  <2>4. Accepted' = {srv'.accepted[r] : r \in 1..Current'}
    BY DEF Accepted
  <2> QED
    BY <1>6, <2>1, <2>2, <2>3, <2>4 DEF Accepted
<1>9. Served(srv')
  <2>1. Len(srv.accepted) = Current /\ Len(srv'.accepted) <= MaxSends /\ Len(srv'.accepted) > 0
    BY <1>4, <1>6 DEF Current
  <2>2. 1..(2 * Current) \subseteq 1..(2 * Len(srv'.accepted)) /\ 1..Current \subseteq 1..Len(srv'.accepted)
    BY <1>4, <1>6
  <2>3. srv.emitted \subseteq 1..(2 * Current) /\ srv.history \subseteq 1..Current /\ srv.stopped \subseteq 1..Current
    BY <1>1, <2>1 DEF Served
  <2> QED
    BY <1>5, <2>1, <2>2, <2>3 DEF Served
<1>10. cur \in 0..(2 * MaxSends)
  BY <1>4 DEF Done
<1> HIDE DEF cur
<1>11. /\ rec \in ProcType /\ rec.at = "reading" /\ rec.msg = m /\ rec.epoch = proc[p].epoch
       /\ rec.text = proc[p].text
  BY <1>1, <1>10 DEF ProcType
<1> HIDE DEF rec
<1>12. /\ proc'[p] = rec /\ \A q \in Procs : q # p => proc'[q] = proc[q]
       /\ proc' \in [Procs -> ProcType]
  BY <1>1, <1>3, <1>11
<1>13. \A q \in Senders : /\ Busy(q)' <=> Busy(q)
                          /\ proc'[q].msg = proc[q].msg /\ proc'[q].epoch = proc[q].epoch
                          /\ IF q = p THEN proc'[q].at = "reading" ELSE proc'[q].at = proc[q].at
  BY <1>1, <1>11, <1>12 DEF Busy
<1>14. Queued' = Queued
  BY <1>3 DEF Queued
<1>15. page.ctl = p /\ proc[p].epoch = page.epoch /\ \A q \in Senders : q # p => proc[q].at # "posting"
  BY <1>1 DEF PageInv, Controlled
<1>16. m = proc[p].msg
  BY DEF m
<1> HIDE DEF m
<1>17. Typing'
  BY <1>1, <1>3, <1>9, <1>11, <1>12 DEF Typing
<1>18. Counted' /\ Controlled' /\ Epochs'
  <2>1. Counted'
    BY <1>3, <1>4, <1>7, <1>13, <1>15 DEF Counted
  <2>2. Controlled'
    BY <1>3, <1>13, <1>15 DEF PageInv, Controlled
  <2>3. Epochs'
    BY <1>3, <1>13 DEF PageInv, Epochs
  <2> QED
    BY <2>1, <2>2, <2>3
<1>19. Known'
  BY <1>2, <1>3, <1>8, <1>13, <1>14 DEF PageInv, Known
<1>20. Cared'
  <2>1. ASSUME NEW n \in typed'
        PROVE  \/ n \in Accepted' \cup told' \cup page'.lost \cup {page'.box} \cup Queued'
               \/ \E q \in Senders : proc'[q].at \in Carrying /\ proc'[q].msg = n
    <3>1. CASE n \in Accepted \cup told \cup page.lost \cup {page.box} \cup Queued
      BY <1>3, <1>8, <1>14, <3>1
    <3>2. CASE \E q \in Senders : proc[q].at \in Carrying /\ proc[q].msg = n
      BY <1>8, <1>13, <1>16, <3>2
    <3> QED
      BY <1>3, <3>1, <3>2 DEF PageInv, Cared
  <2>2. \A q \in Senders : proc'[q].at = "reading" => proc'[q].msg \in Accepted'
    BY <1>8, <1>13, <1>16 DEF PageInv, Cared
  <2> QED
    BY <2>1, <2>2 DEF Cared
<1>21. OnePlace
  BY DEF PageInv
<1>22. m \notin page.resent => CallAlone(p)
  BY <1>1, <1>16, <1>21 DEF OnePlace, CallsAlone
<1>23. m \notin page.resent => m \notin Accepted /\ m \notin Queued /\ m # page.box
  BY <1>1, <1>16, <1>22 DEF CallAlone
<1>24. SentOnce'
  <2> SUFFICES ASSUME NEW r \in 1..Current', NEW s \in 1..Current', r # s,
                      srv'.accepted[r] = srv'.accepted[s]
               PROVE  srv'.accepted[r] \in page.resent
    BY <1>3 DEF SentOnce
  <2>1. \A t \in 1..Current' : t \in 1..Current \/ t = Current + 1
    BY <1>4, <1>7
  <2>2. CASE r \in 1..Current /\ s \in 1..Current
    BY <1>6, <2>2 DEF PageInv, SentOnce
  <2>3. CASE r \in 1..Current /\ s = Current + 1
    BY <1>6, <1>23, <2>3 DEF Accepted
  <2>4. CASE r = Current + 1 /\ s \in 1..Current
    BY <1>6, <1>23, <2>4 DEF Accepted
  <2> QED
    BY <2>1, <2>2, <2>3, <2>4
<1>25. BoxAlone'
  <2> SUFFICES ASSUME page.box # None, page.box \notin page.resent
               PROVE  /\ page.box \notin Queued
                      /\ \/ page.box \notin Accepted'
                         \/ \E q \in Senders : proc'[q].at = "waiting" /\ proc'[q].msg = page.box
    BY <1>3, <1>14 DEF BoxAlone
  <2>1. /\ page.box \notin Queued
        /\ page.box \notin Accepted \/ \E q \in Senders : proc[q].at = "waiting" /\ proc[q].msg = page.box
    BY <1>21 DEF OnePlace, BoxAlone
  <2>2. \A q \in Senders : proc[q].at = "waiting" => proc'[q].at = "waiting" /\ proc'[q].msg = proc[q].msg
    BY <1>1, <1>13
  <2>3. page.box # m
    BY <1>23
  <2> QED
    BY <1>8, <2>1, <2>2, <2>3
<1>26. QueueAlone'
  <2>1. \A k \in DOMAIN page.queue : page.queue[k] \notin page.resent => page.queue[k] # m
    BY <1>23 DEF Queued
  <2> QED
    BY <1>3, <1>8, <1>21, <2>1 DEF OnePlace, QueueAlone
<1>27. CallsAlone'
  <2> SUFFICES ASSUME NEW q \in Senders, Busy(q), proc[q].msg \notin page.resent
               PROVE  CallAlone(q)'
    BY <1>3, <1>13 DEF CallsAlone
  <2>1. CallAlone(q)
    BY <1>21 DEF OnePlace, CallsAlone
  <2>2. proc'[q].msg \notin Queued' /\ proc'[q].msg # page'.drained
    BY <1>3, <1>13, <1>14, <2>1 DEF CallAlone
  <2>3. proc'[q].msg = page'.box => proc'[q].at = "waiting"
    BY <1>1, <1>3, <1>13, <2>1 DEF CallAlone
  <2>4. proc'[q].at # "posting"
    BY <1>13, <1>15
  <2>5. ASSUME proc'[q].epoch = page'.epoch, NEW r \in 1..Current' - 1
        PROVE  srv'.accepted[r] # proc'[q].msg
    <3>1. q = p
      BY <1>1, <1>3, <1>13, <1>15, <2>5 DEF PageInv, Epochs
    <3>2. r \in 1..Current
      BY <1>4, <1>7, <2>5
    <3>3. srv.accepted[r] \in Accepted
      BY <3>2 DEF Accepted
    <3> QED
      BY <1>6, <1>13, <1>16, <1>23, <3>1, <3>2, <3>3
  <2>6. \A o \in Senders : Busy(o)' /\ proc'[o].msg = proc'[q].msg => o = q
    BY <1>13, <2>1 DEF CallAlone
  <2> QED
    BY <2>2, <2>3, <2>4, <2>5, <2>6 DEF CallAlone
<1> QED
  BY <1>17, <1>18, <1>19, <1>20, <1>24, <1>25, <1>26, <1>27 DEF PageInv, OnePlace

\* The box has what no call is busy with, or what is known to be sent again.
FreeBox(pg) ==
    page.box # None /\ page.box \notin pg.resent => \A q \in Senders : Busy(q) => proc[q].msg # page.box

\* The message in the box is queued behind the turn that is loading.
LEMMA EnqueueStep ==
    ASSUME Bounds, PageInv, ~page.late, UNCHANGED <<srv, proc, typed, told, faults>>,
           NEW pg \in PageType, SameTab(page, pg), page.box # None, FreeBox(pg), page' = Enqueue(pg)
    PROVE  PageInv'
<1> DEFINE m == page.box
           q == Append(page.queue, m)
           cuts == pg.live.n > 0
           n == IF cuts THEN pg.flushed + 1 ELSE pg.flushed
           b == pg.cut \/ cuts
<1>1. page \in PageType /\ Typing /\ OnePlace
  BY DEF PageInv, Typing
<1>2. /\ pg.box = m /\ pg.queue = page.queue /\ pg.drained = page.drained
      /\ pg.epoch = page.epoch /\ pg.ctl = page.ctl
      /\ page.resent \subseteq pg.resent /\ page.lost \subseteq pg.lost
  BY DEF SameTab, Stays
<1>3. m \in typed /\ m \in Messages /\ page.queue \in Seq(Messages)
  BY <1>1 DEF PageInv, Known, Typing, PageType, None
<1>4. q \in Seq(Messages) /\ n \in Nat /\ b \in BOOLEAN
  BY <1>3 DEF PageType
<1>5. page' = [pg EXCEPT !.queue = q, !.box = None, !.live = Empty, !.cut = b, !.flushed = n, !.last = Empty]
  BY <1>2 DEF Enqueue
<1>6. /\ DOMAIN q = 1..Len(page.queue) + 1 /\ q[Len(page.queue) + 1] = m
      /\ \A k \in 1..Len(page.queue) : q[k] = page.queue[k]
      /\ DOMAIN page.queue = 1..Len(page.queue) /\ Len(page.queue) \in Nat
  BY <1>3
<1> HIDE DEF q, n, b
<1>7. /\ page' \in PageType /\ page'.queue = q /\ page'.box = None /\ page'.live = Empty
      /\ page'.drained = page.drained /\ page'.epoch = page.epoch /\ page'.ctl = page.ctl
      /\ page'.resent = pg.resent /\ page.resent \subseteq page'.resent /\ page.lost \subseteq page'.lost
  <2>1. Empty \in Texts /\ None \in Messages \cup {None}
    BY TextTypes
  <2>2. page' \in PageType
    <3> DEFINE rg == [pg EXCEPT !.box = None, !.live = Empty, !.last = Empty]
    <3>1. rg \in PageType
      BY <2>1 DEF PageType
    <3>2. page' = [rg EXCEPT !.queue = q, !.cut = b, !.flushed = n]
      BY <1>5 DEF PageType
    <3> HIDE DEF rg
    <3> QED
      BY <1>4, <3>1, <3>2, ZenonT(60) DEF PageType
  <2>3. /\ page'.queue = q /\ page'.box = None /\ page'.live = Empty
        /\ page'.drained = pg.drained /\ page'.epoch = pg.epoch /\ page'.ctl = pg.ctl
        /\ page'.resent = pg.resent /\ page'.lost = pg.lost
    BY <1>5 DEF PageType
  <2> QED
    BY <1>2, <2>2, <2>3
<1>8. \A k \in DOMAIN q : \/ k \in DOMAIN page.queue /\ q[k] = page.queue[k]
                          \/ k = Len(page.queue) + 1 /\ q[k] = m
  <2> DEFINE len == Len(page.queue)
  <2>1. len \in Nat /\ DOMAIN q = 1..len + 1 /\ DOMAIN page.queue = 1..len
    BY <1>6
  <2>2. \A k \in 1..len + 1 : k \in 1..len \/ k = len + 1
    BY <2>1
  <2> QED
    BY <1>6, <2>1, <2>2
<1>9. Queued' = Queued \cup {m}
  <2>1. \A k \in DOMAIN page.queue : k \in DOMAIN q /\ q[k] = page.queue[k]
    BY <1>6
  <2>2. Len(page.queue) + 1 \in DOMAIN q
    BY <1>6
  <2>3. Queued' = {q[k] : k \in DOMAIN q}
    BY <1>7 DEF Queued
  <2>4. m \in Queued' /\ Queued \subseteq Queued'
    BY <1>6, <2>1, <2>2, <2>3 DEF Queued
  <2>5. Queued' \subseteq Queued \cup {m}
    BY <1>8, <2>3 DEF Queued
  <2> QED
    BY <2>4, <2>5
<1>10. Current' = Current /\ Accepted' = Accepted /\ \A p : Busy(p)' = Busy(p)
  BY DEF Current, Accepted, Busy
<1> HIDE DEF m
<1>11. Typing'
  BY <1>1, <1>7, TextTypes DEF Typing
<1>12. Counted' /\ Controlled' /\ Epochs' /\ SentOnce'
  <2>1. Counted'
    BY <1>7, <1>10 DEF PageInv, Counted
  <2>2. Controlled'
    BY <1>7 DEF PageInv, Controlled
  <2>3. Epochs'
    BY <1>7, <1>10 DEF PageInv, Epochs
  <2>4. SentOnce'
    BY <1>7, <1>10 DEF PageInv, SentOnce
  <2> QED
    BY <2>1, <2>2, <2>3, <2>4
<1>13. Known'
  BY <1>3, <1>7, <1>9, <1>10 DEF PageInv, Known
<1>14. Cared'
  <2>1. \A x \in typed : \/ x \in Accepted' \cup told' \cup page'.lost \cup {page'.box} \cup Queued'
                         \/ \E p \in Senders : proc'[p].at \in Carrying /\ proc'[p].msg = x
    BY <1>7, <1>9, <1>10 DEF PageInv, Cared, m
  <2>2. \A p \in Senders : proc'[p].at = "reading" => proc'[p].msg \in Accepted'
    BY <1>10 DEF PageInv, Cared
  <2> QED
    BY <2>1, <2>2 DEF Cared
<1>15. m \notin page.resent => m \notin Queued
  BY <1>1 DEF OnePlace, BoxAlone, m
<1>16. m \notin pg.resent => m \notin Accepted /\ \A p \in Senders : Busy(p) => proc[p].msg # m
  BY <1>1, <1>2 DEF OnePlace, BoxAlone, FreeBox, Busy, m
<1>17. BoxAlone'
  BY <1>7 DEF BoxAlone
<1>18. QueueAlone'
  <2> SUFFICES ASSUME NEW k \in DOMAIN q, q[k] \notin pg.resent
               PROVE  q[k] \notin Accepted /\ \A l \in DOMAIN q : q[l] = q[k] => l = k
    BY <1>7, <1>10 DEF QueueAlone
  <2>1. q[k] \notin page.resent
    BY <1>2
  <2>2. \A l \in DOMAIN page.queue : page.queue[l] \in Queued
    BY DEF Queued
  <2>3. CASE k \in DOMAIN page.queue /\ q[k] = page.queue[k]
    BY <1>1, <1>8, <1>15, <2>1, <2>2, <2>3 DEF OnePlace, QueueAlone
  <2>4. CASE k = Len(page.queue) + 1 /\ q[k] = m
    BY <1>8, <1>15, <1>16, <2>1, <2>2, <2>4
  <2> QED
    BY <1>8, <2>3, <2>4
<1>19. CallsAlone'
  <2> SUFFICES ASSUME NEW p \in Senders, Busy(p), proc[p].msg \notin pg.resent
               PROVE  CallAlone(p)'
    BY <1>7, <1>10 DEF CallsAlone
  <2>1. CallAlone(p) /\ proc[p].msg # m /\ proc[p].msg \in typed
    BY <1>1, <1>2, <1>16 DEF OnePlace, CallsAlone, PageInv, Known
  <2>2. proc[p].msg # None
    BY <1>1, <2>1 DEF Typing, Messages, None
  <2>3. proc'[p].msg \notin Queued' /\ proc'[p].msg # page'.drained /\ proc'[p].msg # page'.box
    BY <1>7, <1>9, <2>1, <2>2 DEF CallAlone
  <2>4. proc'[p].at = "posting" => proc'[p].msg \notin Accepted'
    BY <1>10, <2>1 DEF CallAlone
  <2>5. proc'[p].epoch = page'.epoch => \A r \in 1..Current' - 1 : srv'.accepted[r] # proc'[p].msg
    BY <1>7, <1>10, <2>1 DEF CallAlone
  <2>6. \A o \in Senders : Busy(o)' /\ proc'[o].msg = proc'[p].msg => o = p
    BY <1>10, <2>1 DEF CallAlone
  <2> QED
    BY <2>3, <2>4, <2>5, <2>6 DEF CallAlone
<1> QED
  BY <1>11, <1>12, <1>13, <1>14, <1>17, <1>18, <1>19 DEF PageInv, OnePlace

\* A request with the message in the box begins; one that is under way is aborted.
LEMMA BeginStep ==
    ASSUME Bounds, PageInv, ~page.late, UNCHANGED <<srv, typed, told, faults>>,
           NEW pg \in PageType, SameTab(page, pg), page.box # None, FreeBox(pg),
           NEW p \in Senders, Begin(pg, p)
    PROVE  PageInv'
<1> DEFINE m == page.box
           e == page.epoch + 1
           drained == pg.drained = pg.box
           d == IF drained THEN None ELSE pg.drained
           last == IF drained THEN pg.last ELSE Empty
           t == IF drained THEN 0 ELSE pg.tries
           u == IF drained THEN pg.tries ELSE 0
           rec == [Over EXCEPT !.at = "posting", !.msg = pg.box, !.epoch = pg.epoch + 1,
                               !.drained = drained, !.tries = u]
<1>1. page \in PageType /\ Typing /\ OnePlace /\ Served(srv) /\ p \in Procs /\ Senders \subseteq Procs
  BY DEF PageInv, Typing, Procs
<1>2. /\ pg.box = m /\ pg.queue = page.queue /\ pg.drained = page.drained
      /\ pg.epoch = page.epoch /\ pg.ctl = page.ctl
      /\ page.resent \subseteq pg.resent /\ page.lost \subseteq pg.lost
  BY DEF SameTab, Stays
<1>3. m \in typed /\ m \in Messages /\ m # None /\ page.epoch \in Nat /\ e \in Nat
  BY <1>1, SMTT(30) DEF PageInv, Known, PageType
<1>4. pg.epoch < MaxSends /\ proc[p].at = "over"
  BY DEF Begin
<1>5. e <= MaxSends /\ page.epoch < e
  BY <1>2, <1>3, <1>4 DEF Bounds
<1>6. /\ d \in Messages \cup {None} /\ d # m /\ d \in {None, page.drained}
      /\ last \in Texts /\ t \in 0..3 /\ u \in 0..3 /\ drained \in BOOLEAN
  BY <1>2, <1>3, TextTypes DEF PageType
<1>7. /\ page' = [pg EXCEPT !.loading = TRUE, !.run = 0, !.live = Empty, !.epoch = e, !.ctl = p,
                            !.box = None, !.last = last, !.drained = d, !.tries = t]
      /\ proc' = [Abort(proc) EXCEPT ![p] = rec]
  BY <1>2 DEF Begin
<1>8. /\ rec \in ProcType /\ rec.at = "posting" /\ rec.msg = m /\ rec.epoch = e /\ Ready(rec.text)
  BY <1>2, <1>3, <1>6, TextTypes DEF ProcType, Over
<1> HIDE DEF e, drained, d, last, t, u, rec
<1>9. /\ page' \in PageType /\ page'.queue = page.queue /\ page'.box = None /\ page'.live = Empty
      /\ page'.drained = d /\ page'.epoch = e /\ page'.ctl = p
      /\ page'.resent = pg.resent /\ page.resent \subseteq page'.resent /\ page.lost \subseteq page'.lost
  <2>1. Empty \in Texts /\ None \in Messages \cup {None} /\ 0 \in 0..MaxSends /\ p \in Senders \cup {"none"}
    BY TextTypes DEF Bounds
  <2>2. page' \in PageType
    BY <1>3, <1>6, <1>7, <2>1, ZenonT(60) DEF PageType
  <2>3. /\ page'.queue = pg.queue /\ page'.box = None /\ page'.live = Empty
        /\ page'.drained = d /\ page'.epoch = e /\ page'.ctl = p
        /\ page'.resent = pg.resent /\ page'.lost = pg.lost
    BY <1>7 DEF PageType
  <2> QED
    BY <1>2, <2>2, <2>3
<1>10. /\ proc'[p] = rec /\ \A q \in Procs : q # p => proc'[q] = Abort(proc)[q]
       /\ proc' \in [Procs -> ProcType] /\ \A q \in Procs : Ready(proc'[q].text)
  BY <1>1, <1>7, <1>8, AbortedCalls
<1>11. \A q \in Senders : q # p =>
           /\ Busy(q)' <=> Busy(q)
           /\ proc'[q].msg = proc[q].msg /\ proc'[q].epoch = proc[q].epoch
           /\ \/ proc'[q].at = proc[q].at
              \/ proc[q].at \in {"posting", "reading"} /\ proc'[q].at = "aborted"
           /\ proc'[q].at \notin {"posting", "reading"}
  BY <1>1, <1>10, AbortedCalls DEF Busy
<1>12. Current' = Current /\ Accepted' = Accepted /\ Queued' = Queued
  BY <1>9 DEF Current, Accepted, Queued
<1>13. ~Busy(p)
  BY <1>4 DEF Busy
<1> HIDE DEF m
<1>14. Typing'
  BY <1>1, <1>9, <1>10, TextTypes DEF Typing
<1>15. Counted'
  <2>1. Current \in Nat /\ Current <= page.epoch
    BY <1>1 DEF Served, ServerType, Current, PageInv, Counted
  <2> QED
    BY <1>3, <1>5, <1>9, <1>12, <2>1 DEF Counted, Bounds
<1>16. Controlled'
  BY <1>8, <1>9, <1>10, <1>11 DEF Controlled
<1>17. Epochs'
  <2>1. \A q \in Senders : q # p /\ Busy(q)' => proc'[q].epoch <= page.epoch /\ proc'[q].epoch \in Nat
    BY <1>1, <1>11 DEF PageInv, Epochs, Typing, ProcType
  <2>2. \A q \in Senders : q # p /\ Busy(q)' => proc'[q].epoch # e /\ proc'[q].epoch <= e
    BY <1>3, <1>5, <2>1
  <2>3. proc'[p].epoch = e
    BY <1>8, <1>10
  <2>4. \A q, o \in Senders : Busy(q)' /\ Busy(o)' /\ proc'[q].epoch = proc'[o].epoch => q = o
    <3> SUFFICES ASSUME NEW q \in Senders, NEW o \in Senders, Busy(q)', Busy(o)',
                        proc'[q].epoch = proc'[o].epoch, q # o
                 PROVE  FALSE
      OBVIOUS
    <3>1. CASE q = p \/ o = p
      BY <2>2, <2>3, <3>1
    <3>2. CASE q # p /\ o # p
      BY <1>11, <3>2 DEF PageInv, Epochs
    <3> QED
      BY <3>1, <3>2
  <2> QED
    BY <1>3, <1>9, <2>2, <2>3, <2>4 DEF Epochs
<1>18. Known'
  <2>1. \A q \in Senders : Busy(q)' => proc'[q].msg \in typed
    BY <1>3, <1>8, <1>10, <1>11 DEF PageInv, Known
  <2> QED
    BY <1>6, <1>9, <1>12, <2>1 DEF PageInv, Known
<1>19. Cared'
  <2>1. \A q \in Senders : proc[q].at \in Carrying => proc'[q].at \in Carrying /\ proc'[q].msg = proc[q].msg
    BY <1>4, <1>11 DEF Carrying
  <2>2. proc'[p].at \in Carrying /\ proc'[p].msg = m
    BY <1>8, <1>10 DEF Carrying
  <2>3. \A x \in typed : \/ x \in Accepted' \cup told' \cup page'.lost \cup {page'.box} \cup Queued'
                         \/ \E q \in Senders : proc'[q].at \in Carrying /\ proc'[q].msg = x
    BY <1>9, <1>12, <2>1, <2>2 DEF PageInv, Cared, m
  <2>4. \A q \in Senders : proc'[q].at # "reading"
    BY <1>8, <1>10, <1>11
  <2> QED
    BY <2>3, <2>4 DEF Cared
<1>20. SentOnce'
  BY <1>9, <1>12 DEF PageInv, SentOnce
<1>21. m \notin pg.resent => /\ m \notin Queued /\ m \notin Accepted
                             /\ \A q \in Senders : Busy(q) => proc[q].msg # m
  BY <1>1, <1>2 DEF OnePlace, BoxAlone, FreeBox, Busy, m
<1>22. BoxAlone' /\ QueueAlone'
  <2>1. BoxAlone'
    BY <1>9 DEF BoxAlone
  <2>2. QueueAlone'
    BY <1>1, <1>9, <1>12 DEF OnePlace, QueueAlone
  <2> QED
    BY <2>1, <2>2
<1>23. m \notin pg.resent => CallAlone(p)'
  <2> SUFFICES ASSUME m \notin pg.resent PROVE CallAlone(p)'
    OBVIOUS
  <2>1. proc'[p].msg = m
    BY <1>8, <1>10
  <2>2. m \notin Queued' /\ m \notin Accepted' /\ m # page'.drained /\ m # page'.box
    BY <1>3, <1>6, <1>9, <1>12, <1>21
  <2>3. \A r \in 1..Current - 1 : srv.accepted[r] \in Accepted
    BY <1>1 DEF Accepted, Served, ServerType, Current
  <2>4. \A o \in Senders : Busy(o)' /\ proc'[o].msg = m => o = p
    BY <1>11, <1>21
  <2> QED
    BY <1>12, <2>1, <2>2, <2>3, <2>4 DEF CallAlone
<1>24. CallsAlone'
  <2> SUFFICES ASSUME NEW q \in Senders, q # p, Busy(q)', proc'[q].msg \notin pg.resent
               PROVE  CallAlone(q)'
    BY <1>8, <1>9, <1>10, <1>23 DEF CallsAlone
  <2>1. CallAlone(q) /\ Busy(q) /\ proc[q].msg \in typed
    BY <1>1, <1>2, <1>11 DEF OnePlace, CallsAlone, PageInv, Known
  <2>2. proc'[q].msg = proc[q].msg /\ proc[q].msg # None
    BY <1>1, <1>11, <2>1 DEF Typing, Messages, None
  <2>3. proc[q].msg # m
    BY <1>11, <1>21, <2>1
  <2>4. proc'[q].msg \notin Queued' /\ proc'[q].msg # page'.drained /\ proc'[q].msg # page'.box
    BY <1>6, <1>9, <1>12, <2>1, <2>2 DEF CallAlone
  <2>5. proc'[q].at # "posting"
    BY <1>11
  <2>6. proc'[q].epoch # page'.epoch
    <3>1. proc[q].epoch <= page.epoch /\ proc[q].epoch \in Nat
      BY <1>1, <2>1 DEF PageInv, Epochs, Typing, ProcType
    <3> QED
      BY <1>3, <1>5, <1>9, <1>11, <3>1
  <2>7. \A o \in Senders : Busy(o)' /\ proc'[o].msg = proc'[q].msg => o = q
    BY <1>8, <1>10, <1>11, <2>1, <2>2, <2>3 DEF CallAlone
  <2> QED
    BY <2>4, <2>5, <2>6, <2>7 DEF CallAlone
<1> QED
  BY <1>14, <1>15, <1>16, <1>17, <1>18, <1>19, <1>20, <1>22, <1>24 DEF PageInv, OnePlace

\* A call of send(), with a tab that differs in nothing it is about but what was sent again.
LEMMA SendStep ==
    ASSUME Bounds, PageInv, ~page.late, UNCHANGED <<srv, typed, told, faults>>,
           NEW pg \in PageType, SameTab(page, pg), pg.live = page.live, FreeBox(pg), Send(pg)
    PROVE  PageInv'
<1>1. pg.box = page.box /\ Ready(page.live) /\ faults \in 0..MaxFaults
  BY DEF SameTab, PageInv, Typing
<1>2. CASE pg.box = None \/ ~pg.active
  <2>1. page' = pg /\ UNCHANGED proc
    BY <1>2 DEF Send
  <2> QED
    BY <1>1, <2>1, TabStep DEF MovedTab
<1>3. CASE ~(pg.box = None \/ ~pg.active) /\ pg.loading
  <2>1. page' = Enqueue(pg) /\ UNCHANGED proc
    BY <1>3 DEF Send
  <2> QED
    BY <1>1, <1>3, <2>1, EnqueueStep
<1>4. CASE ~(pg.box = None \/ ~pg.active) /\ ~pg.loading
  <2>1. PICK p \in Senders : Begin(pg, p)
    BY <1>4 DEF Send
  <2> QED
    BY <1>1, <1>4, <2>1, BeginStep
<1> QED
  BY <1>2, <1>3, <1>4

LEMMA SubmitStep ==
    ASSUME Bounds, PageInv, ~page.late, Submit
    PROVE  PageInv'
<1> DEFINE waits == \E p \in Senders : proc[p].at = "waiting"
           s == IF waits THEN page.resent \cup {page.box} ELSE page.resent
           pg == [page EXCEPT !.resent = s]
<1>1. page \in PageType /\ OnePlace
  BY DEF PageInv, Typing
<1>2. s \subseteq Messages \cup {None} /\ page.resent \subseteq s
  BY <1>1 DEF PageType
<1>3. Send(pg) /\ UNCHANGED <<srv, typed, told, faults>>
  BY DEF Submit
<1>4. FreeBox([page EXCEPT !.resent = s])
  <2> SUFFICES ASSUME page.box \notin s, NEW q \in Senders, Busy(q), proc[q].msg = page.box
               PROVE  FALSE
    BY <1>1 DEF FreeBox, PageType
  <2>1. page.box \notin page.resent /\ ~waits
    OBVIOUS
  <2> QED
    BY <1>1, <2>1 DEF OnePlace, CallsAlone, CallAlone
<1> HIDE DEF s
<1>5. pg \in PageType /\ SameTab(page, pg) /\ pg.live = page.live
  BY <1>1, <1>2 DEF PageType, SameTab, Stays
<1> QED
  BY <1>3, <1>4, <1>5, SendStep

LEMMA TimerSendStep ==
    ASSUME Bounds, PageInv, ~page.late, TimerSend
    PROVE  PageInv'
<1> DEFINE n == page.sends - 1
           s == IF page.box = page.drained THEN page.resent ELSE page.resent \cup {page.box}
           pg == [page EXCEPT !.sends = n, !.resent = s]
<1>1. page \in PageType /\ OnePlace
  BY DEF PageInv, Typing
<1>2. n \in Nat /\ s \subseteq Messages \cup {None} /\ page.resent \subseteq s
  BY <1>1 DEF PageType, TimerSend
<1>3. Send(pg) /\ UNCHANGED <<srv, typed, told, faults>>
  BY DEF TimerSend
<1>4. page.box \notin s => \A q \in Senders : Busy(q) => proc[q].msg # page.box
  BY <1>1 DEF OnePlace, CallsAlone, CallAlone
<1> HIDE DEF s, n
<1>5. pg \in PageType /\ SameTab(page, pg) /\ pg.live = page.live /\ pg.resent = s
  BY <1>1, <1>2 DEF PageType, SameTab, Stays
<1>6. FreeBox(pg)
  BY <1>4, <1>5 DEF FreeBox
<1> QED
  BY <1>3, <1>5, <1>6, SendStep

-----------------------------------------------------------------------------
(* The invariant and what it says *)

LEMMA PageInit == ASSUME Bounds, Init PROVE PageInv
<1>1. /\ srv.accepted = <<>> /\ page.queue = <<>> /\ page.box = None /\ page.drained = None
      /\ page.epoch = 0 /\ \A p \in Procs : proc[p] = Over
  BY DEF Init
<1>2. /\ Current = 0 /\ \A p \in Senders : ~Busy(p) /\ proc[p].at = "over"
  BY <1>1 DEF Current, Busy, Over, Procs
<1>3. Accepted = {} /\ Queued = {}
  BY <1>1, <1>2 DEF Accepted, Queued
<1>4. Served(srv)
  <2>1. srv \in ServerType
    BY DEF Init, ServerType
  <2>2. srv.emitted = {} /\ srv.history = {} /\ srv.stopped = {} /\ srv.at = "none" /\ Len(srv.accepted) = 0
    BY DEF Init
  <2> QED
    BY <2>1, <2>2 DEF Served, Bounds
<1>5. page \in PageType /\ Ready(page.live)
  <2>1. /\ Empty \in Texts /\ Ready(Empty) /\ [r \in Runs |-> 0] \in [Runs -> Nat]
        /\ 0 \in 0..MaxSends /\ 0 \in 0..(2 * MaxSends) /\ <<>> \in Seq(Messages)
    BY TextTypes DEF Bounds
  <2>2. page.live = Empty
    BY DEF Init
  <2> HIDE DEF Runs
  <2> QED
    BY <2>1, <2>2 DEF Init, PageType
<1>6. Typing
  BY <1>1, <1>4, <1>5, TextTypes DEF Init, Typing, Bounds, Procs
<1>7. Counted /\ Controlled /\ Known /\ Epochs /\ Cared
  <2>1. \A p \in Senders : proc[p].at = "over"
    BY <1>2
  <2>2. typed = {}
    BY DEF Init
  <2> QED
    BY <1>1, <1>2, <1>3, <2>1, <2>2 DEF Counted, Controlled, Known, Epochs, Cared, Bounds
<1>8. SentOnce
  BY <1>2 DEF SentOnce
<1>9. OnePlace
  BY <1>1, <1>2 DEF OnePlace, BoxAlone, QueueAlone, CallsAlone
<1> QED
  BY <1>6, <1>7, <1>8, <1>9 DEF PageInv

LEMMA PageStutter == ASSUME PageInv, UNCHANGED vars PROVE PageInv'
<1>1. /\ page' = page /\ srv' = srv /\ proc' = proc /\ typed' = typed /\ told' = told /\ faults' = faults
  BY DEF vars
<1>2. Current' = Current /\ Accepted' = Accepted /\ Queued' = Queued /\ \A p : Busy(p)' = Busy(p)
  BY <1>1 DEF Current, Accepted, Queued, Busy
<1>3. Typing' /\ Counted' /\ Controlled' /\ Known' /\ Epochs' /\ Cared' /\ SentOnce'
  BY <1>1, <1>2 DEF PageInv, Typing, Counted, Controlled, Known, Epochs, Cared, SentOnce
<1>4. OnePlace => BoxAlone' /\ QueueAlone' /\ CallsAlone'
  BY <1>1, <1>2 DEF OnePlace, BoxAlone, QueueAlone, CallsAlone, CallAlone
<1> QED
  BY <1>1, <1>3, <1>4 DEF PageInv, OnePlace

LEMMA PageStep == ASSUME Bounds, PageInv, [Next]_vars PROVE PageInv'
<1>1. CASE Next
  <2>1. ~page.late
    BY <1>1 DEF Next
  <2>2. CASE \E m \in Messages : Type(m)
    BY <2>1, <2>2, TypeStep
  <2>3. CASE Submit \/ Stop \/ Switch \/ SwitchBack
    BY <2>1, <2>3, SubmitStep, StopStep, TabSteps
  <2>4. ASSUME NEW p \in Senders,
               PostArrives(p) \/ PostBusy(p) \/ PostFails(p) \/ Aborted(p) \/ Breaks(p) \/ Ask(p) \/ Waited(p)
        PROVE  PageInv'
    BY <2>1, <2>4, PostArrivesStep, PostBusyStep, PostFailsStep, AbortedStep, BreaksStep, AskStep, WaitedStep
  <2>5. ASSUME NEW p \in Procs, Read(p) \/ ResumeBreaks(p) \/ ResumeEnds(p) \/ Status(p)
        PROVE  PageInv'
    BY <2>1, <2>5, ReadStep, ResumeBreaksStep, ResumeEndsStep, StatusStep
  <2>6. CASE TimerSend \/ TimerDrain \/ Loop \/ Watchdog
    BY <2>1, <2>6, TimerSendStep, TabSteps, LoopStep
  <2>7. CASE Emit \/ Save \/ Finish \/ CancelArrives \/ Crash \/ Restart
    BY <2>1, <2>7, ServerStep
  <2> QED
    BY <1>1, <2>2, <2>3, <2>4, <2>5, <2>6, <2>7 DEF Next
<1>2. CASE UNCHANGED vars
  BY <1>2, PageStutter
<1> QED
  BY <1>1, <1>2

LEMMA PageAlways == ASSUME Bounds PROVE Spec => []PageInv
<1>1. Init => PageInv
  BY PageInit
<1>2. PageInv /\ [Next]_vars => PageInv'
  BY PageStep
<1> QED
  BY <1>1, <1>2, PTL DEF Spec

\* The tab, its functions and the server keep their types, whatever breaks: the run that a
\* whole answer names exists, so its count of showings does.
THEOREM PageTyped == ASSUME Bounds PROVE Spec => []TypeOK
<1>1. PageInv => TypeOK
  BY TypingType DEF PageInv
<1> QED
  BY <1>1, PageAlways, PTL

\* The server gets a message once, unless the user or a timer sends again what the page had
\* put back in the box, through queue, drain, retry, resume, wait and reload (send and
\* processQueue of the page).
THEOREM SentOnceHolds == ASSUME Bounds PROVE Spec => []SentOnce
<1>1. PageInv => SentOnce
  BY DEF PageInv
<1> QED
  BY <1>1, PageAlways, PTL

\* When nothing is under way, every message typed is with the server, queued, in the box,
\* was told of as failed, or is one of those lost with nobody told that the model names.
THEOREM NothingLostHolds == ASSUME Bounds PROVE Spec => []NothingLost
<1>1. PageInv => NothingLost
  <2> SUFFICES ASSUME Cared, Quiet, NEW m \in typed
               PROVE  \/ m \in Accepted \cup told \cup page.lost \cup {page.box}
                      \/ m \in Queued
    BY DEF PageInv, NothingLost, Accepted, Queued
  <2>1. \A p \in Senders : proc[p].at \notin Carrying
    BY DEF Quiet, Carrying, Procs
  <2> QED
    BY <2>1 DEF Cared
<1> QED
  BY <1>1, PageAlways, PTL
=============================================================================
