-------------------------- MODULE Delegation_proofs --------------------------
(***************************************************************************)
(* Theorems about Delegation, for every number of tasks, slots and         *)
(* crashes.                                                                *)
(***************************************************************************)
EXTENDS Delegation, WellFoundedInduction, TLAPS

Row == [status : Statuses, result : Entry \cup {NoEntry}]
Thread == [pc : {"new", "scan", "verify", "clear", "post", "join", "accepted", "refused", "done"},
           at : 1 .. NumSlots + 1, found : Tasks \cup {0}]
Run == [pc : {"none", "starting", "running", "tail", "over", "refused"},
        given : SUBSET Tasks, killed : BOOLEAN]
SessionEntry == [run : Tasks \cup {0}, running : BOOLEAN]
Check == [task : Tasks \cup {0}, status : Statuses, result : Entry \cup {NoEntry},
          found : Entry \cup {NoEntry}]
Monitor == [todo : SUBSET Tasks, old : [Tasks -> Statuses], held : BOOLEAN,
            waits : Tasks \cup {0}]
Server == [wake : SUBSET Tasks, telling : Tasks \cup {0}, crashes : 0 .. MaxCrashes,
           untold : SUBSET Tasks]

-----------------------------------------------------------------------------
(* The helpers *)

LEMMA LeastTask ==
    ASSUME NEW S \in SUBSET Nat, S # {}
    PROVE  Min(S) \in S
<1> DEFINE R == OpToRel(<, Nat)
<1>1. IsWellFoundedOn(R, Nat)
  BY NatLessThanWellFounded
<1>2. \A x, y \in Nat : y < x => <<y, x>> \in R
  BY DEF OpToRel
<1> HIDE DEF R
<1>3. PICK x \in S : \A y \in S : ~(<<y, x>> \in R)
  BY <1>1, WFMin
<1>4. x \in Nat /\ \A y \in S : y \in Nat /\ ~(y < x)
  BY <1>2, <1>3
<1>5. \A y \in S : x <= y
  BY <1>4
<1> QED
  BY <1>5 DEF Min

LEMMA GreatestTask ==
    ASSUME NEW N \in Nat, NEW S \in SUBSET (1 .. N), S # {}
    PROVE  Max(S) \in S /\ \A y \in S : Max(S) >= y
<1> DEFINE C == {N - x : x \in S}
<1>1. C \in SUBSET Nat /\ C # {}
  <2>1. \A x \in S : N - x \in Nat
    OBVIOUS
  <2>2. PICK x \in S : TRUE
    OBVIOUS
  <2> QED
    BY <2>1, <2>2
<1>2. \E c \in C : \A d \in C : c <= d
  <2> DEFINE R == OpToRel(<, Nat)
  <2>1. IsWellFoundedOn(R, Nat)
    BY NatLessThanWellFounded
  <2>2. \A x, y \in Nat : y < x => <<y, x>> \in R
    BY DEF OpToRel
  <2> HIDE DEF R, C
  <2>3. PICK x \in C : \A y \in C : ~(<<y, x>> \in R)
    BY <1>1, <2>1, WFMin
  <2>4. x \in Nat /\ \A y \in C : y \in Nat /\ ~(y < x)
    BY <1>1, <2>2, <2>3
  <2> QED
    BY <2>4
<1>3. PICK c \in C : \A d \in C : c <= d
  BY <1>2
<1>4. PICK x \in S : c = N - x
  BY <1>3
<1>5. \A y \in S : x >= y
  <2> SUFFICES ASSUME NEW y \in S PROVE x >= y
    OBVIOUS
  <2>1. N - x <= N - y
    BY <1>3, <1>4
  <2> QED
    BY <2>1
<1> QED
  BY <1>5 DEF Max

\* The in-flight task of a slot is one of its in-flight tasks.
LEMMA FoundInflight ==
    ASSUME NEW s
    PROVE  /\ FindInflight(s) \in InFlightOn(s) \cup {0}
           /\ FindInflight(s) = 0 => InFlightOn(s) = {}
           /\ 0 \notin Tasks /\ InFlightOn(s) \subseteq Tasks
<1>1. NumTasks \in Nat
  BY DelegationAssumption
<1>2. InFlightOn(s) \in SUBSET (1 .. NumTasks) /\ 0 \notin 1 .. NumTasks
  BY <1>1 DEF InFlightOn, Tasks
<1>3. InFlightOn(s) # {} => Max(InFlightOn(s)) \in InFlightOn(s)
  BY <1>1, <1>2, GreatestTask
<1> QED
  BY <1>2, <1>3 DEF FindInflight, Tasks

LEMMA LeastListed ==
    ASSUME NEW S \in SUBSET Tasks, S # {}
    PROVE  Min(S) \in S /\ Min(S) \in Tasks
<1>1. S \in SUBSET Nat
  BY DelegationAssumption DEF Tasks
<1> QED
  BY <1>1, LeastTask

LEMMA NoEntryIsNone == NoEntry \notin Entry /\ 0 \notin Tasks
BY DelegationAssumption DEF NoEntry, Entry, Tasks

\* A response is a reply of the history, or there is none.
LEMMA ExtractedReply ==
    ASSUME NEW t, NEW h \in Seq(Entry)
    PROVE  /\ ExtractResponse(t, h) \in Entry \cup {NoEntry}
           /\ h = <<>> => ExtractResponse(t, h) = NoEntry
           /\ h # <<>> => \E i \in DOMAIN h : ExtractResponse(t, h) = h[i]
<1> DEFINE anchors == {i \in DOMAIN h : h[i].prompt = t}
           marked == {i \in DOMAIN h : i >= Max(anchors) /\ t \in h[i].marks}
<1>1. Len(h) \in Nat /\ DOMAIN h = 1 .. Len(h) /\ \A i \in DOMAIN h : h[i] \in Entry
  OBVIOUS
<1>2. h # <<>> => Len(h) \in DOMAIN h
  OBVIOUS
<1>3. marked \in SUBSET (1 .. Len(h))
  BY <1>1
<1>4. marked # {} => Max(marked) \in DOMAIN h
  BY <1>1, <1>3, GreatestTask
<1>5. ExtractResponse(t, h) = IF h = <<>> THEN NoEntry
                              ELSE IF anchors # {} /\ marked # {} THEN h[Max(marked)]
                              ELSE h[Len(h)]
  BY DEF ExtractResponse
<1> HIDE DEF anchors, marked
<1> QED
  BY <1>1, <1>2, <1>4, <1>5

LEMMA PcChanged ==
    ASSUME thread \in [Tasks -> Thread], NEW t \in Tasks, NEW pc \in
             {"new", "scan", "verify", "clear", "post", "join", "accepted", "refused", "done"},
           Goto(t, pc)
    PROVE  /\ thread' \in [Tasks -> Thread]
           /\ thread'[t].pc = pc /\ thread'[t].found = thread[t].found
           /\ thread'[t].at = thread[t].at
           /\ \A u \in Tasks \ {t} : thread'[u] = thread[u]
<1> DEFINE new == [thread[t] EXCEPT !.pc = pc]
<1>1. /\ new \in Thread /\ new.pc = pc /\ new.found = thread[t].found /\ new.at = thread[t].at
  BY DEF Thread
<1>2. thread' = [thread EXCEPT ![t] = new]
  BY DEF Goto
<1> HIDE DEF new
<1> QED
  BY <1>1, <1>2

LEMMA StatusChanged ==
    ASSUME row \in [Tasks -> Row], NEW t \in Tasks, NEW st \in Statuses
    PROVE  /\ WithStatus(t, st) \in [Tasks -> Row]
           /\ WithStatus(t, st)[t].status = st
           /\ WithStatus(t, st)[t].result = row[t].result
           /\ \A u \in Tasks \ {t} : WithStatus(t, st)[u] = row[u]
<1> DEFINE new == [row[t] EXCEPT !.status = st]
<1>1. new \in Row /\ new.status = st /\ new.result = row[t].result
  BY DEF Row
<1>2. WithStatus(t, st) = [row EXCEPT ![t] = new]
  BY DEF WithStatus
<1> HIDE DEF new
<1> QED
  BY <1>1, <1>2

-----------------------------------------------------------------------------
(* Types.  Whoever works on a task has a slot for it.                      *)

Touched(t) ==
    \/ thread[t].pc \in {"clear", "post", "join", "accepted", "refused"}
    \/ Status(t) # "none"
    \/ sender[t] # "idle"
    \/ run[t].pc # "none"
    \/ t \in cleaning \cup mon.todo \cup server.wake \cup {server.telling}
    \/ \E c \in Checkers : check[c].task = t
    \/ \E u \in Tasks : thread[u].found = t

Slotted ==
    \A t \in Tasks : /\ Touched(t) => slot[t] \in Slots
                     /\ thread[t].pc = "verify" => thread[t].at \in Slots

TypeInv == TypeOK /\ Slotted

LEMMA Typed ==
    TypeOK <=> /\ row \in [Tasks -> Row]
               /\ slot \in [Tasks -> Slots \cup {0}]
               /\ age \in [Tasks -> Ages]
               /\ thread \in [Tasks -> Thread]
               /\ sender \in [Tasks -> {"idle", "posting", "ok", "failed", "loaded", "over"}]
               /\ hist \in [Slots -> Seq(Entry)]
               /\ run \in [Tasks -> Run]
               /\ entry \in [Slots -> SessionEntry]
               /\ pooled \subseteq Slots
               /\ log \subseteq Tasks
               /\ check \in [Checkers -> Check]
               /\ mon \in Monitor
               /\ told \subseteq Tasks
               /\ cleaning \subseteq Tasks
               /\ server \in Server
BY DEF TypeOK, Row, Thread, Run, SessionEntry, Check, Monitor, Server

LEMMA TypedNext ==
    ASSUME row' \in [Tasks -> Row],
           slot' \in [Tasks -> Slots \cup {0}],
           age' \in [Tasks -> Ages],
           thread' \in [Tasks -> Thread],
           sender' \in [Tasks -> {"idle", "posting", "ok", "failed", "loaded", "over"}],
           hist' \in [Slots -> Seq(Entry)],
           run' \in [Tasks -> Run],
           entry' \in [Slots -> SessionEntry],
           pooled' \subseteq Slots,
           log' \subseteq Tasks,
           check' \in [Checkers -> Check],
           mon' \in Monitor,
           told' \subseteq Tasks,
           cleaning' \subseteq Tasks,
           server' \in Server
    PROVE  TypeOK'
BY DEF TypeOK, Row, Thread, Run, SessionEntry, Check, Monitor, Server

\* The ways to be touched in the next state, one by one.
LEMMA TouchedNext ==
    ASSUME NEW u \in Tasks,
           thread'[u].pc \in {"clear", "post", "join", "accepted", "refused"}
               => Touched(u) \/ slot'[u] \in Slots,
           row'[u].status # "none" => Touched(u) \/ slot'[u] \in Slots,
           sender'[u] # "idle" => Touched(u) \/ slot'[u] \in Slots,
           run'[u].pc # "none" => Touched(u) \/ slot'[u] \in Slots,
           u \in cleaning' \cup mon'.todo \cup server'.wake \cup {server'.telling}
               => Touched(u) \/ slot'[u] \in Slots,
           \A c \in Checkers : check'[c].task = u => Touched(u) \/ slot'[u] \in Slots,
           \A v \in Tasks : thread'[v].found = u => Touched(u) \/ slot'[u] \in Slots
    PROVE  Touched(u)' => Touched(u) \/ slot'[u] \in Slots
BY DEF Touched, Status

LEMMA TouchedNow ==
    ASSUME NEW u \in Tasks
    PROVE  /\ thread[u].pc \in {"clear", "post", "join", "accepted", "refused"} => Touched(u)
           /\ row[u].status # "none" => Touched(u)
           /\ sender[u] # "idle" => Touched(u)
           /\ run[u].pc # "none" => Touched(u)
           /\ u \in cleaning \cup mon.todo \cup server.wake \cup {server.telling} => Touched(u)
           /\ \A c \in Checkers : check[c].task = u => Touched(u)
           /\ \A v \in Tasks : thread[v].found = u => Touched(u)
BY DEF Touched, Status

LEMMA SlottedNext ==
    ASSUME Slotted,
           \A t \in Tasks : slot[t] \in Slots => slot'[t] \in Slots,
           \A t \in Tasks : Touched(t)' => Touched(t) \/ slot'[t] \in Slots,
           \A t \in Tasks : thread'[t].pc = "verify" =>
                thread'[t].at \in Slots \/ (thread[t].pc = "verify" /\ thread'[t].at = thread[t].at)
    PROVE  Slotted'
BY DEF Slotted

LEMMA FoundSlotted ==
    ASSUME TypeInv, NEW s \in Slots
    PROVE  \A t \in InFlightOn(s) : Touched(t) /\ t \in Tasks
BY DEF InFlightOn, InFlight, Touched, Tasks

LEMMA ThreadTypes ==
    ASSUME TypeInv, NEW t \in Tasks,
           Delegate(t) \/ Clear(t) \/ Dispatch(t) \/ Join(t) \/ SaveTask(t)
    PROVE  TypeInv'
<1> USE Typed DEF TypeInv
<1> DEFINE Kept == UNCHANGED <<slot, age, run, entry, pooled, log, check, mon, told, cleaning,
                               server>>
<1>1. /\ Kept
      /\ thread' \in [Tasks -> Thread] /\ thread'[t].pc # "verify"
      /\ thread'[t].found = thread[t].found /\ \A u \in Tasks \ {t} : thread'[u] = thread[u]
      /\ row' \in [Tasks -> Row] /\ \A u \in Tasks \ {t} : row'[u] = row[u]
      /\ sender' \in [Tasks -> {"idle", "posting", "ok", "failed", "loaded", "over"}]
      /\ \A u \in Tasks \ {t} : sender'[u] = sender[u]
      /\ hist' \in [Slots -> Seq(Entry)]
      /\ thread[t].pc # "new" => slot[t] \in Slots
      /\ thread[t].pc = "new" => thread'[t].pc = "scan" /\ row' = row /\ sender' = sender
  <2>1. CASE Delegate(t)
    BY <2>1, PcChanged DEF Delegate, ThreadAt
  <2>2. CASE Clear(t)
    <3>1. /\ thread' \in [Tasks -> Thread] /\ thread'[t].pc \in {"post", "done"}
          /\ thread'[t].found = thread[t].found /\ \A u \in Tasks \ {t} : thread'[u] = thread[u]
      BY <2>2, PcChanged DEF Clear
    <3>2. "dispatch_failed" \in Statuses
      BY DEF Statuses
    <3>3. row' \in [Tasks -> Row] /\ \A u \in Tasks \ {t} : row'[u] = row[u]
      BY <2>2, <3>2, StatusChanged DEF Clear
    <3>. <<>> \in Seq(Entry)
      OBVIOUS
    <3>4. hist' \in [Slots -> Seq(Entry)]
      BY <2>2 DEF Clear
    <3>5. thread[t].pc = "clear" /\ Touched(t)
      BY <2>2 DEF Clear, ThreadAt, Touched
    <3> QED
      BY <2>2, <3>1, <3>3, <3>4, <3>5 DEF Clear, Slotted
  <2>3. CASE Dispatch(t)
    <3>1. /\ thread' \in [Tasks -> Thread] /\ thread'[t].pc = "join"
          /\ thread'[t].found = thread[t].found /\ \A u \in Tasks \ {t} : thread'[u] = thread[u]
      BY <2>3, PcChanged DEF Dispatch
    <3>2. thread[t].pc = "post" /\ Touched(t)
      BY <2>3 DEF Dispatch, ThreadAt, Touched
    <3> QED
      BY <2>3, <3>1, <3>2 DEF Dispatch, Slotted
  <2>4. CASE Join(t)
    <3>1. /\ thread' \in [Tasks -> Thread] /\ thread'[t].pc \in {"accepted", "refused"}
          /\ thread'[t].found = thread[t].found /\ \A u \in Tasks \ {t} : thread'[u] = thread[u]
      BY <2>4, PcChanged DEF Join
    <3>2. thread[t].pc = "join" /\ Touched(t)
      BY <2>4 DEF Join, ThreadAt, Touched
    <3> QED
      BY <2>4, <3>1, <3>2 DEF Join, Slotted
  <2>5. CASE SaveTask(t)
    <3>1. /\ thread' \in [Tasks -> Thread] /\ thread'[t].pc = "done"
          /\ thread'[t].found = thread[t].found /\ \A u \in Tasks \ {t} : thread'[u] = thread[u]
      BY <2>5, PcChanged DEF SaveTask
    <3>2. "dispatch_failed" \in Statuses /\ "dispatched" \in Statuses
      BY DEF Statuses, InFlight
    <3>3. row' \in [Tasks -> Row] /\ \A u \in Tasks \ {t} : row'[u] = row[u]
      BY <2>5, <3>2, StatusChanged DEF SaveTask
    <3>4. thread[t].pc \in {"accepted", "refused"} /\ Touched(t)
      BY <2>5 DEF SaveTask, Touched
    <3> QED
      BY <2>5, <3>1, <3>3, <3>4 DEF SaveTask, Slotted
  <2> QED
    BY <2>1, <2>2, <2>3, <2>4, <2>5
<1>2. TypeOK'
  BY <1>1, TypedNext
<1>3. \A u \in Tasks : Touched(u)' => Touched(u) \/ slot'[u] \in Slots
  <2> SUFFICES ASSUME NEW u \in Tasks PROVE Touched(u)' => Touched(u) \/ slot'[u] \in Slots
    OBVIOUS
  <2> HIDE DEF Touched
  <2>1. \A v \in Tasks : thread'[v].found = thread[v].found
    BY <1>1
  <2>2. u # t => /\ thread'[u] = thread[u] /\ row'[u] = row[u]
                 /\ sender'[u] = sender[u] /\ run'[u] = run[u]
    BY <1>1
  <2>3. UNCHANGED <<cleaning, mon, server, check, slot, run>>
    BY <1>1
  <2>4. thread[t].pc = "new" => thread'[t].pc = "scan" /\ row' = row /\ sender' = sender
    BY <1>1
  <2>5. thread[t].pc # "new" => slot'[t] \in Slots
    BY <1>1
  <2>6. CASE u # t \/ thread[t].pc = "new"
    BY <2>1, <2>2, <2>3, <2>4, <2>6, TouchedNow, TouchedNext
  <2>7. CASE u = t /\ thread[t].pc # "new"
    BY <2>5, <2>7
  <2> QED
    BY <2>6, <2>7
<1>4. Slotted'
  BY <1>1, <1>3, SlottedNext
<1> QED
  BY <1>2, <1>4

LEMMA ScanTypes ==
    ASSUME TypeInv, NEW t \in Tasks, Scan(t)
    PROVE  TypeInv'
<1> USE Typed DEF TypeInv
<1> DEFINE s == thread[t].at
           found == IF s \in Slots THEN FindInflight(s) ELSE 0
<1>1. UNCHANGED <<row, age, sender, hist, run, entry, pooled, log, check, mon, told, cleaning,
                  server>>
  BY DEF Scan
<1>2. 1 \in Slots /\ Slots \subseteq Nat /\ Slots = 1 .. NumSlots /\ NumSlots \in Nat
  BY DelegationAssumption DEF Slots
<1>3. found # 0 => s \in Slots /\ found \in Tasks /\ Touched(found)
  BY FoundInflight, FoundSlotted
<1>4. \/ s \in Slots /\ slot' = [slot EXCEPT ![t] = s] /\ Goto(t, "clear")
      \/ /\ found # 0 /\ slot' = slot
         /\ \/ thread' = [thread EXCEPT ![t].pc = "verify", ![t].found = found]
            \/ thread' = [thread EXCEPT ![t].at = s + 1]
      \/ Goto(t, "done") /\ slot' = slot
      \/ slot' = [slot EXCEPT ![t] = 1] /\ Goto(t, "clear")
  BY DEF Scan
<1>5. thread[t].pc = "scan" /\ s \in 1 .. NumSlots + 1
  BY DEF Scan, ThreadAt, Thread
<1> HIDE DEF found
<1>6. /\ thread' \in [Tasks -> Thread]
      /\ \A u \in Tasks \ {t} : thread'[u] = thread[u]
      /\ slot' \in [Tasks -> Slots \cup {0}]
      /\ \A u \in Tasks : slot[u] \in Slots => slot'[u] \in Slots
      /\ thread'[t].pc \in {"clear", "verify", "scan", "done"}
      /\ thread'[t].pc = "clear" => slot'[t] \in Slots
      /\ thread'[t].pc = "verify" => thread'[t].at \in Slots
      /\ thread'[t].found = thread[t].found
         \/ (thread'[t].found = found /\ found \in Tasks /\ Touched(found))
  <2>1. CASE s \in Slots /\ slot' = [slot EXCEPT ![t] = s] /\ Goto(t, "clear")
    BY <2>1, PcChanged
  <2>2. CASE Goto(t, "done") /\ slot' = slot
    BY <2>2, PcChanged
  <2>3. CASE slot' = [slot EXCEPT ![t] = 1] /\ Goto(t, "clear")
    BY <1>2, <2>3, PcChanged
  <2>4. CASE found # 0 /\ slot' = slot
             /\ thread' = [thread EXCEPT ![t].pc = "verify", ![t].found = found]
    <3> DEFINE new == [thread[t] EXCEPT !.pc = "verify", !.found = found]
    <3>1. new \in Thread /\ new.pc = "verify" /\ new.found = found /\ new.at = s
      BY <1>3, <2>4 DEF Thread
    <3>2. thread' = [thread EXCEPT ![t] = new]
      BY <2>4
    <3> HIDE DEF new
    <3> QED
      BY ZenonT(30), <1>3, <2>4, <3>1, <3>2
  <2>5. CASE found # 0 /\ slot' = slot /\ thread' = [thread EXCEPT ![t].at = s + 1]
    <3> DEFINE new == [thread[t] EXCEPT !.at = s + 1]
    <3>0. s + 1 \in 1 .. NumSlots + 1
      BY <1>2, <1>3, <2>5
    <3>1. new \in Thread /\ new.pc = "scan" /\ new.found = thread[t].found
      BY <1>5, <3>0 DEF Thread
    <3>2. thread' = [thread EXCEPT ![t] = new]
      BY <2>5
    <3> HIDE DEF new
    <3> QED
      BY <2>5, <3>1, <3>2
  <2> QED
    BY <1>4, <2>1, <2>2, <2>3, <2>4, <2>5
<1>7. TypeOK'
  BY <1>1, <1>6, TypedNext
<1>8. \A u \in Tasks : Touched(u)' => Touched(u) \/ slot'[u] \in Slots
  <2> SUFFICES ASSUME NEW u \in Tasks PROVE Touched(u)' => Touched(u) \/ slot'[u] \in Slots
    OBVIOUS
  <2>1. \A v \in Tasks : thread'[v].found = u => Touched(u)
    BY <1>6, TouchedNow
  <2> QED
    BY <1>1, <1>6, <2>1, TouchedNow, TouchedNext
<1> HIDE DEF s
<1>9. Slotted'
  BY <1>6, <1>8, SlottedNext
<1> QED
  BY <1>7, <1>9

LEMMA VerifyTypes ==
    ASSUME TypeInv, NEW t \in Tasks, Verify(t)
    PROVE  TypeInv'
<1> USE Typed DEF TypeInv
<1> DEFINE f == thread[t].found
<1>1. UNCHANGED <<age, sender, hist, run, entry, pooled, log, check, mon, told, cleaning, server>>
  BY DEF Verify
<1>2. thread[t].pc = "verify" /\ thread[t].at \in Slots
  BY DEF Verify, ThreadAt, Slotted
<1>3. \A n \in Slots : n + 1 \in 1 .. NumSlots + 1
  BY DelegationAssumption DEF Slots
<1>4. "failed" \in Statuses
  BY DEF Statuses, Settled
<1>5. \/ /\ thread' = [thread EXCEPT ![t].pc = "scan", ![t].at = thread[t].at + 1]
         /\ row' = row /\ slot' = slot
      \/ /\ row' = WithStatus(f, "failed") /\ slot' = [slot EXCEPT ![t] = thread[t].at]
         /\ Goto(t, "clear")
  BY DEF Verify
<1>6. /\ thread' \in [Tasks -> Thread]
      /\ \A u \in Tasks : thread'[u].found = thread[u].found
      /\ \A u \in Tasks \ {t} : thread'[u] = thread[u]
      /\ slot' \in [Tasks -> Slots \cup {0}]
      /\ \A u \in Tasks : slot[u] \in Slots => slot'[u] \in Slots
      /\ thread'[t].pc \in {"clear", "scan"}
      /\ thread'[t].pc = "clear" => slot'[t] \in Slots
      /\ row' \in [Tasks -> Row] /\ \A u \in Tasks : u # f => row'[u] = row[u]
  <2>1. CASE /\ thread' = [thread EXCEPT ![t].pc = "scan", ![t].at = thread[t].at + 1]
             /\ row' = row /\ slot' = slot
    <3> DEFINE new == [thread[t] EXCEPT !.pc = "scan", !.at = thread[t].at + 1]
    <3>1. new \in Thread /\ new.pc = "scan" /\ new.found = thread[t].found
      BY <1>2, <1>3 DEF Thread
    <3>2. thread' = [thread EXCEPT ![t] = new]
      BY <2>1
    <3> HIDE DEF new
    <3> QED
      BY ZenonT(30), <2>1, <3>1, <3>2
  <2>2. CASE /\ row' = WithStatus(f, "failed") /\ slot' = [slot EXCEPT ![t] = thread[t].at]
             /\ Goto(t, "clear")
    <3>1. f \in Tasks => /\ row' \in [Tasks -> Row]
                         /\ \A u \in Tasks : u # f => row'[u] = row[u]
      BY <1>4, <2>2, StatusChanged
    <3>2. f \notin Tasks => row' = row
      BY <2>2 DEF WithStatus
    <3> HIDE DEF f
    <3> QED
      BY <1>2, <2>2, <3>1, <3>2, PcChanged
  <2> QED
    BY <1>5, <2>1, <2>2
<1>7. TypeOK'
  BY <1>1, <1>6, TypedNext
<1>8. \A u \in Tasks : Touched(u)' => Touched(u) \/ slot'[u] \in Slots
  <2> SUFFICES ASSUME NEW u \in Tasks PROVE Touched(u)' => Touched(u) \/ slot'[u] \in Slots
    OBVIOUS
  <2>1. row'[u].status # "none" => Touched(u)
    BY <1>6, TouchedNow
  <2>2. \A v \in Tasks : thread'[v].found = u => Touched(u)
    BY <1>6, TouchedNow
  <2> QED
    BY <1>1, <1>6, <2>1, <2>2, TouchedNow, TouchedNext
<1>9. Slotted'
  BY <1>6, <1>8, SlottedNext
<1> QED
  BY <1>7, <1>9

\* A step that leaves the threads and their slots alone.
LEMMA KeepsSlots ==
    ASSUME TypeInv, TypeOK', thread' = thread, slot' = slot,
           \A u \in Tasks :
              /\ row'[u].status # "none" => Touched(u)
              /\ sender'[u] # "idle" => Touched(u)
              /\ run'[u].pc # "none" => Touched(u)
              /\ u \in cleaning' \cup mon'.todo \cup server'.wake \cup {server'.telling} => Touched(u)
              /\ \A c \in Checkers : check'[c].task = u => Touched(u)
    PROVE  TypeInv'
<1>1. \A u \in Tasks : Touched(u)' => Touched(u) \/ slot'[u] \in Slots
  <2> SUFFICES ASSUME NEW u \in Tasks PROVE Touched(u)' => Touched(u) \/ slot'[u] \in Slots
    OBVIOUS
  <2>1. /\ row'[u].status # "none" => Touched(u)
        /\ sender'[u] # "idle" => Touched(u)
        /\ run'[u].pc # "none" => Touched(u)
        /\ u \in cleaning' \cup mon'.todo \cup server'.wake \cup {server'.telling} => Touched(u)
        /\ \A c \in Checkers : check'[c].task = u => Touched(u)
    OBVIOUS
  <2> QED
    BY <2>1, TouchedNow, TouchedNext
<1>2. Slotted'
  BY <1>1, SlottedNext DEF TypeInv
<1> QED
  BY <1>2 DEF TypeInv

LEMMA SenderTypes ==
    ASSUME TypeInv, NEW t \in Tasks, SendError(t) \/ SenderLoad(t) \/ SenderSave(t)
    PROVE  TypeInv'
<1> USE Typed DEF TypeInv
<1> DEFINE new == [status |-> "dispatch_failed", result |-> NoEntry]
<1>1. new \in Row
  BY DEF Row, Statuses
<1>2. /\ UNCHANGED <<slot, age, thread, hist, run, entry, pooled, log, check, mon, told, cleaning,
                     server>>
      /\ row' = row \/ row' = [row EXCEPT ![t] = new]
      /\ sender[t] # "idle"
      /\ \E st \in {"failed", "loaded", "over"} : sender' = [sender EXCEPT ![t] = st]
  BY DEF SendError, SenderLoad, SenderSave
<1> HIDE DEF new
<1>3. TypeOK'
  <2>1. row' \in [Tasks -> Row]
    BY <1>1, <1>2
  <2> QED
    BY <1>2, <2>1, TypedNext
<1>4. \A u \in Tasks : u # t => row'[u] = row[u] /\ sender'[u] = sender[u]
  BY <1>2
<1> QED
  BY <1>2, <1>3, <1>4, TouchedNow, KeepsSlots

LEMMA ApiChatTypes ==
    ASSUME TypeInv, NEW t \in Tasks, ApiChat(t)
    PROVE  TypeInv'
<1> USE Typed DEF TypeInv
<1> DEFINE s == slot[t]
           r == entry[s].run
           more == [run[r] EXCEPT !.given = run[r].given \cup {t}]
<1>1. UNCHANGED <<row, slot, age, thread, hist, pooled, check, mon, told, cleaning, server>>
      /\ sender[t] = "posting"
  BY DEF ApiChat
<1>2. Touched(t) /\ s \in Slots
  BY <1>1, TouchedNow DEF Slotted
<1>3. r \in Tasks \cup {0}
  BY <1>2 DEF SessionEntry
<1>4. /\ \E st \in {"ok", "failed"} : sender' = [sender EXCEPT ![t] = st]
      /\ \/ run' = [run EXCEPT ![r] = more] /\ entry' = entry /\ log' = log
         \/ run' = run /\ entry' = entry /\ log' = log
         \/ /\ run' = [run EXCEPT ![t] = NewRun(t)]
            /\ entry' = [entry EXCEPT ![s] = [run |-> t, running |-> TRUE]]
            /\ log' = log \cup {t}
  BY DEF ApiChat, Reply
<1>5. NewRun(t) \in Run /\ [run |-> t, running |-> TRUE] \in SessionEntry
  BY DEF NewRun, Run, SessionEntry
<1>6. r \in Tasks => more \in Run /\ more.pc = run[r].pc
  <2> SUFFICES ASSUME r \in Tasks PROVE more \in Run /\ more.pc = run[r].pc
    OBVIOUS
  <2>1. run[r] \in Run
    OBVIOUS
  <2>2. run[r].given \cup {t} \in SUBSET Tasks
    BY <2>1 DEF Run
  <2> HIDE DEF r
  <2> QED
    BY <2>1, <2>2 DEF Run
<1>7. r \notin Tasks => [run EXCEPT ![r] = more] = run
  OBVIOUS
<1> HIDE DEF r, s, more, NewRun
<1>8. /\ run' \in [Tasks -> Run] /\ \A u \in Tasks : u # t => run'[u].pc = run[u].pc
  <2>1. CASE run' = [run EXCEPT ![r] = more] /\ r \in Tasks
    BY <1>6, <2>1
  <2>2. CASE run' = run
    BY <2>2
  <2>3. CASE run' = [run EXCEPT ![t] = NewRun(t)]
    BY <1>5, <2>3
  <2> QED
    BY <1>4, <1>7, <2>1, <2>2, <2>3
<1>9. entry' \in [Slots -> SessionEntry] /\ log' \subseteq Tasks
  BY ZenonT(30), <1>4, <1>5
<1>10. TypeOK'
  BY ZenonT(30), <1>1, <1>4, <1>8, <1>9, TypedNext
<1> QED
  BY <1>1, <1>2, <1>4, <1>8, <1>10, TouchedNow, KeepsSlots

LEMMA RunStartTypes ==
    ASSUME TypeInv, NEW t \in Tasks, RunStart(t) \/ RunRefused(t)
    PROVE  TypeInv'
<1> USE Typed DEF TypeInv
<1>1. run[t].pc = "starting"
  BY DEF RunStart, RunRefused
<1>2. Touched(t) /\ slot[t] \in Slots
  BY <1>1, TouchedNow DEF Slotted
<1>3. run' \in [Tasks -> Run] /\ \A u \in Tasks : u # t => run'[u] = run[u]
  <2>0. run[t] \in Run
    OBVIOUS
  <2>1. [run[t] EXCEPT !.pc = "running"] \in Run /\ [run[t] EXCEPT !.pc = "refused"] \in Run
    BY <2>0 DEF Run
  <2>2. \/ run' = [run EXCEPT ![t] = [run[t] EXCEPT !.pc = "running"]]
        \/ run' = [run EXCEPT ![t] = [run[t] EXCEPT !.pc = "refused"]]
    BY DEF RunStart, RunRefused
  <2> QED
    BY <2>1, <2>2
<1>4. UNCHANGED <<slot, age, thread, sender, hist, log, check, mon, told, cleaning, server>>
  BY DEF RunStart, RunRefused
<1>5. pooled' \subseteq Slots
  BY <1>2 DEF RunStart, RunRefused
<1>6. entry' \in [Slots -> SessionEntry]
  <2>1. [entry[slot[t]] EXCEPT !.running = FALSE] \in SessionEntry
    BY <1>2 DEF SessionEntry
  <2>2. entry' = entry \/ entry' = [entry EXCEPT ![slot[t]] = [entry[slot[t]] EXCEPT !.running = FALSE]]
    BY DEF RunStart, RunRefused
  <2> QED
    BY <2>1, <2>2
<1>7. row' \in [Tasks -> Row] /\ \A u \in Tasks : row'[u].status # "none" => row[u].status # "none"
  <2>1. CASE RunStart(t)
    BY <2>1 DEF RunStart
  <2>2. CASE RunRefused(t)
    <3> DEFINE bad(u) == [row[u] EXCEPT !.status = "dispatch_failed"]
    <3>1. \A u \in Tasks : bad(u) \in Row
      BY DEF Row, Statuses
    <3>2. row' = [u \in Tasks |-> IF u \in InFlightOn(slot[t]) THEN bad(u) ELSE row[u]]
      BY <2>2 DEF RunRefused
    <3>3. \A u \in InFlightOn(slot[t]) : row[u].status # "none"
      BY DEF InFlightOn, InFlight, Status
    <3> HIDE DEF bad
    <3> QED
      BY <3>1, <3>2, <3>3
  <2> QED
    BY <2>1, <2>2
<1>8. TypeOK'
  BY <1>3, <1>4, <1>5, <1>6, <1>7, TypedNext
<1> QED
  BY <1>2, <1>3, <1>4, <1>7, <1>8, TouchedNow, KeepsSlots

LEMMA KilledRuns ==
    ASSUME NEW s, NEW rs \in [Tasks -> Run]
    PROVE  /\ ProcessKilled(s, rs) \in [Tasks -> Run]
           /\ \A u \in Tasks :
                 /\ ProcessKilled(s, rs)[u].pc = rs[u].pc
                 /\ ProcessKilled(s, rs)[u].given = rs[u].given
                 /\ slot[u] # s \/ rs[u].pc \notin {"running", "tail"} =>
                       ProcessKilled(s, rs)[u] = rs[u]
<1> DEFINE dead(u) == [rs[u] EXCEPT !.killed = TRUE]
<1>1. \A u \in Tasks : dead(u) \in Run /\ dead(u).pc = rs[u].pc /\ dead(u).given = rs[u].given
  BY ZenonT(30) DEF Run
<1>2. ProcessKilled(s, rs) =
        [u \in Tasks |-> IF slot[u] = s /\ rs[u].pc \in {"running", "tail"} THEN dead(u) ELSE rs[u]]
  BY DEF ProcessKilled
<1> HIDE DEF dead
<1> QED
  BY <1>1, <1>2

LEMMA MonNextTypes ==
    ASSUME mon \in Monitor, NEW t
    PROVE  /\ MonNext(t) \in Monitor
           /\ MonNext(t).todo = mon.todo \ {t} /\ MonNext(t).old = mon.old
           /\ MonNext(t).held = (mon.todo # {t}) /\ MonNext(t).waits = mon.waits
BY DEF MonNext, Monitor

LEMMA TellTypes ==
    ASSUME TypeInv, Tell
    PROVE  TypeInv'
<1> USE Typed DEF TypeInv
<1> DEFINE t == server.telling
<1>1. /\ t # 0 /\ told' = told \cup {t} /\ server' = [server EXCEPT !.telling = 0]
      /\ \/ cleaning' = cleaning \cup {t} /\ UNCHANGED <<hist, run, pooled>>
         \/ /\ hist' = Cleared(slot[t]) /\ run' = ProcessKilled(slot[t], run)
            /\ pooled' = pooled \ {slot[t]} /\ UNCHANGED cleaning
      /\ \/ mon' = mon
         \/ mon' = [MonNext(t) EXCEPT !.held = FALSE, !.waits = t]
         \/ mon' = [MonNext(t) EXCEPT !.held = @ /\ slot[t] \notin pooled]
      /\ UNCHANGED <<row, slot, age, thread, sender, entry, log, check>>
  BY DEF Tell, DoCleanup
<1>2. t \in Tasks /\ Touched(t) /\ 0 \notin Tasks
  BY <1>1, NoEntryIsNone, TouchedNow DEF Server
<1> HIDE DEF t
<1>3. server' \in Server /\ server'.wake = server.wake /\ server'.telling = 0
  BY <1>1 DEF Server
<1>4. <<>> \in Seq(Entry)
  OBVIOUS
<1>5. hist' \in [Slots -> Seq(Entry)]
  BY <1>1, <1>4 DEF Cleared
<1>6. run' \in [Tasks -> Run] /\ \A u \in Tasks : run'[u].pc = run[u].pc
  BY <1>1, KilledRuns
<1>7. mon' \in Monitor /\ mon'.todo \subseteq mon.todo
  <2>1. MonNext(t) \in Monitor /\ MonNext(t).todo \subseteq mon.todo
    BY MonNextTypes
  <2> QED
    BY <1>1, <1>2, <2>1 DEF Monitor
<1>8. /\ told' \subseteq Tasks /\ cleaning' \subseteq cleaning \cup {t}
      /\ pooled' \subseteq Slots
  BY <1>1, <1>2
<1>9. TypeOK'
  BY <1>1, <1>2, <1>3, <1>5, <1>6, <1>7, <1>8, TypedNext
<1> QED
  BY <1>1, <1>2, <1>3, <1>6, <1>7, <1>8, <1>9, TouchedNow, KeepsSlots

LEMMA HookTypes ==
    ASSUME TypeInv, NEW s \in Slots,
           NEW h \in [Slots -> Seq(Entry)], NEW rs \in [Tasks -> Run],
           CompletionHook(s, h, rs)
    PROVE  /\ hist' = h /\ run' = rs
           /\ server' \in Server /\ server'.wake = server.wake
           /\ \A u \in Tasks : u = server'.telling => Touched(u)
           /\ row' \in [Tasks -> Row]
           /\ \A u \in Tasks : row'[u].status # "none" => Touched(u)
<1> USE Typed DEF TypeInv
<1> DEFINE t == FindInflight(s)
           found == IF t = 0 THEN NoEntry ELSE ExtractResponse(t, h[s])
           new == [status |-> "completed", result |-> found]
<1>1. t \in InFlightOn(s) \cup {0}
  BY FoundInflight
<1>2. t # 0 => t \in Tasks /\ Touched(t) /\ slot[t] = s
  BY <1>1, FoundSlotted DEF InFlightOn
<1>3. found \in Entry \cup {NoEntry}
  BY ExtractedReply
<1>4. new \in Row
  BY <1>3 DEF Row, Statuses, Settled
<1>5. /\ hist' = h /\ run' = rs
      /\ \/ /\ t # 0 /\ row' = [row EXCEPT ![t] = new]
            /\ server' = [server EXCEPT !.telling = t]
         \/ UNCHANGED <<row, server>>
  BY DEF CompletionHook, ToTell
<1> HIDE DEF t, found, new
<1>6. CASE /\ t # 0 /\ row' = [row EXCEPT ![t] = new]
           /\ server' = [server EXCEPT !.telling = t]
  <2>1. server' \in Server /\ server'.wake = server.wake /\ server'.telling = t
    BY <1>2, <1>6 DEF Server
  <2>2. row' \in [Tasks -> Row] /\ \A u \in Tasks : u # t => row'[u] = row[u]
    BY <1>4, <1>6
  <2> QED
    BY <1>2, <1>5, <1>6, <2>1, <2>2, TouchedNow
<1>7. CASE UNCHANGED <<row, server>>
  BY <1>5, <1>7, TouchedNow
<1> QED
  BY <1>5, <1>6, <1>7

\* What a run puts into its session's history when it ends with e.
Reply1(r, e) == [prompt |-> r, given |-> run[r].given, marks |-> e.marks, kind |-> e.kind]

Appended(r, e) == [hist EXCEPT ![slot[r]] = Append(@, Reply1(r, e))]

LEMMA ReplyTypes ==
    ASSUME TypeInv, NEW r \in Tasks, NEW e \in Endings(r), slot[r] \in Slots
    PROVE  /\ Reply1(r, e) \in Entry
           /\ Appended(r, e) \in [Slots -> Seq(Entry)]
           /\ Appended(r, e)[slot[r]] = Append(hist[slot[r]], Reply1(r, e))
           /\ \A s \in Slots : s # slot[r] => Appended(r, e)[s] = hist[s]
<1> USE Typed DEF TypeInv
<1>1. run[r].given \in SUBSET Tasks
  BY DEF Run
<1>2. e \in [kind : {"answer", "died", "silent"}, marks : SUBSET run[r].given]
  BY DEF Endings
<1>3. e.kind \in {"answer", "died", "silent"} /\ e.marks \in SUBSET Tasks
  BY <1>1, <1>2
<1>4. Reply1(r, e) \in Entry
  BY <1>1, <1>3 DEF Reply1, Entry
<1> HIDE DEF Reply1
<1>5. Append(hist[slot[r]], Reply1(r, e)) \in Seq(Entry)
  <2>1. hist[slot[r]] \in Seq(Entry)
    OBVIOUS
  <2> QED
    BY <1>4, <2>1
<1> QED
  BY <1>4, <1>5 DEF Appended

LEMMA RunEndTypes ==
    ASSUME TypeInv, NEW r \in Tasks, RunEnd(r) \/ RunTail(r)
    PROVE  TypeInv'
<1> USE Typed DEF TypeInv
<1>1. run[r].pc \in {"running", "tail"}
  BY DEF RunEnd, RunTail
<1>2. slot[r] \in Slots /\ Touched(r)
  BY <1>1, TouchedNow DEF Slotted
<1> DEFINE over == [run EXCEPT ![r].pc = "over"]
           tail == [run EXCEPT ![r].pc = "tail"]
<1>3. over \in [Tasks -> Run] /\ tail \in [Tasks -> Run]
      /\ \A u \in Tasks : u # r => over[u] = run[u] /\ tail[u] = run[u]
  <2>0. run[r] \in Run
    OBVIOUS
  <2>1. [run[r] EXCEPT !.pc = "over"] \in Run /\ [run[r] EXCEPT !.pc = "tail"] \in Run
    BY <2>0 DEF Run
  <2> QED
    BY <2>1
<1>4. UNCHANGED <<slot, age, thread, sender, pooled, log, check, mon, told, cleaning>>
  BY DEF RunEnd, RunTail
<1>5. entry' \in [Slots -> SessionEntry]
  <2>1. [entry[slot[r]] EXCEPT !.running = FALSE] \in SessionEntry
    BY <1>2 DEF SessionEntry
  <2>2. entry' = [entry EXCEPT ![slot[r]] = [entry[slot[r]] EXCEPT !.running = FALSE]]
    BY DEF RunEnd, RunTail
  <2> QED
    BY <2>1, <2>2
<1>6. \/ \E h \in [Slots -> Seq(Entry)] : CompletionHook(slot[r], h, over)
      \/ /\ hist' \in [Slots -> Seq(Entry)] /\ run' = tail
         /\ UNCHANGED <<row, server>>
  <2>1. CASE RunEnd(r)
    <3>1. PICK e \in Endings(r) : \/ CompletionHook(slot[r], Appended(r, e), over)
                                  \/ /\ hist' = Appended(r, e) /\ run' = tail
                                     /\ UNCHANGED <<row, server>>
      BY <2>1 DEF RunEnd, Appended, Reply1
    <3>2. Appended(r, e) \in [Slots -> Seq(Entry)]
      BY <1>2, ReplyTypes
    <3> QED
      BY <3>1, <3>2
  <2>2. CASE RunTail(r)
    BY <2>2 DEF RunTail
  <2> QED
    BY <2>1, <2>2
<1> HIDE DEF over, tail
<1>7. CASE \E h \in [Slots -> Seq(Entry)] : CompletionHook(slot[r], h, over)
  <2>1. /\ hist' \in [Slots -> Seq(Entry)] /\ run' = over
        /\ server' \in Server /\ server'.wake = server.wake
        /\ \A u \in Tasks : u = server'.telling => Touched(u)
        /\ row' \in [Tasks -> Row]
        /\ \A u \in Tasks : row'[u].status # "none" => Touched(u)
    BY <1>2, <1>3, <1>7, HookTypes
  <2>2. TypeOK'
    BY <1>3, <1>4, <1>5, <2>1, TypedNext
  <2>3. \A u \in Tasks : run'[u].pc # "none" => Touched(u)
    BY <1>2, <1>3, <2>1, TouchedNow
  <2> QED
    BY ZenonT(30), <1>4, <2>1, <2>2, <2>3, TouchedNow, KeepsSlots
<1>8. CASE /\ hist' \in [Slots -> Seq(Entry)] /\ run' = tail
           /\ UNCHANGED <<row, server>>
  <2>1. TypeOK'
    BY <1>3, <1>4, <1>5, <1>8, TypedNext
  <2> QED
    BY <1>2, <1>3, <1>4, <1>8, <2>1, TouchedNow, KeepsSlots
<1> QED
  BY <1>6, <1>7, <1>8

LEMMA CleanupTypes ==
    ASSUME TypeInv, NEW t \in Tasks, Cleanup(t)
    PROVE  TypeInv'
<1> USE Typed DEF TypeInv
<1>1. /\ t \in cleaning /\ cleaning' = cleaning \ {t} /\ hist' = Cleared(slot[t])
      /\ run' = ProcessKilled(slot[t], run) /\ pooled' = pooled \ {slot[t]}
      /\ UNCHANGED <<row, slot, age, thread, sender, entry, log, check, told, server>>
  BY DEF Cleanup, DoCleanup
<1>2. mon' = mon \/ mon' = [mon EXCEPT !.waits = 0]
  BY DEF Cleanup
<1>3. mon' \in Monitor /\ mon'.todo = mon.todo
  BY <1>2 DEF Monitor
<1>4. <<>> \in Seq(Entry)
  OBVIOUS
<1>5. hist' \in [Slots -> Seq(Entry)]
  BY <1>1, <1>4 DEF Cleared
<1>6. run' \in [Tasks -> Run] /\ \A u \in Tasks : run'[u].pc = run[u].pc
  BY <1>1, KilledRuns
<1>7. TypeOK'
  BY <1>1, <1>3, <1>5, <1>6, TypedNext
<1> QED
  BY <1>1, <1>3, <1>6, <1>7, TouchedNow, KeepsSlots

LEMMA DismissTypes ==
    ASSUME TypeInv, NEW t \in Tasks, Dismiss(t)
    PROVE  TypeInv'
<1> USE Typed DEF TypeInv
<1> DEFINE s == slot[t]
           r == entry[s].run
           over(u) == [run[u] EXCEPT !.pc = "over"]
           dead(u) == [run[u] EXCEPT !.killed = TRUE]
           cancelled == [u \in Tasks |->
                           IF u # r \/ ~Live(u) THEN run[u]
                           ELSE IF run[u].pc = "starting" THEN over(u)
                           ELSE dead(u)]
<1>1. Status(t) # "none" /\ Touched(t) /\ s \in Slots
  BY TouchedNow DEF Dismiss, Slotted, Status
<1>2. "dismissed" \in Statuses
  BY DEF Statuses, Settled
<1>3. row' \in [Tasks -> Row] /\ \A u \in Tasks : u # t => row'[u] = row[u]
  BY <1>2, StatusChanged DEF Dismiss
<1>4. \A u \in Tasks : run[u] \in Run
  OBVIOUS
<1>5. \A u \in Tasks : over(u) \in Run /\ dead(u) \in Run /\ dead(u).pc = run[u].pc
  <2>1. \A q \in Run : [q EXCEPT !.pc = "over"] \in Run
    BY DEF Run
  <2>2. \A q \in Run : [q EXCEPT !.killed = TRUE] \in Run
    BY DEF Run
  <2>3. \A q \in Run : [q EXCEPT !.killed = TRUE].pc = q.pc
    BY DEF Run
  <2> QED
    BY <1>4, <2>1, <2>2, <2>3
<1>6. run' = (IF s \in pooled THEN ProcessKilled(s, cancelled) ELSE cancelled)
  BY DEF Dismiss
<1>7. entry' = [entry EXCEPT ![s] = [entry[s] EXCEPT !.running = FALSE]]
      /\ UNCHANGED <<slot, age, thread, sender, hist, pooled, log, check, mon, told, cleaning,
                     server>>
  BY DEF Dismiss
<1>8. [entry[s] EXCEPT !.running = FALSE] \in SessionEntry
  <2>1. entry[s] \in SessionEntry
    BY <1>1
  <2> QED
    BY <2>1 DEF SessionEntry
<1> HIDE DEF over, dead, r
<1>9. cancelled \in [Tasks -> Run]
      /\ \A u \in Tasks : cancelled[u].pc # "none" => run[u].pc # "none"
  BY <1>5 DEF Live
<1> HIDE DEF cancelled, s
<1>10. run' \in [Tasks -> Run] /\ \A u \in Tasks : run'[u].pc # "none" => run[u].pc # "none"
  BY <1>6, <1>9, KilledRuns
<1>11. TypeOK'
  BY <1>3, <1>7, <1>8, <1>10, TypedNext
<1> QED
  BY <1>1, <1>3, <1>7, <1>10, <1>11, TouchedNow, KeepsSlots

LEMMA TickTypes ==
    ASSUME TypeInv, NEW t \in Tasks, Tick(t)
    PROVE  TypeInv'
<1> USE Typed DEF TypeInv
<1>1. age' \in [Tasks -> Ages]
  BY SMTT(20) DEF Tick, Ages
<1>2. UNCHANGED <<row, slot, thread, sender, hist, run, entry, pooled, log, check, mon, told,
                  cleaning, server>>
  BY DEF Tick
<1>3. TypeOK'
  BY <1>1, <1>2, TypedNext
<1> QED
  BY <1>2, <1>3, TouchedNow, KeepsSlots

LEMMA CheckedStatuses ==
    ASSUME NEW t, NEW st \in Statuses, NEW found
    PROVE  CheckedStatus(t, st, found) \in Statuses
BY DEF CheckedStatus, Statuses, InFlight, Settled

LEMMA LookedTypes ==
    ASSUME TypeInv, NEW t \in Tasks, slot[t] \in Slots, NEW st \in Statuses
    PROVE  /\ Looked(t, st) \in Check
           /\ Looked(t, st).task = t /\ Looked(t, st).status = st
           /\ Looked(t, st).result = row[t].result
           /\ Looked(t, st).found = ExtractResponse(t, hist[slot[t]])
<1> USE Typed DEF TypeInv
<1>1. hist[slot[t]] \in Seq(Entry) /\ row[t].result \in Entry \cup {NoEntry}
  BY DEF Row
<1>2. ExtractResponse(t, hist[slot[t]]) \in Entry \cup {NoEntry}
  BY <1>1, ExtractedReply
<1> QED
  BY <1>1, <1>2 DEF Looked, Check

LEMMA CheckLoadTypes ==
    ASSUME TypeInv, NEW c \in Checkers, NEW t \in Tasks, CheckLoad(c, t)
    PROVE  TypeInv'
<1> USE Typed DEF TypeInv
<1>1. Status(t) # "none" /\ Touched(t) /\ slot[t] \in Slots
  BY TouchedNow DEF CheckLoad, Slotted, Status
<1>2. Status(t) \in Statuses
  BY DEF Status, Row
<1>3. Looked(t, Status(t)) \in Check /\ Looked(t, Status(t)).task = t
  BY <1>1, <1>2, LookedTypes
<1>4. check' = [check EXCEPT ![c] = Looked(t, Status(t))]
      /\ UNCHANGED <<row, slot, age, thread, sender, hist, run, entry, pooled, log, mon, told,
                     cleaning, server>>
  BY DEF CheckLoad
<1>5. check' \in [Checkers -> Check]
      /\ \A d \in Checkers, u \in Tasks : check'[d].task = u => check[d].task = u \/ u = t
  BY <1>3, <1>4
<1>6. TypeOK'
  BY <1>4, <1>5, TypedNext
<1> QED
  BY <1>1, <1>4, <1>5, <1>6, TouchedNow, KeepsSlots

LEMMA CheckedRows ==
    ASSUME NEW c \in Check
    PROVE  CheckedRow(c) \in Row
<1>1. /\ c.status \in Statuses /\ c.result \in Entry \cup {NoEntry}
      /\ c.found \in Entry \cup {NoEntry}
  BY DEF Check
<1>2. CheckedStatus(c.task, c.status, c.found) \in Statuses
  BY <1>1, CheckedStatuses
<1> QED
  BY <1>1, <1>2 DEF CheckedRow, Row

\* A check under way is about a task.
CheckTasks == \A c \in Checkers : check[c] # NoCheck => check[c].task \in Tasks

LEMMA CheckSaveTypes ==
    ASSUME TypeInv, CheckTasks, NEW c \in Checkers, CheckSave(c)
    PROVE  TypeInv'
<1> USE Typed DEF TypeInv
<1> DEFINE t == check[c].task
           new == CheckedRow(check[c])
<1>0. t \in Tasks
  BY DEF CheckSave, CheckTasks
<1>1. new \in Row
  BY CheckedRows
<1>2. NoCheck \in Check /\ NoCheck.task = 0 /\ 0 \notin Tasks
  BY NoEntryIsNone DEF NoCheck, Check, Statuses
<1>3. row' = [row EXCEPT ![t] = new] /\ check' = [check EXCEPT ![c] = NoCheck]
      /\ UNCHANGED <<slot, age, thread, sender, hist, run, entry, pooled, log, mon, told, cleaning>>
      /\ (server' = server \/ server' = [server EXCEPT !.untold = @ \cup {t}])
  BY DEF CheckSave
<1>4. t \in Tasks => Touched(t)
  BY TouchedNow
<1> HIDE DEF new, t, NoCheck
<1>5. row' \in [Tasks -> Row] /\ \A u \in Tasks : u # t => row'[u] = row[u]
  BY <1>1, <1>3
<1>6. check' \in [Checkers -> Check]
      /\ \A d \in Checkers, u \in Tasks : check'[d].task = u => check[d].task = u
  BY <1>2, <1>3
<1>7. server' \in Server /\ server'.wake = server.wake /\ server'.telling = server.telling
  <2>1. server \in Server
    OBVIOUS
  <2>2. CASE server' = [server EXCEPT !.untold = @ \cup {t}]
    BY ONLY <1>0, <2>1, <2>2 DEF Server
  <2> QED
    BY <1>3, <2>1, <2>2
<1>8. TypeOK'
  BY <1>3, <1>5, <1>6, <1>7, TypedNext
<1> QED
  BY <1>3, <1>4, <1>5, <1>6, <1>7, <1>8, TouchedNow, KeepsSlots

LEMMA MonStartTypes ==
    ASSUME TypeInv, MonStart
    PROVE  TypeInv'
<1> USE Typed DEF TypeInv
<1>1. mon' = [todo |-> Watched, old |-> [t \in Tasks |-> Status(t)], held |-> TRUE, waits |-> 0]
      /\ UNCHANGED <<row, slot, age, thread, sender, hist, run, entry, pooled, log, check, told,
                     cleaning, server>>
  BY DEF MonStart
<1>2. \A t \in Tasks : Status(t) \in Statuses
  BY DEF Status, Row
<1>3. mon' \in Monitor /\ mon'.todo = Watched
  BY <1>1, <1>2 DEF Monitor, Watched
<1>4. TypeOK'
  BY <1>1, <1>3, TypedNext
<1>5. \A u \in Watched : row[u].status # "none"
  BY DEF Watched, Status, InFlight
<1> QED
  BY <1>1, <1>3, <1>4, <1>5, TouchedNow, KeepsSlots

LEMMA MonTimeoutTypes ==
    ASSUME TypeInv, MonTimeout
    PROVE  TypeInv'
<1> USE Typed DEF TypeInv
<1> DEFINE t == Min(mon.todo)
<1>1. row' = WithStatus(t, "timed_out") /\ mon' = MonNext(t) /\ mon.todo # {}
      /\ UNCHANGED <<slot, age, thread, sender, hist, run, entry, pooled, log, check, told,
                     cleaning, server>>
  BY DEF MonTimeout
<1>2. t \in mon.todo /\ t \in Tasks
  BY <1>1, LeastListed DEF Monitor
<1>3. "timed_out" \in Statuses
  BY DEF Statuses, Settled
<1> HIDE DEF t
<1>4. row' \in [Tasks -> Row] /\ \A u \in Tasks : u # t => row'[u] = row[u]
  BY <1>1, <1>2, <1>3, StatusChanged
<1>5. mon' \in Monitor /\ mon'.todo \subseteq mon.todo
  BY <1>1, MonNextTypes
<1>6. TypeOK'
  BY <1>1, <1>4, <1>5, TypedNext
<1> QED
  BY <1>1, <1>2, <1>4, <1>5, <1>6, TouchedNow, KeepsSlots

\* What the monitor writes for the next task of its list.
VisitedStatus(t) ==
    IF mon.old[t] = "dispatched" /\ (t \in log \/ entry[slot[t]].running \/ slot[t] \in pooled)
    THEN "running" ELSE Status(t)

LEMMA Visit ==
    ASSUME MonVisit
    PROVE  LET t == Min(mon.todo)
               st == VisitedStatus(t)
           IN  /\ mon.todo # {} /\ MonTurn
               /\ row' = WithStatus(t, st)
               /\ \E old : mon' = [mon EXCEPT !.held = TRUE, !.old[t] = old]
                           /\ (old = st \/ old = mon.old[t])
               /\ check' = [check EXCEPT !["monitor"] = Looked(t, st)]
               /\ UNCHANGED <<slot, age, thread, sender, hist, run, entry, pooled, log, told,
                              cleaning, server>>
BY DEF MonVisit, VisitedStatus

LEMMA MonVisitTypes ==
    ASSUME TypeInv, MonVisit
    PROVE  TypeInv'
<1> USE Typed DEF TypeInv
<1> DEFINE t == Min(mon.todo)
           st == VisitedStatus(t)
<1>1. /\ mon.todo # {}
      /\ row' = WithStatus(t, st)
      /\ check' = [check EXCEPT !["monitor"] = Looked(t, st)]
      /\ UNCHANGED <<slot, age, thread, sender, hist, run, entry, pooled, log, told,
                     cleaning, server>>
  BY Visit
<1>2. PICK old : mon' = [mon EXCEPT !.held = TRUE, !.old[t] = old] /\ (old = st \/ old = mon.old[t])
  BY Visit
<1>3. t \in mon.todo /\ t \in Tasks
  BY <1>1, LeastListed DEF Monitor
<1>4. Touched(t) /\ slot[t] \in Slots
  BY <1>3, TouchedNow DEF Slotted
<1>5. st \in Statuses /\ mon.old[t] \in Statuses
  BY <1>3 DEF VisitedStatus, Status, Row, Statuses, InFlight, Monitor
<1> HIDE DEF t, st
<1>6. row' \in [Tasks -> Row] /\ \A u \in Tasks : u # t => row'[u] = row[u]
  BY <1>1, <1>3, <1>5, StatusChanged
<1>7. Looked(t, st) \in Check /\ Looked(t, st).task = t
  BY <1>3, <1>4, <1>5, LookedTypes
<1>8. check' \in [Checkers -> Check]
      /\ \A d \in Checkers, u \in Tasks : check'[d].task = u => check[d].task = u \/ u = t
  BY <1>1, <1>7
<1>9. mon' \in Monitor /\ mon'.todo = mon.todo
  <2> DEFINE olds == [mon.old EXCEPT ![t] = old]
  <2>1. olds \in [Tasks -> Statuses]
    BY <1>2, <1>3, <1>5 DEF Monitor
  <2>2. mon' = [mon EXCEPT !.held = TRUE, !.old = olds]
    BY <1>2
  <2> HIDE DEF olds
  <2> QED
    BY <2>1, <2>2 DEF Monitor
<1>10. TypeOK'
  BY <1>1, <1>6, <1>8, <1>9, TypedNext
<1> QED
  BY ZenonT(60), <1>1, <1>4, <1>6, <1>8, <1>9, <1>10, TouchedNow, KeepsSlots

LEMMA MonSaveTypes ==
    ASSUME TypeInv, CheckTasks, MonSave
    PROVE  TypeInv'
<1> USE Typed DEF TypeInv
<1> DEFINE c == check["monitor"]
           t == c.task
           new == CheckedRow(c)
<1>1. /\ c # NoCheck /\ row' = [row EXCEPT ![t] = new]
      /\ check' = [check EXCEPT !["monitor"] = NoCheck]
      /\ UNCHANGED <<slot, age, thread, sender, hist, run, entry, pooled, log, told, cleaning>>
      /\ \/ server' = [server EXCEPT !.telling = t] /\ mon' = mon
         \/ mon' = MonNext(t) /\ server' = server
  BY DEF MonSave, ToTell
<1>2. c \in Check /\ new \in Row /\ t \in Tasks
  BY <1>1, CheckedRows DEF Checkers, CheckTasks
<1>3. NoCheck \in Check /\ NoCheck.task = 0 /\ 0 \notin Tasks
  BY NoEntryIsNone DEF NoCheck, Check, Statuses
<1>4. Touched(t) /\ slot[t] \in Slots
  <2>1. "monitor" \in Checkers
    BY DEF Checkers
  <2> QED
    BY <1>2, <2>1, TouchedNow DEF Slotted
<1> HIDE DEF c, t, new, NoCheck
<1>5. row' \in [Tasks -> Row] /\ \A u \in Tasks : u # t => row'[u] = row[u]
  BY <1>1, <1>2
<1>6. check' \in [Checkers -> Check]
      /\ \A d \in Checkers, u \in Tasks : check'[d].task = u => check[d].task = u
  BY <1>1, <1>3
<1>7. mon' \in Monitor /\ mon'.todo \subseteq mon.todo
  <2>1. MonNext(t) \in Monitor /\ MonNext(t).todo \subseteq mon.todo
    BY MonNextTypes
  <2> QED
    BY <1>1, <1>2, <2>1 DEF Monitor
<1>8. /\ server' \in Server /\ server'.wake = server.wake
      /\ server'.telling = server.telling \/ server'.telling = t
  BY <1>1, <1>2 DEF Server
<1>9. TypeOK'
  BY <1>1, <1>5, <1>6, <1>7, <1>8, TypedNext
<1> QED
  BY ZenonT(30), <1>1, <1>4, <1>5, <1>6, <1>7, <1>8, <1>9, TouchedNow, KeepsSlots

LEMMA WakeTaskTypes ==
    ASSUME TypeInv, WakeTask
    PROVE  TypeInv'
<1> USE Typed DEF TypeInv
<1> DEFINE t == Min(server.wake)
<1>1. /\ server.wake # {} /\ server' = [server EXCEPT !.wake = @ \ {t}]
      /\ UNCHANGED <<slot, age, thread, hist, run, entry, pooled, log, check, mon, told, cleaning>>
  BY DEF WakeTask
<1>2. /\ \/ row' = row
         \/ \E st \in {"timed_out", "running", "dispatched", "dispatch_failed"} :
                row' = WithStatus(t, st)
      /\ \/ sender' = sender
         \/ \E w \in {"posting", "failed"} : sender' = [sender EXCEPT ![t] = w]
  BY DEF WakeTask
<1>3. t \in server.wake /\ t \in Tasks
  BY <1>1, LeastListed DEF Server
<1>4. Touched(t)
  BY <1>3, TouchedNow
<1> HIDE DEF t
<1>5. row' \in [Tasks -> Row] /\ \A u \in Tasks : u # t => row'[u] = row[u]
  <2>1. CASE row' = row
    BY <2>1
  <2>2. ASSUME NEW st \in {"timed_out", "running", "dispatched", "dispatch_failed"},
               row' = WithStatus(t, st)
        PROVE  row' \in [Tasks -> Row] /\ \A u \in Tasks : u # t => row'[u] = row[u]
    <3>1. st \in Statuses
      BY DEF Statuses, Settled, InFlight
    <3> QED
      BY <1>3, <2>2, <3>1, StatusChanged
  <2> QED
    BY <1>2, <2>1, <2>2
<1>6. /\ sender' \in [Tasks -> {"idle", "posting", "ok", "failed", "loaded", "over"}]
      /\ \A u \in Tasks : u # t => sender'[u] = sender[u]
  BY <1>2, <1>3
<1>7. /\ server' \in Server /\ server'.wake \subseteq server.wake
      /\ server'.telling = server.telling
  BY <1>1 DEF Server
<1>8. TypeOK'
  BY <1>1, <1>5, <1>6, <1>7, TypedNext
<1> QED
  BY <1>1, <1>4, <1>5, <1>6, <1>7, <1>8, TouchedNow, KeepsSlots

LEMMA CrashTypes ==
    ASSUME TypeInv, Crash
    PROVE  TypeInv'
<1> USE Typed DEF TypeInv
<1> DEFINE ended(t) == [thread[t] EXCEPT !.pc = "done"]
           over(t) == [run[t] EXCEPT !.pc = "over"]
<1>1. /\ server.crashes < MaxCrashes
      /\ server' = [wake |-> Watched, telling |-> 0, crashes |-> server.crashes + 1,
                    untold |-> server.untold \cup ({server.telling} \ {0})]
      /\ thread' = [t \in Tasks |-> IF ThreadAt(t, "new") THEN thread[t] ELSE ended(t)]
      /\ sender' = [t \in Tasks |-> IF sender[t] = "idle" THEN "idle" ELSE "over"]
      /\ run' = [t \in Tasks |-> IF run[t].pc = "none" THEN NoRun ELSE over(t)]
      /\ entry' = [s \in Slots |-> [run |-> 0, running |-> FALSE]]
      /\ pooled' = {} /\ cleaning' = {}
      /\ check' = [c \in Checkers |-> NoCheck] /\ mon' = IdleMonitor
      /\ UNCHANGED <<row, slot, age, hist, log, told>>
  BY DEF Crash
<1>2. \A q \in Thread : [q EXCEPT !.pc = "done"] \in Thread
  BY DEF Thread
<1>3. \A q \in Thread : /\ [q EXCEPT !.pc = "done"].pc = "done"
                        /\ [q EXCEPT !.pc = "done"].found = q.found
  BY DEF Thread
<1>4. \A q \in Run : [q EXCEPT !.pc = "over"] \in Run
  BY DEF Run
<1>5. \A t \in Tasks : /\ ended(t) \in Thread /\ ended(t).pc = "done"
                       /\ ended(t).found = thread[t].found /\ over(t) \in Run
  <2>1. \A t \in Tasks : thread[t] \in Thread /\ run[t] \in Run
    OBVIOUS
  <2> QED
    BY <1>2, <1>3, <1>4, <2>1
<1> HIDE DEF ended, over
<1>6. thread' \in [Tasks -> Thread]
      /\ \A t \in Tasks : thread'[t].pc \in {"new", "done"} /\ thread'[t].found = thread[t].found
  BY <1>1, <1>5 DEF ThreadAt
<1>7. NoRun \in Run /\ NoRun.pc = "none"
  BY DEF NoRun, Run
<1>8. run' \in [Tasks -> Run] /\ \A t \in Tasks : run'[t].pc # "none" => run[t].pc # "none"
  BY <1>1, <1>5, <1>7
<1>9. /\ NoCheck \in Check /\ NoCheck.task = 0 /\ 0 \notin Tasks
      /\ IdleMonitor \in Monitor /\ IdleMonitor.todo = {}
  BY NoEntryIsNone DEF NoCheck, Check, Statuses, IdleMonitor, Monitor
<1>10. server' \in Server /\ server'.wake = Watched /\ server'.telling = 0
  BY <1>1, DelegationAssumption DEF Server, Watched
<1>11. [run |-> 0, running |-> FALSE] \in SessionEntry
  BY DEF SessionEntry
<1> HIDE DEF NoRun, NoCheck, IdleMonitor
<1>12. /\ check' \in [Checkers -> Check] /\ entry' \in [Slots -> SessionEntry]
       /\ mon' \in Monitor
       /\ sender' \in [Tasks -> {"idle", "posting", "ok", "failed", "loaded", "over"}]
  BY <1>1, <1>9, <1>11
<1>13. TypeOK'
  BY <1>1, <1>6, <1>8, <1>10, <1>12, TypedNext
<1>14. \A u \in Watched : row[u].status # "none"
  BY DEF Watched, Status, InFlight
<1>15. \A u \in Tasks : Touched(u)' => Touched(u) \/ slot'[u] \in Slots
  <2> SUFFICES ASSUME NEW u \in Tasks PROVE Touched(u)' => Touched(u) \/ slot'[u] \in Slots
    OBVIOUS
  <2>1. /\ thread'[u].pc \notin {"clear", "post", "join", "accepted", "refused"}
        /\ row'[u].status # "none" => Touched(u)
        /\ sender'[u] # "idle" => Touched(u)
        /\ run'[u].pc # "none" => Touched(u)
        /\ \A v \in Tasks : thread'[v].found = u => Touched(u)
    BY <1>1, <1>6, <1>8, TouchedNow
  <2>2. u \in cleaning' \cup mon'.todo \cup server'.wake \cup {server'.telling} => Touched(u)
    BY <1>1, <1>9, <1>10, <1>14, TouchedNow
  <2>3. \A c \in Checkers : check'[c].task # u
    BY <1>1, <1>9
  <2> QED
    BY <2>1, <2>2, <2>3, TouchedNext
<1>16. Slotted'
  BY <1>1, <1>6, <1>15, SlottedNext
<1> QED
  BY <1>13, <1>16

LEMMA SameTypes ==
    ASSUME TypeInv, UNCHANGED vars
    PROVE  TypeInv'
<1>1. TypeOK'
  BY DEF vars, TypeInv, TypeOK
<1>2. Slotted'
  BY DEF vars, TypeInv, Slotted, Touched, Status
<1> QED
  BY <1>1, <1>2 DEF TypeInv

LEMMA CheckTasksStep ==
    ASSUME TypeInv, CheckTasks, [Next]_vars
    PROVE  CheckTasks'
<1> USE DEF CheckTasks
<1>1. ASSUME NEW c \in Checkers, NEW t \in Tasks, CheckLoad(c, t)
      PROVE  CheckTasks'
  <2>1. check' = [check EXCEPT ![c] = Looked(t, Status(t))]
    BY <1>1 DEF CheckLoad
  <2>2. Looked(t, Status(t)).task = t
    BY DEF Looked
  <2> HIDE DEF Looked
  <2> QED
    BY <2>1, <2>2, Typed DEF TypeInv
<1>2. ASSUME NEW c \in Checkers, CheckSave(c)
      PROVE  CheckTasks'
  <2>1. check' = [check EXCEPT ![c] = NoCheck]
    BY <1>2 DEF CheckSave
  <2> QED
    BY <2>1, Typed DEF TypeInv
<1>3. CASE MonVisit
  <2>1. mon.todo # {} /\ check' = [check EXCEPT !["monitor"] =
                                     Looked(Min(mon.todo), VisitedStatus(Min(mon.todo)))]
    BY <1>3, Visit
  <2>2. Min(mon.todo) \in Tasks
    BY <2>1, LeastListed, Typed DEF TypeInv, Monitor
  <2>3. Looked(Min(mon.todo), VisitedStatus(Min(mon.todo))).task \in Tasks
    BY <2>2 DEF Looked
  <2> HIDE DEF Looked
  <2> QED
    BY <2>1, <2>3, Typed DEF TypeInv
<1>4. CASE MonSave
  <2>1. check' = [check EXCEPT !["monitor"] = NoCheck]
    BY <1>4 DEF MonSave
  <2> QED
    BY <2>1, Typed DEF TypeInv
<1>5. CASE Crash
  <2>1. check' = [c \in Checkers |-> NoCheck]
    BY <1>5 DEF Crash
  <2> QED
    BY <2>1
<1>6. CASE UNCHANGED check
  BY <1>6
<1> QED
  BY ZenonT(30), <1>1, <1>2, <1>3, <1>4, <1>5, <1>6
     DEF Next, ThreadStep, LoopStep, MonStep, vars, Delegate, Scan, Verify, Clear, Dispatch, Join,
         SaveTask, SenderLoad, SenderSave, SendError, ApiChat, RunStart, RunRefused, RunTail,
         Cleanup, RunEnd, Dismiss, Tick, MonStart, MonTimeout, WakeTask, Tell

LEMMA TypeStep ==
    ASSUME TypeInv, CheckTasks, [Next]_vars
    PROVE  TypeInv'
<1>1. ASSUME NEW t \in Tasks,
             Delegate(t) \/ ThreadStep(t) \/ SendError(t) \/ LoopStep(t) \/ RunEnd(t)
             \/ Dismiss(t) \/ Tick(t)
      PROVE  TypeInv'
  BY <1>1, ThreadTypes, ScanTypes, VerifyTypes, SenderTypes, ApiChatTypes, RunStartTypes,
     RunEndTypes, CleanupTypes, DismissTypes, TickTypes
     DEF ThreadStep, LoopStep
<1>2. ASSUME NEW t \in Tasks, NEW c \in Checkers, CheckLoad(c, t)
      PROVE  TypeInv'
  BY <1>2, CheckLoadTypes
<1>3. ASSUME NEW c \in Checkers, CheckSave(c)
      PROVE  TypeInv'
  BY <1>3, CheckSaveTypes
<1>4. CASE MonStep
  BY <1>4, MonStartTypes, MonTimeoutTypes, MonVisitTypes, MonSaveTypes DEF MonStep
<1> QED
  BY <1>1, <1>2, <1>3, <1>4, TellTypes, WakeTaskTypes, CrashTypes, SameTypes DEF Next

LEMMA TypeStart ==
    ASSUME Init
    PROVE  TypeInv /\ CheckTasks
<1> USE DEF Init
<1>1. /\ NoRun \in Run /\ NoRun.pc = "none" /\ NoCheck \in Check /\ NoCheck.task = 0
      /\ IdleMonitor \in Monitor /\ IdleMonitor.todo = {} /\ 0 \notin Tasks
  BY NoEntryIsNone DEF NoRun, Run, NoCheck, Check, Statuses, IdleMonitor, Monitor
<1>2. [status |-> "none", result |-> NoEntry] \in Row
  BY DEF Row, Statuses
<1>3. [pc |-> "new", at |-> 1, found |-> 0] \in Thread /\ [run |-> 0, running |-> FALSE] \in SessionEntry
  BY DelegationAssumption DEF Thread, SessionEntry
<1>4. [wake |-> {}, telling |-> 0, crashes |-> 0, untold |-> {}] \in Server
  BY DelegationAssumption DEF Server
<1>5. <<>> \in Seq(Entry) /\ 0 \in Ages
  BY DEF Ages
<1> HIDE DEF NoRun, NoCheck, IdleMonitor
<1>6. TypeOK
  BY <1>1, <1>2, <1>3, <1>4, <1>5, Typed
<1>7. Slotted
  BY <1>1 DEF Slotted, Touched, Status
<1>8. CheckTasks
  BY DEF CheckTasks
<1> QED
  BY <1>6, <1>7, <1>8 DEF TypeInv

(***************************************************************************)
(* Every variable of the delegation keeps its type, whatever the callers,  *)
(* the model, the network, the clock and the server do: no faulty variant  *)
(* of the environment is left out, all of AllFeatures included.            *)
(***************************************************************************)
THEOREM DelegationTypeCorrect == Spec => []TypeOK
<1>1. Init => TypeInv /\ CheckTasks
  BY TypeStart
<1>2. TypeInv /\ CheckTasks /\ [Next]_vars => TypeInv' /\ CheckTasks'
  BY TypeStep, CheckTasksStep
<1>3. TypeInv => TypeOK
  BY DEF TypeInv
<1> QED
  BY <1>1, <1>2, <1>3, PTL DEF Spec

-----------------------------------------------------------------------------
(***************************************************************************)
(* One run for a task's message.  What has been sent off is on record: the *)
(* thread of a task that has not posted yet has left no trace, a POST on   *)
(* its way has none in the chat log, and a run that was ever started has   *)
(* the token there, which the system wake looks for.                       *)
(***************************************************************************)
Unsent == {"new", "scan", "verify", "clear", "post"}

SentOnce ==
    \A t \in Tasks :
       /\ thread[t].pc = "new" => slot[t] = 0
       /\ t \in server.wake => thread[t].pc = "done"
       /\ thread[t].pc \in Unsent => sender[t] = "idle" /\ t \notin log
       /\ sender[t] = "posting" => t \notin log
       /\ run[t].pc # "none" => t \in log

\* No run begins, none is forgotten.
RunsStay ==
    \A u \in Tasks : /\ run'[u].pc # "none" => run[u].pc # "none"
                     /\ run'[u].pc = "starting" => run[u].pc = "starting"

LEMMA RunsEnd ==
    ASSUME TypeInv, NEW r \in Tasks, RunEnd(r) \/ RunTail(r)
    PROVE  RunsStay
<1> USE Typed DEF TypeInv
<1>1. run[r].pc \in {"running", "tail"}
  BY DEF RunEnd, RunTail
<1>2. slot[r] \in Slots
  BY <1>1, TouchedNow DEF Slotted
<1> DEFINE ended(pc) == [run[r] EXCEPT !.pc = pc]
           over == [run EXCEPT ![r] = ended("over")]
           tail == [run EXCEPT ![r] = ended("tail")]
<1>3. \A pc \in {"over", "tail"} : ended(pc) \in Run /\ ended(pc).pc = pc
  <2>1. \A q \in Run : \A pc \in {"over", "tail"} :
           [q EXCEPT !.pc = pc] \in Run /\ [q EXCEPT !.pc = pc].pc = pc
    BY DEF Run
  <2> QED
    BY <2>1
<1>4. \/ \E h \in [Slots -> Seq(Entry)] : CompletionHook(slot[r], h, over)
      \/ run' = tail
  <2>1. CASE RunEnd(r)
    <3>1. PICK e \in Endings(r) : CompletionHook(slot[r], Appended(r, e), over) \/ run' = tail
      BY <2>1 DEF RunEnd, Appended, Reply1
    <3>2. Appended(r, e) \in [Slots -> Seq(Entry)]
      BY <1>2, ReplyTypes
    <3> QED
      BY <3>1, <3>2
  <2>2. CASE RunTail(r)
    BY <2>2 DEF RunTail
  <2> QED
    BY <2>1, <2>2
<1> HIDE DEF ended
<1>5. /\ over \in [Tasks -> Run] /\ over[r].pc = "over" /\ tail[r].pc = "tail"
      /\ \A u \in Tasks : u # r => over[u] = run[u] /\ tail[u] = run[u]
  BY <1>3
<1> HIDE DEF over, tail
<1>6. (\A u \in Tasks : run'[u].pc = over[u].pc) \/ run' = tail
  BY <1>2, <1>4, <1>5, HookTypes
<1> QED
  BY <1>1, <1>5, <1>6 DEF RunsStay

LEMMA RunsKept ==
    ASSUME TypeInv, NEW t \in Tasks,
           \/ RunStart(t) \/ RunRefused(t) \/ Cleanup(t) \/ Dismiss(t) \/ Tell
    PROVE  RunsStay
<1> USE Typed DEF TypeInv
<1>1. CASE RunStart(t) \/ RunRefused(t)
  <2>1. \A q \in Run : \A pc \in {"running", "refused"} : [q EXCEPT !.pc = pc].pc = pc
    BY DEF Run
  <2> DEFINE new(pc) == [run[t] EXCEPT !.pc = pc]
  <2>2. new("running").pc = "running" /\ new("refused").pc = "refused"
    BY <2>1
  <2>3. /\ run[t].pc = "starting"
        /\ run' = [run EXCEPT ![t] = new("running")] \/ run' = [run EXCEPT ![t] = new("refused")]
    BY <1>1 DEF RunStart, RunRefused
  <2> HIDE DEF new
  <2> QED
    BY <2>2, <2>3 DEF RunsStay
<1>2. CASE Cleanup(t)
  <2>1. run' = ProcessKilled(slot[t], run)
    BY <1>2 DEF Cleanup, DoCleanup
  <2> QED
    BY <2>1, KilledRuns DEF RunsStay
<1>3. CASE Dismiss(t)
  <2> DEFINE s == slot[t]
             over(u) == [run[u] EXCEPT !.pc = "over"]
             dead(u) == [run[u] EXCEPT !.killed = TRUE]
             cancelled == [u \in Tasks |->
                             IF u # entry[s].run \/ ~Live(u) THEN run[u]
                             ELSE IF run[u].pc = "starting" THEN over(u)
                             ELSE dead(u)]
  <2>1. run' = (IF s \in pooled THEN ProcessKilled(s, cancelled) ELSE cancelled)
    BY <1>3 DEF Dismiss
  <2>2. \A q \in Run : /\ [q EXCEPT !.pc = "over"] \in Run /\ [q EXCEPT !.pc = "over"].pc = "over"
                       /\ [q EXCEPT !.killed = TRUE] \in Run
                       /\ [q EXCEPT !.killed = TRUE].pc = q.pc
    BY DEF Run
  <2>3. \A u \in Tasks : /\ over(u) \in Run /\ over(u).pc = "over"
                         /\ dead(u) \in Run /\ dead(u).pc = run[u].pc
    <3>1. \A u \in Tasks : run[u] \in Run
      OBVIOUS
    <3> QED
      BY <2>2, <3>1
  <2> HIDE DEF over, dead, s
  <2>4. /\ cancelled \in [Tasks -> Run]
        /\ \A u \in Tasks : /\ cancelled[u].pc # "none" => run[u].pc # "none"
                            /\ cancelled[u].pc = "starting" => run[u].pc = "starting"
    BY <2>3 DEF Live
  <2> HIDE DEF cancelled
  <2> QED
    BY <2>1, <2>4, KilledRuns DEF RunsStay
<1>4. CASE Tell
  <2>1. run' = ProcessKilled(slot[server.telling], run) \/ run' = run
    BY <1>4 DEF Tell, DoCleanup
  <2> QED
    BY <2>1, KilledRuns DEF RunsStay
<1> QED
  BY <1>1, <1>2, <1>3, <1>4

\* The environment's steps leave the record alone.
LEMMA RecordKept ==
    ASSUME SentOnce, UNCHANGED <<slot, thread, log>>, server'.wake \subseteq server.wake, RunsStay,
           \A t \in Tasks : sender'[t] = sender[t] \/ (sender[t] # "idle" /\ sender'[t] # "posting")
    PROVE  SentOnce'
BY DEF SentOnce, RunsStay, Unsent

LEMMA ThreadRecord ==
    ASSUME TypeInv, SentOnce, NEW t \in Tasks,
           Delegate(t) \/ Scan(t) \/ Verify(t) \/ Clear(t) \/ Dispatch(t) \/ Join(t) \/ SaveTask(t)
    PROVE  SentOnce' /\ UNCHANGED run
<1> USE Typed DEF TypeInv
<1>1. UNCHANGED <<run, log, server>>
  BY DEF Delegate, Scan, Verify, Clear, Dispatch, Join, SaveTask
<1>2. thread[t].pc # "done"
  BY DEF Delegate, Scan, Verify, Clear, Dispatch, Join, SaveTask, ThreadAt
<1>3. /\ thread'[t].pc \in Unsent \ {"new"} => thread[t].pc \in Unsent /\ sender' = sender
      /\ thread'[t].pc # "new"
      /\ \A u \in Tasks \ {t} : thread'[u] = thread[u] /\ slot'[u] = slot[u] /\ sender'[u] = sender[u]
      /\ sender'[t] # sender[t] => thread[t].pc = "post"
  <2>1. CASE Delegate(t)
    BY <2>1, PcChanged DEF Delegate, ThreadAt, Unsent
  <2>2. CASE Scan(t)
    <3> DEFINE at(n) == [thread[t] EXCEPT !.at = n]
               verify(f) == [thread[t] EXCEPT !.pc = "verify", !.found = f]
    <3>1. \A n : at(n).pc = thread[t].pc
      <4>1. \A q \in Thread : \A n : [q EXCEPT !.at = n].pc = q.pc
        BY DEF Thread
      <4> QED
        BY <4>1
    <3>2. \A f : verify(f).pc = "verify"
      <4>1. \A q \in Thread : \A f : [q EXCEPT !.pc = "verify", !.found = f].pc = "verify"
        BY DEF Thread
      <4> QED
        BY <4>1
    <3>3. /\ thread[t].pc = "scan" /\ sender' = sender
          /\ slot' = slot \/ \E s : slot' = [slot EXCEPT ![t] = s]
          /\ \/ Goto(t, "clear") \/ Goto(t, "done")
             \/ \E f : thread' = [thread EXCEPT ![t] = verify(f)]
             \/ \E n : thread' = [thread EXCEPT ![t] = at(n)]
      BY ZenonT(30), <2>2 DEF Scan, ThreadAt
    <3> HIDE DEF at, verify
    <3>4. /\ thread'[t].pc \in {"clear", "done", "verify", "scan"}
          /\ \A u \in Tasks \ {t} : thread'[u] = thread[u]
      BY <3>1, <3>2, <3>3, PcChanged
    <3> QED
      BY <3>3, <3>4 DEF Unsent
  <2>3. CASE Verify(t)
    <3> DEFINE next == [thread[t] EXCEPT !.pc = "scan", !.at = thread[t].at + 1]
    <3>1. next.pc = "scan"
      <4>1. \A q \in Thread : \A n : [q EXCEPT !.pc = "scan", !.at = n].pc = "scan"
        BY DEF Thread
      <4> QED
        BY <4>1
    <3>2. /\ thread[t].pc = "verify" /\ sender' = sender
          /\ slot' = slot \/ \E s : slot' = [slot EXCEPT ![t] = s]
          /\ Goto(t, "clear") \/ thread' = [thread EXCEPT ![t] = next]
      BY <2>3 DEF Verify, ThreadAt
    <3> HIDE DEF next
    <3>3. thread'[t].pc \in {"clear", "scan"} /\ \A u \in Tasks \ {t} : thread'[u] = thread[u]
      BY <3>1, <3>2, PcChanged
    <3> QED
      BY <3>2, <3>3 DEF Unsent
  <2>4. CASE Clear(t)
    BY <2>4, PcChanged DEF Clear, ThreadAt, Unsent
  <2>5. CASE Dispatch(t)
    BY <2>5, PcChanged DEF Dispatch, ThreadAt, Unsent
  <2>6. CASE Join(t)
    BY <2>6, PcChanged DEF Join, ThreadAt, Unsent
  <2>7. CASE SaveTask(t)
    BY <2>7, PcChanged DEF SaveTask, Unsent
  <2> QED
    BY <2>1, <2>2, <2>3, <2>4, <2>5, <2>6, <2>7
<1> QED
  BY <1>1, <1>2, <1>3 DEF SentOnce, Unsent

LEMMA ApiChatRecord ==
    ASSUME TypeInv, SentOnce, NEW t \in Tasks, ApiChat(t)
    PROVE  /\ SentOnce'
           /\ \A u \in Tasks : run'[u].pc = "starting" => run[u].pc \in {"none", "starting"}
<1> USE Typed DEF TypeInv
<1> DEFINE r == entry[slot[t]].run
           more == [run[r] EXCEPT !.given = run[r].given \cup {t}]
<1>1. /\ sender[t] = "posting" /\ UNCHANGED <<slot, thread, server>>
      /\ \E st \in {"ok", "failed"} : sender' = [sender EXCEPT ![t] = st]
      /\ \/ run' = [run EXCEPT ![r] = more] /\ log' = log
         \/ run' = run /\ log' = log
         \/ run' = [run EXCEPT ![t] = NewRun(t)] /\ log' = log \cup {t}
  BY DEF ApiChat, Reply
<1>2. t \notin log /\ run[t].pc = "none" /\ thread[t].pc \notin Unsent
  BY <1>1 DEF SentOnce
<1>3. r \in Tasks => more.pc = run[r].pc
  <2>1. \A q \in Run : \A G : [q EXCEPT !.given = G].pc = q.pc
    BY DEF Run
  <2> QED
    BY <2>1
<1>4. NewRun(t).pc = "starting"
  BY DEF NewRun
<1> HIDE DEF r, more, NewRun
<1>5. \/ RunsStay /\ log' = log
      \/ /\ \A u \in Tasks \ {t} : run'[u] = run[u]
         /\ log' = log \cup {t}
  BY <1>1, <1>3, <1>4 DEF RunsStay
<1>6. \A u \in Tasks \ {t} : sender'[u] = sender[u]
  BY <1>1
<1>7. sender'[t] # "posting"
  BY <1>1
<1> QED
  BY <1>1, <1>2, <1>5, <1>6, <1>7 DEF SentOnce, RunsStay

LEMMA WakeRecord ==
    ASSUME TypeInv, SentOnce, WakeTask
    PROVE  SentOnce' /\ UNCHANGED run
<1> USE Typed DEF TypeInv
<1> DEFINE t == Min(server.wake)
<1>1. /\ server.wake # {} /\ server' = [server EXCEPT !.wake = @ \ {t}]
      /\ UNCHANGED <<slot, thread, run, log>>
      /\ \/ sender' = sender
         \/ /\ t \notin log
            /\ \E w \in {"posting", "failed"} : sender' = [sender EXCEPT ![t] = w]
  BY DEF WakeTask
<1>2. t \in server.wake /\ t \in Tasks
  BY <1>1, LeastListed DEF Server
<1>3. thread[t].pc = "done"
  BY <1>2 DEF SentOnce
<1>4. server'.wake \subseteq server.wake
  BY <1>1 DEF Server
<1> HIDE DEF t
<1> QED
  BY <1>1, <1>2, <1>3, <1>4 DEF SentOnce, Unsent

LEMMA CrashRecord ==
    ASSUME TypeInv, SentOnce, Crash
    PROVE  SentOnce' /\ RunsStay
<1> USE Typed DEF TypeInv
<1> DEFINE ended(t) == [thread[t] EXCEPT !.pc = "done"]
           over(t) == [run[t] EXCEPT !.pc = "over"]
<1>1. /\ server'.wake = Watched
      /\ thread' = [t \in Tasks |-> IF ThreadAt(t, "new") THEN thread[t] ELSE ended(t)]
      /\ sender' = [t \in Tasks |-> IF sender[t] = "idle" THEN "idle" ELSE "over"]
      /\ run' = [t \in Tasks |-> IF run[t].pc = "none" THEN NoRun ELSE over(t)]
      /\ UNCHANGED <<slot, log>>
  BY DEF Crash
<1>2. \A t \in Tasks : ended(t).pc = "done" /\ over(t).pc = "over"
  <2>1. \A q \in Thread : [q EXCEPT !.pc = "done"].pc = "done"
    BY DEF Thread
  <2>2. \A q \in Run : [q EXCEPT !.pc = "over"].pc = "over"
    BY DEF Run
  <2> QED
    BY <2>1, <2>2
<1>3. NoRun.pc = "none"
  BY DEF NoRun
<1> HIDE DEF ended, over, NoRun
<1>4. \A t \in Tasks : /\ thread'[t].pc = (IF thread[t].pc = "new" THEN "new" ELSE "done")
                       /\ run'[t].pc = (IF run[t].pc = "none" THEN "none" ELSE "over")
                       /\ sender'[t] = (IF sender[t] = "idle" THEN "idle" ELSE "over")
  BY <1>1, <1>2, <1>3 DEF ThreadAt
<1>5. \A t \in Watched : t \in Tasks /\ thread[t].pc # "new"
  <2>1. \A t \in Watched : t \in Tasks /\ row[t].status # "none"
    BY DEF Watched, Status, InFlight
  <2>2. 0 \notin Slots
    BY DEF Slots
  <2> QED
    BY <2>1, <2>2, TouchedNow DEF Slotted, SentOnce
<1>6. server'.wake = Watched
  BY <1>1
<1> QED
  BY <1>1, <1>4, <1>5, <1>6 DEF SentOnce, Unsent, RunsStay

\* What the wake has yet to look at stays while an end is saved and told.
LEMMA WakeStays ==
    ASSUME TypeInv,
           \/ \E r \in Tasks : RunEnd(r) \/ RunTail(r)
           \/ \E c \in Checkers : CheckSave(c)
           \/ MonSave \/ Tell
    PROVE  server'.wake = server.wake
<1>1. /\ server \in Server
      /\ \/ server' = server
         \/ \E t : server' = [server EXCEPT !.telling = t]
         \/ \E T : server' = [server EXCEPT !.untold = T]
  BY Typed DEF TypeInv, RunEnd, RunTail, CompletionHook, CheckSave, MonSave, Tell, ToTell
<1> QED
  BY <1>1 DEF Server

LEMMA SentOnceStep ==
    ASSUME TypeInv, CheckTasks, SentOnce, [Next]_vars
    PROVE  /\ SentOnce'
           /\ \A u \in Tasks : run'[u].pc = "starting" => run[u].pc \in {"none", "starting"}
<1> DEFINE Goal == /\ SentOnce'
                   /\ \A u \in Tasks : run'[u].pc = "starting" => run[u].pc \in {"none", "starting"}
<1>1. ASSUME RunsStay, UNCHANGED <<slot, thread, log, sender>>, server'.wake = server.wake
      PROVE  Goal
  <2>1. SentOnce'
    BY <1>1, RecordKept
  <2> QED
    BY <1>1, <2>1 DEF RunsStay
<1>2. ASSUME UNCHANGED run
      PROVE  RunsStay
  BY <1>2 DEF RunsStay
<1>3. ASSUME NEW t \in Tasks, SendError(t) \/ SenderLoad(t) \/ SenderSave(t)
      PROVE  Goal
  <2>1. /\ UNCHANGED <<slot, thread, log, run, server>> /\ sender[t] # "idle"
        /\ \E st \in {"failed", "loaded", "over"} : sender' = [sender EXCEPT ![t] = st]
    BY <1>3 DEF SendError, SenderLoad, SenderSave
  <2>2. \A u \in Tasks : sender'[u] = sender[u] \/ (sender[u] # "idle" /\ sender'[u] # "posting")
    BY <2>1, Typed DEF TypeInv
  <2>3. SentOnce'
    BY <1>2, <2>1, <2>2, RecordKept
  <2> QED
    BY <2>1, <2>3
<1>4. ASSUME NEW t \in Tasks,
             RunStart(t) \/ RunRefused(t) \/ RunTail(t) \/ RunEnd(t) \/ Cleanup(t) \/ Dismiss(t)
      PROVE  Goal
  <2>1. RunsStay
    BY <1>4, RunsEnd, RunsKept
  <2>2. UNCHANGED <<slot, thread, log, sender>>
    BY <1>4 DEF RunStart, RunRefused, RunTail, RunEnd, Cleanup, Dismiss
  <2>3. server'.wake = server.wake
    BY <1>4, WakeStays DEF RunStart, RunRefused, Cleanup, Dismiss
  <2> QED
    BY <1>1, <2>1, <2>2, <2>3
<1>5. ASSUME NEW t \in Tasks, Tick(t) \/ \E c \in Checkers : CheckLoad(c, t)
      PROVE  Goal
  BY <1>1, <1>2, <1>5 DEF Tick, CheckLoad
<1>6. ASSUME MonStart \/ MonTimeout \/ MonVisit
      PROVE  Goal
  <2>1. UNCHANGED <<slot, thread, log, sender, server, run>>
    BY <1>6 DEF MonStart, MonTimeout, MonVisit
  <2> QED
    BY <1>1, <1>2, <2>1
<1>7. ASSUME MonSave \/ Tell
      PROVE  Goal
  <2>1. 1 \in Tasks
    BY DelegationAssumption DEF Tasks
  <2>2. RunsStay /\ UNCHANGED <<slot, thread, log, sender>>
    BY <1>2, <1>7, <2>1, RunsKept DEF MonSave, Tell
  <2> QED
    BY <1>1, <1>7, <2>2, WakeStays
<1>8. ASSUME NEW t \in Tasks, ThreadStep(t) \/ Delegate(t) \/ ApiChat(t)
      PROVE  Goal
  BY <1>3, <1>8, ThreadRecord, ApiChatRecord DEF ThreadStep
<1>9. ASSUME WakeTask
      PROVE  Goal
  BY <1>9, WakeRecord
<1>10. ASSUME Crash
       PROVE  Goal
  BY <1>10, CrashRecord DEF RunsStay
<1>11. ASSUME UNCHANGED vars
       PROVE  Goal
  BY <1>1, <1>2, <1>11 DEF vars
<1>12. ASSUME NEW c \in Checkers, CheckSave(c)
       PROVE  Goal
  <2>1. UNCHANGED <<slot, thread, log, sender, run>>
    BY <1>12 DEF CheckSave
  <2> QED
    BY <1>1, <1>2, <1>12, <2>1, WakeStays
<1> HIDE DEF Goal
<1>13. ASSUME NEW t \in Tasks,
              Delegate(t) \/ ThreadStep(t) \/ SendError(t) \/ LoopStep(t) \/ RunEnd(t)
              \/ Dismiss(t) \/ Tick(t) \/ \E c \in Checkers : CheckLoad(c, t)
       PROVE  Goal
  BY <1>3, <1>4, <1>5, <1>8, <1>13 DEF LoopStep
<1>14. ASSUME MonStep \/ Tell
       PROVE  Goal
  BY <1>6, <1>7, <1>14 DEF MonStep
<1>15. Goal
  BY <1>9, <1>10, <1>11, <1>12, <1>13, <1>14 DEF Next
<1> QED
  BY <1>15 DEF Goal

(***************************************************************************)
(* A task's message starts at most one run, whatever the callers, the      *)
(* network, the clock and the crashes of the server do: no environment is  *)
(* left out, for any number of tasks, slots and crashes.                   *)
(***************************************************************************)
THEOREM NeverRunTwiceHolds == Spec => NeverRunTwice
<1> DEFINE A == \A t \in Tasks :
                  run[t].pc \notin {"none", "starting"} => run'[t].pc # "starting"
<1>1. Init => SentOnce
  BY DEF Init, SentOnce, Unsent, NoRun
<1>2. Init => TypeInv /\ CheckTasks
  BY TypeStart
<1>3. TypeInv /\ CheckTasks /\ SentOnce /\ [Next]_vars
      => TypeInv' /\ CheckTasks' /\ SentOnce'
  BY TypeStep, CheckTasksStep, SentOnceStep
<1>4. TypeInv /\ CheckTasks /\ SentOnce /\ [Next]_vars => [A]_vars
  BY SentOnceStep
<1> HIDE DEF A
<1>5. Spec => [][A]_vars
  BY <1>1, <1>2, <1>3, <1>4, PTL DEF Spec
<1> QED
  BY <1>5 DEF NeverRunTwice, A

-----------------------------------------------------------------------------
(***************************************************************************)
(* The end of a task, in every environment.  Whoever names a task before   *)
(* writing it found a row; a call writes the first row of its task; and    *)
(* while the system wake works nobody else writes at all.                  *)
(***************************************************************************)
Named(t) ==
    \/ sender[t] = "loaded"
    \/ t \in mon.todo \cup server.wake
    \/ \E c \in Checkers : check[c].task = t
    \/ \E u \in Tasks : thread[u].found = t

RowsMade ==
    \A t \in Tasks :
       /\ thread[t].pc # "done" => Status(t) = "none"
       /\ Named(t) => Status(t) # "none"
       /\ \A c \in Checkers : check[c].task = t => check[c].status # "none"

WakeAlone ==
    server.wake # {} =>
       /\ \A t \in Tasks : thread[t].pc \in {"new", "done"}
       /\ \A c \in Checkers : check[c] = NoCheck
       /\ mon.todo = {}
       /\ \A t \in server.wake : Status(t) \notin Settled

Recorded == RowsMade /\ WakeAlone

\* A status is never taken back to none, and who names a task found a row.
LEMMA RowsMadeNext ==
    ASSUME RowsMade,
           \A t \in Tasks :
              /\ thread'[t].pc # "done" => thread[t].pc # "done"
              /\ thread'[t].pc # "done" => row'[t] = row[t]
              /\ Status(t) # "none" => row'[t].status # "none"
              /\ Named(t)' => Named(t) \/ row'[t].status # "none"
              /\ \A c \in Checkers : check'[c].task = t =>
                    check'[c] = check[c] \/ check'[c].status # "none"
    PROVE  RowsMade'
BY DEF RowsMade, Named, Status

\* Steps that leave the calls alone: rows change, none is made.
RowsKeep ==
    \A t \in Tasks : \/ row'[t] = row[t]
                     \/ Status(t) # "none" /\ row'[t].status # "none"

\* What SettledStays asks of a step.
EndsStand == \A t \in Tasks : Status(t) \in Settled => row'[t] = row[t] \/ LateWrite(t)

LEMMA RowsMadeKept ==
    ASSUME RowsMade, RowsKeep, thread' = thread,
           \A t \in Tasks :
              /\ sender'[t] = "loaded" => sender[t] = "loaded" \/ Status(t) # "none"
              /\ t \in mon'.todo \cup server'.wake =>
                    t \in mon.todo \cup server.wake \/ Status(t) # "none"
              /\ \A c \in Checkers : check'[c].task = t =>
                    \/ check'[c] = check[c]
                    \/ Status(t) # "none" /\ check'[c].status # "none"
    PROVE  RowsMade'
BY DEF RowsMade, RowsKeep, Named, Status

\* Settled and in flight exclude each other, and neither is no row at all.
LEMMA StatusKinds ==
    /\ \A st \in InFlight : st # "none" /\ st \notin Settled
    /\ \A st \in Settled : st # "none" /\ st \notin InFlight
    /\ "dispatch_failed" \notin Settled /\ "none" \notin Settled
BY DEF InFlight, Settled

LEMMA CallSettles ==
    ASSUME TypeInv, RowsMade, NEW t \in Tasks,
           Delegate(t) \/ Scan(t) \/ Clear(t) \/ Dispatch(t) \/ Join(t) \/ SaveTask(t)
    PROVE  RowsMade' /\ EndsStand
<1> USE Typed DEF TypeInv
<1>1. thread[t].pc # "done" /\ Status(t) = "none"
  <2>1. thread[t].pc # "done"
    BY DEF Delegate, Scan, Clear, Dispatch, Join, SaveTask, ThreadAt
  <2> QED
    BY <2>1 DEF RowsMade
<1>2. UNCHANGED <<check, mon, server>>
  BY DEF Delegate, Scan, Clear, Dispatch, Join, SaveTask
<1>3. sender' = sender \/ sender' = [sender EXCEPT ![t] = "posting"]
  BY DEF Delegate, Scan, Clear, Dispatch, Join, SaveTask
<1>4. \/ row' = row
      \/ /\ thread' = [thread EXCEPT ![t].pc = "done"]
         /\ \E st \in {"dispatched", "dispatch_failed"} : row' = WithStatus(t, st)
  BY DEF Delegate, Scan, Clear, Dispatch, Join, SaveTask, Goto
<1>5. \A u \in Tasks : \/ row'[u] = row[u]
                       \/ u = t /\ row'[t].status # "none" /\ thread'[t].pc = "done"
  <2>1. CASE row' = row
    BY <2>1
  <2>2. ASSUME thread' = [thread EXCEPT ![t].pc = "done"],
               NEW st \in {"dispatched", "dispatch_failed"}, row' = WithStatus(t, st)
        PROVE  \A u \in Tasks : row'[u] = row[u]
                 \/ (u = t /\ row'[t].status # "none" /\ thread'[t].pc = "done")
    <3>1. st \in Statuses /\ st # "none"
      BY DEF Statuses, InFlight
    <3>2. thread'[t].pc = "done"
      BY <2>2, PcChanged DEF Goto
    <3> QED
      BY <2>2, <3>1, <3>2, StatusChanged
  <2> QED
    BY <1>4, <2>1, <2>2
<1>6. /\ \A u \in Tasks \ {t} : thread'[u] = thread[u]
      /\ thread'[t].found = thread[t].found \/ Status(thread'[t].found) # "none"
  <2>1. CASE Scan(t)
    <3> DEFINE s == thread[t].at
               found == IF s \in Slots THEN FindInflight(s) ELSE 0
    <3>1. found # 0 => found \in Tasks /\ Status(found) # "none"
      BY FoundInflight, StatusKinds DEF InFlightOn
    <3>2. \/ \E pc \in {"clear", "done"} : Goto(t, pc)
          \/ found # 0 /\ thread' = [thread EXCEPT ![t].pc = "verify", ![t].found = found]
          \/ thread' = [thread EXCEPT ![t].at = s + 1]
      BY <2>1 DEF Scan
    <3> HIDE DEF found
    <3>3. CASE \E pc \in {"clear", "done"} : Goto(t, pc)
      BY <3>3, PcChanged
    <3>4. CASE found # 0 /\ thread' = [thread EXCEPT ![t].pc = "verify", ![t].found = found]
      <4>1. thread[t] \in Thread
        OBVIOUS
      <4>2. [thread[t] EXCEPT !.pc = "verify", !.found = found].found = found
        BY ONLY <4>1 DEF Thread
      <4> QED
        BY <3>1, <3>4, <4>2
    <3>5. CASE thread' = [thread EXCEPT ![t].at = s + 1]
      <4>1. thread[t] \in Thread
        OBVIOUS
      <4>2. [thread[t] EXCEPT !.at = s + 1].found = thread[t].found
        BY ONLY <4>1 DEF Thread
      <4> QED
        BY <3>5, <4>2
    <3> QED
      BY <3>2, <3>3, <3>4, <3>5
  <2>2. CASE ~Scan(t)
    <3>1. \E pc \in {"scan", "post", "join", "accepted", "refused", "done"} : Goto(t, pc)
      BY <2>2 DEF Delegate, Clear, Dispatch, Join, SaveTask
    <3> QED
      BY <3>1, PcChanged
  <2> QED
    BY <2>1, <2>2
<1>7. RowsMade'
  <2>1. ASSUME NEW u \in Tasks
        PROVE  /\ thread'[u].pc # "done" => thread[u].pc # "done" /\ row'[u] = row[u]
               /\ Status(u) # "none" => row'[u].status # "none"
               /\ \A c \in Checkers : check'[c].task = u => check'[c] = check[c]
    BY <1>1, <1>2, <1>5, <1>6 DEF Status
  <2>2. ASSUME NEW u \in Tasks, Named(u)'
        PROVE  Named(u) \/ row'[u].status # "none"
    <3>1. CASE sender'[u] = "loaded"
      BY <1>3, <3>1 DEF Named
    <3>2. CASE u \in mon'.todo \cup server'.wake \/ \E c \in Checkers : check'[c].task = u
      BY <1>2, <3>2 DEF Named
    <3>3. CASE \E v \in Tasks : thread'[v].found = u
      BY <1>6, <2>1, <3>3 DEF Named
    <3> QED
      BY <2>2, <3>1, <3>2, <3>3 DEF Named
  <2> QED
    BY <2>1, <2>2, RowsMadeNext
<1> QED
  BY <1>1, <1>5, <1>7, StatusKinds DEF EndsStand

LEMMA VerifySettles ==
    ASSUME TypeInv, RowsMade, NEW t \in Tasks, Verify(t)
    PROVE  RowsMade' /\ EndsStand
<1> USE Typed DEF TypeInv
<1> DEFINE f == thread[t].found
<1>1. thread[t].pc = "verify" /\ UNCHANGED <<check, mon, server, sender>>
  BY DEF Verify, ThreadAt
<1>2. \/ thread' = [thread EXCEPT ![t].pc = "scan", ![t].at = @ + 1] /\ row' = row
      \/ row' = WithStatus(f, "failed") /\ Goto(t, "clear")
  BY DEF Verify
<1>3. /\ \A u \in Tasks : thread'[u].found = thread[u].found
      /\ \A u \in Tasks : thread'[u].pc # "done" => thread[u].pc # "done"
  <2>1. thread[t] \in Thread
    OBVIOUS
  <2>2. [thread[t] EXCEPT !.pc = "scan", !.at = @ + 1].found = f
    BY ONLY <2>1 DEF Thread
  <2>3. CASE thread' = [thread EXCEPT ![t].pc = "scan", ![t].at = @ + 1]
    BY <1>1, <2>2, <2>3
  <2>4. CASE Goto(t, "clear")
    <3>1. thread'[t].found = f /\ \A u \in Tasks \ {t} : thread'[u] = thread[u]
      BY <2>4, PcChanged
    <3> QED
      BY <1>1, <3>1
  <2> QED
    BY <1>2, <2>3, <2>4
<1>4. f \in Tasks => Status(f) # "none"
  BY DEF RowsMade, Named
<1>5. \A u \in Tasks : row'[u] = row[u] \/ (u = f /\ row'[u].status = "failed")
  <2>1. CASE row' = WithStatus(f, "failed")
    <3>1. "failed" \in Statuses
      BY DEF Statuses, Settled
    <3>2. CASE f \in Tasks
      BY <2>1, <3>1, <3>2, StatusChanged
    <3>3. CASE f \notin Tasks
      BY <2>1, <3>3 DEF WithStatus
    <3> QED
      BY <3>2, <3>3
  <2> QED
    BY <1>2, <2>1
<1>6. RowsMade'
  <2>1. ASSUME NEW u \in Tasks
        PROVE  /\ thread'[u].pc # "done" => thread[u].pc # "done" /\ row'[u] = row[u]
               /\ Status(u) # "none" => row'[u].status # "none"
               /\ Named(u)' => Named(u)
               /\ \A c \in Checkers : check'[c].task = u => check'[c] = check[c]
    BY <1>1, <1>3, <1>4, <1>5 DEF Status, Named, RowsMade
  <2> QED
    BY <2>1, RowsMadeNext
<1>7. EndsStand
  BY <1>5 DEF EndsStand, LateWrite
<1> QED
  BY <1>6, <1>7

LEMMA SenderSettles ==
    ASSUME TypeInv, RowsMade, NEW t \in Tasks, SendError(t) \/ SenderLoad(t) \/ SenderSave(t)
    PROVE  RowsMade' /\ EndsStand
<1> USE Typed DEF TypeInv
<1>1. UNCHANGED <<thread, check, mon, server>>
  BY DEF SendError, SenderLoad, SenderSave
<1>2. \/ sender' = [sender EXCEPT ![t] = "failed"] /\ row' = row
      \/ sender' = [sender EXCEPT ![t] = "loaded"] /\ row' = row /\ Status(t) = "dispatched"
      \/ sender' = [sender EXCEPT ![t] = "over"]
  BY DEF SendError, SenderLoad, SenderSave
<1>3. \/ row' = row
      \/ /\ sender[t] = "loaded" /\ SenderSave(t)
         /\ row' = [row EXCEPT ![t] = [status |-> "dispatch_failed", result |-> NoEntry]]
  BY DEF SendError, SenderLoad, SenderSave
<1>4. sender[t] = "loaded" => Status(t) # "none"
  BY DEF RowsMade, Named
<1>5. RowsKeep
  BY <1>3, <1>4 DEF RowsKeep
<1>6. EndsStand
  BY <1>3 DEF EndsStand, LateWrite
<1>7. \A u \in Tasks : sender'[u] = "loaded" => sender[u] = "loaded" \/ Status(u) # "none"
  BY <1>2
<1> QED
  BY <1>1, <1>5, <1>6, <1>7, RowsMadeKept

\* Runs, cleanups and dismissals write the rows of tasks in flight only.
LEMMA LoopSettles ==
    ASSUME TypeInv, RowsMade, NEW t \in Tasks,
           \/ ApiChat(t) \/ RunStart(t) \/ RunRefused(t) \/ RunEnd(t) \/ RunTail(t)
           \/ Cleanup(t) \/ Dismiss(t) \/ Tick(t) \/ MonStart \/ Tell
    PROVE  RowsMade' /\ EndsStand
<1> USE Typed DEF TypeInv
<1>1. UNCHANGED <<thread, check>>
  BY DEF ApiChat, RunStart, RunRefused, RunEnd, RunTail, Cleanup, Dismiss, Tick, MonStart, Tell
<1>2. \A u \in Tasks : sender'[u] = "loaded" => sender[u] = "loaded"
  <2>1. \/ sender' = sender
        \/ \E st \in {"ok", "failed"} : sender' = [sender EXCEPT ![t] = st]
    BY DEF ApiChat, Reply, RunStart, RunRefused, RunEnd, RunTail, Cleanup, Dismiss, Tick,
           MonStart, Tell
  <2> QED
    BY <2>1
<1>3. server'.wake = server.wake
  <2>1. CASE RunEnd(t) \/ RunTail(t) \/ Tell
    BY <2>1, WakeStays
  <2>2. CASE ~(RunEnd(t) \/ RunTail(t) \/ Tell)
    BY <2>2 DEF ApiChat, RunStart, RunRefused, Cleanup, Dismiss, Tick, MonStart
  <2> QED
    BY <2>1, <2>2
<1>4. \A u \in mon'.todo : u \in mon.todo \/ Status(u) # "none"
  <2>1. CASE MonStart
    BY <2>1, StatusKinds DEF MonStart, Watched
  <2>2. CASE Tell
    <3>1. \/ mon' = mon
          \/ mon' = [MonNext(server.telling) EXCEPT !.held = FALSE, !.waits = server.telling]
          \/ mon' = [MonNext(server.telling) EXCEPT !.held = @ /\ slot[server.telling] \notin pooled]
      BY <2>2 DEF Tell
    <3>2. MonNext(server.telling) \in Monitor /\ MonNext(server.telling).todo \subseteq mon.todo
      BY MonNextTypes
    <3> QED
      BY <3>1, <3>2 DEF Monitor
  <2>3. CASE Cleanup(t)
    <3>1. mon' = mon \/ mon' = [mon EXCEPT !.waits = 0]
      BY <2>3 DEF Cleanup
    <3> QED
      BY <3>1 DEF Monitor
  <2>4. CASE ~(MonStart \/ Tell \/ Cleanup(t))
    BY <2>4 DEF ApiChat, RunStart, RunRefused, RunEnd, RunTail, Dismiss, Tick
  <2> QED
    BY <2>1, <2>2, <2>3, <2>4
<1>5. \A u \in Tasks : row'[u] = row[u] \/ (Status(u) \in InFlight /\ row'[u].status # "none")
  <2>1. CASE RunRefused(t)
    <3>1. \A q \in Row : [q EXCEPT !.status = "dispatch_failed"].status = "dispatch_failed"
      BY DEF Row
    <3> QED
      BY <2>1, <3>1 DEF RunRefused, InFlightOn
  <2>2. CASE RunEnd(t) \/ RunTail(t)
    <3>1. \/ row' = row
          \/ \E h, rs : CompletionHook(slot[t], h, rs)
      BY <2>2 DEF RunEnd, RunTail
    <3>2. \/ row' = row
          \/ /\ FindInflight(slot[t]) # 0
             /\ \E found : row' = [row EXCEPT ![FindInflight(slot[t])] =
                                     [status |-> "completed", result |-> found]]
      BY <3>1 DEF CompletionHook
    <3>3. FindInflight(slot[t]) # 0 => Status(FindInflight(slot[t])) \in InFlight
      BY FoundInflight DEF InFlightOn
    <3> QED
      BY <3>2, <3>3
  <2>3. CASE Dismiss(t)
    <3>1. row' = row \/ (Status(t) \in InFlight /\ row' = WithStatus(t, "dismissed"))
      BY <2>3 DEF Dismiss
    <3>2. "dismissed" \in Statuses
      BY DEF Statuses, Settled
    <3> QED
      BY <3>1, <3>2, StatusChanged
  <2>4. CASE ~(RunRefused(t) \/ RunEnd(t) \/ RunTail(t) \/ Dismiss(t))
    BY <2>4 DEF ApiChat, RunStart, Cleanup, Tick, MonStart, Tell
  <2> QED
    BY <2>1, <2>2, <2>3, <2>4
<1>6. RowsKeep /\ EndsStand
  BY <1>5, StatusKinds DEF RowsKeep, EndsStand
<1> QED
  BY <1>1, <1>2, <1>3, <1>4, <1>6, RowsMadeKept

\* Only a check that loaded something else than the row holds changes its end.
LEMMA CheckedEnd ==
    ASSUME TypeInv, NEW c \in Checkers, check[c].task \in Tasks,
           check[c].status # "none"
    PROVE  /\ CheckedRow(check[c]).status # "none"
           /\ row[check[c].task] = [status |-> check[c].status, result |-> check[c].result]
              /\ Status(check[c].task) \in Settled
              => CheckedRow(check[c]) = row[check[c].task]
<1> USE Typed DEF TypeInv
<1>1. CheckedStatus(check[c].task, check[c].status, check[c].found) # "none"
  BY DEF CheckedStatus, InFlight
<1>2. check[c].status \in Settled
      => CheckedStatus(check[c].task, check[c].status, check[c].found) = check[c].status
  BY DEF CheckedStatus, InFlight, Settled
<1> QED
  BY <1>1, <1>2 DEF CheckedRow, Status

LEMMA CheckSettles ==
    ASSUME TypeInv, CheckTasks, RowsMade, NEW c \in Checkers,
           \/ \E t \in Tasks : CheckLoad(c, t)
           \/ CheckSave(c)
           \/ c = "monitor" /\ MonSave
    PROVE  RowsMade' /\ EndsStand
<1> USE Typed DEF TypeInv
<1>1. UNCHANGED <<thread, sender>>
  BY DEF CheckLoad, CheckSave, MonSave
<1>2. ASSUME NEW t \in Tasks, CheckLoad(c, t)
      PROVE  RowsMade' /\ EndsStand
  <2>1. /\ UNCHANGED <<row, mon, server>> /\ Status(t) # "none"
        /\ check' = [check EXCEPT ![c] = Looked(t, Status(t))]
    BY <1>2 DEF CheckLoad
  <2>2. Looked(t, Status(t)).task = t /\ Looked(t, Status(t)).status = Status(t)
    BY DEF Looked
  <2> HIDE DEF Looked
  <2> QED
    BY <1>1, <2>1, <2>2, RowsMadeKept DEF RowsKeep, EndsStand
<1>3. ASSUME CheckSave(c) \/ (c = "monitor" /\ MonSave)
      PROVE  RowsMade' /\ EndsStand
  <2> DEFINE t == check[c].task
             new == CheckedRow(check[c])
  <2>1. /\ check[c] # NoCheck /\ row' = [row EXCEPT ![t] = new]
        /\ check' = [check EXCEPT ![c] = NoCheck]
    BY <1>3 DEF CheckSave, MonSave
  <2>2. t \in Tasks /\ Status(t) # "none" /\ check[c].status # "none"
    BY <2>1 DEF CheckTasks, RowsMade, Named
  <2>3. new.status # "none"
    BY <2>2, CheckedEnd
  <2>4. row[t] = [status |-> check[c].status, result |-> check[c].result]
        /\ Status(t) \in Settled => new = row[t]
    BY <2>2, CheckedEnd
  <2>5. NoCheck.task = 0 /\ 0 \notin Tasks
    BY NoEntryIsNone DEF NoCheck
  <2>6. mon'.todo \subseteq mon.todo /\ server'.wake = server.wake
    <3>1. mon' = mon \/ mon' = MonNext(t)
      BY <1>3 DEF CheckSave, MonSave
    <3> QED
      BY <1>3, <3>1, WakeStays, MonNextTypes
  <2> HIDE DEF t, new, NoCheck
  <2>7. \A u \in Tasks : row'[u] = row[u] \/ (u = t /\ row'[u] = new)
    BY <2>1, <2>2
  <2>8. RowsKeep
    BY <2>2, <2>3, <2>7 DEF RowsKeep
  <2>9. \A d \in Checkers : check'[d] = check[d] \/ check'[d].task \notin Tasks
    BY <2>1, <2>5
  <2>10. RowsMade'
    BY <1>1, <2>6, <2>8, <2>9, RowsMadeKept
  <2>11. EndsStand
    BY <1>3, <2>4, <2>7 DEF EndsStand, LateWrite, t
  <2> QED
    BY <2>10, <2>11
<1> QED
  BY <1>2, <1>3

LEMMA MonitorSettles ==
    ASSUME TypeInv, RowsMade, MonTimeout \/ MonVisit
    PROVE  RowsMade' /\ EndsStand
<1> USE Typed DEF TypeInv
<1> DEFINE t == Min(mon.todo)
<1>1. mon.todo # {} /\ UNCHANGED <<thread, sender, server>>
  BY DEF MonTimeout, MonVisit
<1>2. t \in mon.todo /\ t \in Tasks
  BY <1>1, LeastListed DEF Monitor
<1>3. Status(t) # "none"
  BY <1>2 DEF RowsMade, Named
<1>4. \E st \in Statuses \ {"none"} : row' = WithStatus(t, st)
  <2>1. CASE MonTimeout
    BY <2>1 DEF MonTimeout, Statuses, Settled
  <2>2. CASE MonVisit
    <3>1. row' = WithStatus(t, VisitedStatus(t))
      BY <2>2, Visit
    <3>2. VisitedStatus(t) \in Statuses /\ VisitedStatus(t) # "none"
      BY <1>2, <1>3 DEF VisitedStatus, Status, Row, Statuses, InFlight
    <3> QED
      BY <3>1, <3>2
  <2> QED
    BY <2>1, <2>2
<1>5. \A d \in Checkers, u \in Tasks : check'[d].task = u =>
         check'[d] = check[d] \/ (u = t /\ check'[d].status # "none")
  <2>1. CASE MonTimeout
    BY <2>1 DEF MonTimeout
  <2>2. CASE MonVisit
    <3>1. check' = [check EXCEPT !["monitor"] = Looked(t, VisitedStatus(t))]
      BY <2>2, Visit
    <3>2. /\ Looked(t, VisitedStatus(t)).task = t
          /\ Looked(t, VisitedStatus(t)).status = VisitedStatus(t)
      BY DEF Looked
    <3>3. VisitedStatus(t) # "none"
      BY <1>3 DEF VisitedStatus
    <3> HIDE DEF Looked, VisitedStatus, t
    <3> QED
      BY <3>1, <3>2, <3>3
  <2> QED
    BY <2>1, <2>2
<1>6. mon'.todo \subseteq mon.todo
  <2>1. CASE MonTimeout
    BY <2>1, MonNextTypes DEF MonTimeout
  <2>2. CASE MonVisit
    <3>1. \E old : mon' = [mon EXCEPT !.held = TRUE, !.old[t] = old]
      BY <2>2, Visit
    <3> QED
      BY <3>1 DEF Monitor
  <2> QED
    BY <2>1, <2>2
<1> HIDE DEF t
<1>7. \A u \in Tasks : row'[u] = row[u] \/ (u = t /\ row'[u].status # "none")
  BY <1>2, <1>4, StatusChanged
<1>8. RowsKeep
  BY <1>3, <1>7 DEF RowsKeep
<1>9. EndsStand
  BY <1>2, <1>7 DEF EndsStand, LateWrite
<1> QED
  BY <1>1, <1>3, <1>5, <1>6, <1>8, <1>9, RowsMadeKept

LEMMA WakeSettles ==
    ASSUME TypeInv, Recorded, WakeTask
    PROVE  RowsMade' /\ EndsStand
<1> USE Typed DEF TypeInv, Recorded
<1> DEFINE t == Min(server.wake)
<1>1. /\ server.wake # {} /\ server' = [server EXCEPT !.wake = @ \ {t}]
      /\ UNCHANGED <<thread, check, mon>>
  BY DEF WakeTask
<1>2. /\ \/ row' = row
         \/ \E st \in {"timed_out", "running", "dispatched", "dispatch_failed"} :
                row' = WithStatus(t, st)
      /\ \/ sender' = sender
         \/ \E w \in {"posting", "failed"} : sender' = [sender EXCEPT ![t] = w]
  BY DEF WakeTask
<1>3. t \in server.wake /\ t \in Tasks
  BY <1>1, LeastListed DEF Server
<1>4. Status(t) # "none" /\ Status(t) \notin Settled
  BY <1>3 DEF RowsMade, Named, WakeAlone
<1>5. server'.wake \subseteq server.wake
  BY <1>1 DEF Server
<1> HIDE DEF t
<1>6. \A u \in Tasks : row'[u] = row[u] \/ (u = t /\ row'[u].status # "none")
  <2>1. CASE row' = row
    BY <2>1
  <2>2. ASSUME NEW st \in {"timed_out", "running", "dispatched", "dispatch_failed"},
               row' = WithStatus(t, st)
        PROVE  \A u \in Tasks : row'[u] = row[u] \/ (u = t /\ row'[u].status # "none")
    <3>1. st \in Statuses /\ st # "none"
      BY DEF Statuses, Settled, InFlight
    <3> QED
      BY <1>3, <2>2, <3>1, StatusChanged
  <2> QED
    BY <1>2, <2>1, <2>2
<1>7. \A u \in Tasks : sender'[u] = "loaded" => sender[u] = "loaded"
  BY <1>2
<1>8. RowsKeep /\ EndsStand
  BY <1>4, <1>6 DEF RowsKeep, EndsStand
<1> QED
  BY <1>1, <1>5, <1>7, <1>8, RowsMadeKept

LEMMA CrashSettles ==
    ASSUME TypeInv, RowsMade, Crash
    PROVE  RowsMade' /\ WakeAlone' /\ EndsStand
<1> USE Typed DEF TypeInv
<1> DEFINE ended(t) == [thread[t] EXCEPT !.pc = "done"]
<1>1. /\ server'.wake = Watched
      /\ thread' = [t \in Tasks |-> IF ThreadAt(t, "new") THEN thread[t] ELSE ended(t)]
      /\ sender' = [t \in Tasks |-> IF sender[t] = "idle" THEN "idle" ELSE "over"]
      /\ check' = [c \in Checkers |-> NoCheck] /\ mon' = IdleMonitor /\ row' = row
  BY DEF Crash
<1>2. \A t \in Tasks : ended(t).pc = "done" /\ ended(t).found = thread[t].found
  <2>1. \A q \in Thread : /\ [q EXCEPT !.pc = "done"].pc = "done"
                          /\ [q EXCEPT !.pc = "done"].found = q.found
    BY DEF Thread
  <2> QED
    BY <2>1
<1>3. NoCheck.task = 0 /\ IdleMonitor.todo = {} /\ 0 \notin Tasks
  BY NoEntryIsNone DEF NoCheck, IdleMonitor
<1> HIDE DEF ended, NoCheck, IdleMonitor
<1>4. \A t \in Tasks : /\ thread'[t].pc = (IF thread[t].pc = "new" THEN "new" ELSE "done")
                       /\ thread'[t].found = thread[t].found
                       /\ sender'[t] # "loaded"
                       /\ \A c \in Checkers : check'[c].task # t
  BY <1>1, <1>2, <1>3 DEF ThreadAt
<1>5. \A t \in Watched : t \in Tasks /\ Status(t) # "none" /\ Status(t) \notin Settled
  BY StatusKinds DEF Watched
<1>6. RowsMade'
  <2>1. ASSUME NEW t \in Tasks
        PROVE  /\ thread'[t].pc # "done" => thread[t].pc # "done" /\ row'[t] = row[t]
               /\ Status(t) # "none" => row'[t].status # "none"
               /\ \A c \in Checkers : check'[c].task # t
    BY <1>1, <1>4 DEF Status
  <2>2. ASSUME NEW t \in Tasks, Named(t)'
        PROVE  Named(t) \/ row'[t].status # "none"
    <3>1. CASE t \in server'.wake
      BY <1>1, <1>5, <3>1 DEF Status
    <3>2. CASE t \notin server'.wake
      BY <1>1, <1>3, <1>4, <2>2, <3>2 DEF Named
    <3> QED
      BY <3>1, <3>2
  <2> QED
    BY <2>1, <2>2, RowsMadeNext
<1>7. WakeAlone'
  <2>1. \A t \in server'.wake : row'[t].status \notin Settled
    BY <1>1, <1>5 DEF Status
  <2> QED
    BY <1>1, <1>3, <1>4, <2>1 DEF WakeAlone, Status
<1>8. EndsStand
  BY <1>1 DEF EndsStand
<1> QED
  BY <1>6, <1>7, <1>8

\* What may happen while the system wake has tasks left to look at.
LEMMA AloneSteps ==
    ASSUME TypeInv, CheckTasks, WakeAlone, server.wake # {}, [Next]_vars
    PROVE  \/ \E t \in Tasks : SendError(t) \/ SenderLoad(t) \/ SenderSave(t) \/ Tick(t)
           \/ Tell \/ WakeTask \/ Crash \/ UNCHANGED vars
<1>1. \A t \in Tasks : thread[t].pc \in {"new", "done"}
  BY DEF WakeAlone
<1>2. \A c \in Checkers : check[c] = NoCheck
  BY DEF WakeAlone
<1>3. mon.todo = {} /\ ~LoopFree
  BY DEF WakeAlone, LoopFree
<1>4. \A t \in Tasks : ~(Delegate(t) \/ Scan(t) \/ Verify(t) \/ Clear(t) \/ Dispatch(t)
                         \/ Join(t) \/ SaveTask(t))
  BY <1>1, <1>3 DEF Delegate, Scan, Verify, Clear, Dispatch, Join, SaveTask, ThreadAt
<1>5. \A t \in Tasks : ~(LoopStep(t) \/ RunEnd(t) \/ Dismiss(t))
  BY <1>3 DEF LoopStep, ApiChat, RunStart, RunRefused, RunTail, Cleanup, RunEnd, Dismiss
<1>6. \A t \in Tasks, c \in Checkers : ~CheckLoad(c, t)
  BY <1>3 DEF CheckLoad
<1>7. \A c \in Checkers : ~CheckSave(c)
  BY <1>2 DEF CheckSave
<1>8. ~MonStep
  BY <1>2, <1>3 DEF MonStep, MonStart, MonTimeout, MonVisit, MonSave, Checkers
<1> QED
  BY <1>4, <1>5, <1>6, <1>7, <1>8 DEF Next, ThreadStep

LEMMA WakeAloneStep ==
    ASSUME TypeInv, CheckTasks, Recorded, [Next]_vars, ~Crash
    PROVE  WakeAlone'
<1> USE Typed DEF TypeInv, Recorded
<1>1. CASE server.wake = {}
  <2>1. server'.wake = {}
    <3>1. server'.wake = server.wake \/ ~(\/ \E r \in Tasks : RunEnd(r) \/ RunTail(r)
                                          \/ \E c \in Checkers : CheckSave(c)
                                          \/ MonSave \/ Tell)
      BY WakeStays
    <3>2. ~WakeTask
      BY <1>1 DEF WakeTask
    <3>3. server' = server \/ server'.wake = server.wake
      BY ZenonT(30), <3>1, <3>2
         DEF Next, ThreadStep, LoopStep, MonStep, vars, Delegate, Scan, Verify, Clear, Dispatch,
             Join, SaveTask, SenderLoad, SenderSave, SendError, ApiChat, RunStart, RunRefused,
             Cleanup, Dismiss, Tick, CheckLoad, MonStart, MonTimeout, MonVisit
    <3> QED
      BY <1>1, <3>3
  <2> QED
    BY <2>1 DEF WakeAlone
<1>2. CASE server.wake # {}
  <2>1. \/ \E t \in Tasks : SendError(t) \/ SenderLoad(t) \/ SenderSave(t) \/ Tick(t)
        \/ Tell \/ WakeTask \/ UNCHANGED vars
    BY <1>2, AloneSteps
  <2>2. UNCHANGED <<thread, check>> /\ mon'.todo = {}
    <3>1. mon.todo = {}
      BY <1>2 DEF WakeAlone
    <3>2. MonNext(server.telling) \in Monitor /\ MonNext(server.telling).todo = {}
      BY <3>1, MonNextTypes
    <3>3. \/ mon' = mon
          \/ mon' = [MonNext(server.telling) EXCEPT !.held = FALSE, !.waits = server.telling]
          \/ mon' = [MonNext(server.telling) EXCEPT !.held = @ /\ slot[server.telling] \notin pooled]
      BY <2>1 DEF SendError, SenderLoad, SenderSave, Tick, Tell, WakeTask, vars
    <3>4. mon'.todo = {}
      BY <3>1, <3>2, <3>3 DEF Monitor
    <3> QED
      BY <2>1, <3>4 DEF SendError, SenderLoad, SenderSave, Tick, Tell, WakeTask, vars
  <2>3. \A t \in server'.wake : t \in server.wake /\ row'[t].status \notin Settled
    <3>1. CASE WakeTask
      <4> DEFINE t == Min(server.wake)
      <4>1. /\ server' = [server EXCEPT !.wake = @ \ {t}]
            /\ \/ row' = row
               \/ \E st \in {"timed_out", "running", "dispatched", "dispatch_failed"} :
                      row' = WithStatus(t, st)
        BY <3>1 DEF WakeTask
      <4>2. t \in Tasks /\ server.wake \subseteq Tasks
        BY <1>2, LeastListed DEF Server
      <4> HIDE DEF t
      <4>3. server'.wake = server.wake \ {t}
        BY <4>1 DEF Server
      <4>4. \A st \in {"timed_out", "running", "dispatched", "dispatch_failed"} : st \in Statuses
        BY DEF Statuses, Settled, InFlight
      <4>5. \A u \in Tasks \ {t} : row'[u] = row[u]
        BY <4>1, <4>2, <4>4, StatusChanged
      <4> QED
        BY <1>2, <4>2, <4>3, <4>5 DEF WakeAlone, Status
    <3>2. CASE \E t \in Tasks : SenderSave(t)
      <4>1. PICK t \in Tasks : SenderSave(t)
        BY <3>2
      <4>2. /\ row' = [row EXCEPT ![t] = [status |-> "dispatch_failed", result |-> NoEntry]]
            /\ server' = server
        BY <4>1 DEF SenderSave
      <4> QED
        BY <1>2, <4>2, StatusKinds DEF WakeAlone, Status, Server
    <3>3. CASE ~WakeTask /\ ~\E t \in Tasks : SenderSave(t)
      <4>1. row' = row
        BY <2>1, <3>3 DEF SendError, SenderLoad, Tick, Tell, vars
      <4>2. server'.wake = server.wake
        BY <2>1, <3>3, WakeStays DEF SendError, SenderLoad, Tick, vars
      <4> QED
        BY <1>2, <4>1, <4>2 DEF WakeAlone, Status
    <3> QED
      BY <3>1, <3>2, <3>3
  <2> QED
    BY <1>2, <2>2, <2>3 DEF WakeAlone, Status
<1> QED
  BY <1>1, <1>2

LEMMA RecordedStep ==
    ASSUME TypeInv, CheckTasks, Recorded, [Next]_vars
    PROVE  Recorded' /\ EndsStand
<1> USE DEF Recorded
<1>1. ASSUME NEW t \in Tasks,
             Delegate(t) \/ ThreadStep(t) \/ SendError(t) \/ LoopStep(t) \/ RunEnd(t)
             \/ Dismiss(t) \/ Tick(t)
      PROVE  RowsMade' /\ EndsStand
  BY <1>1, CallSettles, VerifySettles, SenderSettles, LoopSettles DEF ThreadStep, LoopStep
<1>2. ASSUME NEW t \in Tasks, NEW c \in Checkers, CheckLoad(c, t)
      PROVE  RowsMade' /\ EndsStand
  BY <1>2, CheckSettles
<1>3. ASSUME NEW c \in Checkers, CheckSave(c)
      PROVE  RowsMade' /\ EndsStand
  BY <1>3, CheckSettles
<1>4. ASSUME MonStep \/ Tell
      PROVE  RowsMade' /\ EndsStand
  <2>1. 1 \in Tasks /\ "monitor" \in Checkers
    BY DelegationAssumption DEF Tasks, Checkers
  <2>2. CASE MonSave
    BY <2>1, <2>2, CheckSettles
  <2>3. CASE MonStart \/ Tell
    BY <2>1, <2>3, LoopSettles
  <2> QED
    BY <1>4, <2>2, <2>3, MonitorSettles DEF MonStep
<1>5. ASSUME UNCHANGED vars
      PROVE  RowsMade' /\ EndsStand
  <2>1. RowsMade'
    BY <1>5 DEF vars, RowsMade, Named, Status
  <2>2. EndsStand
    BY <1>5 DEF vars, EndsStand
  <2> QED
    BY <2>1, <2>2
<1>6. RowsMade' /\ EndsStand
  <2>1. CASE WakeTask \/ Crash
    BY <2>1, WakeSettles, CrashSettles
  <2> QED
    BY <1>1, <1>2, <1>3, <1>4, <1>5, <2>1 DEF Next
<1>7. WakeAlone'
  BY CrashSettles, WakeAloneStep
<1> QED
  BY <1>6, <1>7

(***************************************************************************)
(* The end of a task is respected by everybody who has not read the row    *)
(* before: for any number of tasks, slots and crashes, and whatever the    *)
(* callers, the checks, the network and the clock do, only one of the four *)
(* late writers ever changes a settled row.                                *)
(***************************************************************************)
THEOREM SettledStaysHolds == Spec => SettledStays
<1>1. Init => Recorded
  <2>1. NoCheck.task = 0 /\ IdleMonitor.todo = {} /\ 0 \notin Tasks
    BY NoEntryIsNone DEF NoCheck, IdleMonitor
  <2> HIDE DEF NoCheck, IdleMonitor
  <2> QED
    BY <2>1 DEF Init, Recorded, RowsMade, WakeAlone, Named, Status
<1>2. Init => TypeInv /\ CheckTasks
  BY TypeStart
<1>3. TypeInv /\ CheckTasks /\ Recorded /\ [Next]_vars
      => TypeInv' /\ CheckTasks' /\ Recorded'
  BY TypeStep, CheckTasksStep, RecordedStep
<1>4. TypeInv /\ CheckTasks /\ Recorded /\ [Next]_vars => [EndsStand]_vars
  BY RecordedStep
<1>5. Spec => [][EndsStand]_vars
  BY <1>1, <1>2, <1>3, <1>4, PTL DEF Spec
<1> QED
  BY <1>5 DEF SettledStays, EndsStand

-----------------------------------------------------------------------------
(***************************************************************************)
(* Calm environments: callers take turns, messages arrive, nobody dismisses*)
(* or lets time pass.  Models may forget TASK_DONE, processes may die or go*)
(* silent, runs may be compacted, the API may check, the server may crash, *)
(* the parent may be of any kind.  A task that holds a slot then holds it  *)
(* alone, up to the step in which its row is settled; that, and what a     *)
(* check remembers while others run, is the invariant below.               *)
(***************************************************************************)
Calm == {"unmarked", "silent", "compaction", "apiCheck", "died", "remoteParent"}

\* The slot is the task's own: from its cleared history to the end of its row.
Past(t) == Status(t) \in InFlight \/ thread[t].pc \in {"post", "join", "accepted"}
Holds(t) == Past(t) \/ thread[t].pc = "clear"
HasReply(t) == run[t].pc \in {"tail", "over"}

\* What the monitor has listed is still open, but for the one it is about to tell.
ListCurrent == \A t \in mon.todo : IsOpen(t) \/ t = server.telling

\* delegate_task and its _send thread.
ThreadInv ==
    \A t \in Tasks :
        /\ age[t] = 0
        /\ thread[t].pc \notin {"verify", "refused"}
        /\ thread[t].pc # "done" => Status(t) = "none"
        /\ thread[t].pc # "new" => \A u \in 1 .. t - 1 : thread[u].pc = "done"
        /\ thread[t].pc \in {"new", "scan", "clear", "post"} => sender[t] = "idle" /\ t \notin log
        /\ thread[t].pc = "join" => sender[t] \in {"posting", "ok"}
        /\ sender[t] \notin {"failed", "loaded"}
        /\ Status(t) # "dispatch_failed"

\* A run belongs to a task that has the slot; a message is still to be posted
\* only if no run was ever started for it.
RunInv ==
    /\ \A t \in Tasks :
        /\ run[t].pc # "none" => t \in log /\ run[t].given = {t}
        /\ run[t].pc # "refused"
        /\ run[t].pc \in {"starting", "running"} => Past(t)
        /\ sender[t] = "posting" => Past(t) /\ t \notin log
    /\ \A s \in Slots : entry[s].running =>
        /\ entry[s].run \in Tasks /\ slot[entry[s].run] = s
        /\ run[entry[s].run].pc \in {"starting", "running"}

OneHolder == \A t, u \in Tasks : Holds(t) /\ Holds(u) /\ slot[t] = slot[u] => t = u

\* What is in the history of a slot that is held was left there by its holder.
ReplyInv == \A t \in Tasks : Past(t) /\ hist[slot[t]] # <<>> => HasReply(t)

\* A check remembers its row as it is.
CheckInv ==
    /\ check["tool"] = NoCheck
    /\ check["api"] # NoCheck => ~mon.held /\ check["monitor"] = NoCheck
    /\ check["monitor"] # NoCheck => mon.held /\ check["monitor"].task \in mon.todo
    /\ \A c \in Checkers : check[c] # NoCheck =>
        /\ check[c].task \in Tasks /\ check[c].status # "none"
        /\ check[c].status = Status(check[c].task)
        /\ check[c].result = row[check[c].task].result
        /\ check[c].status \in InFlight /\ check[c].found # NoEntry => HasReply(check[c].task)

\* The wake, and the telling of an end, have the loop to themselves.
WakeInv ==
    /\ server.wake # {} =>
        /\ \A c \in Checkers : check[c] = NoCheck
        /\ ~mon.held
        /\ \A t \in server.wake : Status(t) \in InFlight
    /\ server.telling # 0 =>
        /\ \A c \in Checkers : check[c] = NoCheck
        /\ server.wake = {}
        /\ Status(server.telling) \in Settled

CalmInv == ThreadInv /\ RunInv /\ OneHolder /\ ReplyInv /\ CheckInv /\ WakeInv

LEMMA CalmFeatures ==
    ASSUME Features \subseteq Calm
    PROVE  Features \cap {"concurrent", "force", "sendError", "lostReply", "poolFull", "time",
                          "toolCheck", "dismiss"} = {}
BY DEF Calm

-----------------------------------------------------------------------------
(* What leaves a part of the invariant alone *)

LEMMA RunKept ==
    ASSUME RunInv, UNCHANGED <<run, entry, log>>,
           \A u \in Tasks : Past(u) => Past(u)' /\ slot'[u] = slot[u],
           \A u \in Tasks : sender'[u] = "posting" => sender[u] = "posting"
    PROVE  RunInv'
<1>1. \A t \in Tasks :
        /\ run'[t].pc # "none" => t \in log' /\ run'[t].given = {t}
        /\ run'[t].pc # "refused"
        /\ run'[t].pc \in {"starting", "running"} => Past(t)'
        /\ sender'[t] = "posting" => Past(t)' /\ t \notin log'
  BY DEF RunInv
<1>2. \A s \in Slots : entry'[s].running =>
        /\ entry'[s].run \in Tasks /\ slot'[entry'[s].run] = s
        /\ run'[entry'[s].run].pc \in {"starting", "running"}
  BY DEF RunInv
<1> QED
  BY <1>1, <1>2 DEF RunInv

LEMMA HolderKept ==
    ASSUME OneHolder, \A u \in Tasks : Holds(u)' => Holds(u) /\ slot'[u] = slot[u]
    PROVE  OneHolder'
BY DEF OneHolder

LEMMA ReplyKept ==
    ASSUME ReplyInv,
           \A u \in Tasks : Past(u)' =>
              /\ Past(u) /\ slot'[u] = slot[u] /\ (HasReply(u) => HasReply(u)')
              /\ hist'[slot[u]] # <<>> => hist[slot[u]] # <<>> \/ HasReply(u)'
    PROVE  ReplyInv'
BY DEF ReplyInv

LEMMA CheckKept ==
    ASSUME CheckInv, UNCHANGED <<check, mon>>,
           \A u \in Tasks : Status(u) # "none" => row'[u] = row[u] /\ (HasReply(u) => HasReply(u)')
    PROVE  CheckInv'
<1>1. \A c \in Checkers : check'[c] # NoCheck =>
        /\ check'[c].task \in Tasks /\ check'[c].status # "none"
        /\ check'[c].status = row'[check'[c].task].status
        /\ check'[c].result = row'[check'[c].task].result
        /\ check'[c].status \in InFlight /\ check'[c].found # NoEntry
           => run'[check'[c].task].pc \in {"tail", "over"}
  <2> SUFFICES ASSUME NEW c \in Checkers, check'[c] # NoCheck
               PROVE  /\ check'[c].task \in Tasks /\ check'[c].status # "none"
                      /\ check'[c].status = row'[check'[c].task].status
                      /\ check'[c].result = row'[check'[c].task].result
                      /\ check'[c].status \in InFlight /\ check'[c].found # NoEntry
                         => run'[check'[c].task].pc \in {"tail", "over"}
    OBVIOUS
  <2>1. check' = check
    OBVIOUS
  <2>2. /\ check[c].task \in Tasks /\ check[c].status # "none"
        /\ check[c].status = Status(check[c].task)
        /\ check[c].result = row[check[c].task].result
        /\ check[c].status \in InFlight /\ check[c].found # NoEntry => HasReply(check[c].task)
    BY <2>1 DEF CheckInv
  <2>3. /\ row'[check[c].task] = row[check[c].task]
        /\ HasReply(check[c].task) => run'[check[c].task].pc \in {"tail", "over"}
    BY <2>2 DEF HasReply
  <2> QED
    BY <2>1, <2>2, <2>3 DEF Status, HasReply
<1> QED
  BY <1>1 DEF CheckInv, Status, HasReply

LEMMA WakeKept ==
    ASSUME WakeInv, UNCHANGED <<server, check, mon>>,
           \A u \in Tasks : Status(u) # "none" => row'[u] = row[u],
           server.wake \subseteq Tasks, server.telling \in Tasks \cup {0}
    PROVE  WakeInv'
BY DEF WakeInv, Status, Settled, InFlight

\* While the loop serves someone new, no check is under way and no wake.
LEMMA LoopSteps ==
    ASSUME CalmInv, LoopFree, UNCHANGED check
    PROVE  /\ CheckInv' /\ (UNCHANGED server => WakeInv')
           /\ server.wake = {} /\ server.telling = 0 /\ ~mon.held
           /\ \A c \in Checkers : check[c] = NoCheck
<1>1. \A c \in Checkers : check[c] = NoCheck
  BY DEF CalmInv, CheckInv, LoopFree, Checkers
<1>2. server.wake = {} /\ server.telling = 0 /\ ~mon.held
  BY DEF LoopFree
<1>3. "tool" \in Checkers /\ "api" \in Checkers /\ "monitor" \in Checkers
  BY DEF Checkers
<1>4. CheckInv'
  BY <1>1, <1>3 DEF CheckInv
<1>5. UNCHANGED server => WakeInv'
  BY <1>2 DEF WakeInv
<1> QED
  BY <1>1, <1>2, <1>4, <1>5

LEMMA HolderSlotted ==
    ASSUME TypeInv, NEW t \in Tasks, Holds(t)
    PROVE  slot[t] \in Slots /\ Touched(t)
<1>1. Touched(t)
  BY DEF Holds, Past, Touched, InFlight
<1> QED
  BY <1>1 DEF TypeInv, Slotted

\* While one delegate_task call is under way, earlier ones have ended and
\* later ones have not begun.
LEMMA OneCall ==
    ASSUME ThreadInv, NEW t \in Tasks, thread[t].pc \notin {"new", "done"}
    PROVE  \A u \in Tasks : /\ u < t => thread[u].pc = "done"
                            /\ u > t => thread[u].pc = "new"
                            /\ u # t => u < t \/ u > t
<1>1. \A u \in Tasks : u \in Nat \ {0}
  BY DelegationAssumption DEF Tasks
<1>2. \A u \in Tasks : u < t => thread[u].pc = "done"
  <2> SUFFICES ASSUME NEW u \in Tasks, u < t PROVE thread[u].pc = "done"
    OBVIOUS
  <2>1. u \in 1 .. t - 1
    BY <1>1
  <2> QED
    BY <2>1 DEF ThreadInv
<1>3. \A u \in Tasks : u > t => thread[u].pc = "new"
  <2> SUFFICES ASSUME NEW u \in Tasks, u > t PROVE thread[u].pc = "new"
    OBVIOUS
  <2>1. t \in 1 .. u - 1
    BY <1>1
  <2> QED
    BY <2>1 DEF ThreadInv
<1> QED
  BY <1>1, <1>2, <1>3

\* The call of t moves on from pc, the ones before it have ended.
LEMMA CallMoves ==
    ASSUME ThreadInv, NEW t \in Tasks, NEW pc,
           thread[t].pc # "done", pc \notin {"new", "verify", "refused"},
           \A u \in 1 .. t - 1 : thread[u].pc = "done",
           thread'[t].pc = pc, \A u \in Tasks \ {t} : thread'[u] = thread[u],
           \A u \in Tasks \ {t} : row'[u] = row[u] /\ sender'[u] = sender[u],
           UNCHANGED <<age, log>>,
           pc # "done" => row'[t] = row[t],
           row'[t].status # "dispatch_failed",
           pc \in {"scan", "clear", "post"} => sender'[t] = "idle" /\ t \notin log,
           pc = "join" => sender'[t] \in {"posting", "ok"},
           sender'[t] \notin {"failed", "loaded"}
    PROVE  ThreadInv'
<1> SUFFICES ASSUME NEW u \in Tasks
             PROVE  /\ age'[u] = 0
                    /\ thread'[u].pc \notin {"verify", "refused"}
                    /\ thread'[u].pc # "done" => row'[u].status = "none"
                    /\ thread'[u].pc # "new" => \A v \in 1 .. u - 1 : thread'[v].pc = "done"
                    /\ thread'[u].pc \in {"new", "scan", "clear", "post"}
                       => sender'[u] = "idle" /\ u \notin log'
                    /\ thread'[u].pc = "join" => sender'[u] \in {"posting", "ok"}
                    /\ sender'[u] \notin {"failed", "loaded"}
                    /\ row'[u].status # "dispatch_failed"
  BY DEF ThreadInv, Status
<1>1. t \in 1 .. NumTasks /\ u \in 1 .. NumTasks /\ NumTasks \in Nat
  BY DelegationAssumption DEF Tasks
<1>2. ASSUME thread'[u].pc # "new", NEW v \in 1 .. u - 1
      PROVE  thread'[v].pc = "done"
  <2>1. v \in Tasks
    BY <1>1 DEF Tasks
  <2>2. CASE u = t
    BY <2>1, <2>2, <1>1
  <2>3. CASE u # t
    <3>1. thread[u].pc # "new"
      BY <1>2, <2>3
    <3>2. thread[v].pc = "done"
      BY <3>1 DEF ThreadInv
    <3> QED
      BY <2>1, <3>2
  <2> QED
    BY <2>2, <2>3
<1>3. CASE u = t
  BY <1>2, <1>3 DEF ThreadInv, Status
<1>4. CASE u # t
  BY <1>2, <1>4 DEF ThreadInv, Status
<1> QED
  BY <1>3, <1>4

LEMMA DelegateCalm ==
    ASSUME Features \subseteq Calm, TypeInv, CalmInv, NEW t \in Tasks, Delegate(t)
    PROVE  CalmInv'
<1> USE Typed DEF TypeInv, CalmInv
<1>1. /\ LoopFree /\ thread[t].pc = "new"
      /\ \A u \in 1 .. t - 1 : thread[u].pc = "done"
      /\ UNCHANGED <<row, slot, age, sender, hist, run, entry, pooled, log, check, mon, told,
                     cleaning, server>>
  BY CalmFeatures DEF Delegate, ThreadAt
<1>2. thread'[t].pc = "scan" /\ \A u \in Tasks \ {t} : thread'[u] = thread[u]
  BY PcChanged DEF Delegate
<1>3. ThreadInv'
  <2>1. row[t].status # "dispatch_failed" /\ sender[t] = "idle" /\ t \notin log
    BY <1>1 DEF ThreadInv, Status
  <2> QED
    BY <1>1, <1>2, <2>1, CallMoves
<1>4. \A u \in Tasks : (Past(u)' <=> Past(u)) /\ (Holds(u)' <=> Holds(u))
  BY <1>1, <1>2 DEF Past, Holds, Status
<1>5. RunInv' /\ OneHolder' /\ ReplyInv'
  BY <1>1, <1>4, RunKept, HolderKept, ReplyKept DEF HasReply
<1> QED
  BY <1>1, <1>3, <1>5, LoopSteps

LEMMA ScanMoves ==
    ASSUME Features \subseteq Calm, TypeInv, CalmInv, NEW t \in Tasks, Scan(t)
    PROVE  /\ thread[t].pc = "scan" /\ Status(t) = "none" /\ sender[t] = "idle" /\ t \notin log
           /\ UNCHANGED <<row, age, sender, hist, run, entry, pooled, log, check, mon, told, cleaning,
                          server>>
           /\ \A u \in Tasks \ {t} : thread'[u] = thread[u] /\ slot'[u] = slot[u]
           /\ \/ thread'[t].pc \in {"scan", "done"}
              \/ thread'[t].pc = "clear" /\ slot'[t] \in Slots /\ InFlightOn(slot'[t]) = {}
<1> USE Typed DEF TypeInv, CalmInv
<1>1. /\ thread[t].pc = "scan" /\ Status(t) = "none" /\ sender[t] = "idle" /\ t \notin log
      /\ UNCHANGED <<row, age, sender, hist, run, entry, pooled, log, check, mon, told, cleaning,
                     server>>
  BY DEF Scan, ThreadAt, ThreadInv
<1>2. /\ \A u \in Tasks \ {t} : thread'[u] = thread[u] /\ slot'[u] = slot[u]
      /\ \/ thread'[t].pc \in {"scan", "done"}
         \/ thread'[t].pc = "clear" /\ slot'[t] \in Slots /\ InFlightOn(slot'[t]) = {}
  <2> DEFINE s == thread[t].at
             found == IF s \in Slots THEN FindInflight(s) ELSE 0
             next == [thread[t] EXCEPT !.at = s + 1]
  <2>1. \/ s \in Slots /\ found = 0 /\ slot' = [slot EXCEPT ![t] = s] /\ Goto(t, "clear")
        \/ found # 0 /\ Status(found) = "dispatched" /\ age[found] >= 1
        \/ found # 0 /\ thread' = [thread EXCEPT ![t] = next] /\ slot' = slot
        \/ Goto(t, "done") /\ slot' = slot
    BY CalmFeatures DEF Scan
  <2>2. CASE s \in Slots /\ found = 0 /\ slot' = [slot EXCEPT ![t] = s] /\ Goto(t, "clear")
    <3>1. InFlightOn(s) = {}
      BY <2>2, FoundInflight
    <3>2. thread'[t].pc = "clear" /\ \A u \in Tasks \ {t} : thread'[u] = thread[u]
      BY <2>2, PcChanged
    <3> HIDE DEF s
    <3> QED
      BY <2>2, <3>1, <3>2
  <2>3. CASE found # 0 /\ Status(found) = "dispatched" /\ age[found] >= 1
    <3>1. found \in Tasks
      BY <2>3, FoundInflight
    <3>2. age[found] = 0
      BY <3>1 DEF ThreadInv
    <3> QED
      BY <2>3, <3>2
  <2>4. CASE thread' = [thread EXCEPT ![t] = next] /\ slot' = slot
    <3>1. thread[t] \in Thread
      OBVIOUS
    <3>2. next.pc = "scan"
      BY <1>1, <3>1 DEF Thread
    <3> HIDE DEF next
    <3> QED
      BY <2>4, <3>2
  <2>5. CASE Goto(t, "done") /\ slot' = slot
    BY <2>5, PcChanged
  <2> QED
    BY <2>1, <2>2, <2>3, <2>4, <2>5
<1> QED
  BY <1>1, <1>2

LEMMA ScanCalm ==
    ASSUME Features \subseteq Calm, TypeInv, CalmInv, NEW t \in Tasks, Scan(t)
    PROVE  CalmInv'
<1> USE Typed DEF TypeInv, CalmInv
<1>1. /\ thread[t].pc = "scan" /\ Status(t) = "none" /\ sender[t] = "idle" /\ t \notin log
      /\ UNCHANGED <<row, age, sender, hist, run, entry, pooled, log, check, mon, told, cleaning,
                     server>>
  BY ScanMoves
<1>2. /\ \A u \in Tasks \ {t} : thread'[u] = thread[u] /\ slot'[u] = slot[u]
      /\ \/ thread'[t].pc \in {"scan", "done"}
         \/ thread'[t].pc = "clear" /\ slot'[t] \in Slots /\ InFlightOn(slot'[t]) = {}
  BY ScanMoves
<1>3. \A u \in Tasks : /\ u < t => thread[u].pc = "done"
                       /\ u > t => thread[u].pc = "new"
                       /\ u # t => u < t \/ u > t
  BY <1>1, OneCall
<1>4. ThreadInv'
  <2>1. \A u \in 1 .. t - 1 : thread[u].pc = "done"
    BY <1>1 DEF ThreadInv
  <2> QED
    BY <1>1, <1>2, <2>1, CallMoves DEF Status
<1>5. \A u \in Tasks : (Past(u)' <=> Past(u)) /\ (Past(u) => u # t)
  BY <1>1, <1>2 DEF Past, Status, InFlight
<1>6. RunInv' /\ ReplyInv'
  BY <1>1, <1>2, <1>5, RunKept, ReplyKept DEF HasReply
<1>7. OneHolder'
  <2>1. \A u \in Tasks \ {t} : Holds(u)' => Status(u) \in InFlight /\ Past(u)
    BY <1>1, <1>2, <1>3 DEF Holds, Past, Status, ThreadInv, InFlight
  <2>2. \A u \in Tasks \ {t} : Holds(u)' /\ Holds(t)' => slot'[u] # slot'[t]
    BY <1>1, <1>2, <2>1 DEF Holds, Past, Status, InFlightOn, InFlight
  <2>3. \A u \in Tasks \ {t} : Holds(u)' => Holds(u) /\ slot'[u] = slot[u]
    BY <1>2, <2>1 DEF Holds
  <2> QED
    BY <2>2, <2>3 DEF OneHolder
<1>8. CheckInv'
  BY <1>1, CheckKept DEF HasReply
<1>9. WakeInv'
  BY <1>1, WakeKept DEF Server
<1> QED
  BY <1>4, <1>6, <1>7, <1>8, <1>9

LEMMA ClearCalm ==
    ASSUME Features \subseteq Calm, TypeInv, CalmInv, NEW t \in Tasks, Clear(t)
    PROVE  CalmInv'
<1> USE Typed DEF TypeInv, CalmInv
<1>1. /\ thread[t].pc = "clear" /\ Status(t) = "none" /\ sender[t] = "idle" /\ t \notin log
      /\ hist' = [hist EXCEPT ![slot[t]] = <<>>] /\ Goto(t, "post")
      /\ UNCHANGED <<row, slot, age, sender, run, entry, pooled, log, check, mon, told, cleaning,
                     server>>
  BY CalmFeatures DEF Clear, ThreadAt, ThreadInv
<1>2. thread'[t].pc = "post" /\ \A u \in Tasks \ {t} : thread'[u] = thread[u]
  BY <1>1, PcChanged
<1>3. ThreadInv'
  <2>1. \A u \in 1 .. t - 1 : thread[u].pc = "done"
    BY <1>1 DEF ThreadInv
  <2> QED
    BY <1>1, <1>2, <2>1, CallMoves DEF Status
<1>4. /\ \A u \in Tasks : Holds(u)' <=> Holds(u)
      /\ \A u \in Tasks \ {t} : Past(u)' <=> Past(u)
      /\ Holds(t) /\ ~Past(t)
  BY <1>1, <1>2 DEF Past, Holds, Status, InFlight
<1>5. RunInv'
  BY <1>1, <1>4, RunKept
<1>6. OneHolder'
  BY <1>1, <1>4, HolderKept
<1>7. ReplyInv'
  <2> SUFFICES ASSUME NEW u \in Tasks, Past(u)', hist'[slot'[u]] # <<>> PROVE HasReply(u)'
    BY DEF ReplyInv
  <2>1. slot[t] \in Slots /\ slot[u] \in Slots
    BY <1>4, HolderSlotted DEF Holds
  <2>2. u # t
    BY <1>1, <2>1
  <2>3. Holds(u)
    BY <1>4, <2>2 DEF Holds
  <2>4. slot[u] # slot[t]
    BY <1>4, <2>2, <2>3 DEF OneHolder
  <2> QED
    BY <1>1, <1>4, <2>1, <2>2, <2>4 DEF ReplyInv, HasReply
<1>8. CheckInv'
  BY <1>1, CheckKept DEF HasReply
<1>9. WakeInv'
  BY <1>1, WakeKept DEF Server
<1> QED
  BY <1>3, <1>5, <1>6, <1>7, <1>8, <1>9

LEMMA DispatchCalm ==
    ASSUME Features \subseteq Calm, TypeInv, CalmInv, NEW t \in Tasks, Dispatch(t)
    PROVE  CalmInv'
<1> USE Typed DEF TypeInv, CalmInv
<1>1. /\ thread[t].pc = "post" /\ Status(t) = "none" /\ sender[t] = "idle" /\ t \notin log
      /\ sender' = [sender EXCEPT ![t] = "posting"] /\ Goto(t, "join")
      /\ UNCHANGED <<row, slot, age, hist, run, entry, pooled, log, check, mon, told, cleaning,
                     server>>
  BY DEF Dispatch, ThreadAt, ThreadInv
<1>2. thread'[t].pc = "join" /\ \A u \in Tasks \ {t} : thread'[u] = thread[u]
  BY <1>1, PcChanged
<1>3. sender'[t] = "posting" /\ \A u \in Tasks \ {t} : sender'[u] = sender[u]
  BY <1>1
<1>4. ThreadInv'
  <2>1. \A u \in 1 .. t - 1 : thread[u].pc = "done"
    BY <1>1 DEF ThreadInv
  <2> QED
    BY <1>1, <1>2, <1>3, <2>1, CallMoves DEF Status
<1>5. /\ \A u \in Tasks : (Holds(u)' <=> Holds(u)) /\ (Past(u)' <=> Past(u))
      /\ Past(t)
  BY <1>1, <1>2 DEF Past, Holds, Status, InFlight
<1>6. OneHolder' /\ ReplyInv'
  BY <1>1, <1>5, HolderKept, ReplyKept DEF HasReply
<1>7. RunInv'
  <2>1. \A u \in Tasks :
          /\ run'[u].pc # "none" => u \in log' /\ run'[u].given = {u}
          /\ run'[u].pc # "refused"
          /\ run'[u].pc \in {"starting", "running"} => Past(u)'
          /\ sender'[u] = "posting" => Past(u)' /\ u \notin log'
    BY <1>1, <1>3, <1>5 DEF RunInv
  <2>2. \A s \in Slots : entry'[s].running =>
          /\ entry'[s].run \in Tasks /\ slot'[entry'[s].run] = s
          /\ run'[entry'[s].run].pc \in {"starting", "running"}
    BY <1>1 DEF RunInv
  <2> QED
    BY <2>1, <2>2 DEF RunInv
<1>8. CheckInv'
  BY <1>1, CheckKept DEF HasReply
<1>9. WakeInv'
  BY <1>1, WakeKept DEF Server
<1> QED
  BY <1>4, <1>6, <1>7, <1>8, <1>9

LEMMA JoinCalm ==
    ASSUME Features \subseteq Calm, TypeInv, CalmInv, NEW t \in Tasks, Join(t)
    PROVE  CalmInv'
<1> USE Typed DEF TypeInv, CalmInv
<1>1. /\ thread[t].pc = "join" /\ Status(t) = "none" /\ Goto(t, "accepted")
      /\ sender[t] \in {"posting", "ok"}
      /\ UNCHANGED <<row, slot, age, sender, hist, run, entry, pooled, log, check, mon, told,
                     cleaning, server>>
  BY DEF Join, ThreadAt, ThreadInv
<1>2. thread'[t].pc = "accepted" /\ \A u \in Tasks \ {t} : thread'[u] = thread[u]
  BY <1>1, PcChanged
<1>3. ThreadInv'
  <2>1. \A u \in 1 .. t - 1 : thread[u].pc = "done"
    BY <1>1 DEF ThreadInv
  <2> QED
    BY <1>1, <1>2, <2>1, CallMoves DEF Status
<1>4. \A u \in Tasks : (Holds(u)' <=> Holds(u)) /\ (Past(u)' <=> Past(u))
  BY <1>1, <1>2 DEF Past, Holds, Status, InFlight
<1>5. RunInv' /\ OneHolder' /\ ReplyInv'
  BY <1>1, <1>4, RunKept, HolderKept, ReplyKept DEF HasReply
<1>6. CheckInv'
  BY <1>1, CheckKept DEF HasReply
<1>7. WakeInv'
  BY <1>1, WakeKept DEF Server
<1> QED
  BY <1>3, <1>5, <1>6, <1>7

\* The row is written as "dispatched": no call is refused in a calm environment.
LEMMA Saved ==
    ASSUME TypeInv, CalmInv, NEW t \in Tasks, SaveTask(t)
    PROVE  /\ thread[t].pc = "accepted" /\ Status(t) = "none" /\ slot[t] \in Slots
           /\ row'[t].status = "dispatched" /\ row'[t].result = row[t].result
           /\ \A u \in Tasks \ {t} : row'[u] = row[u]
           /\ thread'[t].pc = "done" /\ \A u \in Tasks \ {t} : thread'[u] = thread[u]
           /\ UNCHANGED <<slot, age, sender, hist, run, entry, pooled, log, check, mon, told,
                          cleaning, server>>
<1> USE Typed DEF TypeInv, CalmInv
<1>1. /\ thread[t].pc = "accepted" /\ Status(t) = "none" /\ Goto(t, "done")
      /\ row' = WithStatus(t, "dispatched")
      /\ UNCHANGED <<slot, age, sender, hist, run, entry, pooled, log, check, mon, told,
                     cleaning, server>>
  BY DEF SaveTask, ThreadAt, ThreadInv
<1>2. thread'[t].pc = "done" /\ \A u \in Tasks \ {t} : thread'[u] = thread[u]
  BY <1>1, PcChanged
<1>3. "dispatched" \in Statuses
  BY DEF Statuses, InFlight
<1>4. /\ row'[t].status = "dispatched" /\ row'[t].result = row[t].result
      /\ \A u \in Tasks \ {t} : row'[u] = row[u]
  BY <1>1, <1>3, StatusChanged
<1>5. slot[t] \in Slots
  BY <1>1 DEF Slotted, Touched
<1> QED
  BY <1>1, <1>2, <1>4, <1>5

LEMMA SaveTaskCalm ==
    ASSUME Features \subseteq Calm, TypeInv, CalmInv, NEW t \in Tasks, SaveTask(t)
    PROVE  CalmInv'
<1> USE Typed DEF TypeInv, CalmInv
<1>1. /\ thread[t].pc = "accepted" /\ Status(t) = "none"
      /\ row'[t].status = "dispatched" /\ \A u \in Tasks \ {t} : row'[u] = row[u]
      /\ thread'[t].pc = "done" /\ \A u \in Tasks \ {t} : thread'[u] = thread[u]
      /\ UNCHANGED <<slot, age, sender, hist, run, entry, pooled, log, check, mon, told,
                     cleaning, server>>
  BY Saved
<1>2. ThreadInv'
  <2>1. /\ \A u \in 1 .. t - 1 : thread[u].pc = "done"
        /\ sender[t] \notin {"failed", "loaded"}
    BY <1>1 DEF ThreadInv
  <2> QED
    BY <1>1, <2>1, CallMoves DEF Status
<1>3. \A u \in Tasks : (Holds(u)' <=> Holds(u)) /\ (Past(u)' <=> Past(u))
  BY <1>1 DEF Past, Holds, Status, InFlight
<1>4. RunInv' /\ OneHolder' /\ ReplyInv'
  BY <1>1, <1>3, RunKept, HolderKept, ReplyKept DEF HasReply
<1>5. \A u \in Tasks : Status(u) # "none" => row'[u] = row[u]
  BY <1>1
<1>6. CheckInv'
  BY <1>1, <1>5, CheckKept DEF HasReply
<1>7. WakeInv'
  BY <1>1, <1>5, WakeKept DEF Server, InFlight
<1> QED
  BY <1>2, <1>4, <1>6, <1>7

\* What a calm environment rules out.
LEMMA RuledOut ==
    ASSUME Features \subseteq Calm, TypeInv, CalmInv
    PROVE  /\ \A t \in Tasks : ~(Verify(t) \/ SenderLoad(t) \/ SenderSave(t) \/ SendError(t)
                                 \/ RunRefused(t) \/ Dismiss(t) \/ Tick(t) \/ CheckLoad("tool", t))
           /\ ~MonTimeout
<1> USE DEF CalmInv
<1>1. \A t \in Tasks : ~(SendError(t) \/ RunRefused(t) \/ Dismiss(t) \/ Tick(t) \/ CheckLoad("tool", t))
  BY CalmFeatures DEF SendError, RunRefused, Dismiss, Tick, CheckLoad
<1>2. \A t \in Tasks : ~(Verify(t) \/ SenderLoad(t) \/ SenderSave(t))
  BY DEF Verify, SenderLoad, SenderSave, ThreadAt, ThreadInv
<1>3. ~MonTimeout
  <2> SUFFICES ASSUME MonTimeout PROVE FALSE
    OBVIOUS
  <2>1. mon.todo # {} /\ age[Min(mon.todo)] = 3
    BY DEF MonTimeout
  <2>2. Min(mon.todo) \in Tasks
    BY <2>1, LeastListed, Typed DEF TypeInv, Monitor
  <2> QED
    BY <2>1, <2>2 DEF ThreadInv
<1> QED
  BY <1>1, <1>2, <1>3

-----------------------------------------------------------------------------
(* The event loop's steps *)

\* The calls do not move and no row does: delegate_task's part stays.
LEMMA ThreadsStay ==
    ASSUME ThreadInv, UNCHANGED <<age, thread>>,
           \A u \in Tasks : /\ row'[u].status # "dispatch_failed"
                            /\ Status(u) = "none" => row'[u].status = "none"
                            /\ thread[u].pc \in {"new", "scan", "clear", "post"} =>
                                 sender'[u] = "idle" /\ u \notin log'
                            /\ thread[u].pc = "join" => sender'[u] \in {"posting", "ok"}
                            /\ sender'[u] \notin {"failed", "loaded"}
    PROVE  ThreadInv'
<1> SUFFICES ASSUME NEW u \in Tasks
             PROVE  /\ age'[u] = 0
                    /\ thread'[u].pc \notin {"verify", "refused"}
                    /\ thread'[u].pc # "done" => row'[u].status = "none"
                    /\ thread'[u].pc # "new" => \A v \in 1 .. u - 1 : thread'[v].pc = "done"
                    /\ thread'[u].pc \in {"new", "scan", "clear", "post"}
                       => sender'[u] = "idle" /\ u \notin log'
                    /\ thread'[u].pc = "join" => sender'[u] \in {"posting", "ok"}
                    /\ sender'[u] \notin {"failed", "loaded"}
                    /\ row'[u].status # "dispatch_failed"
  BY DEF ThreadInv, Status
<1> QED
  BY DEF ThreadInv, Status

LEMMA ApiChatCalm ==
    ASSUME Features \subseteq Calm, TypeInv, CalmInv, NEW t \in Tasks, ApiChat(t)
    PROVE  CalmInv'
<1> USE Typed DEF TypeInv, CalmInv
<1> DEFINE s == slot[t]
           new == [run |-> t, running |-> TRUE]
<1>1. /\ LoopFree /\ sender[t] = "posting" /\ Past(t) /\ t \notin log /\ run[t].pc = "none"
      /\ UNCHANGED <<row, slot, age, thread, hist, pooled, check, mon, told, cleaning, server>>
  BY DEF ApiChat, RunInv
<1>2. Holds(t) /\ s \in Slots
  BY <1>1, HolderSlotted DEF Holds
<1>3. ~entry[s].running
  <2> SUFFICES ASSUME entry[s].running PROVE FALSE
    OBVIOUS
  <2>1. /\ entry[s].run \in Tasks /\ slot[entry[s].run] = s
        /\ run[entry[s].run].pc \in {"starting", "running"}
    BY <1>2 DEF RunInv
  <2>2. Holds(entry[s].run)
    BY <2>1 DEF RunInv, Holds
  <2>3. entry[s].run = t
    BY <1>2, <2>1, <2>2 DEF OneHolder
  <2> QED
    BY <1>1, <2>1, <2>3
<1>4. /\ entry' = [entry EXCEPT ![s] = new] /\ run' = [run EXCEPT ![t] = NewRun(t)]
      /\ log' = log \cup {t} /\ sender' = [sender EXCEPT ![t] = "ok"]
  BY <1>3, CalmFeatures DEF ApiChat, Reply
<1>5. NewRun(t).pc = "starting" /\ NewRun(t).given = {t} /\ new.run = t
  BY DEF NewRun
<1> HIDE DEF NewRun, new
<1>6. /\ run'[t].pc = "starting" /\ run'[t].given = {t} /\ \A u \in Tasks \ {t} : run'[u] = run[u]
      /\ sender'[t] = "ok" /\ \A u \in Tasks \ {t} : sender'[u] = sender[u]
      /\ entry'[s].run = t /\ \A z \in Slots \ {s} : entry'[z] = entry[z]
  BY <1>2, <1>4, <1>5
<1> HIDE DEF s
<1>7. ThreadInv'
  <2>1. thread[t].pc \notin {"new", "scan", "clear", "post"}
    BY <1>1 DEF ThreadInv
  <2> QED
    BY <1>1, <1>4, <1>6, <2>1, ThreadsStay DEF ThreadInv, Status
<1>8. \A u \in Tasks : (Holds(u)' <=> Holds(u)) /\ (Past(u)' <=> Past(u))
  BY <1>1 DEF Past, Holds, Status
<1>9. OneHolder'
  BY <1>1, <1>8, HolderKept
<1>10. ReplyInv'
  <2>1. \A u \in Tasks : HasReply(u) => HasReply(u)'
    BY <1>1, <1>6 DEF HasReply
  <2> QED
    BY <1>1, <1>8, <2>1, ReplyKept
<1>11. RunInv'
  <2>1. \A u \in Tasks :
          /\ run'[u].pc # "none" => u \in log' /\ run'[u].given = {u}
          /\ run'[u].pc # "refused"
          /\ run'[u].pc \in {"starting", "running"} => Past(u)'
          /\ sender'[u] = "posting" => Past(u)' /\ u \notin log'
    BY <1>1, <1>4, <1>6, <1>8 DEF RunInv
  <2>2. \A z \in Slots : entry'[z].running =>
          /\ entry'[z].run \in Tasks /\ slot'[entry'[z].run] = z
          /\ run'[entry'[z].run].pc \in {"starting", "running"}
    <3> SUFFICES ASSUME NEW z \in Slots, entry'[z].running
                 PROVE  /\ entry'[z].run \in Tasks /\ slot[entry'[z].run] = z
                        /\ run'[entry'[z].run].pc \in {"starting", "running"}
      BY <1>1
    <3>1. CASE z = s
      BY <1>6, <3>1 DEF s
    <3>2. CASE z # s
      <4>1. /\ entry'[z] = entry[z] /\ entry[z].run \in Tasks /\ slot[entry[z].run] = z
            /\ run[entry[z].run].pc \in {"starting", "running"}
        BY <1>6, <3>2 DEF RunInv
      <4> QED
        BY <1>6, <4>1
    <3> QED
      BY <3>1, <3>2
  <2> QED
    BY <2>1, <2>2 DEF RunInv
<1> QED
  BY <1>1, <1>7, <1>9, <1>10, <1>11, LoopSteps

LEMMA RunStartCalm ==
    ASSUME Features \subseteq Calm, TypeInv, CalmInv, NEW t \in Tasks, RunStart(t)
    PROVE  CalmInv'
<1> USE Typed DEF TypeInv, CalmInv
<1> DEFINE new == [run[t] EXCEPT !.pc = "running"]
<1>1. /\ LoopFree /\ run[t].pc = "starting" /\ run' = [run EXCEPT ![t] = new]
      /\ UNCHANGED <<row, slot, age, thread, sender, hist, entry, log, check, mon, told, cleaning,
                     server>>
  BY DEF RunStart
<1>2. new.pc = "running" /\ new.given = run[t].given
  <2>1. run[t] \in Run
    OBVIOUS
  <2> QED
    BY <2>1 DEF Run
<1> HIDE DEF new
<1>3. /\ run'[t].pc = "running" /\ run'[t].given = run[t].given
      /\ \A u \in Tasks \ {t} : run'[u] = run[u]
  BY <1>1, <1>2
<1>4. ThreadInv'
  BY <1>1, ThreadsStay DEF ThreadInv, Status
<1>5. \A u \in Tasks : (Holds(u)' <=> Holds(u)) /\ (Past(u)' <=> Past(u))
  BY <1>1 DEF Past, Holds, Status
<1>6. OneHolder'
  BY <1>1, <1>5, HolderKept
<1>7. ReplyInv'
  <2>1. \A u \in Tasks : HasReply(u) => HasReply(u)'
    BY <1>1, <1>3 DEF HasReply
  <2> QED
    BY <1>1, <1>5, <2>1, ReplyKept
<1>8. RunInv'
  <2>1. \A u \in Tasks :
          /\ run'[u].pc # "none" => u \in log' /\ run'[u].given = {u}
          /\ run'[u].pc # "refused"
          /\ run'[u].pc \in {"starting", "running"} => Past(u)'
          /\ sender'[u] = "posting" => Past(u)' /\ u \notin log'
    BY <1>1, <1>3, <1>5 DEF RunInv
  <2>2. \A z \in Slots : entry'[z].running =>
          /\ entry'[z].run \in Tasks /\ slot'[entry'[z].run] = z
          /\ run'[entry'[z].run].pc \in {"starting", "running"}
    BY <1>1, <1>3 DEF RunInv
  <2> QED
    BY <2>1, <2>2 DEF RunInv
<1> QED
  BY <1>1, <1>4, <1>6, <1>7, <1>8, LoopSteps

-----------------------------------------------------------------------------
(* The end of a run *)

LEMMA KilledKeeps ==
    ASSUME NEW s, NEW rs \in [Tasks -> Run]
    PROVE  \A u \in Tasks : /\ ProcessKilled(s, rs)[u].pc = rs[u].pc
                            /\ ProcessKilled(s, rs)[u].given = rs[u].given
                            /\ slot[u] # s => ProcessKilled(s, rs)[u] = rs[u]
                            /\ rs[u].pc \notin {"running", "tail"} => ProcessKilled(s, rs)[u] = rs[u]
<1> SUFFICES ASSUME NEW u \in Tasks
             PROVE  /\ ProcessKilled(s, rs)[u].pc = rs[u].pc
                    /\ ProcessKilled(s, rs)[u].given = rs[u].given
                    /\ slot[u] # s => ProcessKilled(s, rs)[u] = rs[u]
                    /\ rs[u].pc \notin {"running", "tail"} => ProcessKilled(s, rs)[u] = rs[u]
  OBVIOUS
<1> DEFINE dead == [rs[u] EXCEPT !.killed = TRUE]
<1>1. dead.pc = rs[u].pc /\ dead.given = rs[u].given
  <2>1. rs[u] \in Run
    OBVIOUS
  <2> QED
    BY <2>1 DEF Run
<1>2. ProcessKilled(s, rs)[u] = IF slot[u] = s /\ rs[u].pc \in {"running", "tail"}
                                THEN dead ELSE rs[u]
  BY DEF ProcessKilled
<1> HIDE DEF dead
<1> QED
  BY <1>1, <1>2

\* The cleanup of a task: runs keep where they are, and one history is cleared.
LEMMA Cleans ==
    ASSUME TypeInv, NEW t \in Tasks, DoCleanup(t)
    PROVE  /\ \A u \in Tasks : /\ run'[u].pc = run[u].pc /\ run'[u].given = run[u].given
                               /\ slot[u] # slot[t] => run'[u] = run[u]
                               /\ run[u].pc \notin {"running", "tail"} => run'[u] = run[u]
           /\ \A z \in Slots : hist'[z] = hist[z] \/ (z = slot[t] /\ hist'[z] = <<>>)
<1> USE Typed DEF TypeInv
<1>1. hist' = Cleared(slot[t]) /\ run' = ProcessKilled(slot[t], run)
  BY DEF DoCleanup
<1>2. \A z \in Slots : hist'[z] = hist[z] \/ (z = slot[t] /\ hist'[z] = <<>>)
  BY <1>1 DEF Cleared
<1> QED
  BY <1>1, <1>2, KilledKeeps

\* The hook completes the youngest task in flight on the slot, or does nothing.
LEMMA Hooked ==
    ASSUME TypeInv, NEW s \in Slots,
           NEW h \in [Slots -> Seq(Entry)], NEW rs,
           CompletionHook(s, h, rs)
    PROVE  /\ hist' = h /\ run' = rs
           /\ \/ UNCHANGED <<row, server>>
              \/ \E t \in Tasks :
                    /\ Status(t) \in InFlight /\ slot[t] = s
                    /\ row'[t].status = "completed" /\ t \in row'[t].result.marks
                    /\ h[s] # <<>> /\ \E i \in DOMAIN h[s] : row'[t].result = h[s][i]
                    /\ \A u \in Tasks \ {t} : row'[u] = row[u]
                    /\ server' = [server EXCEPT !.telling = t]
<1> USE Typed DEF TypeInv
<1> DEFINE t == FindInflight(s)
           found == IF t = 0 THEN NoEntry ELSE ExtractResponse(t, h[s])
           new == [status |-> "completed", result |-> found]
<1>1. t \in InFlightOn(s) \cup {0}
  BY FoundInflight
<1>2. t # 0 => t \in Tasks /\ slot[t] = s /\ Status(t) \in InFlight
  BY <1>1 DEF InFlightOn
<1>3. /\ hist' = h /\ run' = rs
      /\ \/ /\ t # 0 /\ t \in found.marks
            /\ row' = [row EXCEPT ![t] = new] /\ server' = [server EXCEPT !.telling = t]
         \/ UNCHANGED <<row, server>>
  BY DEF CompletionHook, ToTell
<1>4. CASE UNCHANGED <<row, server>>
  BY <1>3, <1>4
<1>5. CASE /\ t # 0 /\ t \in found.marks
           /\ row' = [row EXCEPT ![t] = new] /\ server' = [server EXCEPT !.telling = t]
  <2>1. NoEntry.marks = {}
    BY DEF NoEntry
  <2>2. h[s] \in Seq(Entry) /\ found = ExtractResponse(t, h[s])
    BY <1>5
  <2>3. h[s] # <<>> /\ \E i \in DOMAIN h[s] : found = h[s][i]
    BY <1>5, <2>1, <2>2, ExtractedReply
  <2>4. new.status = "completed" /\ new.result = found
    OBVIOUS
  <2> HIDE DEF t, found, new
  <2>5. row'[t].status = "completed" /\ row'[t].result = found
        /\ \A u \in Tasks \ {t} : row'[u] = row[u]
    BY <1>2, <1>5, <2>4
  <2> QED
    BY <1>2, <1>3, <1>5, <2>3, <2>5
<1> QED
  BY <1>3, <1>4, <1>5

LEMMA HookEnds ==
    ASSUME TypeInv, CalmInv, NEW r \in Tasks, slot[r] \in Slots,
           NEW h \in [Slots -> Seq(Entry)], NEW rs \in [Tasks -> Run],
           rs[r].pc = "over", rs[r].given = run[r].given,
           \A u \in Tasks \ {r} : rs[u] = run[u],
           \A z \in Slots : h[z] # <<>> => hist[z] # <<>> \/ (z = slot[r] /\ run[r].pc = "running"),
           CompletionHook(slot[r], h, rs)
    PROVE  /\ run'[r].pc = "over" /\ run'[r].given = run[r].given
           /\ \A u \in Tasks \ {r} : run'[u] = run[u]
           /\ \A z \in Slots : hist'[z] # <<>> => hist[z] # <<>> \/ (z = slot[r] /\ run[r].pc = "running")
           /\ \/ UNCHANGED <<row, server>>
              \/ \E t \in Tasks : /\ Status(t) \in InFlight /\ slot[t] = slot[r]
                                  /\ row'[t].status = "completed" /\ HasReply(t)'
                                  /\ \A u \in Tasks \ {t} : row'[u] = row[u]
                                  /\ server' = [server EXCEPT !.telling = t]
<1>1. /\ hist' = h /\ run' = rs
      /\ \/ UNCHANGED <<row, server>>
         \/ \E t \in Tasks :
                /\ Status(t) \in InFlight /\ slot[t] = slot[r]
                /\ row'[t].status = "completed" /\ t \in row'[t].result.marks
                /\ h[slot[r]] # <<>> /\ \E i \in DOMAIN h[slot[r]] : row'[t].result = h[slot[r]][i]
                /\ \A u \in Tasks \ {t} : row'[u] = row[u]
                /\ server' = [server EXCEPT !.telling = t]
  <2> DEFINE z == slot[r]
  <2>1. z \in Slots /\ CompletionHook(z, h, rs)
    OBVIOUS
  <2> HIDE DEF z
  <2>2. /\ hist' = h /\ run' = rs
        /\ \/ UNCHANGED <<row, server>>
           \/ \E t \in Tasks :
                /\ Status(t) \in InFlight /\ slot[t] = z
                /\ row'[t].status = "completed" /\ t \in row'[t].result.marks
                /\ h[z] # <<>> /\ \E i \in DOMAIN h[z] : row'[t].result = h[z][i]
                /\ \A u \in Tasks \ {t} : row'[u] = row[u]
                /\ server' = [server EXCEPT !.telling = t]
    BY ONLY <2>1, TypeInv, h \in [Slots -> Seq(Entry)], Hooked
  <2> QED
    BY <2>2 DEF z
<1> USE DEF CalmInv
<1>2. \A u \in Tasks : run'[u].pc = IF u = r THEN "over" ELSE run[u].pc
  BY <1>1
<1>3. ASSUME NEW t \in Tasks, Status(t) \in InFlight, slot[t] = slot[r], h[slot[r]] # <<>>
      PROVE  HasReply(t)'
  <2>1. Past(t) /\ Holds(t)
    BY <1>3 DEF Past, Holds
  <2>2. CASE hist[slot[r]] # <<>>
    BY <1>2, <1>3, <2>1, <2>2 DEF ReplyInv, HasReply
  <2>3. CASE run[r].pc = "running"
    <3>1. Holds(r)
      BY <2>3 DEF RunInv, Holds
    <3>2. t = r
      BY <1>3, <2>1, <3>1 DEF OneHolder
    <3> QED
      BY <1>2, <3>2 DEF HasReply
  <2> QED
    BY <1>3, <2>2, <2>3
<1> QED
  BY <1>1, <1>2, <1>3

LEMMA RunEnds ==
    ASSUME TypeInv, CalmInv, NEW r \in Tasks, RunEnd(r) \/ RunTail(r)
    PROVE  /\ LoopFree /\ slot[r] \in Slots
           /\ UNCHANGED <<slot, age, thread, sender, pooled, log, check, mon, told, cleaning>>
           /\ ~entry'[slot[r]].running /\ \A z \in Slots \ {slot[r]} : entry'[z] = entry[z]
           /\ run'[r].pc \in {"tail", "over"} /\ run'[r].given = run[r].given
           /\ \A u \in Tasks \ {r} : run'[u] = run[u]
           /\ \A z \in Slots : hist'[z] # <<>> =>
                hist[z] # <<>> \/ (z = slot[r] /\ run[r].pc = "running")
           /\ \/ UNCHANGED <<row, server>>
              \/ \E t \in Tasks : /\ Status(t) \in InFlight /\ slot[t] = slot[r]
                                  /\ row'[t].status = "completed" /\ HasReply(t)'
                                  /\ \A u \in Tasks \ {t} : row'[u] = row[u]
                                  /\ server' = [server EXCEPT !.telling = t]
<1> USE Typed DEF TypeInv
<1>1. LoopFree /\ run[r].pc \in {"running", "tail"} /\ run[r] \in Run
      /\ UNCHANGED <<slot, age, thread, sender, pooled, log, check, mon, told, cleaning>>
  BY DEF RunEnd, RunTail
<1>2. slot[r] \in Slots
  BY <1>1, TouchedNow DEF Slotted
<1> DEFINE quiet == [entry[slot[r]] EXCEPT !.running = FALSE]
           ended == [run[r] EXCEPT !.pc = "over"]
           trailing == [run[r] EXCEPT !.pc = "tail"]
           over == [run EXCEPT ![r] = ended]
           tail == [run EXCEPT ![r] = trailing]
           Later(h) == \A z \in Slots : h[z] # <<>> =>
                          hist[z] # <<>> \/ (z = slot[r] /\ run[r].pc = "running")
<1>3. ~quiet.running
  <2>1. entry[slot[r]] \in SessionEntry
    BY <1>2
  <2> QED
    BY <2>1 DEF SessionEntry
<1>4. entry' = [entry EXCEPT ![slot[r]] = quiet]
  BY DEF RunEnd, RunTail
<1>5. /\ ended \in Run /\ ended.pc = "over" /\ ended.given = run[r].given
      /\ trailing \in Run /\ trailing.pc = "tail" /\ trailing.given = run[r].given
  BY <1>1 DEF Run
<1>6. \/ \E h \in [Slots -> Seq(Entry)] : CompletionHook(slot[r], h, over) /\ Later(h)
      \/ hist' \in [Slots -> Seq(Entry)] /\ Later(hist') /\ run' = tail /\ UNCHANGED <<row, server>>
  <2>1. CASE RunEnd(r)
    <3>1. PICK e \in Endings(r) : \/ CompletionHook(slot[r], Appended(r, e), over)
                                  \/ /\ hist' = Appended(r, e) /\ run' = tail
                                     /\ UNCHANGED <<row, server>>
      BY <2>1 DEF RunEnd, Appended, Reply1
    <3>2. /\ Appended(r, e) \in [Slots -> Seq(Entry)]
          /\ \A z \in Slots : z # slot[r] => Appended(r, e)[z] = hist[z]
      BY <1>2, ReplyTypes
    <3>3. run[r].pc = "running"
      BY <2>1 DEF RunEnd
    <3>4. Later(Appended(r, e))
      BY <3>2, <3>3
    <3> HIDE DEF Later
    <3> QED
      BY <3>1, <3>2, <3>4
  <2>2. CASE RunTail(r)
    BY <2>2 DEF RunTail
  <2> QED
    BY <2>1, <2>2
<1> HIDE DEF quiet, ended, trailing
<1>7. /\ over \in [Tasks -> Run] /\ over[r].pc = "over" /\ over[r].given = run[r].given
      /\ tail \in [Tasks -> Run] /\ tail[r].pc = "tail" /\ tail[r].given = run[r].given
      /\ \A u \in Tasks \ {r} : over[u] = run[u] /\ tail[u] = run[u]
  BY <1>5
<1> HIDE DEF over, tail
<1>8. ~entry'[slot[r]].running /\ \A z \in Slots \ {slot[r]} : entry'[z] = entry[z]
  BY <1>2, <1>3, <1>4
<1>9. CASE \E h \in [Slots -> Seq(Entry)] : CompletionHook(slot[r], h, over) /\ Later(h)
  <2>1. /\ run'[r].pc = "over" /\ run'[r].given = run[r].given
        /\ \A u \in Tasks \ {r} : run'[u] = run[u]
        /\ \A z \in Slots : hist'[z] # <<>> =>
              hist[z] # <<>> \/ (z = slot[r] /\ run[r].pc = "running")
        /\ \/ UNCHANGED <<row, server>>
           \/ \E t \in Tasks : /\ Status(t) \in InFlight /\ slot[t] = slot[r]
                               /\ row'[t].status = "completed" /\ HasReply(t)'
                               /\ \A u \in Tasks \ {t} : row'[u] = row[u]
                               /\ server' = [server EXCEPT !.telling = t]
    <3>1. PICK h \in [Slots -> Seq(Entry)] : CompletionHook(slot[r], h, over) /\ Later(h)
      BY <1>9
    <3>2. \A z \in Slots : h[z] # <<>> => hist[z] # <<>> \/ (z = slot[r] /\ run[r].pc = "running")
      BY <3>1
    <3>3. CompletionHook(slot[r], h, over)
      BY <3>1
    <3>4. TypeInv /\ CalmInv
      OBVIOUS
    <3>5. over \in [Tasks -> Run] /\ over[r].pc = "over" /\ over[r].given = run[r].given
          /\ \A u \in Tasks \ {r} : over[u] = run[u]
      BY <1>7
    <3> HIDE DEF TypeInv
    <3> QED
      BY <1>2, <3>5, <3>2, <3>3, <3>4, HookEnds
  <2> QED
    BY <1>1, <1>2, <1>8, <2>1
<1>10. CASE Later(hist') /\ run' = tail /\ UNCHANGED <<row, server>>
  BY <1>1, <1>2, <1>7, <1>8, <1>10
<1> QED
  BY <1>6, <1>9, <1>10

LEMMA RunEndCalm ==
    ASSUME Features \subseteq Calm, TypeInv, CalmInv, NEW r \in Tasks, RunEnd(r) \/ RunTail(r)
    PROVE  CalmInv'
<1> USE Typed DEF TypeInv, CalmInv
<1>1. /\ LoopFree /\ slot[r] \in Slots
      /\ UNCHANGED <<slot, age, thread, sender, pooled, log, check, mon, told, cleaning>>
      /\ ~entry'[slot[r]].running /\ \A z \in Slots \ {slot[r]} : entry'[z] = entry[z]
      /\ run'[r].pc \in {"tail", "over"} /\ run'[r].given = run[r].given
      /\ \A u \in Tasks \ {r} : run'[u] = run[u]
      /\ \A z \in Slots : hist'[z] # <<>> => hist[z] # <<>> \/ (z = slot[r] /\ run[r].pc = "running")
      /\ \/ UNCHANGED <<row, server>>
         \/ \E t \in Tasks : /\ Status(t) \in InFlight /\ slot[t] = slot[r]
                             /\ row'[t].status = "completed" /\ HasReply(t)'
                             /\ \A u \in Tasks \ {t} : row'[u] = row[u]
                             /\ server' = [server EXCEPT !.telling = t]
  BY RunEnds
<1>2. run[r].pc \in {"running", "tail"}
  BY DEF RunEnd, RunTail
<1>3. \A u \in Tasks :
        row'[u] = row[u] \/ (Status(u) \in InFlight /\ row'[u].status = "completed" /\ HasReply(u)')
  BY <1>1
<1>4. ThreadInv'
  BY <1>1, <1>3, ThreadsStay DEF ThreadInv, Status, InFlight
<1>5. \A u \in Tasks : /\ Past(u)' => Past(u)
                       /\ Holds(u)' => Holds(u)
                       /\ Past(u) => Past(u)' \/ HasReply(u)'
  BY <1>1, <1>3 DEF Past, Holds, Status, InFlight
<1>6. OneHolder'
  BY <1>1, <1>5, HolderKept
<1>7. \A u \in Tasks : HasReply(u) => HasReply(u)'
  BY <1>1 DEF HasReply
<1>8. ReplyInv'
  <2> SUFFICES ASSUME NEW u \in Tasks, Past(u)', hist'[slot'[u]] # <<>> PROVE HasReply(u)'
    BY DEF ReplyInv
  <2>1. Past(u) /\ Holds(u) /\ slot[u] \in Slots
    BY <1>5, HolderSlotted DEF Holds
  <2>2. CASE hist[slot[u]] # <<>>
    BY <1>7, <2>1, <2>2 DEF ReplyInv
  <2>3. CASE slot[u] = slot[r] /\ run[r].pc = "running"
    <3>1. Holds(r)
      BY <2>3 DEF RunInv, Holds
    <3>2. u = r
      BY <2>1, <2>3, <3>1 DEF OneHolder
    <3> QED
      BY <1>1, <3>2 DEF HasReply
  <2> QED
    BY <1>1, <2>1, <2>2, <2>3
<1>9. \A u \in Tasks :
        /\ run'[u].pc # "none" => u \in log' /\ run'[u].given = {u}
        /\ run'[u].pc # "refused"
        /\ run'[u].pc \in {"starting", "running"} => Past(u)'
        /\ sender'[u] = "posting" => Past(u)' /\ u \notin log'
  <2> SUFFICES ASSUME NEW u \in Tasks
               PROVE  /\ run'[u].pc # "none" => u \in log' /\ run'[u].given = {u}
                      /\ run'[u].pc # "refused"
                      /\ run'[u].pc \in {"starting", "running"} => Past(u)'
                      /\ sender'[u] = "posting" => Past(u)' /\ u \notin log'
    OBVIOUS
  <2>1. run'[u].pc # "none" => u \in log' /\ run'[u].given = {u}
    <3>1. run[u].pc # "none" => u \in log /\ run[u].given = {u}
      BY DEF RunInv
    <3>2. run'[u].given = run[u].given /\ (run'[u].pc # "none" => run[u].pc # "none")
      BY <1>1, <1>2
    <3> QED
      BY <1>1, <3>1, <3>2
  <2>2. run'[u].pc # "refused"
    <3>1. run[u].pc # "refused"
      BY DEF RunInv
    <3>2. CASE u = r
      <4>1. run'[r].pc \in {"tail", "over"}
        BY <1>1
      <4> QED
        BY <3>2, <4>1
    <3>3. CASE u # r
      <4>1. run'[u] = run[u]
        BY <1>1, <3>3
      <4> QED
        BY <3>1, <4>1
    <3> QED
      BY <3>2, <3>3
  <2>3. run'[u].pc \in {"starting", "running"} => Past(u)'
    BY <1>1, <1>5 DEF RunInv, HasReply
  <2>4. sender'[u] = "posting" => u \notin log' /\ Past(u)
    BY <1>1 DEF RunInv
  <2>5. u \notin log' => ~HasReply(u)'
    BY <2>1 DEF HasReply
  <2> QED
    BY <1>5, <2>1, <2>2, <2>3, <2>4, <2>5
<1>10. \A z \in Slots : entry'[z].running =>
        /\ entry'[z].run \in Tasks /\ slot'[entry'[z].run] = z
        /\ run'[entry'[z].run].pc \in {"starting", "running"}
  <2> SUFFICES ASSUME NEW z \in Slots, entry'[z].running
               PROVE  /\ entry'[z].run \in Tasks /\ slot[entry'[z].run] = z
                      /\ run'[entry'[z].run].pc \in {"starting", "running"}
    BY <1>1
  <2>1. z # slot[r] /\ entry'[z] = entry[z]
    BY <1>1
  <2>2. /\ entry[z].run \in Tasks /\ slot[entry[z].run] = z
        /\ run[entry[z].run].pc \in {"starting", "running"}
    BY <2>1 DEF RunInv
  <2>3. entry[z].run # r
    BY <2>1, <2>2
  <2> QED
    BY <1>1, <2>1, <2>2, <2>3
<1>11. RunInv'
  BY <1>9, <1>10 DEF RunInv
<1>12. /\ CheckInv' /\ (UNCHANGED server => WakeInv')
       /\ server.wake = {} /\ server.telling = 0 /\ ~mon.held
       /\ \A c \in Checkers : check[c] = NoCheck
  BY <1>1, LoopSteps
<1>13. WakeInv'
  <2>1. CASE UNCHANGED server
    BY <1>12, <2>1
  <2>2. CASE \E t \in Tasks : /\ row'[t].status = "completed"
                             /\ server' = [server EXCEPT !.telling = t]
    <3>1. PICK t \in Tasks : /\ row'[t].status = "completed"
                             /\ server' = [server EXCEPT !.telling = t]
      BY <2>2
    <3>2. server'.wake = {} /\ server'.telling = t
      BY <1>12, <3>1 DEF Server
    <3> QED
      BY <1>1, <1>12, <3>1, <3>2 DEF WakeInv, Status, Settled
  <2> QED
    BY <1>1, <2>1, <2>2
<1> QED
  BY <1>4, <1>6, <1>8, <1>11, <1>12, <1>13

\* The late cleanup of a task whose parent had to be told by POST.
LEMMA CleanupCalm ==
    ASSUME Features \subseteq Calm, TypeInv, CalmInv, NEW t \in Tasks, Cleanup(t)
    PROVE  CalmInv'
<1> USE Typed DEF TypeInv, CalmInv
<1>1. /\ LoopFree /\ DoCleanup(t)
      /\ UNCHANGED <<row, slot, age, thread, sender, entry, log, check, told, server>>
  BY DEF Cleanup
<1>2. \A u \in Tasks : run'[u].pc = run[u].pc /\ run'[u].given = run[u].given
  BY <1>1, Cleans
<1>3. \A z \in Slots : hist'[z] # <<>> => hist[z] # <<>>
  BY <1>1, Cleans
<1>4. ThreadInv'
  BY <1>1, ThreadsStay DEF ThreadInv, Status
<1>5. \A u \in Tasks : (Past(u)' <=> Past(u)) /\ (Holds(u)' <=> Holds(u))
                       /\ (HasReply(u)' <=> HasReply(u))
  BY <1>1, <1>2 DEF Past, Holds, Status, HasReply
<1>6. OneHolder'
  BY <1>1, <1>5, HolderKept
<1>7. ReplyInv'
  <2>1. \A u \in Tasks : Past(u) => slot[u] \in Slots
    BY HolderSlotted DEF Holds
  <2> QED
    BY <1>1, <1>3, <1>5, <2>1, ReplyKept
<1>8. RunInv'
  <2>1. \A u \in Tasks :
          /\ run'[u].pc # "none" => u \in log' /\ run'[u].given = {u}
          /\ run'[u].pc # "refused"
          /\ run'[u].pc \in {"starting", "running"} => Past(u)'
          /\ sender'[u] = "posting" => Past(u)' /\ u \notin log'
    BY <1>1, <1>2, <1>5 DEF RunInv
  <2>2. \A z \in Slots : entry'[z].running =>
          /\ entry'[z].run \in Tasks /\ slot'[entry'[z].run] = z
          /\ run'[entry'[z].run].pc \in {"starting", "running"}
    BY <1>1, <1>2 DEF RunInv
  <2> QED
    BY <2>1, <2>2 DEF RunInv
<1> QED
  BY <1>1, <1>4, <1>6, <1>7, <1>8, LoopSteps

-----------------------------------------------------------------------------
(* Rows move: checks, the monitor, the system wake, a crash *)

\* A row in flight moves within flight, or to its end once its reply is there.
LEMMA RowsMoved ==
    ASSUME TypeInv, CalmInv, UNCHANGED <<slot, age, thread, sender, entry, log>>,
           \A u \in Tasks :
              \/ row'[u] = row[u]
              \/ /\ Status(u) \in InFlight
                 /\ row'[u].status \in InFlight \/ (row'[u].status \in Settled /\ HasReply(u)),
           \A u \in Tasks : run'[u].pc = run[u].pc /\ run'[u].given = run[u].given,
           \A z \in Slots : hist'[z] # <<>> => hist[z] # <<>>
    PROVE  ThreadInv' /\ RunInv' /\ OneHolder' /\ ReplyInv'
<1> USE DEF CalmInv
<1>1. ThreadInv'
  BY ThreadsStay DEF ThreadInv, Status, InFlight, Settled
<1>2. \A u \in Tasks : /\ Past(u)' => Past(u)
                       /\ Holds(u)' => Holds(u)
                       /\ Past(u) => Past(u)' \/ HasReply(u)
                       /\ HasReply(u)' <=> HasReply(u)
  BY DEF Past, Holds, Status, HasReply
<1>3. OneHolder'
  BY <1>2, HolderKept
<1>4. ReplyInv'
  <2>1. \A u \in Tasks : Past(u) => slot[u] \in Slots
    BY HolderSlotted DEF Holds
  <2> QED
    BY <1>2, <2>1, ReplyKept
<1>5. \A u \in Tasks :
        /\ run'[u].pc # "none" => u \in log' /\ run'[u].given = {u}
        /\ run'[u].pc # "refused"
        /\ run'[u].pc \in {"starting", "running"} => Past(u)'
        /\ sender'[u] = "posting" => Past(u)' /\ u \notin log'
  <2> SUFFICES ASSUME NEW u \in Tasks
               PROVE  /\ run'[u].pc # "none" => u \in log' /\ run'[u].given = {u}
                      /\ run'[u].pc # "refused"
                      /\ run'[u].pc \in {"starting", "running"} => Past(u)'
                      /\ sender'[u] = "posting" => Past(u)' /\ u \notin log'
    OBVIOUS
  <2>1. /\ run[u].pc # "none" => u \in log /\ run[u].given = {u}
        /\ run[u].pc # "refused"
        /\ run[u].pc \in {"starting", "running"} => Past(u) /\ ~HasReply(u)
        /\ sender[u] = "posting" => Past(u) /\ u \notin log
        /\ HasReply(u) => u \in log
    BY DEF RunInv, HasReply
  <2> QED
    BY <1>2, <2>1
<1>6. \A s \in Slots : entry'[s].running =>
        /\ entry'[s].run \in Tasks /\ slot'[entry'[s].run] = s
        /\ run'[entry'[s].run].pc \in {"starting", "running"}
  BY DEF RunInv
<1>7. RunInv'
  BY <1>5, <1>6 DEF RunInv
<1> QED
  BY <1>1, <1>3, <1>4, <1>7

\* What check_task makes of a row it found as it is.
LEMMA CheckedMoves ==
    ASSUME NEW c \in Check, NEW q \in Row, c.status = q.status, c.result = q.result,
           c.status \notin {"none", "dispatch_failed"}
    PROVE  \/ c.status \in Settled /\ CheckedRow(c) = q
           \/ /\ c.status \in InFlight
              /\ CheckedRow(c).status \in InFlight /\ CheckedRow(c).result = q.result
           \/ /\ c.status \in InFlight /\ c.found # NoEntry
              /\ CheckedRow(c).status \in {"completed", "failed"}
              /\ CheckedRow(c).result = c.found
              /\ CheckedRow(c).status = "completed" =>
                    c.task \in c.found.marks \/ c.found.kind # "silent"
<1> DEFINE new == CheckedStatus(c.task, c.status, c.found)
<1>1. c.status \in Settled \/ c.status \in InFlight
  BY DEF Check, Statuses
<1>2. CheckedRow(c) = [status |-> new, result |-> IF c.status \notin Settled /\ new \in Settled
                                                  THEN c.found ELSE c.result]
  BY DEF CheckedRow
<1>3. CASE c.status \in Settled
  <2>1. new = c.status
    BY <1>3 DEF CheckedStatus, Settled, InFlight
  <2>2. q = [status |-> q.status, result |-> q.result]
    BY DEF Row
  <2> HIDE DEF new
  <2> QED
    BY <1>2, <1>3, <2>1, <2>2
<1>4. CASE c.status \in InFlight
  <2>1. \/ new \in InFlight
        \/ /\ new \in {"completed", "failed"} /\ c.found # NoEntry
           /\ new = "completed" => c.task \in c.found.marks \/ c.found.kind # "silent"
    BY <1>4 DEF CheckedStatus, InFlight
  <2>2. new \in InFlight => new \notin Settled
    BY DEF Settled, InFlight
  <2>3. c.status \notin Settled /\ (new \in {"completed", "failed"} => new \in Settled)
    BY <1>4 DEF Settled, InFlight
  <2> HIDE DEF new
  <2> QED
    BY <1>2, <1>4, <2>1, <2>2, <2>3
<1> QED
  BY <1>1, <1>3, <1>4

LEMMA CheckLoadCalm ==
    ASSUME Features \subseteq Calm, TypeInv, CalmInv, NEW t \in Tasks, CheckLoad("api", t)
    PROVE  CalmInv'
<1> USE Typed DEF TypeInv, CalmInv
<1> DEFINE new == Looked(t, Status(t))
<1>1. /\ LoopFree /\ Status(t) # "none" /\ check' = [check EXCEPT !["api"] = new]
      /\ UNCHANGED <<row, slot, age, thread, sender, hist, run, entry, pooled, log, mon, told,
                     cleaning, server>>
  BY DEF CheckLoad
<1>2. \A c \in Checkers : check[c] = NoCheck /\ server.wake = {} /\ server.telling = 0 /\ ~mon.held
  BY <1>1 DEF LoopFree, CheckInv, Checkers
<1>3. slot[t] \in Slots /\ Status(t) \in Statuses
  <2>1. Touched(t)
    BY <1>1, TouchedNow DEF Status
  <2> QED
    BY <2>1 DEF Slotted, Status, Row
<1>4. /\ new.task = t /\ new.status = Status(t) /\ new.result = row[t].result
      /\ new.found = ExtractResponse(t, hist[slot[t]])
  BY <1>3, LookedTypes
<1>5. new.status \in InFlight /\ new.found # NoEntry => HasReply(t)
  <2> SUFFICES ASSUME new.status \in InFlight, new.found # NoEntry PROVE HasReply(t)
    OBVIOUS
  <2>1. hist[slot[t]] # <<>>
    BY <1>3, <1>4, ExtractedReply
  <2>2. Past(t)
    BY <1>4 DEF Past
  <2> QED
    BY <2>1, <2>2 DEF ReplyInv
<1> HIDE DEF new
<1>6. ThreadInv' /\ RunInv' /\ OneHolder' /\ ReplyInv'
  BY <1>1, RowsMoved
<1>7. CheckInv'
  <2>1. /\ "api" \in Checkers /\ check'["api"] = new
        /\ \A c \in Checkers : c # "api" => check'[c] = NoCheck
        /\ "tool" \in Checkers /\ "monitor" \in Checkers
    BY <1>1, <1>2 DEF Checkers
  <2>2. \A c \in Checkers : check'[c] # NoCheck =>
          /\ check'[c].task \in Tasks /\ check'[c].status # "none"
          /\ check'[c].status = row'[check'[c].task].status
          /\ check'[c].result = row'[check'[c].task].result
          /\ check'[c].status \in InFlight /\ check'[c].found # NoEntry
             => run'[check'[c].task].pc \in {"tail", "over"}
    BY <1>1, <1>4, <1>5, <2>1 DEF Status, HasReply
  <2> QED
    BY <1>1, <1>2, <2>1, <2>2 DEF CheckInv, Status, HasReply
<1>8. WakeInv'
  BY <1>1, <1>2 DEF WakeInv, Checkers
<1> QED
  BY <1>6, <1>7, <1>8

\* A check writes back the row it is about, whose status it knows.
LEMMA SavedRow ==
    ASSUME TypeInv, CalmInv, NEW c \in Checkers, check[c] # NoCheck,
           row' = [row EXCEPT ![check[c].task] = CheckedRow(check[c])]
    PROVE  LET t == check[c].task
           IN  /\ t \in Tasks /\ \A u \in Tasks \ {t} : row'[u] = row[u]
               /\ \/ row'[t] = row[t] /\ Status(t) \in Settled
                  \/ /\ Status(t) \in InFlight /\ row'[t].status \in InFlight
                     /\ row'[t].result = row[t].result
                  \/ /\ Status(t) \in InFlight /\ HasReply(t) /\ check[c].found # NoEntry
                     /\ row'[t].status \in {"completed", "failed"}
                     /\ row'[t].result = check[c].found
                     /\ row'[t].status = "completed" =>
                            t \in check[c].found.marks \/ check[c].found.kind # "silent"
<1> USE Typed DEF TypeInv, CalmInv
<1> DEFINE k == check[c]
           t == k.task
<1>1. /\ t \in Tasks /\ k.status # "none" /\ k.status = Status(t) /\ k.result = row[t].result
      /\ k.status \in InFlight /\ k.found # NoEntry => HasReply(t)
  BY DEF CheckInv
<1>2. k \in Check /\ row[t] \in Row
  BY <1>1
<1>3. k.status = row[t].status /\ k.status \notin {"none", "dispatch_failed"}
  BY <1>1 DEF Status, ThreadInv
<1>4. row'[t] = CheckedRow(k) /\ \A u \in Tasks \ {t} : row'[u] = row[u]
  BY <1>1
<1> HIDE DEF k, t
<1>5. \/ k.status \in Settled /\ CheckedRow(k) = row[t]
      \/ /\ k.status \in InFlight
         /\ CheckedRow(k).status \in InFlight /\ CheckedRow(k).result = row[t].result
      \/ /\ k.status \in InFlight /\ k.found # NoEntry
         /\ CheckedRow(k).status \in {"completed", "failed"}
         /\ CheckedRow(k).result = k.found
         /\ CheckedRow(k).status = "completed" =>
               k.task \in k.found.marks \/ k.found.kind # "silent"
  BY <1>1, <1>2, <1>3, CheckedMoves
<1>6. t = k.task /\ k = check[c]
  BY DEF t, k
<1> QED
  BY <1>1, <1>4, <1>5, <1>6

\* ... so no row moves but that one, and only as RowsMoved asks.
LEMMA SavedMoves ==
    ASSUME TypeInv, CalmInv, NEW c \in Checkers, check[c] # NoCheck,
           row' = [row EXCEPT ![check[c].task] = CheckedRow(check[c])]
    PROVE  \A u \in Tasks :
              \/ row'[u] = row[u]
              \/ /\ Status(u) \in InFlight
                 /\ row'[u].status \in InFlight \/ (row'[u].status \in Settled /\ HasReply(u))
<1> DEFINE t == check[c].task
<1>1. /\ t \in Tasks /\ \A u \in Tasks \ {t} : row'[u] = row[u]
      /\ \/ row'[t] = row[t] /\ Status(t) \in Settled
         \/ /\ Status(t) \in InFlight /\ row'[t].status \in InFlight
            /\ row'[t].result = row[t].result
         \/ /\ Status(t) \in InFlight /\ HasReply(t) /\ check[c].found # NoEntry
            /\ row'[t].status \in {"completed", "failed"}
            /\ row'[t].result = check[c].found
            /\ row'[t].status = "completed" =>
                  t \in check[c].found.marks \/ check[c].found.kind # "silent"
  BY SavedRow
<1>2. "completed" \in Settled /\ "failed" \in Settled
  BY DEF Settled
<1> HIDE DEF t
<1> QED
  BY <1>1, <1>2

LEMMA CheckSaveCalm ==
    ASSUME Features \subseteq Calm, TypeInv, CalmInv, NEW c \in Checkers, CheckSave(c)
    PROVE  CalmInv'
<1> USE Typed DEF TypeInv, CalmInv
<1>1. /\ c # "monitor" /\ check[c] # NoCheck
      /\ row' = [row EXCEPT ![check[c].task] = CheckedRow(check[c])]
      /\ check' = [check EXCEPT ![c] = NoCheck]
      /\ UNCHANGED <<slot, age, thread, sender, hist, run, entry, pooled, log, mon, told, cleaning>>
      /\ server'.wake = server.wake /\ server'.telling = server.telling
  BY DEF CheckSave, Server
<1>2. \A u \in Tasks :
        \/ row'[u] = row[u]
        \/ /\ Status(u) \in InFlight
           /\ row'[u].status \in InFlight \/ (row'[u].status \in Settled /\ HasReply(u))
  BY <1>1, SavedMoves
<1>3. ThreadInv' /\ RunInv' /\ OneHolder' /\ ReplyInv'
  BY <1>1, <1>2, RowsMoved
<1>4. \A d \in Checkers : check'[d] = NoCheck
  BY <1>1 DEF CheckInv, Checkers
<1>5. CheckInv'
  BY <1>4 DEF CheckInv, Checkers
<1>6. server'.wake = {} /\ server'.telling = 0
  BY <1>1 DEF WakeInv
<1>7. WakeInv'
  BY <1>6 DEF WakeInv
<1> QED
  BY <1>3, <1>5, <1>7

\* While a check of the monitor is under way, it is the only one.
LEMMA CheckOfMonitor ==
    ASSUME CheckInv, check["monitor"] # NoCheck
    PROVE  \A d \in Checkers : d # "monitor" => check[d] = NoCheck
BY DEF CheckInv, Checkers

LEMMA MonStartCalm ==
    ASSUME Features \subseteq Calm, TypeInv, CalmInv, MonStart
    PROVE  CalmInv'
<1> USE Typed DEF TypeInv
<1>1. /\ LoopFree
      /\ UNCHANGED <<row, slot, age, thread, sender, hist, run, entry, pooled, log, check, told,
                     cleaning, server>>
  BY DEF MonStart
<1>2. ThreadInv' /\ RunInv' /\ OneHolder' /\ ReplyInv'
  BY <1>1, RowsMoved
<1> QED
  BY <1>1, <1>2, LoopSteps DEF CalmInv

LEMMA MonVisitCalm ==
    ASSUME Features \subseteq Calm, TypeInv, CalmInv, ListCurrent, MonVisit
    PROVE  CalmInv'
<1> USE Typed DEF TypeInv
<1> DEFINE t == Min(mon.todo)
           st == VisitedStatus(t)
           new == Looked(t, st)
<1>1. /\ mon.todo # {} /\ MonTurn
      /\ row' = WithStatus(t, st)
      /\ check' = [check EXCEPT !["monitor"] = new]
      /\ UNCHANGED <<slot, age, thread, sender, hist, run, entry, pooled, log, told,
                     cleaning, server>>
  BY Visit
<1>2. mon'.held /\ mon'.todo = mon.todo
  <2>1. PICK old : mon' = [mon EXCEPT !.held = TRUE, !.old[t] = old]
    BY Visit
  <2> QED
    BY <2>1 DEF Monitor
<1>3. t \in mon.todo /\ t \in Tasks
  BY <1>1, LeastListed DEF Monitor
<1>4. Status(t) \in InFlight /\ slot[t] \in Slots /\ Past(t)
  <2>1. IsOpen(t) /\ Status(t) # "dispatch_failed" /\ row[t] \in Row
    BY <1>1, <1>3, NoEntryIsNone DEF ListCurrent, CalmInv, ThreadInv, MonTurn
  <2>2. Status(t) \in InFlight
    BY <2>1 DEF IsOpen, Status, Row, Statuses
  <2> QED
    BY <1>3, <2>2, TouchedNow DEF Slotted, Past
<1>5. st \in InFlight /\ st \in Statuses
  BY <1>4 DEF VisitedStatus, InFlight, Statuses
<1>6. /\ new.task = t /\ new.status = st /\ new.result = row[t].result
      /\ new.found = ExtractResponse(t, hist[slot[t]])
  BY <1>3, <1>4, <1>5, LookedTypes
<1>7. new.found # NoEntry => HasReply(t)
  <2> SUFFICES ASSUME new.found # NoEntry PROVE HasReply(t)
    OBVIOUS
  <2>1. hist[slot[t]] # <<>>
    BY <1>4, <1>6, ExtractedReply
  <2> QED
    BY <1>3, <1>4, <2>1 DEF ReplyInv, CalmInv
<1>8. (\A c \in Checkers : check[c] = NoCheck) /\ server.wake = {} /\ server.telling = 0
  BY <1>1 DEF MonTurn, LoopFree, CalmInv, CheckInv, WakeInv, Checkers
<1> HIDE DEF t, st, new
<1>9. /\ row'[t].status = st /\ row'[t].result = row[t].result
      /\ \A u \in Tasks \ {t} : row'[u] = row[u]
  BY <1>1, <1>3, <1>5, StatusChanged
<1>10. ThreadInv' /\ RunInv' /\ OneHolder' /\ ReplyInv'
  <2>1. \A u \in Tasks :
          \/ row'[u] = row[u]
          \/ /\ Status(u) \in InFlight
             /\ row'[u].status \in InFlight \/ (row'[u].status \in Settled /\ HasReply(u))
    BY <1>3, <1>4, <1>5, <1>9
  <2> QED
    BY <1>1, <2>1, RowsMoved
<1>11. CheckInv'
  <2>1. /\ "monitor" \in Checkers /\ check'["monitor"] = new
        /\ \A c \in Checkers : c # "monitor" => check'[c] = NoCheck
        /\ "tool" \in Checkers /\ "api" \in Checkers
    BY <1>1, <1>8 DEF Checkers
  <2>2. st # "none"
    BY <1>5 DEF InFlight
  <2>3. \A c \in Checkers : check'[c] # NoCheck =>
          /\ check'[c].task \in Tasks /\ check'[c].status # "none"
          /\ check'[c].status = row'[check'[c].task].status
          /\ check'[c].result = row'[check'[c].task].result
          /\ check'[c].status \in InFlight /\ check'[c].found # NoEntry
             => run'[check'[c].task].pc \in {"tail", "over"}
    BY <1>1, <1>3, <1>6, <1>7, <1>9, <2>1, <2>2 DEF HasReply
  <2> QED
    BY <1>2, <1>3, <1>6, <2>1, <2>3 DEF CheckInv, Status, HasReply
<1>12. WakeInv'
  BY <1>1, <1>8 DEF WakeInv
<1> QED
  BY <1>10, <1>11, <1>12 DEF CalmInv

LEMMA MonSaveCalm ==
    ASSUME Features \subseteq Calm, TypeInv, CalmInv, MonSave
    PROVE  CalmInv'
<1> USE Typed DEF TypeInv
<1> DEFINE t == check["monitor"].task
           new == CheckedRow(check["monitor"])
<1>1. /\ "monitor" \in Checkers /\ check["monitor"] # NoCheck
      /\ row' = [row EXCEPT ![check["monitor"].task] = CheckedRow(check["monitor"])]
      /\ check' = [check EXCEPT !["monitor"] = NoCheck]
      /\ UNCHANGED <<slot, age, thread, sender, hist, run, entry, pooled, log, told, cleaning>>
      /\ \/ server' = server
         \/ /\ server' = [server EXCEPT !.telling = t]
            /\ new.status \in {"completed", "failed", "dispatch_failed", "timed_out"}
  BY DEF MonSave, Checkers, ToTell
<1>2. t \in Tasks
  BY <1>1 DEF CalmInv, CheckInv
<1>3. \A u \in Tasks :
        \/ row'[u] = row[u]
        \/ /\ Status(u) \in InFlight
           /\ row'[u].status \in InFlight \/ (row'[u].status \in Settled /\ HasReply(u))
  BY <1>1, SavedMoves
<1>4. row'[t] = new
  BY <1>1, <1>2
<1> HIDE DEF t, new
<1>5. ThreadInv' /\ RunInv' /\ OneHolder' /\ ReplyInv'
  BY <1>1, <1>3, RowsMoved
<1>6. (\A c \in Checkers : check'[c] = NoCheck) /\ server.wake = {} /\ server.telling = 0
  BY <1>1, CheckOfMonitor DEF CalmInv, WakeInv
<1>7. CheckInv'
  BY <1>1, <1>6 DEF CheckInv, Checkers
<1>8. WakeInv'
  <2>1. CASE server' = server
    BY <1>6, <2>1 DEF WakeInv
  <2>2. CASE /\ server' = [server EXCEPT !.telling = t]
             /\ new.status \in {"completed", "failed", "dispatch_failed", "timed_out"}
    <3>1. server'.wake = {} /\ server'.telling = t
      BY <1>6, <2>2 DEF Server
    <3>2. row'[t].status # "dispatch_failed"
      BY <1>2, <1>5 DEF ThreadInv, Status
    <3> QED
      BY <1>4, <1>6, <2>2, <3>1, <3>2 DEF WakeInv, Status, Settled
  <2> QED
    BY <1>1, <2>1, <2>2
<1> QED
  BY <1>5, <1>7, <1>8 DEF CalmInv

\* The end is told, and the slot cleaned up, at once or later.
LEMMA TellCalm ==
    ASSUME Features \subseteq Calm, TypeInv, CalmInv, Tell
    PROVE  CalmInv'
<1> USE Typed DEF TypeInv
<1> DEFINE t == server.telling
<1>1. /\ t # 0 /\ t \in Tasks
      /\ DoCleanup(t) \/ UNCHANGED <<hist, run>>
      /\ server' = [server EXCEPT !.telling = 0]
      /\ UNCHANGED <<row, slot, age, thread, sender, entry, log, check>>
  BY DEF Tell, Server
<1>2. /\ \A u \in Tasks : run'[u].pc = run[u].pc /\ run'[u].given = run[u].given
      /\ \A z \in Slots : hist'[z] # <<>> => hist[z] # <<>>
  <2>1. CASE DoCleanup(t)
    BY <1>1, <2>1, Cleans
  <2>2. CASE UNCHANGED <<hist, run>>
    BY <2>2
  <2> QED
    BY <1>1, <2>1, <2>2
<1>3. ThreadInv' /\ RunInv' /\ OneHolder' /\ ReplyInv'
  BY <1>1, <1>2, RowsMoved
<1>4. (\A c \in Checkers : check[c] = NoCheck) /\ server.wake = {}
  BY <1>1 DEF CalmInv, WakeInv
<1>5. server'.wake = {} /\ server'.telling = 0
  BY <1>1, <1>4 DEF Server
<1>6. CheckInv' /\ WakeInv'
  BY <1>1, <1>4, <1>5 DEF CheckInv, WakeInv, Checkers
<1> QED
  BY <1>3, <1>6 DEF CalmInv

LEMMA WakeTaskCalm ==
    ASSUME Features \subseteq Calm, TypeInv, CalmInv, WakeTask
    PROVE  CalmInv'
<1> USE Typed DEF TypeInv
<1> DEFINE t == Min(server.wake)
<1>1. /\ server.wake # {} /\ server' = [server EXCEPT !.wake = @ \ {t}]
      /\ UNCHANGED <<slot, age, thread, hist, run, entry, pooled, log, check, mon, told, cleaning>>
  BY DEF WakeTask
<1>2. t \in server.wake /\ t \in Tasks
  BY <1>1, LeastListed DEF Server
<1>3. /\ Status(t) \in InFlight /\ Past(t) /\ age[t] = 0
      /\ (\A c \in Checkers : check[c] = NoCheck) /\ ~mon.held
  BY <1>1, <1>2 DEF CalmInv, WakeInv, ThreadInv, Past
<1>4. \/ row' = row /\ sender' = sender
      \/ row' = WithStatus(t, "running") /\ sender' = sender
      \/ row' = WithStatus(t, "dispatched") /\ sender' = [sender EXCEPT ![t] = "posting"] /\ t \notin log
  BY <1>3, CalmFeatures DEF WakeTask
<1>5. server'.wake = server.wake \ {t} /\ server'.telling = 0
  BY <1>1 DEF Server, CalmInv, WakeInv
<1> HIDE DEF t
<1>6. /\ \A u \in Tasks \ {t} : row'[u] = row[u] /\ sender'[u] = sender[u]
      /\ row'[t].status \in InFlight
      /\ sender'[t] = sender[t] \/ (sender'[t] = "posting" /\ t \notin log)
  <2>1. "running" \in Statuses /\ "dispatched" \in Statuses
    BY DEF Statuses, InFlight
  <2>2. \A st \in {"running", "dispatched"} :
          row' = WithStatus(t, st) => /\ row'[t].status = st
                                      /\ \A u \in Tasks \ {t} : row'[u] = row[u]
    BY <1>2, <2>1, StatusChanged
  <2>3. "running" \in InFlight /\ "dispatched" \in InFlight
    BY DEF InFlight
  <2> QED
    BY <1>2, <1>3, <1>4, <2>2, <2>3 DEF Status
<1>7. thread[t].pc = "done" /\ row'[t].status # "dispatch_failed"
  BY <1>2, <1>3, <1>6 DEF CalmInv, ThreadInv, InFlight
<1>8. ThreadInv'
  <2>1. \A u \in Tasks : /\ row'[u].status # "dispatch_failed"
                         /\ Status(u) = "none" => row'[u].status = "none"
                         /\ thread[u].pc \in {"new", "scan", "clear", "post"} =>
                              sender'[u] = "idle" /\ u \notin log'
                         /\ thread[u].pc = "join" => sender'[u] \in {"posting", "ok"}
                         /\ sender'[u] \notin {"failed", "loaded"}
    <3> SUFFICES ASSUME NEW u \in Tasks
                 PROVE  /\ row'[u].status # "dispatch_failed"
                        /\ Status(u) = "none" => row'[u].status = "none"
                        /\ thread[u].pc \in {"new", "scan", "clear", "post"} =>
                              sender'[u] = "idle" /\ u \notin log'
                        /\ thread[u].pc = "join" => sender'[u] \in {"posting", "ok"}
                        /\ sender'[u] \notin {"failed", "loaded"}
      OBVIOUS
    <3>1. ThreadInv
      BY DEF CalmInv
    <3>2. CASE u = t
      <4>1. Status(t) # "none"
        BY <1>3 DEF InFlight
      <4> QED
        BY <1>1, <1>6, <1>7, <3>1, <3>2, <4>1 DEF ThreadInv
    <3>3. CASE u # t
      BY <1>1, <1>6, <3>1, <3>3 DEF ThreadInv, Status
    <3> QED
      BY <3>2, <3>3
  <2> QED
    BY <1>1, <2>1, ThreadsStay DEF CalmInv
<1>9. \A u \in Tasks : /\ Past(u)' <=> Past(u)
                       /\ Holds(u)' <=> Holds(u)
                       /\ HasReply(u)' <=> HasReply(u)
  BY <1>1, <1>3, <1>6 DEF Past, Holds, HasReply, Status
<1>10. OneHolder' /\ ReplyInv'
  BY <1>1, <1>9, HolderKept, ReplyKept DEF CalmInv
<1>11. RunInv'
  <2>1. \A u \in Tasks :
          /\ run'[u].pc # "none" => u \in log' /\ run'[u].given = {u}
          /\ run'[u].pc # "refused"
          /\ run'[u].pc \in {"starting", "running"} => Past(u)'
          /\ sender'[u] = "posting" => Past(u)' /\ u \notin log'
    <3> SUFFICES ASSUME NEW u \in Tasks
                 PROVE  /\ run'[u].pc # "none" => u \in log' /\ run'[u].given = {u}
                        /\ run'[u].pc # "refused"
                        /\ run'[u].pc \in {"starting", "running"} => Past(u)'
                        /\ sender'[u] = "posting" => Past(u)' /\ u \notin log'
      OBVIOUS
    <3>1. sender'[u] = "posting" => Past(u)' /\ u \notin log'
      BY <1>1, <1>3, <1>6, <1>9 DEF CalmInv, RunInv
    <3>2. /\ run'[u].pc # "none" => u \in log' /\ run'[u].given = {u}
          /\ run'[u].pc # "refused"
          /\ run'[u].pc \in {"starting", "running"} => Past(u)'
      BY <1>1, <1>9 DEF CalmInv, RunInv
    <3> QED
      BY <3>1, <3>2
  <2>2. \A s \in Slots : entry'[s].running =>
          /\ entry'[s].run \in Tasks /\ slot'[entry'[s].run] = s
          /\ run'[entry'[s].run].pc \in {"starting", "running"}
    BY <1>1 DEF CalmInv, RunInv
  <2> QED
    BY <2>1, <2>2 DEF RunInv
<1>12. CheckInv'
  BY <1>1, <1>3 DEF CheckInv, Checkers
<1>13. WakeInv'
  <2>1. \A u \in server'.wake : u \in server.wake /\ u \in Tasks /\ row'[u].status \in InFlight
    <3> SUFFICES ASSUME NEW u \in server'.wake
                 PROVE  u \in server.wake /\ u \in Tasks /\ row'[u].status \in InFlight
      OBVIOUS
    <3>1. u \in server.wake /\ u # t /\ u \in Tasks
      BY <1>5 DEF Server
    <3>2. Status(u) \in InFlight
      BY <1>1, <3>1 DEF CalmInv, WakeInv
    <3> QED
      BY <1>6, <3>1, <3>2 DEF Status
  <2> QED
    BY <1>1, <1>3, <1>5, <2>1 DEF WakeInv, Status
<1> QED
  BY <1>8, <1>10, <1>11, <1>12, <1>13 DEF CalmInv

LEMMA CrashCalm ==
    ASSUME Features \subseteq Calm, TypeInv, CalmInv, Crash
    PROVE  CalmInv'
<1> USE Typed DEF TypeInv
<1> DEFINE ended(t) == [thread[t] EXCEPT !.pc = "done"]
           over(t) == [run[t] EXCEPT !.pc = "over"]
<1>1. /\ server'.wake = Watched /\ server'.telling = 0
      /\ thread' = [t \in Tasks |-> IF ThreadAt(t, "new") THEN thread[t] ELSE ended(t)]
      /\ sender' = [t \in Tasks |-> IF sender[t] = "idle" THEN "idle" ELSE "over"]
      /\ run' = [t \in Tasks |-> IF run[t].pc = "none" THEN NoRun ELSE over(t)]
      /\ entry' = [s \in Slots |-> [run |-> 0, running |-> FALSE]]
      /\ check' = [c \in Checkers |-> NoCheck] /\ mon' = IdleMonitor
      /\ UNCHANGED <<row, slot, age, hist, log, told>>
  BY DEF Crash
<1>2. \A q \in Thread : [q EXCEPT !.pc = "done"].pc = "done"
  BY DEF Thread
<1>3. \A q \in Run : [q EXCEPT !.pc = "over"].pc = "over" /\ [q EXCEPT !.pc = "over"].given = q.given
  BY DEF Run
<1>4. \A t \in Tasks : ended(t).pc = "done" /\ over(t).pc = "over" /\ over(t).given = run[t].given
  <2>1. \A t \in Tasks : thread[t] \in Thread /\ run[t] \in Run
    OBVIOUS
  <2> QED
    BY <1>2, <1>3, <2>1
<1>5. NoRun.pc = "none" /\ ~IdleMonitor.held
  BY DEF NoRun, IdleMonitor
<1> HIDE DEF ended, over, NoRun, IdleMonitor
<1>6. \A t \in Tasks : /\ thread'[t].pc = IF thread[t].pc = "new" THEN "new" ELSE "done"
                       /\ sender'[t] = IF sender[t] = "idle" THEN "idle" ELSE "over"
                       /\ run'[t].pc = IF run[t].pc = "none" THEN "none" ELSE "over"
                       /\ run[t].pc # "none" => run'[t].given = run[t].given
  BY <1>1, <1>4, <1>5 DEF ThreadAt
<1>7. \A t \in Tasks : row[t].status # "dispatch_failed"
  BY DEF CalmInv, ThreadInv, Status
<1>8. ThreadInv'
  <2> SUFFICES ASSUME NEW u \in Tasks
               PROVE  /\ age'[u] = 0
                      /\ thread'[u].pc \notin {"verify", "refused"}
                      /\ thread'[u].pc # "done" => row'[u].status = "none"
                      /\ thread'[u].pc # "new" => \A v \in 1 .. u - 1 : thread'[v].pc = "done"
                      /\ thread'[u].pc \in {"new", "scan", "clear", "post"}
                         => sender'[u] = "idle" /\ u \notin log'
                      /\ thread'[u].pc = "join" => sender'[u] \in {"posting", "ok"}
                      /\ sender'[u] \notin {"failed", "loaded"}
                      /\ row'[u].status # "dispatch_failed"
    BY DEF ThreadInv, Status
  <2>1. ThreadInv
    BY DEF CalmInv
  <2>2. ASSUME thread'[u].pc # "new", NEW v \in 1 .. u - 1
        PROVE  thread'[v].pc = "done"
    <3>1. v \in Tasks
      BY DelegationAssumption DEF Tasks
    <3>2. thread[v].pc = "done"
      BY <1>6, <2>1, <2>2 DEF ThreadInv
    <3> QED
      BY <1>6, <3>1, <3>2
  <2>3. /\ age'[u] = 0
        /\ thread'[u].pc \notin {"verify", "refused"}
        /\ thread'[u].pc # "done" => row'[u].status = "none"
        /\ thread'[u].pc \in {"new", "scan", "clear", "post"} => sender'[u] = "idle" /\ u \notin log'
        /\ thread'[u].pc = "join" => sender'[u] \in {"posting", "ok"}
        /\ sender'[u] \notin {"failed", "loaded"}
    BY <1>1, <1>6, <2>1 DEF ThreadInv, Status
  <2> QED
    BY <1>1, <1>7, <2>2, <2>3
<1>9. \A u \in Tasks : /\ Past(u)' => Past(u) /\ Status(u) \in InFlight
                       /\ Holds(u)' => Holds(u)
                       /\ HasReply(u) => HasReply(u)'
  BY <1>1, <1>6 DEF Past, Holds, HasReply, Status
<1>10. OneHolder' /\ ReplyInv'
  BY <1>1, <1>9, HolderKept, ReplyKept DEF CalmInv
<1>11. RunInv'
  <2>1. \A u \in Tasks :
          /\ run'[u].pc # "none" => u \in log' /\ run'[u].given = {u}
          /\ run'[u].pc # "refused"
          /\ run'[u].pc \in {"starting", "running"} => Past(u)'
          /\ sender'[u] = "posting" => Past(u)' /\ u \notin log'
    BY ZenonT(30), <1>1, <1>6 DEF CalmInv, RunInv
  <2>2. \A s \in Slots : ~entry'[s].running
    BY <1>1
  <2> QED
    BY <2>1, <2>2 DEF RunInv
<1>12. CheckInv'
  BY <1>1 DEF CheckInv, Checkers
<1>13. WakeInv'
  <2>1. server'.wake = Watched /\ server'.telling = 0
    BY <1>1
  <2>2. \A u \in Watched : row'[u].status \in InFlight
    BY <1>1, <1>7 DEF Watched, Status
  <2> QED
    BY <1>1, <1>5, <2>1, <2>2 DEF WakeInv, Status
<1> QED
  BY <1>8, <1>10, <1>11, <1>12, <1>13 DEF CalmInv

LEMMA SameCalm ==
    ASSUME CalmInv, UNCHANGED vars
    PROVE  CalmInv'
BY DEF vars, CalmInv, ThreadInv, RunInv, OneHolder, ReplyInv, CheckInv, WakeInv, Past, Holds,
       HasReply, Status

LEMMA CalmStart ==
    ASSUME Init
    PROVE  CalmInv
<1> USE DEF Init
<1>1. NoRun.pc = "none" /\ ~IdleMonitor.held
  BY DEF NoRun, IdleMonitor
<1> HIDE DEF NoRun, IdleMonitor
<1>2. ThreadInv
  BY DEF ThreadInv, Status, Tasks
<1>3. \A t \in Tasks : ~Past(t) /\ ~Holds(t)
  BY DEF Past, Holds, Status, InFlight
<1>4. RunInv /\ OneHolder /\ ReplyInv
  BY <1>1, <1>3 DEF RunInv, OneHolder, ReplyInv
<1>5. CheckInv /\ WakeInv
  BY <1>1 DEF CheckInv, WakeInv, Checkers
<1> QED
  BY <1>2, <1>4, <1>5 DEF CalmInv

LEMMA CalmStep ==
    ASSUME Features \subseteq Calm, TypeInv, CalmInv, ListCurrent, [Next]_vars
    PROVE  CalmInv'
<1>1. ASSUME NEW t \in Tasks,
             Delegate(t) \/ ThreadStep(t) \/ SendError(t) \/ LoopStep(t) \/ RunEnd(t)
             \/ Dismiss(t) \/ Tick(t)
      PROVE  CalmInv'
  BY <1>1, RuledOut, DelegateCalm, ScanCalm, ClearCalm, DispatchCalm, JoinCalm, SaveTaskCalm,
     ApiChatCalm, RunStartCalm, RunEndCalm, CleanupCalm
     DEF ThreadStep, LoopStep
<1>2. ASSUME NEW t \in Tasks, NEW c \in Checkers, CheckLoad(c, t)
      PROVE  CalmInv'
  <2>1. c = "api" \/ c = "tool"
    BY <1>2 DEF CheckLoad
  <2> QED
    BY <1>2, <2>1, RuledOut, CheckLoadCalm
<1>3. ASSUME NEW c \in Checkers, CheckSave(c)
      PROVE  CalmInv'
  BY <1>3, CheckSaveCalm
<1>4. CASE MonStep
  BY <1>4, RuledOut, MonStartCalm, MonVisitCalm, MonSaveCalm DEF MonStep
<1> QED
  BY <1>1, <1>2, <1>3, <1>4, TellCalm, WakeTaskCalm, CrashCalm, SameCalm DEF Next

-----------------------------------------------------------------------------
(***************************************************************************)
(* The contract and the settled rows, as long as what the monitor listed is*)
(* still open.  Seen from the rows a step is one of three: no task begins  *)
(* or ends, one in flight ends and may be told, or a new one is saved.     *)
(***************************************************************************)
Quiet ==
    /\ \A u \in Tasks : \/ row'[u] = row[u]
                        \/ Status(u) \in InFlight /\ row'[u].status \in InFlight
    /\ \A u \in Tasks : Status(u) # "none" => slot'[u] = slot[u]
    /\ UNCHANGED told

Closes(t) ==
    /\ Status(t) \in InFlight /\ row'[t].status \in {"completed", "failed"}
    /\ \A u \in Tasks \ {t} : row'[u] = row[u]
    /\ UNCHANGED <<slot, told>>

Reports(t) ==
    /\ Status(t) \in Settled /\ t \in Tasks
    /\ told' = told \cup {t}
    /\ UNCHANGED <<row, slot>>

LEMMA ScanQuiet ==
    ASSUME TypeInv, CalmInv, NEW t \in Tasks, Scan(t)
    PROVE  Quiet
<1>1. Status(t) = "none" /\ UNCHANGED <<row, told>>
  BY DEF Scan, ThreadAt, CalmInv, ThreadInv
<1>2. \A u \in Tasks \ {t} : slot'[u] = slot[u]
  <2>1. slot' = slot \/ \E s : slot' = [slot EXCEPT ![t] = s]
    BY DEF Scan
  <2> QED
    BY <2>1, Typed DEF TypeInv
<1> QED
  BY <1>1, <1>2 DEF Quiet

LEMMA CheckSaveRows ==
    ASSUME TypeInv, CalmInv, NEW c \in Checkers, CheckSave(c)
    PROVE  Quiet \/ \E t \in Tasks : Closes(t)
<1>1. /\ check[c] # NoCheck
      /\ row' = [row EXCEPT ![check[c].task] = CheckedRow(check[c])]
      /\ UNCHANGED <<slot, told>>
  BY DEF CheckSave
<1> DEFINE t == check[c].task
<1>2. /\ t \in Tasks /\ \A u \in Tasks \ {t} : row'[u] = row[u]
      /\ \/ row'[t] = row[t] /\ Status(t) \in Settled
         \/ /\ Status(t) \in InFlight /\ row'[t].status \in InFlight
            /\ row'[t].result = row[t].result
         \/ /\ Status(t) \in InFlight /\ HasReply(t) /\ check[c].found # NoEntry
            /\ row'[t].status \in {"completed", "failed"}
            /\ row'[t].result = check[c].found
            /\ row'[t].status = "completed" =>
                  t \in check[c].found.marks \/ check[c].found.kind # "silent"
  BY <1>1, SavedRow
<1> HIDE DEF t
<1> QED
  BY <1>1, <1>2 DEF Quiet, Closes

LEMMA MonVisitRows ==
    ASSUME TypeInv, CalmInv, ListCurrent, MonVisit
    PROVE  Quiet
<1> USE Typed DEF TypeInv
<1> DEFINE t == Min(mon.todo)
           st == VisitedStatus(t)
<1>1. mon.todo # {} /\ MonTurn /\ row' = WithStatus(t, st) /\ UNCHANGED <<slot, told>>
  BY Visit
<1>2. t \in mon.todo /\ t \in Tasks
  BY <1>1, LeastListed DEF Monitor
<1>3. Status(t) \in InFlight
  <2>1. IsOpen(t) /\ Status(t) # "dispatch_failed" /\ row[t] \in Row
    BY <1>1, <1>2, NoEntryIsNone DEF ListCurrent, CalmInv, ThreadInv, MonTurn
  <2> QED
    BY <2>1 DEF IsOpen, Status, Row, Statuses
<1>4. st \in InFlight /\ st \in Statuses
  BY <1>3 DEF VisitedStatus, InFlight, Statuses
<1> HIDE DEF t, st
<1>5. row'[t].status = st /\ \A u \in Tasks \ {t} : row'[u] = row[u]
  BY <1>1, <1>2, <1>4, StatusChanged
<1> QED
  BY <1>1, <1>3, <1>4, <1>5 DEF Quiet

LEMMA MonSaveRows ==
    ASSUME TypeInv, CalmInv, MonSave
    PROVE  Quiet \/ \E t \in Tasks : Closes(t)
<1> USE Typed DEF TypeInv
<1> DEFINE c == check["monitor"]
           t == c.task
<1>1. /\ "monitor" \in Checkers /\ c # NoCheck
      /\ row' = [row EXCEPT ![t] = CheckedRow(c)]
      /\ UNCHANGED <<slot, told>>
  BY DEF MonSave, Checkers
<1>2. /\ t \in Tasks /\ \A u \in Tasks \ {t} : row'[u] = row[u]
      /\ \/ row'[t] = row[t] /\ Status(t) \in Settled
         \/ /\ Status(t) \in InFlight /\ row'[t].status \in InFlight
            /\ row'[t].result = row[t].result
         \/ /\ Status(t) \in InFlight /\ HasReply(t) /\ c.found # NoEntry
            /\ row'[t].status \in {"completed", "failed"}
            /\ row'[t].result = c.found
            /\ row'[t].status = "completed" => t \in c.found.marks \/ c.found.kind # "silent"
  BY <1>1, SavedRow
<1>3. Closes(t) <=> /\ Status(t) \in InFlight /\ row'[t].status \in {"completed", "failed"}
                    /\ \A u \in Tasks \ {t} : row'[u] = row[u]
                    /\ UNCHANGED <<slot, told>>
  BY DEF Closes
<1> HIDE DEF c, t
<1>4. CASE /\ Status(t) \in InFlight
           /\ row'[t].status \in {"completed", "failed"}
  BY <1>1, <1>2, <1>3, <1>4
<1>5. CASE \/ row'[t] = row[t]
           \/ Status(t) \in InFlight /\ row'[t].status \in InFlight
  BY <1>1, <1>2, <1>5 DEF Quiet
<1> QED
  BY <1>2, <1>4, <1>5

LEMMA TellRows ==
    ASSUME TypeInv, CalmInv, Tell
    PROVE  \E t \in Tasks : Reports(t)
<1>1. /\ server.telling \in Tasks /\ server.telling # 0
      /\ told' = told \cup {server.telling} /\ UNCHANGED <<row, slot>>
  BY Typed DEF Tell, TypeInv, Server
<1>2. Status(server.telling) \in Settled
  BY <1>1 DEF CalmInv, WakeInv
<1>3. Reports(server.telling)
  BY <1>1, <1>2 DEF Reports
<1> QED
  BY <1>1, <1>3

LEMMA WakeTaskRows ==
    ASSUME Features \subseteq Calm, TypeInv, CalmInv, WakeTask
    PROVE  Quiet
<1> USE Typed DEF TypeInv
<1> DEFINE t == Min(server.wake)
<1>1. server.wake # {} /\ UNCHANGED <<slot, told>>
  BY DEF WakeTask
<1>2. t \in server.wake /\ t \in Tasks
  BY <1>1, LeastListed DEF Server
<1>3. Status(t) \in InFlight /\ age[t] = 0
  BY <1>1, <1>2 DEF CalmInv, WakeInv, ThreadInv
<1>4. row' = row \/ \E st \in InFlight : row' = WithStatus(t, st)
  BY <1>3, CalmFeatures DEF WakeTask, InFlight
<1> HIDE DEF t
<1>5. CASE row' = row
  BY <1>1, <1>5 DEF Quiet
<1>6. ASSUME NEW st \in InFlight, row' = WithStatus(t, st)
      PROVE  Quiet
  <2>1. st \in Statuses
    BY DEF Statuses
  <2>2. row'[t].status = st /\ \A u \in Tasks \ {t} : row'[u] = row[u]
    BY <1>2, <1>6, <2>1, StatusChanged
  <2> QED
    BY <1>1, <1>3, <2>2 DEF Quiet
<1> QED
  BY <1>4, <1>5, <1>6

LEMMA RowSteps ==
    ASSUME Features \subseteq Calm, TypeInv, CalmInv, ListCurrent, [Next]_vars
    PROVE  \/ Quiet
           \/ \E t \in Tasks : Closes(t) \/ Reports(t) \/ SaveTask(t)
<1>1. ASSUME UNCHANGED <<row, slot, told>>
      PROVE  Quiet
  BY <1>1 DEF Quiet
<1>2. ASSUME NEW t \in Tasks,
             Delegate(t) \/ Clear(t) \/ Dispatch(t) \/ Join(t) \/ ApiChat(t) \/ RunStart(t)
             \/ Cleanup(t) \/ \E c \in Checkers : CheckLoad(c, t)
      PROVE  Quiet
  <2>1. UNCHANGED <<row, slot, told>>
    BY <1>2, CalmFeatures DEF Delegate, Clear, Dispatch, Join, ApiChat, RunStart, Cleanup, CheckLoad
  <2> QED
    BY <1>1, <2>1
<1>3. ASSUME NEW r \in Tasks, RunEnd(r) \/ RunTail(r)
      PROVE  Quiet \/ \E t \in Tasks : Closes(t)
  <2>1. /\ UNCHANGED <<slot, told>>
        /\ \/ UNCHANGED row
           \/ \E t \in Tasks : /\ Status(t) \in InFlight /\ row'[t].status = "completed"
                               /\ \A u \in Tasks \ {t} : row'[u] = row[u]
    BY <1>3, RunEnds
  <2> QED
    BY <2>1 DEF Quiet, Closes
<1>4. ASSUME NEW t \in Tasks,
             Delegate(t) \/ ThreadStep(t) \/ SendError(t) \/ LoopStep(t) \/ RunEnd(t)
             \/ Dismiss(t) \/ Tick(t)
      PROVE  Quiet \/ (\E u \in Tasks : Closes(u)) \/ \E u \in Tasks : SaveTask(u)
  BY <1>2, <1>3, <1>4, RuledOut, ScanQuiet DEF ThreadStep, LoopStep
<1>5. CASE MonStep
  <2>1. CASE MonStart
    BY <1>1, <2>1 DEF MonStart
  <2> QED
    BY <1>5, <2>1, RuledOut, MonVisitRows, MonSaveRows DEF MonStep
<1>6. CASE Crash \/ UNCHANGED vars
  BY <1>1, <1>6 DEF Crash, vars
<1> QED
  BY <1>2, <1>4, <1>5, <1>6, CheckSaveRows, TellRows, WakeTaskRows DEF Next

\* A task as its users see it.
Home(t) == IF Status(t) = "none" THEN 0 ELSE slot[t]

LEMMA PhaseOf ==
    ASSUME NEW t, NEW st, Status(t) = st
    PROVE  /\ st = "none" => Phase(t) = "idle"
           /\ st \in InFlight => Phase(t) = "open"
           /\ st = "dispatch_failed" => Phase(t) = "parked"
           /\ st \in Settled => Phase(t) = "closed"
BY DEF Phase, InFlight, Settled

LEMMA PhaseNext ==
    ASSUME NEW t \in Tasks
    PROVE  /\ row'[t] = row[t] => Phase(t)' = Phase(t)
           /\ row'[t].status \in InFlight => Phase(t)' = "open"
           /\ row'[t].status \in Settled => Phase(t)' = "closed"
<1>1. Status(t)' = row'[t].status /\ Status(t) = row[t].status
  BY DEF Status
<1> QED
  BY <1>1 DEF Phase, InFlight, Settled

LEMMA ContractQuiet ==
    ASSUME TypeInv, CalmInv, Quiet
    PROVE  UNCHANGED <<[t \in Tasks |-> Phase(t)], [t \in Tasks |-> Home(t)], told>>
<1>1. \A t \in Tasks : Phase(t)' = Phase(t) /\ Home(t)' = Home(t)
  <2> SUFFICES ASSUME NEW t \in Tasks PROVE Phase(t)' = Phase(t) /\ Home(t)' = Home(t)
    OBVIOUS
  <2>1. CASE row'[t] = row[t]
    BY <2>1, PhaseNext DEF Quiet, Home, Status
  <2>2. CASE Status(t) \in InFlight /\ row'[t].status \in InFlight
    <3>1. Phase(t)' = "open" /\ Phase(t) = "open"
      BY <2>2, PhaseNext, PhaseOf
    <3>2. Status(t) # "none" /\ row'[t].status # "none"
      BY <2>2 DEF InFlight
    <3> QED
      BY <3>1, <3>2 DEF Quiet, Home, Status
  <2> QED
    BY <2>1, <2>2 DEF Quiet
<1> QED
  BY <1>1 DEF Quiet

LEMMA ContractCloses ==
    ASSUME TypeInv, CalmInv, NEW t \in Tasks, Closes(t)
    PROVE  Users!Close(t)
<1>1. \A u \in Tasks : Phase(u)' = IF u = t THEN "closed" ELSE Phase(u)
  <2>1. row'[t].status \in Settled
    BY DEF Closes, Settled
  <2> QED
    BY <2>1, PhaseNext DEF Closes
<1>2. \A u \in Tasks : Home(u)' = Home(u)
  <2>1. row'[t].status # "none" /\ Status(t) # "none"
    BY DEF Closes, InFlight
  <2> QED
    BY <2>1 DEF Closes, Home, Status
<1>3. Phase(t) = "open"
  BY PhaseOf DEF Closes
<1>4. told' \in {told, told \cup {t}}
  BY DEF Closes
<1> QED
  BY <1>1, <1>2, <1>3, <1>4 DEF Users!Close, Home

LEMMA ContractReports ==
    ASSUME TypeInv, CalmInv, NEW t \in Tasks, Reports(t)
    PROVE  Users!Report(t)
<1>1. \A u \in Tasks : Phase(u)' = Phase(u) /\ Home(u)' = Home(u)
  BY PhaseNext DEF Reports, Home, Status
<1>2. Phase(t) = "closed" /\ told' = told \cup {t}
  BY PhaseOf DEF Reports
<1> QED
  BY <1>1, <1>2 DEF Users!Report, Home

LEMMA ContractOpens ==
    ASSUME TypeInv, CalmInv, NEW t \in Tasks, SaveTask(t)
    PROVE  \E s \in Slots : Users!Open(t, s)
<1>1. /\ thread[t].pc = "accepted" /\ Status(t) = "none" /\ slot[t] \in Slots
      /\ row'[t].status = "dispatched"
      /\ \A u \in Tasks \ {t} : row'[u] = row[u]
      /\ UNCHANGED <<slot, told>>
  BY Saved
<1>2. \A u \in Tasks : Phase(u)' = IF u = t THEN "open" ELSE Phase(u)
  BY <1>1, PhaseNext DEF InFlight
<1>3. \A u \in Tasks : Home(u)' = IF u = t THEN slot[t] ELSE Home(u)
  BY <1>1 DEF Home, Status
<1>4. Phase(t) = "idle"
  BY <1>1, PhaseOf
<1>5. \A u \in Tasks : Phase(u) = "open" => Home(u) # slot[t]
  <2> SUFFICES ASSUME NEW u \in Tasks, Phase(u) = "open", Home(u) = slot[t] PROVE FALSE
    OBVIOUS
  <2>1. Status(u) \in InFlight
    <3>1. row[u].status \in Statuses
      BY Typed DEF TypeInv, Row
    <3> QED
      BY <3>1, PhaseOf DEF Statuses, Status
  <2>2. slot[u] = slot[t] /\ u # t
    BY <1>1, <2>1 DEF Home, InFlight
  <2>3. Holds(u) /\ Holds(t)
    BY <1>1, <2>1 DEF Holds, Past
  <2> QED
    BY <2>2, <2>3 DEF CalmInv, OneHolder
<1> SUFFICES \E s \in Slots :
        /\ Phase(t) = "idle"
        /\ \A u \in Tasks : Phase(u) = "open" => Home(u) # s
        /\ \A u \in Tasks : Phase(u)' = IF u = t THEN "open" ELSE Phase(u)
        /\ \A u \in Tasks : Home(u)' = IF u = t THEN s ELSE Home(u)
        /\ UNCHANGED told
  BY ZenonT(30) DEF Users!Open, Users!Free, Home
<1> QED
  BY <1>1, <1>2, <1>3, <1>4, <1>5

-----------------------------------------------------------------------------
(***************************************************************************)
(* One slot.  The monitor lets go of the loop with tasks left in its list  *)
(* only when it has told the end of one and kills its process, and with    *)
(* one slot that task was the only one on the list: the list is never      *)
(* stale.                                                                  *)
(***************************************************************************)
ListHeld ==
    /\ mon.todo # {} =>
        /\ mon.held
        /\ \A t, u \in mon.todo : t = u
        /\ \A t \in mon.todo : Status(t) \in InFlight \/ t = server.telling
    /\ mon.held /\ server.telling # 0 => server.telling \in mon.todo

LEMMA HeldIsCurrent == ListHeld => ListCurrent
BY DEF ListHeld, ListCurrent, IsOpen, InFlight, Settled

LEMMA LoopStepsHeld ==
    ASSUME ListHeld, LoopFree, mon'.todo = mon.todo, ~mon'.held
    PROVE  ListHeld'
BY DEF ListHeld, LoopFree

LEMMA OneInFlight ==
    ASSUME NumSlots = 1, TypeInv, CalmInv, NEW t \in Tasks, NEW u \in Tasks,
           Status(t) \in InFlight, Status(u) \in InFlight
    PROVE  t = u
<1>1. Holds(u) /\ Holds(t)
  BY DEF Holds, Past
<1>2. slot[u] \in 1 .. 1 /\ slot[t] \in 1 .. 1
  BY <1>1, HolderSlotted DEF Slots
<1>3. slot[u] = slot[t]
  BY <1>2
<1> QED
  BY <1>1, <1>3 DEF CalmInv, OneHolder

LEMMA MonSaveHeld ==
    ASSUME NumSlots = 1, TypeInv, CalmInv, ListHeld, MonSave
    PROVE  ListHeld'
<1> USE Typed DEF TypeInv
<1> DEFINE t == check["monitor"].task
<1>1. /\ check["monitor"] # NoCheck
      /\ \/ mon' = MonNext(t)
         \/ mon' = mon /\ server' = [server EXCEPT !.telling = t]
  BY DEF MonSave, ToTell
<1>2. mon.held /\ t \in mon.todo /\ t \in Tasks
  BY <1>1 DEF CalmInv, CheckInv, Monitor
<1>3. \A u \in mon.todo : u = t
  BY <1>2 DEF ListHeld
<1>4. CASE mon' = MonNext(t)
  <2>1. MonNext(t).todo = mon.todo \ {t} /\ MonNext(t).held = (mon.todo # {t})
    BY MonNextTypes DEF MonNext, Monitor
  <2>2. mon'.todo = {} /\ ~mon'.held
    BY <1>2, <1>3, <1>4, <2>1
  <2> QED
    BY <2>2 DEF ListHeld
<1>5. CASE mon' = mon /\ server' = [server EXCEPT !.telling = t]
  <2>1. server'.telling = t
    BY <1>5 DEF Server
  <2> HIDE DEF t
  <2> QED
    BY <1>2, <1>3, <1>5, <2>1 DEF ListHeld
<1> QED
  BY <1>1, <1>4, <1>5

LEMMA TellHeld ==
    ASSUME NumSlots = 1, TypeInv, CalmInv, ListHeld, Tell
    PROVE  ListHeld'
<1> USE Typed DEF TypeInv
<1> DEFINE t == server.telling
<1>1. /\ t # 0
      /\ \/ ~mon.held /\ mon' = mon
         \/ mon.held /\ mon' = [MonNext(t) EXCEPT !.held = FALSE, !.waits = t]
         \/ mon.held /\ mon' = [MonNext(t) EXCEPT !.held = @ /\ slot[t] \notin pooled]
  BY DEF Tell
<1>2. t \in Tasks /\ Status(t) \notin InFlight
  BY <1>1 DEF CalmInv, WakeInv, Server, Settled, InFlight
<1>3. MonNext(t) \in Monitor /\ MonNext(t).todo = mon.todo \ {t}
  BY <1>2, MonNextTypes
<1>4. CASE ~mon.held /\ mon' = mon
  BY <1>4 DEF ListHeld, Tell
<1>5. CASE mon.held
  <2> HIDE DEF t
  <2>1. mon'.todo = mon.todo \ {t}
    BY <1>1, <1>3, <1>5 DEF Monitor
  <2>2. t \in mon.todo
    BY <1>1, <1>5 DEF ListHeld, t
  <2>3. mon'.todo = {}
    BY <2>1, <2>2 DEF ListHeld
  <2>4. server'.telling = 0
    BY DEF Tell, Server
  <2> QED
    BY <2>3, <2>4 DEF ListHeld
<1> QED
  BY <1>1, <1>4, <1>5

LEMMA HeldStep ==
    ASSUME Features \subseteq Calm, NumSlots = 1, TypeInv, CalmInv, ListHeld, [Next]_vars
    PROVE  ListHeld'
<1> USE Typed DEF TypeInv
<1>1. ASSUME UNCHANGED <<mon, server>>,
             \A u \in Tasks : Status(u) \in InFlight => row'[u] = row[u]
      PROVE  ListHeld'
  BY <1>1 DEF ListHeld, Status, Monitor
<1>2. ASSUME NEW t \in Tasks,
             Delegate(t) \/ Scan(t) \/ Clear(t) \/ Dispatch(t) \/ Join(t) \/ ApiChat(t)
             \/ RunStart(t) \/ \E c \in Checkers : CheckLoad(c, t)
      PROVE  ListHeld'
  <2>1. UNCHANGED <<row, mon, server>>
    BY <1>2, CalmFeatures DEF Delegate, Scan, Clear, Dispatch, Join, ApiChat, RunStart, CheckLoad
  <2> QED
    BY <1>1, <2>1
<1>3. ASSUME NEW t \in Tasks, SaveTask(t)
      PROVE  ListHeld'
  <2>1. Status(t) = "none" /\ UNCHANGED <<mon, server>> /\ \A u \in Tasks \ {t} : row'[u] = row[u]
    BY <1>3, Saved
  <2> QED
    BY <1>1, <2>1 DEF InFlight
<1>4. ASSUME NEW t \in Tasks, RunEnd(t) \/ RunTail(t)
      PROVE  ListHeld'
  <2>1. LoopFree /\ UNCHANGED mon
    BY <1>4, RunEnds
  <2> QED
    BY <2>1, LoopStepsHeld DEF LoopFree
<1>5. ASSUME NEW t \in Tasks, Cleanup(t)
      PROVE  ListHeld'
  <2>1. LoopFree /\ (mon' = mon \/ mon' = [mon EXCEPT !.waits = 0])
    BY <1>5 DEF Cleanup
  <2>2. mon'.todo = mon.todo /\ ~mon'.held
    BY <2>1 DEF Monitor, LoopFree
  <2> QED
    BY <2>1, <2>2, LoopStepsHeld
<1>6. ASSUME NEW t \in Tasks,
             Delegate(t) \/ ThreadStep(t) \/ SendError(t) \/ LoopStep(t) \/ RunEnd(t)
             \/ Dismiss(t) \/ Tick(t)
      PROVE  ListHeld'
  BY <1>2, <1>3, <1>4, <1>5, <1>6, RuledOut DEF ThreadStep, LoopStep
<1>7. ASSUME NEW c \in Checkers, CheckSave(c)
      PROVE  ListHeld'
  <2>1. /\ c # "monitor" /\ check[c] # NoCheck /\ UNCHANGED mon
    BY <1>7 DEF CheckSave
  <2>2. mon.todo = {} /\ ~mon.held
    BY <2>1 DEF CalmInv, CheckInv, ListHeld, Checkers
  <2> QED
    BY <2>1, <2>2 DEF ListHeld
<1>8. CASE MonStart
  <2>1. mon'.todo = Watched /\ mon'.held /\ row' = row /\ server'.telling = 0
    BY <1>8 DEF MonStart, LoopFree
  <2>2. \A u \in Watched : u \in Tasks /\ Status(u) \in InFlight
    BY DEF Watched, CalmInv, ThreadInv
  <2>3. \A u, v \in Watched : u = v
    BY <2>2, OneInFlight
  <2> QED
    BY <2>1, <2>2, <2>3 DEF ListHeld, Status
<1>9. CASE MonVisit
  <2>1. PICK old : mon' = [mon EXCEPT !.held = TRUE, !.old[Min(mon.todo)] = old]
    BY <1>9, Visit
  <2>2. mon'.held /\ mon'.todo = mon.todo /\ UNCHANGED server /\ server.telling = 0
    BY <1>9, <2>1 DEF Monitor, MonVisit, MonTurn
  <2>3. Quiet
    BY <1>9, HeldIsCurrent, MonVisitRows
  <2>4. \A u \in Tasks : Status(u) \in InFlight => row'[u].status \in InFlight
    BY <2>3 DEF Quiet, Status
  <2> QED
    BY <2>2, <2>4 DEF ListHeld, Status, Monitor
<1>10. CASE MonStep
  BY <1>8, <1>9, <1>10, RuledOut, MonSaveHeld DEF MonStep
<1>11. CASE WakeTask
  <2>1. server.wake # {} /\ UNCHANGED mon
    BY <1>11 DEF WakeTask
  <2>2. mon.todo = {} /\ ~mon.held
    BY <2>1 DEF CalmInv, WakeInv, ListHeld
  <2> QED
    BY <2>1, <2>2 DEF ListHeld
<1>12. CASE Crash
  <2>1. mon' = IdleMonitor
    BY <1>12 DEF Crash
  <2>2. mon'.todo = {} /\ ~mon'.held
    BY <2>1 DEF IdleMonitor
  <2> QED
    BY <2>2 DEF ListHeld
<1>13. CASE UNCHANGED vars
  BY <1>1, <1>13 DEF vars
<1> QED
  BY <1>2, <1>6, <1>7, <1>10, <1>11, <1>12, <1>13, TellHeld DEF Next

LEMMA OneSlotInvariant ==
    ASSUME Features \subseteq Calm, NumSlots = 1
    PROVE  Spec => [](TypeInv /\ CheckTasks /\ CalmInv /\ ListHeld)
<1>1. Init => ListHeld
  BY DEF Init, IdleMonitor, ListHeld
<1>2. TypeInv /\ CheckTasks /\ CalmInv /\ ListHeld /\ [Next]_vars
      => TypeInv' /\ CheckTasks' /\ CalmInv' /\ ListHeld'
  BY TypeStep, CheckTasksStep, CalmStep, HeldStep, HeldIsCurrent
<1>3. Init => TypeInv /\ CheckTasks /\ CalmInv
  BY TypeStart, CalmStart
<1> QED
  BY <1>1, <1>2, <1>3, PTL DEF Spec

(***************************************************************************)
(* With one slot the end of a task stands, whatever the number of tasks    *)
(* and crashes, in every calm environment (with two it does not).          *)
(***************************************************************************)
THEOREM OneSlotSettledFinal ==
    ASSUME Features \subseteq Calm, NumSlots = 1
    PROVE  Spec => SettledFinal
<1> DEFINE A == \A t \in Tasks : Status(t) \in Settled => row'[t] = row[t]
<1>1. TypeInv /\ CheckTasks /\ CalmInv /\ ListHeld /\ [Next]_vars => [A]_vars
  <2> SUFFICES ASSUME TypeInv, CheckTasks, CalmInv, ListHeld, [Next]_vars,
                      NEW u \in Tasks, Status(u) \in Settled
               PROVE  row'[u] = row[u]
    OBVIOUS
  <2>1. Status(u) \notin InFlight /\ Status(u) # "none"
    BY DEF Settled, InFlight
  <2>2. CASE Quiet
    BY <2>1, <2>2 DEF Quiet
  <2>3. CASE \E t \in Tasks : Closes(t) \/ Reports(t)
    BY <2>1, <2>3 DEF Closes, Reports
  <2>4. CASE \E t \in Tasks : SaveTask(t)
    BY <2>1, <2>4, Saved
  <2> QED
    BY <2>2, <2>3, <2>4, RowSteps, HeldIsCurrent
<1> HIDE DEF A
<1>2. Spec => [][A]_vars
  BY <1>1, OneSlotInvariant, PTL DEF Spec
<1> QED
  BY <1>2 DEF SettledFinal, A

(***************************************************************************)
(* With one slot delegation implements its contract, whatever the number   *)
(* of tasks and crashes, in every calm environment.                        *)
(***************************************************************************)
THEOREM OneSlotKeepsContract ==
    ASSUME Features \subseteq Calm, NumSlots = 1
    PROVE  Spec => Contract
<1>1. Init => Users!ContractInit
  <2> SUFFICES ASSUME Init PROVE Users!ContractInit
    OBVIOUS
  <2>1. \A t \in Tasks : Status(t) = "none"
    BY DEF Init, Status
  <2>2. \A t \in Tasks : Phase(t) = "idle"
    BY <2>1, PhaseOf
  <2> QED
    BY <2>1, <2>2 DEF Init, Users!ContractInit, Users!NoSlot
<1>2. TypeInv /\ CheckTasks /\ CalmInv /\ ListHeld /\ [Next]_vars
      => [Users!ContractNext]_(Users!cvars)
  <2> SUFFICES ASSUME TypeInv, CheckTasks, CalmInv, ListHeld, [Next]_vars
               PROVE  [Users!ContractNext]_(Users!cvars)
    OBVIOUS
  <2>1. CASE Quiet
    BY <2>1, ContractQuiet DEF Users!cvars, Home
  <2>2. CASE \E t \in Tasks : Closes(t)
    BY <2>2, ContractCloses DEF Users!ContractNext
  <2>3. CASE \E t \in Tasks : Reports(t)
    BY <2>3, ContractReports DEF Users!ContractNext
  <2>4. CASE \E t \in Tasks : SaveTask(t)
    BY <2>4, ContractOpens DEF Users!ContractNext
  <2> QED
    BY <2>1, <2>2, <2>3, <2>4, RowSteps, HeldIsCurrent
<1>3. Spec => Users!ContractInit /\ [][Users!ContractNext]_(Users!cvars)
  BY <1>1, <1>2, OneSlotInvariant, PTL DEF Spec
<1> QED
  BY <1>3 DEF Contract, Users!ContractSpec

(***************************************************************************)
(* While an end is told, threads may have gone on: the slot may have been  *)
(* given to another task, whose message cannot have been served yet.       *)
(***************************************************************************)
SlotQuiet ==
    server.telling # 0 =>
        \A u \in Tasks : Holds(u) /\ slot[u] = slot[server.telling] => run[u].pc = "none"

\* A task in flight that ends gives its slot away, and nobody else had it.
LEMMA EndQuiet ==
    ASSUME CalmInv, NEW t \in Tasks, Status(t) \in InFlight, row'[t].status \in Settled,
           \A u \in Tasks \ {t} : row'[u] = row[u], UNCHANGED <<slot, thread>>,
           server'.telling = t
    PROVE  SlotQuiet'
<1> SUFFICES ASSUME NEW u \in Tasks, Holds(u)', slot[u] = slot[t] PROVE FALSE
  BY DEF SlotQuiet
<1>1. Holds(t) /\ thread[t].pc = "done"
  BY DEF Holds, Past, CalmInv, ThreadInv, InFlight
<1>2. u # t
  BY <1>1 DEF Holds, Past, Status, Settled, InFlight
<1>3. Holds(u)
  BY <1>2 DEF Holds, Past, Status
<1> QED
  BY <1>1, <1>2, <1>3 DEF CalmInv, OneHolder

\* The threads that go on meanwhile.
LEMMA ThreadQuiet ==
    ASSUME Features \subseteq Calm, TypeInv, CalmInv, SlotQuiet, NEW t \in Tasks,
           Scan(t) \/ Clear(t) \/ Dispatch(t) \/ Join(t) \/ SaveTask(t)
    PROVE  SlotQuiet'
<1> USE Typed DEF TypeInv
<1>1. UNCHANGED <<run, server>>
  BY DEF Scan, Clear, Dispatch, Join, SaveTask
<1>2. ASSUME \A u \in Tasks \ {t} : Holds(u)' => Holds(u) /\ slot'[u] = slot[u],
             Holds(t)' => (Holds(t) /\ slot'[t] = slot[t]) \/ run[t].pc = "none",
             server.telling # 0 => slot'[server.telling] = slot[server.telling]
      PROVE  SlotQuiet'
  BY <1>1, <1>2 DEF SlotQuiet
<1>3. server.telling # 0 => server.telling \in Tasks /\ Status(server.telling) # "none"
  BY DEF CalmInv, WakeInv, Settled, Server
<1>4. CASE Scan(t)
  <2>1. /\ UNCHANGED row /\ Status(t) = "none" /\ thread[t].pc = "scan"
        /\ \A u \in Tasks \ {t} : thread'[u] = thread[u] /\ slot'[u] = slot[u]
    BY <1>4, CalmFeatures, ScanMoves DEF Scan, ThreadAt
  <2>2. run[t].pc = "none"
    BY <2>1 DEF CalmInv, ThreadInv, RunInv
  <2> QED
    BY <1>2, <1>3, <2>1, <2>2 DEF Holds, Past, Status
<1>5. CASE Clear(t) \/ Dispatch(t) \/ Join(t)
  <2>1. /\ UNCHANGED <<row, slot>> /\ Holds(t)
        /\ \A u \in Tasks \ {t} : thread'[u] = thread[u]
    BY <1>5, CalmFeatures, PcChanged DEF Clear, Dispatch, Join, ThreadAt, Holds, Past
  <2> QED
    BY <1>2, <2>1 DEF Holds, Past, Status
<1>6. CASE SaveTask(t)
  <2>1. /\ thread[t].pc = "accepted"
        /\ \A u \in Tasks \ {t} : row'[u] = row[u]
        /\ \A u \in Tasks \ {t} : thread'[u] = thread[u]
        /\ UNCHANGED slot
    BY <1>6, Saved
  <2> QED
    BY <1>2, <2>1 DEF Holds, Past, Status
<1> QED
  BY <1>4, <1>5, <1>6

LEMMA MonSaveQuiet ==
    ASSUME TypeInv, CalmInv, ListCurrent, MonSave
    PROVE  SlotQuiet'
<1> USE Typed DEF TypeInv
<1> DEFINE c == check["monitor"]
           t == c.task
           new == CheckedRow(c)
<1>1. /\ "monitor" \in Checkers /\ c # NoCheck
      /\ row' = [row EXCEPT ![t] = new]
      /\ UNCHANGED <<slot, thread>>
      /\ \/ /\ new.status \in {"completed", "failed", "dispatch_failed", "timed_out"}
            /\ server' = [server EXCEPT !.telling = t]
         \/ UNCHANGED server
  BY DEF MonSave, Checkers, ToTell
<1>2. server.telling = 0
  BY <1>1 DEF CalmInv, WakeInv
<1>3. t \in mon.todo /\ t \in Tasks /\ Status(t) \notin Settled
  <2>1. t \in mon.todo /\ t \in Tasks
    BY <1>1 DEF CalmInv, CheckInv
  <2> QED
    BY <1>2, <2>1, NoEntryIsNone DEF ListCurrent, IsOpen
<1>4. row'[t] = new
  BY <1>1, <1>3
<1>5. /\ \A u \in Tasks \ {t} : row'[u] = row[u]
      /\ \/ row'[t] = row[t] /\ Status(t) \in Settled
         \/ /\ Status(t) \in InFlight /\ row'[t].status \in InFlight
            /\ row'[t].result = row[t].result
         \/ /\ Status(t) \in InFlight /\ HasReply(t) /\ c.found # NoEntry
            /\ row'[t].status \in {"completed", "failed"}
            /\ row'[t].result = c.found
            /\ row'[t].status = "completed" => t \in c.found.marks \/ c.found.kind # "silent"
  BY <1>1, SavedRow
<1> HIDE DEF c, t, new
<1>6. CASE UNCHANGED server
  BY <1>2, <1>6 DEF SlotQuiet
<1>7. CASE /\ new.status \in {"completed", "failed", "dispatch_failed", "timed_out"}
           /\ server' = [server EXCEPT !.telling = t]
  <2>1. Status(t) \in InFlight /\ row'[t].status \in Settled
    BY <1>3, <1>4, <1>5, <1>7 DEF InFlight, Settled
  <2>2. server'.telling = t
    BY <1>7 DEF Server
  <2> QED
    BY <1>1, <1>3, <1>5, <2>1, <2>2, EndQuiet
<1> QED
  BY <1>1, <1>6, <1>7

LEMMA RunEndQuiet ==
    ASSUME Features \subseteq Calm, TypeInv, CalmInv, NEW r \in Tasks, RunEnd(r) \/ RunTail(r)
    PROVE  SlotQuiet'
<1>1. /\ LoopFree /\ UNCHANGED <<slot, thread>>
      /\ \/ UNCHANGED <<row, server>>
         \/ \E t \in Tasks : /\ Status(t) \in InFlight
                             /\ row'[t].status = "completed"
                             /\ \A u \in Tasks \ {t} : row'[u] = row[u]
                             /\ server' = [server EXCEPT !.telling = t]
  BY RunEnds
<1>2. CASE UNCHANGED <<row, server>>
  BY <1>1, <1>2 DEF SlotQuiet, LoopFree
<1>3. ASSUME NEW t \in Tasks, Status(t) \in InFlight, row'[t].status = "completed",
             \A u \in Tasks \ {t} : row'[u] = row[u],
             server' = [server EXCEPT !.telling = t]
      PROVE  SlotQuiet'
  <2>1. server'.telling = t
    BY <1>3, Typed DEF TypeInv, Server
  <2> QED
    BY <1>1, <1>3, <2>1, EndQuiet DEF Settled
<1> QED
  BY <1>1, <1>2, <1>3

LEMMA SlotQuietStep ==
    ASSUME Features \subseteq Calm, TypeInv, CalmInv, ListCurrent, SlotQuiet, [Next]_vars
    PROVE  SlotQuiet'
<1> USE Typed DEF TypeInv
<1>1. ASSUME server'.telling = 0
      PROVE  SlotQuiet'
  BY <1>1 DEF SlotQuiet
<1>2. ASSUME LoopFree, UNCHANGED server
      PROVE  SlotQuiet'
  BY <1>1, <1>2 DEF LoopFree
<1>3. ASSUME NEW t \in Tasks,
             Delegate(t) \/ ThreadStep(t) \/ SendError(t) \/ LoopStep(t) \/ RunEnd(t)
             \/ Dismiss(t) \/ Tick(t)
      PROVE  SlotQuiet'
  <2>1. ASSUME Delegate(t) \/ ApiChat(t) \/ RunStart(t) \/ Cleanup(t)
        PROVE  SlotQuiet'
    BY <1>2, <2>1 DEF Delegate, ApiChat, RunStart, Cleanup
  <2> QED
    BY <1>3, <2>1, RuledOut, ThreadQuiet, RunEndQuiet DEF ThreadStep, LoopStep
<1>4. ASSUME NEW t \in Tasks, NEW c \in Checkers, CheckLoad(c, t)
      PROVE  SlotQuiet'
  <2>1. c = "api" \/ c = "tool"
    BY <1>4 DEF CheckLoad
  <2>2. CASE c = "api"
    BY <1>2, <1>4, <2>2 DEF CheckLoad
  <2> QED
    BY <1>4, <2>1, <2>2, RuledOut
<1>5. ASSUME NEW c \in Checkers, CheckSave(c)
      PROVE  SlotQuiet'
  <2>1. server.telling = 0
    BY <1>5 DEF CheckSave, CalmInv, WakeInv
  <2>2. server'.telling = server.telling
    BY <1>5 DEF CheckSave, Server
  <2> QED
    BY <1>1, <2>1, <2>2
<1>6. CASE MonStep
  <2>1. CASE MonStart
    BY <1>2, <2>1 DEF MonStart
  <2>2. CASE MonVisit
    BY <1>1, <2>2 DEF MonVisit, MonTurn
  <2> QED
    BY <1>6, <2>1, <2>2, RuledOut, MonSaveQuiet DEF MonStep
<1>7. CASE Tell \/ Crash
  <2>1. server'.telling = 0
    BY <1>7 DEF Tell, Crash, Server
  <2> QED
    BY <1>1, <2>1
<1>8. CASE WakeTask
  <2>1. server.telling = 0 /\ server'.telling = server.telling
    BY <1>8 DEF WakeTask, CalmInv, WakeInv, Server
  <2> QED
    BY <1>1, <2>1
<1>9. CASE UNCHANGED vars
  BY <1>9 DEF vars, SlotQuiet, Holds, Past, Status
<1> QED
  BY <1>3, <1>4, <1>5, <1>6, <1>7, <1>8, <1>9 DEF Next

LEMMA QuietInvariant ==
    ASSUME Features \subseteq Calm, NumSlots = 1
    PROVE  Spec => [](TypeInv /\ CheckTasks /\ CalmInv /\ ListHeld /\ SlotQuiet)
<1>1. Init => SlotQuiet
  BY DEF Init, SlotQuiet
<1>2. TypeInv /\ CheckTasks /\ CalmInv /\ ListHeld /\ SlotQuiet /\ [Next]_vars => SlotQuiet'
  BY SlotQuietStep, HeldIsCurrent
<1> QED
  BY <1>1, <1>2, OneSlotInvariant, PTL DEF Spec

\* What the telling of an end does to a task that has the slot by then.
LEMMA TellSpares ==
    ASSUME TypeInv, CalmInv, SlotQuiet, Tell
    PROVE  /\ \A u \in Tasks : Holds(u) => run'[u] = run[u]
           /\ \A u \in Tasks : Past(u) => hist'[slot[u]] = hist[slot[u]]
           /\ \A u \in Tasks : run'[u].pc = run[u].pc
           /\ ~Suspends => UNCHANGED cleaning
<1> USE Typed DEF TypeInv
<1> DEFINE t == server.telling
<1>1. /\ t # 0 /\ t \in Tasks
      /\ \/ DoCleanup(t) /\ UNCHANGED cleaning
         \/ Suspends /\ UNCHANGED <<hist, run>>
  BY DEF Tell, Server
<1>2. CASE Suspends /\ UNCHANGED <<hist, run>>
  BY <1>2
<1>3. CASE DoCleanup(t) /\ UNCHANGED cleaning
  <2>1. /\ \A u \in Tasks : /\ run'[u].pc = run[u].pc /\ run'[u].given = run[u].given
                            /\ slot[u] # slot[t] => run'[u] = run[u]
                            /\ run[u].pc \notin {"running", "tail"} => run'[u] = run[u]
        /\ \A z \in Slots : hist'[z] = hist[z] \/ (z = slot[t] /\ hist'[z] = <<>>)
    BY <1>1, <1>3, Cleans
  <2>2. \A u \in Tasks : Holds(u) /\ slot[u] = slot[t] => run[u].pc = "none"
    BY <1>1 DEF SlotQuiet
  <2> HIDE DEF t
  <2>3. ASSUME NEW u \in Tasks, Holds(u)
        PROVE  run'[u] = run[u]
    <3>1. slot[u] # slot[t] \/ run[u].pc = "none"
      BY <2>2, <2>3
    <3>2. slot[u] # slot[t] \/ run[u].pc \notin {"running", "tail"}
      BY <3>1
    <3> QED
      BY <2>1, <3>2
  <2>4. ASSUME NEW u \in Tasks, Past(u)
        PROVE  hist'[slot[u]] = hist[slot[u]]
    <3>1. Holds(u) /\ slot[u] \in Slots
      BY <2>4, HolderSlotted DEF Holds
    <3>2. CASE slot[u] = slot[t]
      <4>1. hist[slot[u]] = <<>>
        BY <2>2, <2>4, <3>1, <3>2 DEF CalmInv, ReplyInv, HasReply
      <4> QED
        BY <2>1, <3>1, <4>1
    <3>3. CASE slot[u] # slot[t]
      <4>1. hist'[slot[u]] = hist[slot[u]] \/ slot[u] = slot[t]
        BY <2>1, <3>1
      <4> QED
        BY <3>3, <4>1
    <3> QED
      BY <3>2, <3>3
  <2> QED
    BY <1>3, <2>1, <2>3, <2>4
<1> QED
  BY <1>1, <1>2, <1>3

-----------------------------------------------------------------------------
(***************************************************************************)
(* Results.  While processes do not die by themselves and parents are told *)
(* at once, what is in the history of a slot that is held was written by   *)
(* its holder's own run, which nobody killed, and so is what a check found.*)
(***************************************************************************)
Healthy == Calm \ {"died", "remoteParent"}

OwnEntry(t, e) == /\ e.kind # "died" /\ e.given = {t}
                  /\ e.kind # "answer" => e.marks = {}

Answers(t, e) == e.kind = "answer" /\ t \in e.given

OwnHistory == \A t \in Tasks : Past(t) =>
                 \A i \in DOMAIN hist[slot[t]] : OwnEntry(t, hist[slot[t]][i])

Unkilled == cleaning = {} /\ \A t \in Tasks : run[t].pc = "running" => ~run[t].killed

OwnFinds == \A c \in Checkers :
               check[c] # NoCheck /\ check[c].status \in InFlight /\ check[c].found # NoEntry
               => OwnEntry(check[c].task, check[c].found)

HealthyInv == OwnHistory /\ Unkilled /\ OwnFinds /\ OwnResult

LEMMA HealthyFeatures ==
    ASSUME Features \subseteq Healthy
    PROVE  Features \subseteq Calm /\ ~Suspends /\ "died" \notin Features
BY DEF Healthy, Suspends

\* A reply of the task's own run that is marked, or is not the watchdog's text.
LEMMA OwnAnswers ==
    ASSUME NEW t, NEW e \in Entry, OwnEntry(t, e), e.marks # {} \/ e.kind # "silent"
    PROVE  Answers(t, e)
BY DEF OwnEntry, Answers, Entry

LEMMA HistoryKept ==
    ASSUME OwnHistory,
           \A u \in Tasks : Past(u)' =>
              \/ hist'[slot'[u]] = <<>>
              \/ Past(u) /\ slot'[u] = slot[u] /\ hist'[slot[u]] = hist[slot[u]]
    PROVE  OwnHistory'
<1> SUFFICES ASSUME NEW u \in Tasks, Past(u)', NEW i \in DOMAIN hist'[slot'[u]]
             PROVE  OwnEntry(u, hist'[slot'[u]][i])
  BY DEF OwnHistory, OwnEntry
<1>1. CASE hist'[slot'[u]] = <<>>
  BY <1>1
<1>2. CASE Past(u) /\ slot'[u] = slot[u] /\ hist'[slot[u]] = hist[slot[u]]
  BY <1>2 DEF OwnHistory
<1> QED
  BY <1>1, <1>2

LEMMA FindsKept ==
    ASSUME OwnFinds, \A c \in Checkers : check'[c] = check[c] \/ check'[c] = NoCheck
    PROVE  OwnFinds'
BY DEF OwnFinds, OwnEntry

LEMMA ResultKept ==
    ASSUME OwnResult,
           \A u \in Tasks : \/ row'[u] = row[u]
                            \/ row'[u].status # "completed"
                            \/ Answers(u, row'[u].result)
    PROVE  OwnResult'
BY DEF OwnResult, Answers, Status

LEMMA QuietResult ==
    ASSUME OwnResult, Quiet
    PROVE  OwnResult'
BY ResultKept DEF Quiet, InFlight

\* What check_task finds for a task in flight was written by its run.
LEMMA LookedOwn ==
    ASSUME TypeInv, OwnHistory, NEW t \in Tasks, slot[t] \in Slots, Status(t) \in InFlight,
           NEW st \in Statuses, Looked(t, st).found # NoEntry
    PROVE  OwnEntry(t, Looked(t, st).found)
<1> USE Typed DEF TypeInv
<1>1. Looked(t, st).found = ExtractResponse(t, hist[slot[t]])
  BY LookedTypes
<1>2. hist[slot[t]] \in Seq(Entry)
  OBVIOUS
<1>3. \E i \in DOMAIN hist[slot[t]] : Looked(t, st).found = hist[slot[t]][i]
  BY <1>1, <1>2, ExtractedReply
<1>4. Past(t)
  BY DEF Past
<1> QED
  BY <1>3, <1>4 DEF OwnHistory

\* delegate_task.
LEMMA CallOwn ==
    ASSUME Features \subseteq Calm, TypeInv, CalmInv, HealthyInv, NEW t \in Tasks,
           Delegate(t) \/ Scan(t) \/ Clear(t) \/ Dispatch(t) \/ Join(t) \/ SaveTask(t)
    PROVE  HealthyInv'
<1> USE Typed DEF TypeInv
<1>1. UNCHANGED <<run, check, cleaning>>
  BY DEF Delegate, Scan, Clear, Dispatch, Join, SaveTask
<1>2. Unkilled' /\ OwnFinds'
  BY <1>1, FindsKept DEF HealthyInv, Unkilled
<1>4. CASE Delegate(t) \/ Dispatch(t) \/ Join(t)
  <2>1. /\ UNCHANGED <<row, slot, hist>>
        /\ \A u \in Tasks \ {t} : thread'[u] = thread[u]
        /\ (thread[t].pc = "new" /\ thread'[t].pc = "scan") \/ thread[t].pc \in {"post", "join"}
    BY <1>4, PcChanged DEF Delegate, Dispatch, Join, ThreadAt
  <2>2. \A u \in Tasks : Past(u)' => Past(u)
    BY <2>1 DEF Past, Status
  <2>3. OwnHistory'
    BY <2>1, <2>2, HistoryKept DEF HealthyInv
  <2>4. OwnResult'
    BY <2>1, ResultKept DEF HealthyInv
  <2> QED
    BY <1>2, <2>3, <2>4 DEF HealthyInv
<1>5. CASE Scan(t)
  <2>1. /\ UNCHANGED <<row, hist>> /\ Status(t) = "none"
        /\ \A u \in Tasks \ {t} : thread'[u] = thread[u] /\ slot'[u] = slot[u]
        /\ thread'[t].pc \in {"scan", "done", "clear"}
    BY <1>5, CalmFeatures, ScanMoves
  <2>2. \A u \in Tasks : Past(u)' => Past(u) /\ slot'[u] = slot[u]
    BY <2>1 DEF Past, Status, InFlight
  <2>3. OwnHistory'
    BY <2>1, <2>2, HistoryKept DEF HealthyInv
  <2>4. OwnResult'
    BY <2>1, ResultKept DEF HealthyInv
  <2> QED
    BY <1>2, <2>3, <2>4 DEF HealthyInv
<1>6. CASE Clear(t)
  <2>1. /\ hist' = [hist EXCEPT ![slot[t]] = <<>>] /\ thread[t].pc = "clear"
        /\ UNCHANGED <<row, slot>>
        /\ \A u \in Tasks \ {t} : thread'[u] = thread[u]
    BY <1>6, CalmFeatures, PcChanged DEF Clear, ThreadAt
  <2>2. slot[t] \in Slots
    BY <2>1, HolderSlotted DEF Holds
  <2>3. \A u \in Tasks : Past(u)' =>
            hist'[slot'[u]] = <<>> \/ (Past(u) /\ slot'[u] = slot[u] /\ hist'[slot[u]] = hist[slot[u]])
    <3> SUFFICES ASSUME NEW u \in Tasks, Past(u)'
                 PROVE  \/ hist'[slot[u]] = <<>>
                        \/ Past(u) /\ hist'[slot[u]] = hist[slot[u]]
      BY <2>1
    <3>1. CASE slot[u] = slot[t]
      BY <2>1, <2>2, <3>1
    <3>2. CASE slot[u] # slot[t]
      <4>1. Past(u)
        BY <2>1, <3>2 DEF Past, Status
      <4>2. slot[u] \in Slots
        BY <4>1, HolderSlotted DEF Holds
      <4> QED
        BY <2>1, <3>2, <4>1, <4>2
    <3> QED
      BY <3>1, <3>2
  <2>4. OwnHistory'
    BY <2>3, HistoryKept DEF HealthyInv
  <2>5. OwnResult'
    BY <2>1, ResultKept DEF HealthyInv
  <2> QED
    BY <1>2, <2>4, <2>5 DEF HealthyInv
<1>7. CASE SaveTask(t)
  <2>1. /\ thread[t].pc = "accepted" /\ row'[t].status = "dispatched"
        /\ \A u \in Tasks \ {t} : row'[u] = row[u]
        /\ \A u \in Tasks \ {t} : thread'[u] = thread[u]
        /\ UNCHANGED <<slot, hist>>
    BY <1>7, Saved
  <2>2. \A u \in Tasks : Past(u)' => Past(u)
    BY <2>1 DEF Past, Status
  <2>3. OwnHistory'
    BY <2>1, <2>2, HistoryKept DEF HealthyInv
  <2>4. OwnResult'
    BY <2>1, ResultKept DEF HealthyInv
  <2> QED
    BY <1>2, <2>3, <2>4 DEF HealthyInv
<1> QED
  BY <1>4, <1>5, <1>6, <1>7

\* /api/chat and the start of a run.
LEMMA BeginOwn ==
    ASSUME Features \subseteq Calm, TypeInv, CalmInv, HealthyInv, NEW t \in Tasks,
           ApiChat(t) \/ RunStart(t)
    PROVE  HealthyInv'
<1> USE Typed DEF TypeInv
<1>1. UNCHANGED <<row, slot, thread, hist, check, cleaning>>
  BY DEF ApiChat, RunStart
<1>2. \A u \in Tasks : Past(u)' => Past(u)
  BY <1>1 DEF Past, Status
<1>3. OwnHistory' /\ OwnFinds' /\ OwnResult'
  BY <1>1, <1>2, HistoryKept, FindsKept, ResultKept DEF HealthyInv
<1>4. \A u \in Tasks : run'[u].pc = "running" => ~run'[u].killed
  <2>1. CASE ApiChat(t)
    <3>1. \A u \in Tasks : \/ run'[u].pc = "starting"
                           \/ run'[u].pc = run[u].pc /\ run'[u].killed = run[u].killed
      <4>1. CASE run' = [run EXCEPT ![t] = NewRun(t)]
        BY <4>1 DEF NewRun
      <4>2. CASE \E r : run' = [run EXCEPT ![r].given = @ \cup {t}]
        <5>1. PICK r : run' = [run EXCEPT ![r].given = @ \cup {t}]
          BY <4>2
        <5>2. \A q \in Run : \A G : /\ [q EXCEPT !.given = G].pc = q.pc
                                      /\ [q EXCEPT !.given = G].killed = q.killed
          BY DEF Run
        <5> DEFINE more == [run[r] EXCEPT !.given = run[r].given \cup {t}]
        <5>3. r \in Tasks => more.pc = run[r].pc /\ more.killed = run[r].killed
          BY <5>2
        <5>4. run' = [run EXCEPT ![r] = more]
          BY <5>1
        <5> HIDE DEF more
        <5> QED
          BY <5>3, <5>4
      <4>3. CASE run' = run
        BY <4>3
      <4> QED
        BY <2>1, <4>1, <4>2, <4>3 DEF ApiChat
    <3> QED
      BY <3>1 DEF HealthyInv, Unkilled
  <2>2. CASE RunStart(t)
    <3> DEFINE new == [run[t] EXCEPT !.pc = "running"]
    <3>1. ~run[t].killed /\ run' = [run EXCEPT ![t] = new]
      BY <2>2 DEF RunStart
    <3>2. run[t] \in Run
      OBVIOUS
    <3>3. new.killed = run[t].killed
      BY <3>2 DEF Run
    <3> HIDE DEF new
    <3> QED
      BY <3>1, <3>3 DEF HealthyInv, Unkilled
  <2> QED
    BY <2>1, <2>2
<1> QED
  BY <1>1, <1>3, <1>4 DEF HealthyInv, Unkilled

\* The end of a run: h is the history with its reply, if that was still to come.
LEMMA RunEndsWith ==
    ASSUME Features \subseteq Healthy, TypeInv, CalmInv, HealthyInv, NEW r \in Tasks,
           RunEnd(r) \/ RunTail(r)
    PROVE  /\ slot[r] \in Slots
           /\ \E h \in [Slots -> Seq(Entry)], rs \in [Tasks -> Run] :
                /\ rs[r].pc \in {"tail", "over"} /\ \A u \in Tasks \ {r} : rs[u] = run[u]
                /\ \A z \in Slots : z # slot[r] => h[z] = hist[z]
                /\ \A u \in Tasks : Past(u) /\ slot[u] = slot[r] =>
                      \A i \in DOMAIN h[slot[r]] : OwnEntry(u, h[slot[r]][i])
                /\ \/ CompletionHook(slot[r], h, rs)
                   \/ hist' = h /\ run' = rs /\ UNCHANGED row
<1> USE Typed DEF TypeInv
<1>1. run[r].pc \in {"running", "tail"} /\ run[r] \in Run
  BY DEF RunEnd, RunTail
<1>2. slot[r] \in Slots
  BY <1>1, TouchedNow DEF Slotted
<1> DEFINE ended == [run[r] EXCEPT !.pc = "over"]
           trailing == [run[r] EXCEPT !.pc = "tail"]
           over == [run EXCEPT ![r] = ended]
           tail == [run EXCEPT ![r] = trailing]
<1>3. ended \in Run /\ ended.pc = "over" /\ trailing \in Run /\ trailing.pc = "tail"
  BY <1>1 DEF Run
<1> HIDE DEF ended, trailing
<1>4. /\ over \in [Tasks -> Run] /\ over[r].pc = "over"
      /\ tail \in [Tasks -> Run] /\ tail[r].pc = "tail"
      /\ \A u \in Tasks \ {r} : over[u] = run[u] /\ tail[u] = run[u]
  BY <1>3
<1>5. CASE RunTail(r)
  <2>1. CompletionHook(slot[r], hist, over)
    BY <1>5 DEF RunTail, ended
  <2>2. hist \in [Slots -> Seq(Entry)]
    OBVIOUS
  <2>3. \A u \in Tasks : Past(u) /\ slot[u] = slot[r] =>
            \A i \in DOMAIN hist[slot[r]] : OwnEntry(u, hist[slot[r]][i])
    BY DEF HealthyInv, OwnHistory
  <2> HIDE DEF over, tail
  <2> QED
    BY <1>2, <1>4, <2>1, <2>2, <2>3
<1>6. CASE RunEnd(r)
  <2>1. PICK e \in Endings(r) : \/ CompletionHook(slot[r], Appended(r, e), over)
                                \/ /\ hist' = Appended(r, e) /\ run' = tail
                                   /\ UNCHANGED <<row, server>>
    BY <1>6 DEF RunEnd, Appended, Reply1, ended, trailing
  <2> DEFINE h == Appended(r, e)
             s == slot[r]
  <2>2. /\ Reply1(r, e) \in Entry /\ h \in [Slots -> Seq(Entry)]
        /\ h[s] = Append(hist[s], Reply1(r, e))
        /\ \A z \in Slots : z # s => h[z] = hist[z]
    BY <1>2, ReplyTypes
  <2>3. run[r].pc = "running"
    BY <1>6 DEF RunEnd
  <2>4. ~run[r].killed /\ Past(r) /\ run[r].given = {r}
    BY <2>3 DEF HealthyInv, Unkilled, CalmInv, RunInv
  <2>5. e.kind # "died" /\ (e.kind # "answer" => e.marks = {})
    BY <2>4, HealthyFeatures DEF Endings
  <2>6. OwnEntry(r, Reply1(r, e))
    BY <2>4, <2>5 DEF OwnEntry, Reply1
  <2>7. \A u \in Tasks : Past(u) /\ slot[u] = s => u = r
    BY <2>4 DEF Holds, CalmInv, OneHolder
  <2>8. \A u \in Tasks : Past(u) /\ slot[u] = s => \A i \in DOMAIN h[s] : OwnEntry(u, h[s][i])
    <3> SUFFICES ASSUME NEW u \in Tasks, Past(u), slot[u] = s, NEW i \in DOMAIN h[s]
                 PROVE  OwnEntry(u, h[s][i])
      OBVIOUS
    <3>1. u = r
      BY <2>7
    <3>2. hist[s] \in Seq(Entry)
      BY <1>2
    <3>3. h[s][i] = Reply1(r, e) \/ (i \in DOMAIN hist[s] /\ h[s][i] = hist[s][i])
      <4> HIDE DEF h, s
      <4> QED
        BY <2>2, <3>2
    <3>4. i \in DOMAIN hist[s] => OwnEntry(u, hist[s][i])
      BY DEF HealthyInv, OwnHistory
    <3> QED
      BY <2>6, <3>1, <3>3, <3>4
  <2> HIDE DEF h, over, tail
  <2>9. \/ CompletionHook(slot[r], h, over)
        \/ hist' = h /\ run' = tail /\ UNCHANGED row
    BY <2>1 DEF h
  <2> QED
    BY <1>2, <1>4, <2>2, <2>7, <2>8, <2>9
<1> QED
  BY <1>5, <1>6

LEMMA RunEndOwn ==
    ASSUME Features \subseteq Healthy, TypeInv, CalmInv, HealthyInv, NEW r \in Tasks,
           RunEnd(r) \/ RunTail(r)
    PROVE  HealthyInv'
<1> USE Typed DEF TypeInv
<1>1. UNCHANGED <<slot, thread, check, cleaning>>
  BY DEF RunEnd, RunTail
<1>2. slot[r] \in Slots
  BY RunEndsWith
<1>3. PICK h \in [Slots -> Seq(Entry)], rs \in [Tasks -> Run] :
            /\ rs[r].pc \in {"tail", "over"} /\ \A u \in Tasks \ {r} : rs[u] = run[u]
            /\ \A z \in Slots : z # slot[r] => h[z] = hist[z]
            /\ \A u \in Tasks : Past(u) /\ slot[u] = slot[r] =>
                  \A i \in DOMAIN h[slot[r]] : OwnEntry(u, h[slot[r]][i])
            /\ \/ CompletionHook(slot[r], h, rs)
               \/ hist' = h /\ run' = rs /\ UNCHANGED row
  BY RunEndsWith
<1>4. /\ hist' = h /\ run' = rs
      /\ \/ UNCHANGED row
         \/ \E t \in Tasks :
                /\ Status(t) \in InFlight /\ slot[t] = slot[r]
                /\ row'[t].status = "completed" /\ t \in row'[t].result.marks
                /\ \E i \in DOMAIN h[slot[r]] : row'[t].result = h[slot[r]][i]
                /\ \A u \in Tasks \ {t} : row'[u] = row[u]
  <2> DEFINE z == slot[r]
  <2>1. TypeInv /\ z \in Slots /\ h \in [Slots -> Seq(Entry)]
    BY <1>2
  <2> HIDE DEF z, TypeInv
  <2>2. CompletionHook(z, h, rs) =>
            /\ hist' = h /\ run' = rs
            /\ \/ UNCHANGED <<row, server>>
               \/ \E t \in Tasks :
                    /\ Status(t) \in InFlight /\ slot[t] = z
                    /\ row'[t].status = "completed" /\ t \in row'[t].result.marks
                    /\ h[z] # <<>> /\ \E i \in DOMAIN h[z] : row'[t].result = h[z][i]
                    /\ \A u \in Tasks \ {t} : row'[u] = row[u]
                    /\ server' = [server EXCEPT !.telling = t]
    BY ONLY <2>1, Hooked
  <2> QED
    BY <1>3, <2>2 DEF z
<1>6. Unkilled'
  BY <1>1, <1>3, <1>4 DEF HealthyInv, Unkilled
<1>7. \A u \in Tasks : Past(u)' => Past(u)
  BY <1>1, <1>4 DEF Past, Status, InFlight
<1>8. OwnHistory'
  <2> SUFFICES ASSUME NEW u \in Tasks, Past(u)', NEW i \in DOMAIN hist'[slot'[u]]
               PROVE  OwnEntry(u, hist'[slot'[u]][i])
    BY DEF OwnHistory, OwnEntry
  <2>1. Past(u) /\ slot'[u] = slot[u] /\ slot[u] \in Slots
    BY <1>1, <1>7, HolderSlotted DEF Holds
  <2>2. CASE slot[u] = slot[r]
    <3>1. hist'[slot[u]] = h[slot[r]]
      BY <1>4, <2>1, <2>2
    <3> QED
      BY <1>3, <2>1, <2>2, <3>1
  <2>3. CASE slot[u] # slot[r]
    <3>1. hist'[slot[u]] = hist[slot[u]]
      BY <1>3, <1>4, <2>1, <2>3
    <3> QED
      BY <2>1, <3>1 DEF HealthyInv, OwnHistory
  <2> QED
    BY <2>2, <2>3
<1>9. \A u \in Tasks : row'[u] = row[u] \/ Answers(u, row'[u].result)
  <2>1. ASSUME NEW t \in Tasks, Status(t) \in InFlight, slot[t] = slot[r],
               t \in row'[t].result.marks,
               NEW i \in DOMAIN h[slot[r]], row'[t].result = h[slot[r]][i]
        PROVE  Answers(t, row'[t].result)
    <3>1. OwnEntry(t, h[slot[r]][i])
      BY <1>3, <2>1 DEF Past
    <3>2. h[slot[r]][i] \in Entry
      <4>1. h[slot[r]] \in Seq(Entry)
        BY <1>2
      <4> QED
        BY <4>1
    <3> QED
      BY <2>1, <3>1, <3>2, OwnAnswers
  <2> QED
    BY <1>4, <2>1
<1>10. OwnFinds' /\ OwnResult'
  BY <1>1, <1>9, FindsKept, ResultKept DEF HealthyInv
<1> QED
  BY <1>6, <1>8, <1>10 DEF HealthyInv

\* A check completes a task with the reply of its own run.
LEMMA SavedOwn ==
    ASSUME TypeInv, CalmInv, HealthyInv, NEW c \in Checkers, check[c] # NoCheck,
           row' = [row EXCEPT ![check[c].task] = CheckedRow(check[c])]
    PROVE  \A u \in Tasks : \/ row'[u] = row[u]
                            \/ row'[u].status # "completed"
                            \/ Answers(u, row'[u].result)
<1> USE Typed DEF TypeInv
<1> DEFINE k == check[c]
           t == k.task
<1>1. /\ t \in Tasks /\ \A u \in Tasks \ {t} : row'[u] = row[u]
      /\ \/ row'[t] = row[t] /\ Status(t) \in Settled
         \/ /\ Status(t) \in InFlight /\ row'[t].status \in InFlight
            /\ row'[t].result = row[t].result
         \/ /\ Status(t) \in InFlight /\ HasReply(t) /\ k.found # NoEntry
            /\ row'[t].status \in {"completed", "failed"}
            /\ row'[t].result = k.found
            /\ row'[t].status = "completed" => t \in k.found.marks \/ k.found.kind # "silent"
  BY SavedRow
<1>2. /\ k.status = Status(t) /\ k.found \in Entry \cup {NoEntry}
      /\ k.status \in InFlight /\ k.found # NoEntry => OwnEntry(t, k.found)
  BY DEF CalmInv, CheckInv, HealthyInv, OwnFinds, Check
<1> HIDE DEF k, t
<1>3. CASE row'[t] = row[t] \/ row'[t].status \in InFlight
  BY <1>1, <1>3 DEF InFlight
<1>4. CASE /\ Status(t) \in InFlight /\ k.found # NoEntry
           /\ row'[t].result = k.found
           /\ row'[t].status = "completed" => t \in k.found.marks \/ k.found.kind # "silent"
  <2>1. k.found \in Entry /\ OwnEntry(t, k.found)
    BY <1>2, <1>4
  <2>2. row'[t].status = "completed" => Answers(t, row'[t].result)
    BY <1>4, <2>1, OwnAnswers
  <2> QED
    BY <1>1, <2>2
<1> QED
  BY <1>1, <1>3, <1>4

LEMMA CheckLoadOwn ==
    ASSUME Features \subseteq Calm, TypeInv, CalmInv, HealthyInv, NEW t \in Tasks,
           CheckLoad("api", t)
    PROVE  HealthyInv'
<1> USE Typed DEF TypeInv
<1> DEFINE new == Looked(t, Status(t))
<1>1. /\ Status(t) # "none" /\ check' = [check EXCEPT !["api"] = new]
      /\ UNCHANGED <<row, slot, thread, hist, run, cleaning>>
  BY DEF CheckLoad
<1>2. slot[t] \in Slots /\ Status(t) \in Statuses
  BY <1>1, TouchedNow DEF Slotted, Status, Row
<1>3. new.task = t /\ new.status = Status(t)
  BY <1>2, LookedTypes
<1>4. new.status \in InFlight /\ new.found # NoEntry => OwnEntry(t, new.found)
  BY <1>2, <1>3, LookedOwn DEF HealthyInv
<1> HIDE DEF new
<1>5. OwnFinds'
  <2>1. \A c \in Checkers : check'[c] = new \/ check'[c] = check[c]
    BY <1>1
  <2> QED
    BY <1>3, <1>4, <2>1 DEF OwnFinds, HealthyInv, OwnEntry
<1>6. \A u \in Tasks : Past(u)' => Past(u)
  BY <1>1 DEF Past, Status
<1>7. OwnHistory' /\ OwnResult' /\ Unkilled'
  BY <1>1, <1>6, HistoryKept, ResultKept DEF HealthyInv, Unkilled
<1> QED
  BY <1>5, <1>7 DEF HealthyInv

LEMMA MonVisitOwn ==
    ASSUME Features \subseteq Calm, TypeInv, CalmInv, HealthyInv, ListCurrent, MonVisit
    PROVE  HealthyInv'
<1> USE Typed DEF TypeInv
<1> DEFINE t == Min(mon.todo)
           st == VisitedStatus(t)
           new == Looked(t, st)
<1>1. /\ mon.todo # {} /\ MonTurn /\ check' = [check EXCEPT !["monitor"] = new]
      /\ UNCHANGED <<slot, thread, hist, run, cleaning>>
  BY Visit
<1>2. t \in mon.todo /\ t \in Tasks
  BY <1>1, LeastListed DEF Monitor
<1>3. Status(t) \in InFlight /\ slot[t] \in Slots
  <2>1. IsOpen(t) /\ Status(t) # "dispatch_failed" /\ row[t] \in Row
    BY <1>1, <1>2, NoEntryIsNone DEF ListCurrent, CalmInv, ThreadInv, MonTurn
  <2>2. Status(t) \in InFlight
    BY <2>1 DEF IsOpen, Status, Row, Statuses
  <2> QED
    BY <1>2, <2>2, TouchedNow DEF Slotted
<1>4. st \in Statuses
  BY <1>3 DEF VisitedStatus, InFlight, Statuses
<1>5. new.task = t /\ (new.found # NoEntry => OwnEntry(t, new.found))
  BY <1>2, <1>3, <1>4, LookedTypes, LookedOwn DEF HealthyInv
<1> HIDE DEF new, t, st
<1>6. OwnFinds'
  <2>1. \A c \in Checkers : check'[c] = new \/ check'[c] = check[c]
    BY <1>1
  <2> QED
    BY <1>5, <2>1 DEF OwnFinds, HealthyInv, OwnEntry
<1>7. Quiet
  BY MonVisitRows
<1>8. \A u \in Tasks : Past(u)' => Past(u)
  BY <1>1, <1>7 DEF Past, Status, Quiet
<1>9. OwnHistory' /\ OwnResult' /\ Unkilled'
  BY <1>1, <1>7, <1>8, HistoryKept, QuietResult DEF HealthyInv, Unkilled
<1> QED
  BY <1>6, <1>9 DEF HealthyInv

LEMMA CheckSaveOwn ==
    ASSUME Features \subseteq Calm, TypeInv, CalmInv, HealthyInv, NEW c \in Checkers, CheckSave(c)
    PROVE  HealthyInv'
<1> USE Typed DEF TypeInv
<1>1. /\ check[c] # NoCheck
      /\ row' = [row EXCEPT ![check[c].task] = CheckedRow(check[c])]
      /\ check' = [check EXCEPT ![c] = NoCheck]
      /\ UNCHANGED <<slot, thread, hist, run, cleaning>>
  BY DEF CheckSave
<1>2. \A u \in Tasks : row'[u] = row[u] \/ Status(u) \in InFlight
  BY <1>1, SavedMoves
<1>3. \A u \in Tasks : Past(u)' => Past(u)
  BY <1>1, <1>2 DEF Past, Status
<1>4. \A d \in Checkers : check'[d] = check[d] \/ check'[d] = NoCheck
  BY <1>1
<1>5. OwnResult'
  BY <1>1, SavedOwn, ResultKept DEF HealthyInv
<1>6. OwnHistory' /\ OwnFinds' /\ Unkilled'
  BY <1>1, <1>3, <1>4, HistoryKept, FindsKept DEF HealthyInv, Unkilled
<1> QED
  BY <1>5, <1>6 DEF HealthyInv

LEMMA MonSaveOwn ==
    ASSUME TypeInv, CalmInv, HealthyInv, MonSave
    PROVE  HealthyInv'
<1> USE Typed DEF TypeInv
<1>1. /\ "monitor" \in Checkers /\ check["monitor"] # NoCheck
      /\ row' = [row EXCEPT ![check["monitor"].task] = CheckedRow(check["monitor"])]
      /\ check' = [check EXCEPT !["monitor"] = NoCheck]
      /\ UNCHANGED <<slot, thread, hist, run, cleaning>>
  BY DEF MonSave, Checkers
<1>2. \A u \in Tasks : row'[u] = row[u] \/ Status(u) \in InFlight
  BY <1>1, SavedMoves
<1>3. \A u \in Tasks : Past(u)' => Past(u)
  BY <1>1, <1>2 DEF Past, Status
<1>4. \A d \in Checkers : check'[d] = check[d] \/ check'[d] = NoCheck
  BY <1>1
<1>5. OwnResult'
  BY <1>1, SavedOwn, ResultKept DEF HealthyInv
<1>6. OwnHistory' /\ OwnFinds' /\ Unkilled'
  BY <1>1, <1>3, <1>4, HistoryKept, FindsKept DEF HealthyInv, Unkilled
<1> QED
  BY <1>5, <1>6 DEF HealthyInv

LEMMA TellOwn ==
    ASSUME Features \subseteq Healthy, TypeInv, CalmInv, HealthyInv, SlotQuiet, Tell
    PROVE  HealthyInv'
<1>1. /\ UNCHANGED <<row, slot, thread, check>>
      /\ \A u \in Tasks : Holds(u) => run'[u] = run[u]
      /\ \A u \in Tasks : Past(u) => hist'[slot[u]] = hist[slot[u]]
      /\ \A u \in Tasks : run'[u].pc = run[u].pc
      /\ UNCHANGED cleaning
  BY HealthyFeatures, TellSpares DEF Tell
<1>2. \A u \in Tasks : Past(u)' => Past(u)
  BY <1>1 DEF Past, Status
<1>3. OwnHistory' /\ OwnFinds' /\ OwnResult'
  BY <1>1, <1>2, HistoryKept, FindsKept, ResultKept DEF HealthyInv
<1>4. ASSUME NEW u \in Tasks, run'[u].pc = "running"
      PROVE  ~run'[u].killed
  <2>1. run[u].pc = "running"
    BY <1>1, <1>4
  <2>2. Holds(u) /\ ~run[u].killed
    BY <2>1 DEF CalmInv, RunInv, Holds, HealthyInv, Unkilled
  <2> QED
    BY <1>1, <2>2
<1> QED
  BY <1>1, <1>3, <1>4 DEF HealthyInv, Unkilled

LEMMA CrashOwn ==
    ASSUME Features \subseteq Calm, TypeInv, CalmInv, HealthyInv, Crash
    PROVE  HealthyInv'
<1> USE Typed DEF TypeInv
<1> DEFINE ended(t) == [thread[t] EXCEPT !.pc = "done"]
           over(t) == [run[t] EXCEPT !.pc = "over"]
<1>1. /\ thread' = [t \in Tasks |-> IF ThreadAt(t, "new") THEN thread[t] ELSE ended(t)]
      /\ run' = [t \in Tasks |-> IF run[t].pc = "none" THEN NoRun ELSE over(t)]
      /\ cleaning' = {}
      /\ check' = [c \in Checkers |-> NoCheck]
      /\ UNCHANGED <<row, slot, hist>>
  BY DEF Crash
<1>2. \A t \in Tasks : ended(t).pc = "done" /\ over(t).pc = "over"
  <2>1. \A t \in Tasks : thread[t] \in Thread /\ run[t] \in Run
    OBVIOUS
  <2>2. \A q \in Thread : [q EXCEPT !.pc = "done"].pc = "done"
    BY DEF Thread
  <2>3. \A q \in Run : [q EXCEPT !.pc = "over"].pc = "over"
    BY DEF Run
  <2> QED
    BY <2>1, <2>2, <2>3
<1>3. NoRun.pc = "none"
  BY DEF NoRun
<1> HIDE DEF ended, over, NoRun
<1>4. \A t \in Tasks : thread'[t].pc \in {"new", "done"} /\ run'[t].pc # "running"
  BY <1>1, <1>2, <1>3 DEF ThreadAt
<1>5. \A u \in Tasks : Past(u)' => Past(u)
  BY <1>1, <1>4 DEF Past, Status
<1>6. OwnHistory' /\ OwnResult'
  BY <1>1, <1>5, HistoryKept, ResultKept DEF HealthyInv
<1>7. OwnFinds' /\ Unkilled'
  BY <1>1, <1>4 DEF OwnFinds, Unkilled
<1> QED
  BY <1>6, <1>7 DEF HealthyInv

LEMMA HealthyStart ==
    ASSUME Init
    PROVE  HealthyInv
<1> USE DEF Init
<1>1. \A t \in Tasks : ~Past(t)
  BY DEF Past, Status, InFlight
<1>2. NoRun.pc = "none"
  BY DEF NoRun
<1> QED
  BY <1>1, <1>2 DEF HealthyInv, OwnHistory, Unkilled, OwnFinds, OwnResult, Status

LEMMA HealthyStep ==
    ASSUME Features \subseteq Healthy, TypeInv, CalmInv, HealthyInv, SlotQuiet, ListCurrent, [Next]_vars
    PROVE  HealthyInv'
<1>1. Features \subseteq Calm
  BY HealthyFeatures
<1>2. ASSUME UNCHANGED <<slot, thread, hist, run, check, cleaning>>, Quiet
      PROVE  HealthyInv'
  <2>1. \A u \in Tasks : Past(u)' => Past(u)
    BY <1>2 DEF Past, Status, Quiet
  <2> QED
    BY <1>2, <2>1, HistoryKept, FindsKept, QuietResult DEF HealthyInv, Unkilled
<1>3. ASSUME NEW t \in Tasks,
             Delegate(t) \/ ThreadStep(t) \/ SendError(t) \/ LoopStep(t) \/ RunEnd(t)
             \/ Dismiss(t) \/ Tick(t)
      PROVE  HealthyInv'
  <2>1. ~Cleanup(t)
    BY DEF Cleanup, HealthyInv, Unkilled
  <2> QED
    BY <1>1, <1>3, <2>1, RuledOut, CallOwn, BeginOwn, RunEndOwn DEF ThreadStep, LoopStep
<1>4. ASSUME NEW t \in Tasks, NEW c \in Checkers, CheckLoad(c, t)
      PROVE  HealthyInv'
  <2>1. c = "api" \/ c = "tool"
    BY <1>4 DEF CheckLoad
  <2> QED
    BY <1>1, <1>4, <2>1, RuledOut, CheckLoadOwn
<1>5. ASSUME NEW c \in Checkers, CheckSave(c)
      PROVE  HealthyInv'
  BY <1>1, <1>5, CheckSaveOwn
<1>6. CASE MonStep
  <2>1. CASE MonStart
    BY <1>2, <2>1 DEF MonStart, Quiet
  <2> QED
    BY <1>1, <1>6, <2>1, RuledOut, MonVisitOwn, MonSaveOwn DEF MonStep
<1>7. CASE WakeTask
  <2>1. UNCHANGED <<slot, thread, hist, run, check, cleaning>>
    BY <1>7 DEF WakeTask
  <2> QED
    BY <1>1, <1>2, <1>7, <2>1, WakeTaskRows
<1>8. CASE UNCHANGED vars
  BY <1>2, <1>8 DEF vars, Quiet
<1> QED
  BY <1>1, <1>3, <1>4, <1>5, <1>6, <1>7, <1>8, TellOwn, CrashOwn DEF Next

(***************************************************************************)
(* With one slot a completed task holds an answer of the model to its own  *)
(* text, for any number of tasks and crashes, while processes do not die   *)
(* by themselves and parents are told at once.                             *)
(***************************************************************************)
THEOREM OneSlotOwnResult ==
    ASSUME Features \subseteq Healthy, NumSlots = 1
    PROVE  Spec => []OwnResult
<1>1. Init => HealthyInv
  BY HealthyStart
<1>2. TypeInv /\ CheckTasks /\ CalmInv /\ ListHeld /\ SlotQuiet /\ HealthyInv /\ [Next]_vars
      => HealthyInv'
  BY HealthyStep, HeldIsCurrent
<1>3. HealthyInv => OwnResult
  BY DEF HealthyInv
<1>4. Spec => [](TypeInv /\ CheckTasks /\ CalmInv /\ ListHeld /\ SlotQuiet)
  BY HealthyFeatures, QuietInvariant
<1> QED
  BY <1>1, <1>2, <1>3, <1>4, PTL DEF Spec

-----------------------------------------------------------------------------
(***************************************************************************)
(* Open tasks.  While parents are told at once, whoever kills a process or *)
(* clears a history is the end of the task that had the slot, told before  *)
(* the loop serves the next, or the delegation of the next.                *)
(***************************************************************************)
Prompt == Calm \ {"remoteParent"}

LEMMA PromptFeatures ==
    ASSUME Features \subseteq Prompt
    PROVE  Features \subseteq Calm /\ ~Suspends
BY DEF Prompt, Suspends

NothingHeldUp == cleaning = {}

\* A run keeps whether it was killed, a history only grows.
Grows(h, t) == \A i \in DOMAIN hist[slot[t]] : i \in DOMAIN h /\ h[i] = hist[slot[t]][i]

Spared(t) == /\ ~run[t].killed => ~run'[t].killed
             /\ Grows(hist'[slot[t]], t)

LEMMA SparedKept ==
    ASSUME NEW t \in Tasks, Spared(t), slot'[t] = slot[t]
    PROVE  /\ ~run[t].killed => ~run'[t].killed
           /\ Answered(t) => Answered(t)'
BY DEF Spared, Grows, Answered

LEMMA NothingMoves ==
    ASSUME NEW t \in Tasks, UNCHANGED <<hist, run>>
    PROVE  Spared(t)
BY DEF Spared, Grows

\* A run that ends.
LEMMA RunEndSpares ==
    ASSUME TypeInv, NEW r \in Tasks, RunEnd(r) \/ RunTail(r), NEW t \in Tasks,
           slot[t] \in Slots
    PROVE  Spared(t)
<1> USE Typed DEF TypeInv
<1>1. run[r].pc \in {"running", "tail"} /\ run[r] \in Run
  BY DEF RunEnd, RunTail
<1>2. slot[r] \in Slots
  BY <1>1, TouchedNow DEF Slotted
<1> DEFINE ended == [run[r] EXCEPT !.pc = "over"]
           trailing == [run[r] EXCEPT !.pc = "tail"]
<1>3. ended.killed = run[r].killed /\ trailing.killed = run[r].killed
  BY <1>1 DEF Run
<1> HIDE DEF ended, trailing
<1>4. \A h, rs : CompletionHook(slot[r], h, rs) => hist' = h /\ run' = rs
  BY DEF CompletionHook
<1>5. CASE RunTail(r)
  <2>1. hist' = hist /\ run' = [run EXCEPT ![r] = ended]
    BY <1>4, <1>5 DEF RunTail, ended
  <2> QED
    BY <1>3, <2>1 DEF Spared, Grows
<1>6. CASE RunEnd(r)
  <2>1. PICK e \in Endings(r) :
            /\ hist' = Appended(r, e)
            /\ run' = [run EXCEPT ![r] = ended] \/ run' = [run EXCEPT ![r] = trailing]
    BY <1>4, <1>6 DEF RunEnd, Appended, Reply1, ended, trailing
  <2> DEFINE s == slot[r]
  <2>2. /\ Reply1(r, e) \in Entry
        /\ hist'[s] = Append(hist[s], Reply1(r, e))
        /\ \A z \in Slots : z # s => hist'[z] = hist[z]
    BY <1>2, <2>1, ReplyTypes
  <2>3. hist[s] \in Seq(Entry) /\ hist' \in [Slots -> Seq(Entry)]
    BY <1>2, <2>1, ReplyTypes
  <2> HIDE DEF s
  <2>4. Grows(hist'[slot[t]], t)
    <3>1. CASE slot[t] = s
      <4>1. \A old \in Seq(Entry), e1 \in Entry :
              \A i \in DOMAIN old : /\ i \in DOMAIN Append(old, e1)
                                   /\ Append(old, e1)[i] = old[i]
        OBVIOUS
      <4>2. \A i \in DOMAIN hist[s] : i \in DOMAIN hist'[s] /\ hist'[s][i] = hist[s][i]
        BY <2>2, <2>3, <4>1
      <4> QED
        BY <3>1, <4>2 DEF Grows
    <3>2. CASE slot[t] # s
      BY <2>2, <3>2 DEF Grows
    <3> QED
      BY <3>1, <3>2
  <2>5. ~run[t].killed => ~run'[t].killed
    BY <1>3, <2>1
  <2> QED
    BY <2>4, <2>5 DEF Spared
<1> QED
  BY <1>5, <1>6

LEMMA ClearSpares ==
    ASSUME TypeInv, CalmInv, NEW u \in Tasks, Clear(u),
           NEW t \in Tasks, Status(t) \in InFlight
    PROVE  Spared(t)
<1> USE Typed DEF TypeInv
<1>1. hist' = [hist EXCEPT ![slot[u]] = <<>>] /\ thread[u].pc = "clear" /\ UNCHANGED run
  BY DEF Clear, ThreadAt
<1>2. Holds(t) /\ Holds(u) /\ t # u
  BY <1>1 DEF Holds, Past, CalmInv, ThreadInv, InFlight
<1>3. slot[t] # slot[u] /\ slot[t] \in Slots
  BY <1>2, HolderSlotted DEF CalmInv, OneHolder
<1> QED
  BY <1>1, <1>3 DEF Spared, Grows

LEMMA BeginSpares ==
    ASSUME TypeInv, NEW u \in Tasks, ApiChat(u) \/ RunStart(u), NEW t \in Tasks
    PROVE  Spared(t)
<1> USE Typed DEF TypeInv
<1>1. UNCHANGED hist
  BY DEF ApiChat, RunStart
<1>2. \A q \in Run : /\ [q EXCEPT !.pc = "running"].killed = q.killed
                     /\ \A G : [q EXCEPT !.given = G].killed = q.killed
  BY DEF Run
<1>3. CASE run' = run
  BY <1>1, <1>3, NothingMoves
<1>4. CASE run' = [run EXCEPT ![u] = NewRun(u)]
  BY <1>1, <1>4 DEF NewRun, Spared, Grows
<1>5. ASSUME NEW r, run' = [run EXCEPT ![r].given = @ \cup {u}]
      PROVE  Spared(t)
  <2> DEFINE more == [run[r] EXCEPT !.given = run[r].given \cup {u}]
  <2>1. r \in Tasks => more.killed = run[r].killed
    BY <1>2
  <2>2. run' = [run EXCEPT ![r] = more]
    BY <1>5
  <2> HIDE DEF more
  <2> QED
    BY <1>1, <2>1, <2>2 DEF Spared, Grows
<1>6. CASE RunStart(u)
  <2> DEFINE new == [run[u] EXCEPT !.pc = "running"]
  <2>1. new.killed = run[u].killed
    BY <1>2
  <2>2. run' = [run EXCEPT ![u] = new]
    BY <1>6 DEF RunStart
  <2> HIDE DEF new
  <2> QED
    BY <1>1, <2>1, <2>2 DEF Spared, Grows
<1>7. CASE ApiChat(u)
  BY <1>3, <1>4, <1>5, <1>7 DEF ApiChat
<1> QED
  BY <1>6, <1>7

LEMMA CrashSpares ==
    ASSUME TypeInv, Crash, NEW t \in Tasks
    PROVE  Spared(t)
<1> USE Typed DEF TypeInv
<1> DEFINE over == [run[t] EXCEPT !.pc = "over"]
<1>1. run'[t] = (IF run[t].pc = "none" THEN NoRun ELSE over) /\ UNCHANGED hist
  BY DEF Crash
<1>2. over.killed = run[t].killed /\ ~NoRun.killed
  <2>1. run[t] \in Run
    OBVIOUS
  <2> QED
    BY <2>1 DEF Run, NoRun
<1> HIDE DEF over, NoRun
<1> QED
  BY <1>1, <1>2 DEF Spared, Grows

LEMMA NothingHeldUpStep ==
    ASSUME Features \subseteq Prompt, NothingHeldUp, [Next]_vars
    PROVE  NothingHeldUp'
<1> USE DEF NothingHeldUp
<1>1. ASSUME NEW t \in Tasks,
             Delegate(t) \/ ThreadStep(t) \/ SendError(t) \/ LoopStep(t) \/ RunEnd(t)
             \/ Dismiss(t) \/ Tick(t) \/ \E c \in Checkers : CheckLoad(c, t)
      PROVE  cleaning' = {}
  BY <1>1
     DEF ThreadStep, LoopStep, Delegate, Scan, Verify, Clear, Dispatch, Join, SaveTask, SenderLoad,
         SenderSave, SendError, ApiChat, RunStart, RunRefused, RunTail, RunEnd, Cleanup, Dismiss,
         Tick, CheckLoad
<1>2. CASE MonStep \/ Tell
  BY <1>2, PromptFeatures
     DEF MonStep, MonStart, MonTimeout, MonVisit, MonSave, Tell, DoCleanup
<1>3. CASE WakeTask \/ Crash \/ UNCHANGED vars \/ \E c \in Checkers : CheckSave(c)
  BY <1>3 DEF WakeTask, Crash, CheckSave, vars
<1> QED
  BY <1>1, <1>2, <1>3 DEF Next

LEMMA OpenSpared ==
    ASSUME Features \subseteq Prompt, TypeInv, CalmInv, NothingHeldUp, SlotQuiet, [Next]_vars,
           NEW t \in Tasks, Status(t) \in InFlight
    PROVE  Spared(t)
<1>1. Features \subseteq Calm
  BY PromptFeatures
<1>2. Past(t) /\ Holds(t) /\ slot[t] \in Slots
  <2>1. Past(t) /\ Holds(t)
    BY DEF Holds, Past
  <2> QED
    BY <2>1, HolderSlotted
<1>3. ASSUME NEW u \in Tasks,
             Delegate(u) \/ Scan(u) \/ Dispatch(u) \/ Join(u) \/ SaveTask(u)
             \/ \E c \in Checkers : CheckLoad(c, u)
      PROVE  Spared(t)
  BY <1>1, <1>3, NothingMoves, ScanMoves, Saved DEF Delegate, Dispatch, Join, CheckLoad
<1>4. ASSUME NEW u \in Tasks,
             Delegate(u) \/ ThreadStep(u) \/ SendError(u) \/ LoopStep(u) \/ RunEnd(u)
             \/ Dismiss(u) \/ Tick(u)
      PROVE  Spared(t)
  <2>1. ~Cleanup(u)
    BY DEF Cleanup, NothingHeldUp
  <2> QED
    BY <1>1, <1>2, <1>3, <1>4, <2>1, RuledOut, ClearSpares, BeginSpares, RunEndSpares
       DEF ThreadStep, LoopStep
<1>5. CASE MonStep
  <2>1. ASSUME MonStart \/ MonVisit \/ MonSave
        PROVE  UNCHANGED <<hist, run>>
    BY <2>1 DEF MonStart, MonVisit, MonSave
  <2> QED
    BY <1>1, <1>5, <2>1, NothingMoves, RuledOut DEF MonStep
<1>6. CASE WakeTask \/ UNCHANGED vars \/ \E c \in Checkers : CheckSave(c)
  BY <1>6, NothingMoves DEF WakeTask, CheckSave, vars
<1>7. CASE Tell
  <2>1. run'[t] = run[t] /\ hist'[slot[t]] = hist[slot[t]]
    BY <1>2, <1>7, TellSpares
  <2> QED
    BY <2>1 DEF Spared, Grows
<1> QED
  BY <1>3, <1>4, <1>5, <1>6, <1>7, CrashSpares DEF Next

(***************************************************************************)
(* With one slot a task that is open stays what it is: nobody kills its    *)
(* process or clears an answer to it, for any number of tasks and crashes, *)
(* while parents are told at once.                                         *)
(***************************************************************************)
THEOREM OneSlotTasksUntouched ==
    ASSUME Features \subseteq Prompt, NumSlots = 1
    PROVE  Spec => OpenTasksUntouched
<1> DEFINE A == \A t \in Tasks :
                  Status(t) \in InFlight /\ Status(t)' \in InFlight
                  => /\ ~run[t].killed => ~run'[t].killed
                     /\ slot[t] # 0 /\ Answered(t) => Answered(t)'
<1>1. Init => NothingHeldUp
  BY DEF Init, NothingHeldUp
<1>2. NothingHeldUp /\ [Next]_vars => NothingHeldUp'
  BY NothingHeldUpStep
<1>3. TypeInv /\ CheckTasks /\ CalmInv /\ ListHeld /\ SlotQuiet /\ NothingHeldUp /\ [Next]_vars
      => [A]_vars
  <2> SUFFICES ASSUME TypeInv, CheckTasks, CalmInv, ListHeld, SlotQuiet, NothingHeldUp,
                      [Next]_vars, NEW t \in Tasks, Status(t) \in InFlight
               PROVE  /\ ~run[t].killed => ~run'[t].killed
                      /\ slot[t] # 0 /\ Answered(t) => Answered(t)'
    OBVIOUS
  <2>1. Spared(t)
    BY OpenSpared
  <2>2. Status(t) # "none"
    BY DEF InFlight
  <2>3. slot'[t] = slot[t]
    BY <2>2, PromptFeatures, HeldIsCurrent, RowSteps, Saved DEF Quiet, Closes, Reports
  <2> QED
    BY <2>1, <2>3, SparedKept
<1> HIDE DEF A
<1>4. Spec => [](TypeInv /\ CheckTasks /\ CalmInv /\ ListHeld /\ SlotQuiet)
  BY PromptFeatures, QuietInvariant
<1>5. Spec => [][A]_vars
  BY <1>1, <1>2, <1>3, <1>4, PTL DEF Spec
<1> QED
  BY <1>5 DEF OpenTasksUntouched, A

=============================================================================
