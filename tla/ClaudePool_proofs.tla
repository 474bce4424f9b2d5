--------------------------- MODULE ClaudePool_proofs ---------------------------
(***************************************************************************)
(* Theorems about the pool of claude subprocesses, for any number of       *)
(* sessions, messages, subprocesses and interferences: the types, that a   *)
(* message is answered by its own result, and that a subprocess reads its  *)
(* context first.                                                          *)
(***************************************************************************)
EXTENDS ClaudePool, SequenceTheorems, FiniteSetTheorems, WellFoundedInduction, TLAPS

----------------------------------------------------------------------------
(* Types.                                                                  *)

Turn == [phase : Phases, obj : Nat, answer : Int]
Object == [session : Sessions, proc : Nat, ctx : BOOLEAN, conv : Int,
           force : BOOLEAN, lock : BOOLEAN, respawn : BOOLEAN]
Inst == [obj : Nat, conv : Int, alive : BOOLEAN, hung : BOOLEAN, input : Seq(Int),
         reader : {"reading", "ending", "gone"}]

Shapes ==
    /\ pool \in [Sessions -> Nat]
    /\ objs \in Seq(Object)
    /\ insts \in Seq(Inst)
    /\ turns \in [Turns -> Turn]
    /\ file \in [Sessions -> Int]

\* Numbers stand for objects and subprocesses that exist.
Points ==
    /\ \A s \in Pooled : pool[s] \in Objects /\ objs[pool[s]].session = s
    /\ \A t \in Turns : /\ turns[t].obj \in Objects \cup {0}
                        /\ turns[t].phase \notin {"new", "ended"} => turns[t].obj \in Objects
    /\ \A o \in Objects : objs[o].proc \in Insts \cup {0}
    /\ \A i \in Insts : insts[i].obj \in Objects
    /\ killing \subseteq Objects

\* chat_lock is held by one turn of an object, the lock of an object by the turn that spawns.
OneTurn ==
    \A t, u \in Turns :
        Working(t) /\ Working(u) /\ turns[t].obj = turns[u].obj => t = u
LockHeld == \A o \in Objects :
                objs[o].lock <=> \E t \in Turns : turns[t].obj = o /\ turns[t].phase = "spawn"

Bounded == IsFiniteSet(Pooled) /\ Cardinality(Pooled) <= Cap

----------------------------------------------------------------------------
(* Sequences.                                                              *)

\* A function on 1..n whose values are in S is a sequence of S.
LEMMA Tabled ==
    ASSUME NEW S, NEW n \in Nat, NEW f, f = [i \in 1..n |-> f[i]], \A i \in 1..n : f[i] \in S
    PROVE  f \in Seq(S) /\ DOMAIN f = 1..n /\ Len(f) = n
<1>1. f \in [1..n -> S]
  OBVIOUS
<1>2. f \in Seq(S)
  BY <1>1, SeqDef
<1> QED
  BY <1>1, <1>2, LenProperties

\* One element replaced.
LEMMA Replace ==
    ASSUME NEW S, NEW q \in Seq(S), NEW i \in DOMAIN q, NEW x \in S
    PROVE  /\ [q EXCEPT ![i] = x] \in Seq(S)
           /\ DOMAIN [q EXCEPT ![i] = x] = DOMAIN q
           /\ Len([q EXCEPT ![i] = x]) = Len(q)
<1>1. i \in 1..Len(q) /\ DOMAIN q = 1..Len(q) /\ Len(q) \in Nat
  BY LenProperties
<1>2. [q EXCEPT ![i] = x] \in Seq(S) /\ Len([q EXCEPT ![i] = x]) = Len(q)
  BY <1>1, ExceptSeq
<1> QED
  BY <1>1, <1>2

\* One element added.
LEMMA Extend ==
    ASSUME NEW S, NEW q \in Seq(S), NEW x \in S
    PROVE  /\ Append(q, x) \in Seq(S)
           /\ DOMAIN Append(q, x) = DOMAIN q \cup {Len(q) + 1}
           /\ Len(q) + 1 \notin DOMAIN q
           /\ Len(Append(q, x)) = Len(q) + 1
           /\ Len(q) \in Nat /\ DOMAIN q = 1..Len(q)
           /\ \A i \in DOMAIN q : Append(q, x)[i] = q[i]
           /\ Append(q, x)[Len(q) + 1] = x
<1>1. Len(q) \in Nat /\ DOMAIN q = 1..Len(q)
  BY LenProperties
<1>2. /\ Append(q, x) \in Seq(S) /\ Len(Append(q, x)) = Len(q) + 1
      /\ \A i \in 1..Len(q) : Append(q, x)[i] = q[i]
      /\ Append(q, x)[Len(q) + 1] = x
  BY AppendProperties
<1>3. DOMAIN Append(q, x) = 1..(Len(q) + 1)
  BY <1>2, LenProperties
<1>4. 1..(Len(q) + 1) = 1..Len(q) \cup {Len(q) + 1} /\ Len(q) + 1 \notin 1..Len(q)
  BY <1>1
<1> QED
  BY <1>1, <1>2, <1>3, <1>4

----------------------------------------------------------------------------
(* What the operators of the model make of well-typed values.              *)

\* A dead subprocess has nothing left to read and its reader ends.
LEMMA DeadInst ==
    ASSUME Shapes, NEW i \in Insts
    PROVE  /\ Dead(i) \in Inst
           /\ Dead(i).obj = insts[i].obj /\ Dead(i).conv = insts[i].conv
           /\ ~Dead(i).alive /\ Dead(i).input = <<>> /\ Dead(i).reader # "reading"
           /\ Dead(i).hung = insts[i].hung
<1>1. insts[i] \in Inst
  BY LenProperties DEF Shapes, Insts
<1>2. <<>> \in Seq(Int)
  BY EmptySeq
<1> QED
  BY <1>1, <1>2 DEF Dead, Inst

\* The end of one subprocess leaves the others alone.
LEMMA EndedInsts ==
    ASSUME Shapes, NEW o
    PROVE  /\ Ended(o) \in Seq(Inst) /\ DOMAIN Ended(o) = Insts /\ Len(Ended(o)) = Len(insts)
           /\ \A j \in Insts :
                /\ Ended(o)[j].obj = insts[j].obj /\ Ended(o)[j].conv = insts[j].conv
                /\ \/ Ended(o)[j] = insts[j] /\ j # Newest(o)
                   \/ /\ j = Newest(o)
                      /\ ~Ended(o)[j].alive /\ Ended(o)[j].input = <<>>
                      /\ Ended(o)[j].reader = "gone"
<1> DEFINE f == Ended(o)
<1>1. Insts = 1..Len(insts) /\ Len(insts) \in Nat /\ \A j \in Insts : insts[j] \in Inst
  BY LenProperties DEF Shapes, Insts
<1>2. ASSUME NEW j \in Insts
      PROVE  /\ f[j] \in Inst
             /\ f[j].obj = insts[j].obj /\ f[j].conv = insts[j].conv
             /\ \/ f[j] = insts[j] /\ j # Newest(o)
                \/ j = Newest(o) /\ ~f[j].alive /\ f[j].input = <<>> /\ f[j].reader = "gone"
  <2>1. f[j] = IF j = Newest(o) THEN [Dead(j) EXCEPT !.reader = "gone"] ELSE insts[j]
    BY DEF Ended
  <2>2. CASE j = Newest(o)
    <3>1. f[j] = [Dead(j) EXCEPT !.reader = "gone"]
      BY <2>1, <2>2
    <3> QED
      BY <2>2, <3>1, DeadInst DEF Inst
  <2>3. CASE j # Newest(o)
    BY <2>1, <2>3, <1>1
  <2> QED
    BY <2>2, <2>3
<1>3. f = [j \in 1..Len(insts) |-> f[j]]
  BY <1>1 DEF Ended
<1>4. \A j \in 1..Len(insts) : f[j] \in Inst
  BY <1>1, <1>2
<1> HIDE DEF f
<1>5. f \in Seq(Inst) /\ DOMAIN f = Insts /\ Len(f) = Len(insts)
  BY <1>1, <1>3, <1>4, Tabled
<1> QED
  BY <1>2, <1>5 DEF f

\* A result that is broadcast moves only turns of its object that listen.
LEMMA HeardTurns ==
    ASSUME Shapes, NEW o, NEW m \in Int
    PROVE  /\ Heard(o, m) \in [Turns -> Turn]
           /\ \A t \in Turns :
                /\ Heard(o, m)[t].obj = turns[t].obj
                /\ \/ /\ Heard(o, m)[t] = turns[t]
                      /\ turns[t].obj = o => turns[t].phase \notin {"ack", "wait"}
                   \/ /\ turns[t].obj = o /\ turns[t].phase = "ack" /\ m # Failed
                      /\ Heard(o, m)[t].phase = "send" /\ Heard(o, m)[t].answer = turns[t].answer
                   \/ /\ turns[t].obj = o /\ turns[t].phase = "ack" /\ m = Failed
                      /\ Heard(o, m)[t].phase = "ended" /\ Heard(o, m)[t].answer = Failed
                   \/ /\ turns[t].obj = o /\ turns[t].phase = "wait"
                      /\ Heard(o, m)[t].phase = "answered" /\ Heard(o, m)[t].answer = m
<1> DEFINE f == Heard(o, m)
<1>1. ASSUME NEW t \in Turns
      PROVE  /\ f[t] \in Turn /\ f[t].obj = turns[t].obj
             /\ \/ f[t] = turns[t] /\ (turns[t].obj = o => turns[t].phase \notin {"ack", "wait"})
                \/ /\ turns[t].obj = o /\ turns[t].phase = "ack" /\ m # Failed
                   /\ f[t].phase = "send" /\ f[t].answer = turns[t].answer
                \/ /\ turns[t].obj = o /\ turns[t].phase = "ack" /\ m = Failed
                   /\ f[t].phase = "ended" /\ f[t].answer = Failed
                \/ /\ turns[t].obj = o /\ turns[t].phase = "wait"
                   /\ f[t].phase = "answered" /\ f[t].answer = m
  <2>0. turns[t] \in Turn
    BY DEF Shapes
  <2>1. CASE turns[t].obj # o
    <3>1. f[t] = turns[t]
      BY <2>1 DEF Heard
    <3> QED
      BY <2>0, <2>1, <3>1
  <2>2. CASE turns[t].obj = o /\ turns[t].phase = "ack" /\ m # Failed
    <3>1. f[t] = [turns[t] EXCEPT !.phase = "send"]
      BY <2>2 DEF Heard
    <3> QED
      BY <2>0, <2>2, <3>1 DEF Turn, Phases
  <2>3. CASE turns[t].obj = o /\ turns[t].phase = "ack" /\ m = Failed
    <3>1. f[t] = [turns[t] EXCEPT !.phase = "ended", !.answer = Failed]
      BY <2>3 DEF Heard
    <3> QED
      BY <2>0, <2>3, <3>1 DEF Turn, Phases, Failed
  <2>4. CASE turns[t].obj = o /\ turns[t].phase = "wait"
    <3>1. f[t] = [turns[t] EXCEPT !.phase = "answered", !.answer = m]
      BY <2>4 DEF Heard
    <3> QED
      BY <2>0, <2>4, <3>1 DEF Turn, Phases
  <2>5. CASE turns[t].obj = o /\ turns[t].phase \notin {"ack", "wait"}
    <3>1. f[t] = turns[t]
      BY <2>5 DEF Heard
    <3> QED
      BY <2>0, <2>5, <3>1
  <2> QED
    BY <2>1, <2>2, <2>3, <2>4, <2>5
<1>2. f = [t \in Turns |-> f[t]]
  BY DEF Heard
<1> HIDE DEF f
<1>3. f \in [Turns -> Turn]
  BY <1>1, <1>2
<1> QED
  BY <1>1, <1>3 DEF f

\* A kill ends the turn that is about to write, and may end one that listens.
LEMMA ToldTurns ==
    ASSUME Shapes, NEW o, Told(o)
    PROVE  /\ turns' \in [Turns -> Turn]
           /\ \A t \in Turns :
                /\ turns'[t].obj = turns[t].obj
                /\ \/ /\ turns'[t] = turns[t]
                      /\ turns[t].obj = o => turns[t].phase \notin {"ready", "send"}
                   \/ /\ turns[t].obj = o /\ turns[t].phase \in {"ready", "send", "ack"}
                      /\ turns'[t].phase = "ended" /\ turns'[t].answer = Failed
                   \/ /\ turns[t].obj = o /\ turns[t].phase = "wait"
                      /\ turns'[t].phase = "answered" /\ turns'[t].answer = Failed
<1>1. PICK told \in {FALSE, Newest(o) # 0 /\ insts[Newest(o)].reader = "reading"} :
        turns' = [t \in Turns |->
                    IF turns[t].obj = o /\ turns[t].phase \in {"ready", "send"}
                    THEN [turns[t] EXCEPT !.phase = "ended", !.answer = Failed]
                    ELSE IF told THEN Heard(o, Failed)[t] ELSE turns[t]]
  BY DEF Told
<1>2. Failed \in Int
  BY DEF Failed
<1>3. ASSUME NEW t \in Turns
      PROVE  /\ turns'[t] \in Turn /\ turns'[t].obj = turns[t].obj
             /\ \/ /\ turns'[t] = turns[t]
                   /\ turns[t].obj = o => turns[t].phase \notin {"ready", "send"}
                \/ /\ turns[t].obj = o /\ turns[t].phase \in {"ready", "send", "ack"}
                   /\ turns'[t].phase = "ended" /\ turns'[t].answer = Failed
                \/ /\ turns[t].obj = o /\ turns[t].phase = "wait"
                   /\ turns'[t].phase = "answered" /\ turns'[t].answer = Failed
  <2>0. turns[t] \in Turn
    BY DEF Shapes
  <2>1. CASE turns[t].obj = o /\ turns[t].phase \in {"ready", "send"}
    <3>1. turns'[t] = [turns[t] EXCEPT !.phase = "ended", !.answer = Failed]
      BY <1>1, <2>1
    <3> QED
      BY <1>2, <2>0, <2>1, <3>1 DEF Turn, Phases
  <2>2. CASE ~(turns[t].obj = o /\ turns[t].phase \in {"ready", "send"}) /\ told
    <3>1. turns'[t] = Heard(o, Failed)[t]
      BY <1>1, <2>2
    <3>2. Heard(o, Failed)[t] \in Turn
      BY <1>2, HeardTurns
    <3> QED
      BY <1>2, <2>0, <2>2, <3>1, <3>2, HeardTurns
  <2>3. CASE ~(turns[t].obj = o /\ turns[t].phase \in {"ready", "send"}) /\ ~told
    <3>1. turns'[t] = turns[t]
      BY <1>1, <2>3
    <3> QED
      BY <2>0, <2>3, <3>1
  <2> QED
    BY <2>1, <2>2, <2>3
<1>4. turns' = [t \in Turns |-> turns'[t]]
  BY <1>1
<1>5. turns' \in [Turns -> Turn]
  BY <1>3, <1>4
<1> QED
  BY <1>3, <1>5

LEMMA Elements ==
    ASSUME Shapes
    PROVE  /\ Objects = 1..Len(objs) /\ Len(objs) \in Nat /\ \A o \in Objects : objs[o] \in Object
           /\ Insts = 1..Len(insts) /\ Len(insts) \in Nat /\ \A i \in Insts : insts[i] \in Inst
BY LenProperties DEF Shapes, Objects, Insts

\* A new subprocess is alive and has read nothing.
LEMMA Fresh ==
    ASSUME NEW o \in Nat, NEW conv \in Int
    PROVE  /\ NewInst(o, conv) \in Inst
           /\ NewInst(o, conv).obj = o /\ NewInst(o, conv).conv = conv
           /\ NewInst(o, conv).alive /\ ~NewInst(o, conv).hung
           /\ NewInst(o, conv).input = <<>> /\ NewInst(o, conv).reader = "reading"
<1>1. <<>> \in Seq(Int)
  BY EmptySeq
<1> QED
  BY <1>1 DEF NewInst, Inst

\* The number of the next subprocess.
NewKid == Len(insts) + 1

\* What a spawn leaves: one more subprocess, which is the object's.
LEMMA SpawnedEffect ==
    ASSUME Shapes, NEW o \in Objects, NEW resumed \in BOOLEAN, NEW under \in BOOLEAN,
           Spawned(o, resumed, under)
    PROVE  /\ insts' \in Seq(Inst) /\ DOMAIN insts' = Insts \cup {NewKid}
           /\ NewKid \notin Insts /\ NewKid \in Nat \ {0}
           /\ \A j \in Insts : insts'[j] = insts[j]
           /\ insts'[NewKid].obj = o /\ insts'[NewKid].alive /\ ~insts'[NewKid].hung
           /\ insts'[NewKid].input = <<>> /\ insts'[NewKid].reader = "reading"
           /\ insts'[NewKid].conv = IF resumed THEN objs[o].conv ELSE NewKid
           /\ objs' \in Seq(Object) /\ DOMAIN objs' = Objects
           /\ \A x \in Objects : x # o => objs'[x] = objs[x]
           /\ objs'[o].proc = NewKid /\ objs'[o].ctx = resumed
           /\ objs'[o].session = objs[o].session /\ objs'[o].conv = objs[o].conv
           /\ objs'[o].lock = (objs[o].lock /\ ~under)
           /\ objs'[o].respawn = (objs[o].respawn /\ under)
<1>1. objs[o] \in Object /\ o \in Nat /\ NewKid \in Nat \ {0}
  BY Elements DEF NewKid
<1>2. objs[o].conv \in Int
  BY <1>1 DEF Object
<1> DEFINE conv == IF resumed THEN objs[o].conv ELSE NewKid
           kid == NewInst(o, conv)
           new == IF under
                  THEN [objs[o] EXCEPT !.proc = NewKid, !.ctx = resumed, !.lock = FALSE, !.force = FALSE]
                  ELSE [objs[o] EXCEPT !.proc = NewKid, !.ctx = resumed, !.respawn = FALSE]
<1>3. insts' = Append(insts, kid)
  BY DEF Spawned, NewKid
<1>4. objs' = [objs EXCEPT ![o] = new]
  BY DEF Spawned, NewKid
<1>5. conv \in Int
  BY <1>1, <1>2
<1>6. new \in Object /\ new.proc = NewKid /\ new.ctx = resumed
      /\ new.session = objs[o].session /\ new.conv = objs[o].conv
  BY <1>1 DEF Object
<1>7. new.lock = (objs[o].lock /\ ~under) /\ new.respawn = (objs[o].respawn /\ under)
  <2>1. CASE under
    BY <1>1, <2>1 DEF Object
  <2>2. CASE ~under
    BY <1>1, <2>2 DEF Object
  <2> QED
    BY <2>1, <2>2
<1> HIDE DEF new
<1>8. /\ kid \in Inst /\ kid.obj = o /\ kid.conv = conv /\ kid.alive /\ ~kid.hung
      /\ kid.input = <<>> /\ kid.reader = "reading"
  <2> HIDE DEF conv
  <2> QED
    BY <1>1, <1>5, Fresh
<1> HIDE DEF kid
<1>9. /\ insts' \in Seq(Inst) /\ DOMAIN insts' = Insts \cup {NewKid} /\ NewKid \notin Insts
      /\ \A j \in Insts : insts'[j] = insts[j]
      /\ insts'[NewKid] = kid
  BY <1>3, <1>8, Extend DEF Shapes, Insts, NewKid
<1>10. objs' \in Seq(Object) /\ DOMAIN objs' = Objects
  BY <1>4, <1>6, Replace DEF Shapes, Objects
<1>11. objs'[o] = new /\ \A x \in Objects : x # o => objs'[x] = objs[x]
  BY <1>4 DEF Objects
<1> QED
  BY <1>1, <1>6, <1>7, <1>8, <1>9, <1>10, <1>11

\* What replacing a subprocess leaves: the newest one has ended, and without "overlap" there
\* is a fresh one at once.
LEMMA ReplacedEffect ==
    ASSUME Shapes, NEW o \in Objects, NEW conv \in Int, Replaced(o, conv)
    PROVE  /\ insts' \in Seq(Inst)
           /\ NewKid \notin Insts /\ NewKid \in Nat \ {0}
           /\ \A j \in Insts : insts'[j] = Ended(o)[j]
           /\ "overlap" \in features => DOMAIN insts' = Insts
           /\ "overlap" \notin features =>
                /\ DOMAIN insts' = Insts \cup {NewKid}
                /\ insts'[NewKid].obj = o /\ insts'[NewKid].alive /\ ~insts'[NewKid].hung
                /\ insts'[NewKid].input = <<>> /\ insts'[NewKid].reader = "reading"
                /\ insts'[NewKid].conv = NewKid
           /\ objs' \in Seq(Object) /\ DOMAIN objs' = Objects
           /\ \A x \in Objects : x # o => objs'[x] = objs[x]
           /\ objs'[o].session = objs[o].session /\ objs'[o].conv = conv
           /\ ~objs'[o].lock
           /\ "overlap" \in features => objs'[o].proc = 0
           /\ "overlap" \notin features => /\ objs'[o].proc = NewKid /\ ~objs'[o].ctx
                                          /\ ~objs'[o].respawn
<1>1. objs[o] \in Object /\ o \in Nat /\ NewKid \in Nat \ {0} /\ Len(insts) \in Nat /\ Insts = 1..Len(insts)
  BY Elements DEF NewKid
<1> DEFINE now == "overlap" \notin features
           kid == NewInst(o, NewKid)
           new == [objs[o] EXCEPT !.proc = IF now THEN NewKid ELSE 0, !.ctx = objs[o].ctx /\ ~now,
                                  !.conv = conv, !.lock = FALSE, !.respawn = ~now]
<1>2. insts' = IF now THEN Append(Ended(o), kid) ELSE Ended(o)
  BY DEF Replaced, NewKid
<1>3. objs' = [objs EXCEPT ![o] = new]
  BY DEF Replaced, NewKid
<1>4. now \in BOOLEAN
  OBVIOUS
<1> HIDE DEF now
<1>5. new \in Object /\ new.proc = (IF now THEN NewKid ELSE 0) /\ new.session = objs[o].session
      /\ new.conv = conv /\ new.lock = FALSE
  BY <1>1, <1>4 DEF Object
<1>6. new.ctx = (objs[o].ctx /\ ~now) /\ new.respawn = ~now
  BY <1>1, <1>4 DEF Object
<1> HIDE DEF new
<1>7. /\ kid \in Inst /\ kid.obj = o /\ kid.conv = NewKid /\ kid.alive /\ ~kid.hung
      /\ kid.input = <<>> /\ kid.reader = "reading"
  BY <1>1, Fresh
<1> HIDE DEF kid
<1>8. Ended(o) \in Seq(Inst) /\ DOMAIN Ended(o) = Insts /\ Len(Ended(o)) = Len(insts)
  BY EndedInsts
<1>9. NewKid \notin Insts
  BY <1>1 DEF NewKid
<1>10. now => /\ insts' \in Seq(Inst) /\ DOMAIN insts' = Insts \cup {NewKid}
              /\ \A j \in Insts : insts'[j] = Ended(o)[j]
              /\ insts'[NewKid] = kid
  BY <1>2, <1>7, <1>8, Extend DEF NewKid
<1>11. ~now => insts' = Ended(o)
  BY <1>2
<1>12. objs' \in Seq(Object) /\ DOMAIN objs' = Objects
  BY <1>3, <1>5, Replace DEF Shapes, Objects
<1>13. objs'[o] = new /\ \A x \in Objects : x # o => objs'[x] = objs[x]
  BY <1>3 DEF Objects
<1>14. now <=> "overlap" \notin features
  BY DEF now
<1>15. CASE now
  BY <1>1, <1>5, <1>6, <1>7, <1>9, <1>10, <1>12, <1>13, <1>14, <1>15
<1>16. CASE ~now
  BY <1>1, <1>5, <1>6, <1>8, <1>9, <1>11, <1>12, <1>13, <1>14, <1>16
<1> QED
  BY <1>15, <1>16

----------------------------------------------------------------------------
(* Every step keeps the shapes and what numbers stand for.                 *)

Sound == Shapes /\ Points

\* A turn in another phase, ended with an error, or on an object.
LEMMA Moved ==
    ASSUME Shapes, NEW t \in Turns
    PROVE  /\ turns[t] \in Turn
           /\ \A p \in Phases : [turns EXCEPT ![t].phase = p] \in [Turns -> Turn]
           /\ \A p \in Phases, a \in Int :
                 [turns EXCEPT ![t].phase = p, ![t].answer = a] \in [Turns -> Turn]
           /\ \A p \in Phases, o \in Nat :
                 [turns EXCEPT ![t].obj = o, ![t].phase = p] \in [Turns -> Turn]
<1>1. turns[t] \in Turn /\ turns \in [Turns -> Turn]
  BY DEF Shapes
<1>2. \A x \in Turn, p \in Phases : [x EXCEPT !.phase = p] \in Turn
  BY DEF Turn
<1>3. \A x \in Turn, p \in Phases, a \in Int : [x EXCEPT !.phase = p, !.answer = a] \in Turn
  BY DEF Turn
<1>4. \A x \in Turn, p \in Phases, o \in Nat : [x EXCEPT !.obj = o, !.phase = p] \in Turn
  BY DEF Turn
<1>5. \A new \in Turn : [turns EXCEPT ![t] = new] \in [Turns -> Turn]
  BY <1>1
<1> QED
  BY <1>1, <1>2, <1>3, <1>4, <1>5

\* What get_or_create finds: the session's object, or room for a new one.
LEMMA Got ==
    ASSUME NEW s \in Sessions, NEW got \in GetOrCreate(s)
    PROVE  \/ pool[s] # 0 /\ got.obj = pool[s] /\ got.evicted = {}
           \/ pool[s] = 0 /\ got.obj = Len(objs) + 1 /\ got.evicted = {} /\ Cardinality(Pooled) < Cap
           \/ /\ pool[s] = 0 /\ got.obj = Len(objs) + 1
              /\ \E e \in Evictable : got.evicted = {e}
BY DEF GetOrCreate

LEMMA ObtainedEffect ==
    ASSUME Sound, NEW s \in Sessions, NEW got \in GetOrCreate(s), Obtained(s, got)
    PROVE  /\ objs' \in Seq(Object) /\ DOMAIN objs' = Objects \cup {got.obj} /\ got.obj \in Nat \ {0}
           /\ \A o \in Objects : objs'[o] = objs[o]
           /\ got.obj \notin Objects => objs'[got.obj] = NewObject(s)
           /\ objs'[got.obj].session = s
           /\ pool' \in [Sessions -> Nat]
           /\ \A r \in Sessions : pool'[r] = IF r \in got.evicted THEN 0
                                             ELSE IF r = s THEN got.obj ELSE pool[r]
           /\ killing' \subseteq Objects
           /\ killing \subseteq killing'
           /\ got.evicted \subseteq Evictable /\ got.evicted \subseteq Pooled /\ s \notin got.evicted
<1>1. /\ Objects = 1..Len(objs) /\ Len(objs) \in Nat /\ \A o \in Objects : objs[o] \in Object
  BY Elements DEF Sound
<1>2. NewObject(s) \in Object /\ NewObject(s).session = s
  BY DEF NewObject, Object, Unread
<1>3. got.evicted \subseteq Evictable /\ got.evicted \subseteq Pooled /\ s \notin got.evicted
  <2>1. Evictable \subseteq Pooled
    BY DEF Evictable
  <2>2. \A e \in Pooled : pool[e] # 0
    BY DEF Pooled
  <2>3. CASE got.evicted = {}
    BY <2>3
  <2>4. CASE pool[s] = 0 /\ \E e \in Evictable : got.evicted = {e}
    BY <2>1, <2>2, <2>4
  <2> QED
    BY <2>3, <2>4, Got
<1>4. pool[s] # 0 => pool[s] \in Objects /\ objs[pool[s]].session = s
  BY DEF Sound, Points, Pooled
<1>5. killing' \subseteq Objects /\ killing \subseteq killing'
  BY <1>3 DEF Obtained, Sound, Points
<1>6. \A r \in Sessions : pool[r] \in Nat
  BY DEF Sound, Shapes
<1>7. got.obj \in Nat \ {0}
  BY <1>1, <1>4, Got
<1>8. /\ pool' \in [Sessions -> Nat]
      /\ \A r \in Sessions : pool'[r] = IF r \in got.evicted THEN 0
                                        ELSE IF r = s THEN got.obj ELSE pool[r]
  BY <1>6, <1>7 DEF Obtained
<1>9. CASE got.obj \in Objects
  <2>1. objs' = objs
    BY <1>9 DEF Obtained
  <2>2. got.obj = pool[s] /\ pool[s] # 0
    BY <1>1, <1>9, Got
  <2> QED
    BY <1>3, <1>4, <1>5, <1>7, <1>8, <1>9, <2>1, <2>2 DEF Sound, Shapes, Objects
<1>10. CASE got.obj \notin Objects
  <2>1. objs' = Append(objs, NewObject(s)) /\ got.obj = Len(objs) + 1
    BY <1>4, <1>10, Got DEF Obtained
  <2> DEFINE new == NewObject(s)
  <2> HIDE DEF new
  <2>2. /\ objs' \in Seq(Object) /\ DOMAIN objs' = Objects \cup {got.obj}
        /\ \A o \in Objects : objs'[o] = objs[o]
        /\ objs'[got.obj] = new
    BY <1>2, <2>1, Extend DEF Sound, Shapes, Objects, new
  <2> QED
    BY <1>2, <1>3, <1>5, <1>7, <1>8, <1>10, <2>2 DEF new
<1> QED
  BY <1>9, <1>10

LEMMA MessageSound ==
    ASSUME Sound, NEW t \in Turns, NEW s \in Sessions, Message(t, s)
    PROVE  Sound'
<1>1. turns[t] \in Turn /\ turns \in [Turns -> Turn]
  BY DEF Sound, Shapes
<1>2. insts' = insts /\ file' = file
  BY DEF Message
<1>3. CASE GetOrCreate(s) = {}
  <2>1. /\ turns' = [turns EXCEPT ![t].phase = "ended", ![t].answer = Failed]
        /\ pool' = pool /\ objs' = objs /\ killing' = killing
    BY <1>3 DEF Message
  <2>2. turns' \in [Turns -> Turn]
    <3>1. "ended" \in Phases /\ Failed \in Int
      BY DEF Phases, Failed
    <3> QED
      BY <2>1, <3>1, Moved DEF Sound
  <2>3. Shapes'
    BY <1>2, <2>1, <2>2 DEF Sound, Shapes
  <2>4. Points'
    BY <1>1, <1>2, <2>1 DEF Sound, Points, Pooled, Objects, Insts
  <2> QED
    BY <2>3, <2>4 DEF Sound
<1>4. CASE GetOrCreate(s) # {}
  <2>1. PICK got \in GetOrCreate(s) :
          /\ Obtained(s, got)
          /\ turns' = [turns EXCEPT ![t].obj = got.obj,
                         ![t].phase = IF Locked(got.obj) THEN "queued" ELSE "ensure"]
    BY <1>4 DEF Message
  <2>2. /\ objs' \in Seq(Object) /\ DOMAIN objs' = Objects \cup {got.obj} /\ got.obj \in Nat \ {0}
        /\ \A o \in Objects : objs'[o] = objs[o]
        /\ got.obj \notin Objects => objs'[got.obj] = NewObject(s)
        /\ objs'[got.obj].session = s
        /\ pool' \in [Sessions -> Nat]
        /\ \A r \in Sessions : pool'[r] = IF r \in got.evicted THEN 0
                                          ELSE IF r = s THEN got.obj ELSE pool[r]
        /\ killing' \subseteq Objects
    BY <2>1, ObtainedEffect, ZenonT(40)
  <2>3. turns' \in [Turns -> Turn]
    BY <1>1, <2>1, <2>2 DEF Turn, Phases
  <2>4. Shapes'
    BY <1>2, <2>2, <2>3 DEF Sound, Shapes
  <2>5. NewObject(s).proc = 0
    BY DEF NewObject
  <2>6. \A o \in Objects' : objs'[o].proc \in Insts' \cup {0}
    BY <1>2, <2>2, <2>5 DEF Sound, Points, Objects, Insts
  <2>7. \A r \in Pooled' : pool'[r] \in Objects' /\ objs'[pool'[r]].session = r
    BY <2>2 DEF Sound, Points, Pooled, Objects
  <2>8. \A u \in Turns : /\ turns'[u].obj \in Objects' \cup {0}
                         /\ turns'[u].phase \notin {"new", "ended"} => turns'[u].obj \in Objects'
    BY <1>1, <2>1, <2>2 DEF Sound, Points, Objects
  <2>9. Points'
    BY <1>2, <2>2, <2>6, <2>7, <2>8 DEF Sound, Points, Objects, Insts
  <2> QED
    BY <2>4, <2>9 DEF Sound
<1> QED
  BY <1>3, <1>4

\* The parts of a step that creates no object.
ObjsKept ==
    /\ objs' \in Seq(Object) /\ DOMAIN objs' = Objects
    /\ \A o \in Objects : objs'[o].session = objs[o].session /\ objs'[o].proc \in Insts' \cup {0}
InstsKept ==
    /\ insts' \in Seq(Inst) /\ Insts \subseteq Insts'
    /\ \A i \in Insts : insts'[i].obj = insts[i].obj
    /\ \A i \in Insts' : insts'[i].obj \in Objects
TurnsKept ==
    /\ turns' \in [Turns -> Turn]
    /\ \A t \in Turns : /\ turns'[t].obj = turns[t].obj
                        /\ turns[t].phase \in {"new", "ended"} => turns'[t].phase = turns[t].phase

LEMMA Carry ==
    ASSUME Sound, ObjsKept, InstsKept, TurnsKept,
           pool' \in [Sessions -> Nat], \A s \in Sessions : pool'[s] \in {0, pool[s]},
           file' \in [Sessions -> Int], killing' \subseteq Objects
    PROVE  Sound'
<1>1. Shapes'
  BY DEF Shapes, ObjsKept, InstsKept, TurnsKept
<1>2. Objects' = Objects
  BY DEF ObjsKept, Objects
<1>3. \A s \in Pooled' : pool'[s] \in Objects' /\ objs'[pool'[s]].session = s
  BY <1>2 DEF Sound, Points, Pooled, ObjsKept
<1>4. \A t \in Turns : /\ turns'[t].obj \in Objects' \cup {0}
                       /\ turns'[t].phase \notin {"new", "ended"} => turns'[t].obj \in Objects'
  BY <1>2 DEF Sound, Points, TurnsKept
<1>5. Points'
  BY <1>2, <1>3, <1>4 DEF Points, ObjsKept, InstsKept
<1> QED
  BY <1>1, <1>5 DEF Sound

LEMMA Unmoved ==
    ASSUME Sound
    PROVE  /\ objs' = objs /\ insts' = insts => ObjsKept
           /\ insts' = insts => InstsKept
           /\ turns' = turns => TurnsKept
           /\ pool' = pool => pool' \in [Sessions -> Nat] /\ \A s \in Sessions : pool'[s] \in {0, pool[s]}
           /\ file' = file => file' \in [Sessions -> Int]
           /\ killing' = killing => killing' \subseteq Objects
BY DEF Sound, Shapes, Points, ObjsKept, InstsKept, TurnsKept, Objects, Insts

\* One object changed, one turn in another phase, one subprocess changed.
LEMMA OneObject ==
    ASSUME Sound, NEW o \in Objects, NEW new \in Object, objs' = [objs EXCEPT ![o] = new],
           new.session = objs[o].session, new.proc \in Insts' \cup {0}, Insts \subseteq Insts'
    PROVE  ObjsKept
<1>1. objs' \in Seq(Object) /\ DOMAIN objs' = Objects
  BY Replace DEF Sound, Shapes, Objects
<1>2. objs'[o] = new /\ \A x \in Objects : x # o => objs'[x] = objs[x]
  BY DEF Objects
<1> QED
  BY <1>1, <1>2 DEF Sound, Points, ObjsKept

LEMMA OneTurnMoved ==
    ASSUME Sound, NEW t \in Turns, turns[t].phase \notin {"new", "ended"}, NEW p \in Phases,
           \/ turns' = [turns EXCEPT ![t].phase = p]
           \/ \E a \in Int : turns' = [turns EXCEPT ![t].phase = p, ![t].answer = a]
    PROVE  TurnsKept
<1>1. turns[t] \in Turn /\ turns \in [Turns -> Turn]
  BY DEF Sound, Shapes
<1>2. CASE turns' = [turns EXCEPT ![t].phase = p]
  <2>1. \A u \in Turns : turns'[u].obj = turns[u].obj /\ (u # t => turns'[u] = turns[u])
    BY <1>1, <1>2 DEF Turn
  <2>2. turns' \in [Turns -> Turn]
    BY <1>2, Moved DEF Sound
  <2> QED
    BY <2>1, <2>2 DEF TurnsKept
<1>3. ASSUME NEW a \in Int, turns' = [turns EXCEPT ![t].phase = p, ![t].answer = a]
      PROVE  TurnsKept
  <2>1. \A u \in Turns : turns'[u].obj = turns[u].obj /\ (u # t => turns'[u] = turns[u])
    BY <1>1, <1>3 DEF Turn
  <2>2. turns' \in [Turns -> Turn]
    BY <1>3, Moved DEF Sound
  <2> QED
    BY <2>1, <2>2 DEF TurnsKept
<1> QED
  BY <1>2, <1>3

LEMMA OneInst ==
    ASSUME Sound, NEW i \in Insts, NEW new \in Inst, insts' = [insts EXCEPT ![i] = new],
           new.obj = insts[i].obj
    PROVE  InstsKept /\ Insts' = Insts
<1>1. insts' \in Seq(Inst) /\ DOMAIN insts' = Insts
  BY Replace DEF Sound, Shapes, Insts
<1>2. insts'[i] = new /\ \A j \in Insts : j # i => insts'[j] = insts[j]
  BY DEF Insts
<1> QED
  BY <1>1, <1>2 DEF Sound, Points, InstsKept, Insts

\* A running turn has an object.
LEMMA OnObject ==
    ASSUME Sound, NEW t \in Turns, turns[t].phase \notin {"new", "ended"}
    PROVE  turns[t].obj \in Objects /\ objs[turns[t].obj] \in Object /\ turns[t].obj \in Nat
BY Elements DEF Sound, Points

LEMMA TakesLockSound ==
    ASSUME Sound, NEW t \in Turns, TakesLock(t)
    PROVE  Sound'
<1>1. TurnsKept
  <2>1. turns[t].phase \notin {"new", "ended"} /\ "ensure" \in Phases
        /\ turns' = [turns EXCEPT ![t].phase = "ensure"]
    BY DEF TakesLock, Phases
  <2> QED
    BY <2>1, OneTurnMoved
<1> QED
  BY <1>1, Carry, Unmoved DEF TakesLock

LEMMA EnsureSound ==
    ASSUME Sound, NEW t \in Turns, Ensure(t)
    PROVE  Sound'
<1> DEFINE o == turns[t].obj
           new == [objs[o] EXCEPT !.lock = TRUE,
                                  !.conv = IF @ = Unread THEN file[objs[o].session] ELSE @]
<1>1. turns[t].phase \notin {"new", "ended"} /\ insts' = insts
      /\ pool' = pool /\ file' = file /\ killing' = killing
  BY DEF Ensure
<1>2. o \in Objects /\ objs[o] \in Object
  BY <1>1, OnObject
<1>3. InstsKept
  BY <1>1, Unmoved
<1>4. CASE Alive(o)
  <2>1. turns' = [turns EXCEPT ![t].phase = "ready"] /\ objs' = objs /\ "ready" \in Phases
    BY <1>4 DEF Ensure, Phases
  <2>2. TurnsKept
    BY <1>1, <2>1, OneTurnMoved
  <2> QED
    BY <1>1, <1>3, <2>1, <2>2, Carry, Unmoved
<1>5. CASE ~Alive(o)
  <2>1. turns' = [turns EXCEPT ![t].phase = "spawn"] /\ "spawn" \in Phases
    BY <1>5 DEF Ensure, Phases
  <2>2. objs' = [objs EXCEPT ![o] = new]
    <3>1. objs' = [objs EXCEPT ![o].lock = TRUE,
                     ![o].conv = IF @ = Unread THEN file[objs[o].session] ELSE @]
      BY <1>5 DEF Ensure
    <3> QED
      BY <3>1
  <2>3. TurnsKept
    BY <1>1, <2>1, OneTurnMoved
  <2>4. objs[o].session \in Sessions /\ objs[o].conv \in Int /\ file \in [Sessions -> Int]
    BY <1>2 DEF Object, Sound, Shapes
  <2>5. new \in Object /\ new.session = objs[o].session /\ new.proc = objs[o].proc
    BY <1>2, <2>4 DEF Object
  <2>6. new.proc \in Insts' \cup {0} /\ Insts \subseteq Insts'
    BY <1>1, <1>2, <2>5 DEF Sound, Points, Insts
  <2> HIDE DEF new
  <2>7. ObjsKept
    BY <1>2, <2>2, <2>5, <2>6, OneObject
  <2> QED
    BY <1>1, <1>3, <2>3, <2>7, Carry, Unmoved
<1> QED
  BY <1>4, <1>5

LEMMA SpawnedSound ==
    ASSUME Sound, NEW o \in Objects, NEW resumed \in BOOLEAN, NEW under \in BOOLEAN,
           Spawned(o, resumed, under)
    PROVE  ObjsKept /\ InstsKept
<1>1. Shapes
  BY DEF Sound
<1>2. /\ insts' \in Seq(Inst) /\ DOMAIN insts' = Insts \cup {NewKid} /\ NewKid \notin Insts
      /\ \A j \in Insts : insts'[j] = insts[j]
      /\ insts'[NewKid].obj = o
  BY <1>1, SpawnedEffect
<1>3. /\ objs' \in Seq(Object) /\ DOMAIN objs' = Objects
      /\ \A x \in Objects : x # o => objs'[x] = objs[x]
      /\ objs'[o].proc = NewKid /\ objs'[o].session = objs[o].session
  BY <1>1, SpawnedEffect
<1>4. ObjsKept
  BY <1>2, <1>3 DEF Sound, Points, ObjsKept, Insts
<1>5. InstsKept
  BY <1>2 DEF Sound, Points, InstsKept, Insts
<1> QED
  BY <1>4, <1>5

LEMMA ReplacedSound ==
    ASSUME Sound, NEW o \in Objects, NEW conv \in Int, Replaced(o, conv)
    PROVE  ObjsKept /\ InstsKept
<1>1. Shapes
  BY DEF Sound
<1>2. /\ insts' \in Seq(Inst) /\ \A j \in Insts : insts'[j] = Ended(o)[j]
      /\ objs' \in Seq(Object) /\ DOMAIN objs' = Objects
      /\ \A x \in Objects : x # o => objs'[x] = objs[x]
      /\ objs'[o].session = objs[o].session
      /\ "overlap" \in features => objs'[o].proc = 0 /\ DOMAIN insts' = Insts
      /\ "overlap" \notin features => /\ objs'[o].proc = NewKid /\ DOMAIN insts' = Insts \cup {NewKid}
                                     /\ insts'[NewKid].obj = o
  BY <1>1, ReplacedEffect
<1>3. \A j \in Insts : Ended(o)[j].obj = insts[j].obj
  BY <1>1, EndedInsts
<1>4. Insts \subseteq Insts' /\ objs'[o].proc \in Insts' \cup {0}
  BY <1>2 DEF Insts
<1>5. ObjsKept
  BY <1>2, <1>4 DEF Sound, Points, ObjsKept
<1>6. InstsKept
  BY <1>2, <1>3, <1>4 DEF Sound, Points, InstsKept, Insts
<1> QED
  BY <1>5, <1>6

LEMMA SpawnEndsSound ==
    ASSUME Sound, NEW t \in Turns, SpawnEnds(t)
    PROVE  Sound'
<1> DEFINE o == turns[t].obj
<1>1. turns[t].phase = "spawn" /\ turns' = [turns EXCEPT ![t].phase = "ready"] /\ "ready" \in Phases
      /\ pool' = pool /\ file' = file /\ killing' = killing
  BY DEF SpawnEnds, Phases
<1>2. PICK resumed \in {FALSE, objs[o].conv # 0 /\ ~objs[o].force} : Spawned(o, resumed, TRUE)
  BY DEF SpawnEnds
<1>3. o \in Objects /\ objs[o].force \in BOOLEAN
  BY <1>1, OnObject DEF Object
<1>4. resumed \in BOOLEAN
  BY <1>3
<1>5. ObjsKept /\ InstsKept
  BY <1>2, <1>3, <1>4, SpawnedSound
<1>6. TurnsKept
  BY <1>1, OneTurnMoved
<1> QED
  BY <1>1, <1>5, <1>6, Carry, Unmoved

LEMMA SpawnFailsSound ==
    ASSUME Sound, NEW t \in Turns, SpawnFails(t)
    PROVE  Sound'
<1> DEFINE o == turns[t].obj
           new == [objs[o] EXCEPT !.lock = FALSE, !.force = FALSE]
<1>1. /\ turns[t].phase = "spawn" /\ insts' = insts
      /\ turns' = [turns EXCEPT ![t].phase = "ended", ![t].answer = Failed]
      /\ "ended" \in Phases /\ Failed \in Int
      /\ pool' = pool /\ file' = file /\ killing' = killing
  BY DEF SpawnFails, Phases, Failed
<1>2. o \in Objects /\ objs[o] \in Object
  BY <1>1, OnObject
<1>3. objs' = [objs EXCEPT ![o] = new]
  BY DEF SpawnFails
<1>4. new \in Object /\ new.session = objs[o].session /\ new.proc = objs[o].proc
  BY <1>2 DEF Object
<1>5. new.proc \in Insts' \cup {0} /\ Insts \subseteq Insts'
  BY <1>1, <1>2, <1>4 DEF Sound, Points, Insts
<1> HIDE DEF new
<1>6. ObjsKept
  BY <1>2, <1>3, <1>4, <1>5, OneObject
<1>7. TurnsKept
  BY <1>1, OneTurnMoved
<1> QED
  BY <1>1, <1>6, <1>7, Carry, Unmoved

\* A message written to the running subprocess of an object.
LEMMA WrittenEffect ==
    ASSUME Sound, NEW o \in Objects, Alive(o), NEW m \in Int, Written(o, m)
    PROVE  /\ objs[o].proc \in Insts
           /\ insts' \in Seq(Inst) /\ Insts' = Insts /\ InstsKept
           /\ \A j \in Insts : j # objs[o].proc => insts'[j] = insts[j]
           /\ insts'[objs[o].proc].obj = insts[objs[o].proc].obj
           /\ insts'[objs[o].proc].conv = insts[objs[o].proc].conv
           /\ insts'[objs[o].proc].reader = insts[objs[o].proc].reader
           /\ insts'[objs[o].proc].alive <=> insts[objs[o].proc].alive
           /\ insts'[objs[o].proc].hung <=> insts[objs[o].proc].hung
           /\ insts[objs[o].proc].input \in Seq(Int)
           /\ \A old \in Seq(Int) :
                  old = insts[objs[o].proc].input => insts'[objs[o].proc].input = Append(old, m)
<1> DEFINE p == objs[o].proc
           new == [insts[p] EXCEPT !.input = Append(insts[p].input, m)]
<1>1. p \in Insts
  BY DEF Sound, Points, Alive
<1>2. insts[p] \in Inst
  BY <1>1, Elements DEF Sound
<1>3. insts[p].input \in Seq(Int)
  BY <1>2 DEF Inst
<1>4. Append(insts[p].input, m) \in Seq(Int)
  BY <1>3, AppendProperties
<1>5. new \in Inst /\ new.obj = insts[p].obj
  BY <1>2, <1>4 DEF Inst
<1>6. insts' = [insts EXCEPT ![p] = new]
  BY DEF Written
<1>7. /\ new.conv = insts[p].conv /\ new.reader = insts[p].reader
      /\ new.alive = insts[p].alive /\ new.hung = insts[p].hung
      /\ new.input = Append(insts[p].input, m)
  BY <1>2, <1>4 DEF Inst
<1> HIDE DEF new
<1>8. InstsKept /\ Insts' = Insts
  BY <1>1, <1>5, <1>6, OneInst
<1>9. insts' \in Seq(Inst) /\ insts'[p] = new /\ \A j \in Insts : j # p => insts'[j] = insts[j]
  BY <1>1, <1>6, <1>8 DEF Insts, InstsKept
<1> QED
  BY <1>1, <1>3, <1>5, <1>7, <1>8, <1>9

LEMMA SendSound ==
    ASSUME Sound, NEW t \in Turns, Send(t)
    PROVE  Sound'
<1> DEFINE o == turns[t].obj
           context == turns[t].phase = "ready" /\ NeedsContext(o)
           new == [objs[o] EXCEPT !.ctx = objs[o].ctx \/ context]
<1>1. /\ turns[t].phase \in {"ready", "send"}
      /\ pool' = pool /\ file' = file /\ killing' = killing
  BY DEF Send
<1>2. o \in Objects /\ objs[o] \in Object
  BY <1>1, OnObject
<1>3. CASE ~Alive(o)
  <2>1. /\ turns' = [turns EXCEPT ![t].phase = "ended", ![t].answer = Failed]
        /\ objs' = objs /\ insts' = insts /\ "ended" \in Phases /\ Failed \in Int
    BY <1>3 DEF Send, Phases, Failed
  <2>2. TurnsKept
    BY <1>1, <2>1, OneTurnMoved
  <2> QED
    BY <1>1, <2>1, <2>2, Carry, Unmoved
<1>4. CASE Alive(o)
  <2>1. PICK m \in Int, p \in Phases : Written(o, m) /\ turns' = [turns EXCEPT ![t].phase = p]
    <3>1. CASE context
      BY <1>4, <3>1 DEF Send, Phases, Ctx
    <3>2. CASE ~context
      BY <1>4, <3>2 DEF Send, Phases, Turns
    <3> QED
      BY <3>1, <3>2
  <2>2. objs' = [objs EXCEPT ![o] = new]
    BY <1>4 DEF Send
  <2>3. InstsKept /\ Insts' = Insts
    BY <1>2, <1>4, <2>1, WrittenEffect
  <2>4. TurnsKept
    BY <1>1, <2>1, OneTurnMoved
  <2>5. new \in Object /\ new.session = objs[o].session /\ new.proc = objs[o].proc
    BY <1>2 DEF Object
  <2>6. new.proc \in Insts' \cup {0}
    BY <1>2, <2>3, <2>5 DEF Sound, Points
  <2> HIDE DEF new
  <2>7. ObjsKept
    BY <1>2, <2>2, <2>3, <2>5, <2>6, OneObject
  <2> QED
    BY <1>1, <2>3, <2>4, <2>7, Carry, Unmoved
<1> QED
  BY <1>3, <1>4

LEMMA SilenceSound ==
    ASSUME Sound, NEW t \in Turns, Silence(t)
    PROVE  Sound'
<1>1. TurnsKept
  <2>1. turns[t].phase \notin {"new", "ended"} /\ Failed \in Int
    BY DEF Silence, GivesUp, Failed
  <2>2. "send" \in Phases /\ "answered" \in Phases
    BY DEF Phases
  <2>3. \/ turns' = [turns EXCEPT ![t].phase = "send"]
        \/ turns' = [turns EXCEPT ![t].phase = "answered", ![t].answer = Failed]
    BY DEF Silence
  <2> QED
    BY <2>1, <2>2, <2>3, OneTurnMoved
<1> QED
  BY <1>1, Carry, Unmoved DEF Silence

LEMMA TurnEndsSound ==
    ASSUME Sound, NEW t \in Turns, TurnEnds(t)
    PROVE  Sound'
<1>1. TurnsKept
  <2>1. turns[t].phase \notin {"new", "ended"} /\ "ended" \in Phases
        /\ turns' = [turns EXCEPT ![t].phase = "ended"]
    BY DEF TurnEnds, Phases
  <2> QED
    BY <2>1, OneTurnMoved
<1> QED
  BY <1>1, Carry, Unmoved DEF TurnEnds

LEMMA HeardSound ==
    ASSUME Sound, NEW o, NEW m \in Int
    PROVE  /\ turns' = Heard(o, m) => TurnsKept
           /\ Told(o) => TurnsKept
<1>1. Shapes
  BY DEF Sound
<1>2. ASSUME turns' = Heard(o, m)
      PROVE  TurnsKept
  BY <1>1, <1>2, HeardTurns DEF TurnsKept
<1>3. ASSUME Told(o)
      PROVE  TurnsKept
  BY <1>1, <1>3, ToldTurns DEF TurnsKept
<1> QED
  BY <1>2, <1>3

LEMMA EndedSound ==
    ASSUME Sound, NEW o, insts' = Ended(o)
    PROVE  InstsKept /\ Insts' = Insts
<1>1. Shapes
  BY DEF Sound
<1>2. /\ insts' \in Seq(Inst) /\ Insts' = Insts
      /\ \A j \in Insts : insts'[j].obj = insts[j].obj
  BY <1>1, EndedInsts DEF Insts
<1> QED
  BY <1>2 DEF Sound, Points, InstsKept

LEMMA AnswersSound ==
    ASSUME Sound, NEW i \in Insts, Answers(i)
    PROVE  Sound'
<1> DEFINE o == insts[i].obj
           m == Head(insts[i].input)
           new == [objs[o] EXCEPT !.conv = insts[i].conv]
           kid == [insts[i] EXCEPT !.input = Tail(insts[i].input),
                      !.reader = IF objs[o].proc = i THEN insts[i].reader ELSE "ending"]
<1>1. /\ insts[i].input # <<>> /\ turns' = Heard(o, m)
      /\ pool' = pool /\ killing' = killing
  BY DEF Answers
<1>2. o \in Objects /\ objs[o] \in Object /\ insts[i] \in Inst
  BY Elements DEF Sound, Points
<1>3. insts[i].input \in Seq(Int) /\ insts[i].conv \in Int /\ objs[o].session \in Sessions
  BY <1>2 DEF Inst, Object
<1>4. m \in Int /\ Tail(insts[i].input) \in Seq(Int)
  BY <1>1, <1>3, HeadTailProperties
<1>5. insts' = [insts EXCEPT ![i] = kid]
  BY DEF Answers
<1>6. kid \in Inst /\ kid.obj = o
  BY <1>2, <1>4 DEF Inst
<1> HIDE DEF kid
<1>7. InstsKept /\ Insts' = Insts
  BY <1>5, <1>6, OneInst
<1>8. objs' = [objs EXCEPT ![o] = new]
  BY DEF Answers
<1>9. new \in Object /\ new.session = objs[o].session /\ new.proc = objs[o].proc
  BY <1>2, <1>3 DEF Object
<1>10. new.proc \in Insts' \cup {0}
  BY <1>2, <1>7, <1>9 DEF Sound, Points
<1> HIDE DEF new
<1>11. ObjsKept
  BY <1>2, <1>7, <1>8, <1>9, <1>10, OneObject
<1>12. TurnsKept
  BY <1>1, <1>4, HeardSound
<1>13. file' \in [Sessions -> Int]
  BY <1>3 DEF Answers, Sound, Shapes
<1> QED
  BY <1>1, <1>7, <1>11, <1>12, <1>13, Carry, Unmoved

\* The end of a read loop: the process the object has by now is gone, and its own with it.
LEMMA ReaderEffect ==
    ASSUME Shapes, NEW i \in Insts, ReaderEnds(i)
    PROVE  /\ insts' \in Seq(Inst) /\ Insts' = Insts
           /\ \A j \in Insts :
                /\ insts'[j].obj = insts[j].obj /\ insts'[j].conv = insts[j].conv
                /\ \/ /\ j = i /\ insts'[j].reader = "gone" /\ insts'[j].input = insts[j].input
                      /\ insts'[j].alive => insts[j].alive /\ j # objs[insts[i].obj].proc
                   \/ /\ j # i /\ j = objs[insts[i].obj].proc
                      /\ ~insts'[j].alive /\ insts'[j].input = <<>>
                   \/ j # i /\ j # objs[insts[i].obj].proc /\ insts'[j] = insts[j]
<1> DEFINE p == objs[insts[i].obj].proc
<1>1. Insts = 1..Len(insts) /\ Len(insts) \in Nat /\ \A j \in Insts : insts[j] \in Inst
  BY Elements
<1>2. insts' = [j \in Insts |->
                   IF j = i THEN [insts[i] EXCEPT !.reader = "gone", !.alive = @ /\ p # i]
                   ELSE IF j = p THEN Dead(j) ELSE insts[j]]
  BY DEF ReaderEnds
<1> HIDE DEF p
<1>3. ASSUME NEW j \in Insts
      PROVE  /\ insts'[j] \in Inst
             /\ insts'[j].obj = insts[j].obj /\ insts'[j].conv = insts[j].conv
             /\ \/ /\ j = i /\ insts'[j].reader = "gone" /\ insts'[j].input = insts[j].input
                   /\ insts'[j].alive => insts[j].alive /\ j # p
                \/ /\ j # i /\ j = p
                   /\ ~insts'[j].alive /\ insts'[j].input = <<>>
                \/ j # i /\ j # p /\ insts'[j] = insts[j]
  <2>1. CASE j = i
    <3>1. insts'[j] = [insts[i] EXCEPT !.reader = "gone", !.alive = insts[i].alive /\ p # i]
      BY <1>2, <2>1
    <3> QED
      BY <1>1, <2>1, <3>1 DEF Inst
  <2>2. CASE j # i /\ j = p
    <3>1. insts'[j] = Dead(j)
      BY <1>2, <2>2
    <3> QED
      BY <2>2, <3>1, DeadInst
  <2>3. CASE j # i /\ j # p
    <3>1. insts'[j] = insts[j]
      BY <1>2, <2>3
    <3> QED
      BY <1>1, <2>3, <3>1
  <2> QED
    BY <2>1, <2>2, <2>3
<1>4. insts' = [j \in 1..Len(insts) |-> insts'[j]]
  BY <1>1, <1>2
<1>5. \A j \in 1..Len(insts) : insts'[j] \in Inst
  BY <1>1, <1>3
<1>6. insts' \in Seq(Inst) /\ DOMAIN insts' = Insts
  BY <1>1, <1>4, <1>5, Tabled
<1> QED
  BY <1>3, <1>6 DEF p, Insts

LEMMA ReaderEndsSound ==
    ASSUME Sound, NEW i \in Insts, ReaderEnds(i)
    PROVE  Sound'
<1> DEFINE o == insts[i].obj
<1>1. /\ pool' = pool /\ killing' = killing /\ file' = file
  BY DEF ReaderEnds
<1>2. PICK recovered \in BOOLEAN :
         /\ turns' = IF recovered THEN turns ELSE Heard(o, Failed)
         /\ objs' = [objs EXCEPT ![o].proc = 0, ![o].force = @ \/ recovered,
                                 ![o].ctx = @ /\ ~recovered]
  BY DEF ReaderEnds
<1>3. o \in Objects /\ objs[o] \in Object
  BY Elements DEF Sound, Points
<1>4. insts' \in Seq(Inst) /\ Insts' = Insts /\ \A j \in Insts : insts'[j].obj = insts[j].obj
  BY ReaderEffect DEF Sound
<1>5. InstsKept
  BY <1>4 DEF InstsKept, Sound, Points
<1>6. TurnsKept
  <2>1. Failed \in Int
    BY DEF Failed
  <2> QED
    BY <1>2, <2>1, Unmoved, HeardSound
<1>7. ObjsKept
  <2> DEFINE new == [objs[o] EXCEPT !.proc = 0, !.force = objs[o].force \/ recovered,
                                    !.ctx = objs[o].ctx /\ ~recovered]
  <2>1. objs' = [objs EXCEPT ![o] = new]
    BY <1>2
  <2>2. new \in Object /\ new.session = objs[o].session /\ new.proc = 0
    BY <1>3 DEF Object
  <2> HIDE DEF new
  <2> QED
    BY <1>3, <1>4, <2>1, <2>2, OneObject
<1> QED
  BY <1>1, <1>5, <1>6, <1>7, Carry, Unmoved

LEMMA KillSound ==
    ASSUME Sound, NEW o \in Objects, Kill(o)
    PROVE  Sound'
<1> DEFINE new == [objs[o] EXCEPT !.proc = 0]
<1>1. /\ insts' = Ended(o) /\ Told(o) /\ objs' = [objs EXCEPT ![o] = new]
      /\ pool' = pool /\ file' = file /\ killing' = killing \ {o}
  BY DEF Kill
<1>2. killing' \subseteq Objects
  BY <1>1 DEF Sound, Points
<1>3. objs[o] \in Object
  BY Elements DEF Sound
<1>4. new \in Object /\ new.session = objs[o].session /\ new.proc = 0
  BY <1>3 DEF Object
<1> HIDE DEF new
<1>5. InstsKept /\ Insts' = Insts
  BY <1>1, EndedSound
<1>6. ObjsKept
  BY <1>1, <1>4, <1>5, OneObject
<1>7. TurnsKept
  <2>1. Failed \in Int
    BY DEF Failed
  <2> QED
    BY <1>1, <2>1, HeardSound
<1> QED
  BY <1>1, <1>2, <1>5, <1>6, <1>7, Carry, Unmoved

LEMMA RespawnSound ==
    ASSUME Sound, NEW o \in Objects, Respawn(o)
    PROVE  Sound'
<1>1. ObjsKept /\ InstsKept
  BY SpawnedSound DEF Respawn
<1> QED
  BY <1>1, Carry, Unmoved DEF Respawn

LEMMA InjectSound ==
    ASSUME Sound, NEW t \in Turns, Inject(t)
    PROVE  Sound'
<1> DEFINE o == turns[t].obj
<1>1. turns[t].phase \notin {"new", "ended"} /\ Alive(o) /\ Written(o, Injected) /\ Injected \in Int
  BY DEF Inject, Running, Sending, Injected
<1>2. o \in Objects
  BY <1>1, OnObject
<1>3. InstsKept /\ Insts' = Insts
  BY <1>1, <1>2, WrittenEffect
<1>4. ObjsKept
  BY <1>3 DEF Inject, Sound, Shapes, Points, ObjsKept, Objects
<1> QED
  BY <1>3, <1>4, Carry, Unmoved DEF Inject

LEMMA CancelSound ==
    ASSUME Sound, NEW t \in Turns, Cancel(t)
    PROVE  Sound'
<1> DEFINE o == turns[t].obj
<1>1. /\ turns[t].phase \notin {"new", "ended"}
      /\ turns' = [turns EXCEPT ![t].phase = "ended", ![t].answer = Failed]
      /\ Replaced(o, objs[o].conv) /\ "ended" \in Phases /\ Failed \in Int
      /\ pool' = pool /\ file' = file /\ killing' = killing
  BY DEF Cancel, CancelRestarts, Running, Sending, Phases, Failed
<1>2. o \in Objects /\ objs[o].conv \in Int
  BY <1>1, OnObject DEF Object
<1>3. ObjsKept /\ InstsKept
  BY <1>1, <1>2, ReplacedSound
<1>4. TurnsKept
  BY <1>1, OneTurnMoved
<1> QED
  BY <1>1, <1>3, <1>4, Carry, Unmoved

LEMMA DiesSound ==
    ASSUME Sound, NEW i \in Insts, Dies(i) \/ Hangs(i)
    PROVE  Sound'
<1>1. PICK new \in Inst : insts' = [insts EXCEPT ![i] = new] /\ new.obj = insts[i].obj
  <2>1. CASE Dies(i)
    BY <2>1, DeadInst DEF Dies, Sound
  <2>2. CASE Hangs(i)
    <3>1. insts[i] \in Inst
      BY Elements DEF Sound
    <3>2. [insts[i] EXCEPT !.hung = TRUE] \in Inst /\ [insts[i] EXCEPT !.hung = TRUE].obj = insts[i].obj
      BY <3>1 DEF Inst
    <3>3. insts' = [insts EXCEPT ![i] = [insts[i] EXCEPT !.hung = TRUE]]
      BY <2>2 DEF Hangs
    <3> QED
      BY <3>2, <3>3
  <2> QED
    BY <2>1, <2>2
<1>2. InstsKept /\ Insts' = Insts
  BY <1>1, OneInst
<1>3. /\ pool' = pool /\ objs' = objs /\ turns' = turns /\ file' = file /\ killing' = killing
  BY DEF Dies, Hangs
<1>4. ObjsKept
  BY <1>2, <1>3 DEF Sound, Shapes, Points, ObjsKept, Objects
<1> QED
  BY <1>2, <1>3, <1>4, Carry, Unmoved

\* A session's object exists.
LEMMA OfSession ==
    ASSUME Sound, NEW s \in Sessions, pool[s] # 0
    PROVE  pool[s] \in Objects /\ objs[pool[s]] \in Object /\ objs[pool[s]].session = s
BY Elements DEF Sound, Points, Pooled

LEMMA KillSessionSound ==
    ASSUME Sound, NEW s \in Sessions, KillSession(s)
    PROVE  Sound'
<1>1. /\ pool[s] # 0 /\ pool' = [pool EXCEPT ![s] = 0] /\ killing' = killing \cup {pool[s]}
      /\ objs' = objs /\ insts' = insts /\ turns' = turns /\ file' = file
  BY DEF KillSession
<1>2. killing' \subseteq Objects
  BY <1>1, OfSession DEF Sound, Points
<1>3. pool' \in [Sessions -> Nat] /\ \A r \in Sessions : pool'[r] \in {0, pool[r]}
  BY <1>1 DEF Sound, Shapes
<1> QED
  BY <1>1, <1>2, <1>3, Carry, Unmoved

LEMMA RestartSound ==
    ASSUME Sound, NEW s \in Sessions, Restart(s) \/ Compact(s)
    PROVE  Sound'
<1> DEFINE o == pool[s]
<1>1. o # 0 /\ Told(o) /\ pool' = pool /\ file' = file /\ killing' = killing
  BY DEF Restart, Compact
<1>2. o \in Objects /\ objs[o].conv \in Int /\ Unread \in Int /\ Failed \in Int
  BY <1>1, OfSession DEF Object, Unread, Failed
<1>3. PICK conv \in Int : Replaced(o, conv)
  BY <1>2 DEF Restart, Compact
<1>4. ObjsKept /\ InstsKept
  BY <1>2, <1>3, ReplacedSound
<1>5. TurnsKept
  BY <1>1, <1>2, HeardSound
<1> QED
  BY <1>1, <1>4, <1>5, Carry, Unmoved

LEMMA RecycleSound ==
    ASSUME Sound, NEW s \in Sessions, Recycle(s)
    PROVE  Sound'
<1> DEFINE o == pool[s]
           new == [objs[o] EXCEPT !.proc = 0, !.ctx = FALSE, !.force = TRUE]
<1>1. /\ o # 0 /\ Alive(o) /\ insts' = [insts EXCEPT ![objs[o].proc] = Dead(objs[o].proc)]
      /\ objs' = [objs EXCEPT ![o] = new]
      /\ pool' = pool /\ file' = file /\ killing' = killing /\ turns' = turns
  BY DEF Recycle
<1>2. o \in Objects /\ objs[o] \in Object
  BY <1>1, OfSession
<1>3. objs[o].proc \in Insts
  BY <1>1, <1>2 DEF Alive, Sound, Points
<1>4. InstsKept /\ Insts' = Insts
  BY <1>1, <1>3, DeadInst, OneInst DEF Sound
<1>5. new \in Object /\ new.session = objs[o].session /\ new.proc = 0
  BY <1>2 DEF Object
<1> HIDE DEF new
<1>6. ObjsKept
  BY <1>1, <1>2, <1>4, <1>5, OneObject
<1> QED
  BY <1>1, <1>4, <1>6, Carry, Unmoved

LEMMA InitSound ==
    ASSUME Init
    PROVE  Sound
<1>1. /\ pool = [s \in Sessions |-> 0] /\ objs = <<>> /\ insts = <<>>
      /\ turns = [t \in Turns |-> [phase |-> "new", obj |-> 0, answer |-> None]]
      /\ file = [s \in Sessions |-> 0] /\ killing = {}
  BY DEF Init
<1>2. objs \in Seq(Object) /\ insts \in Seq(Inst) /\ Objects = {} /\ Insts = {}
  BY <1>1, EmptySeq DEF Objects, Insts
<1>3. "new" \in Phases /\ None \in Int
  BY DEF Phases, None
<1>4. Shapes
  BY <1>1, <1>2, <1>3 DEF Shapes, Turn
<1>5. Points
  BY <1>1, <1>2 DEF Points, Pooled
<1> QED
  BY <1>4, <1>5 DEF Sound

LEMMA SoundStep ==
    ASSUME Sound, [Next]_vars
    PROVE  Sound'
<1>1. CASE \E t \in Turns, s \in Sessions : Message(t, s)
  BY <1>1, MessageSound
<1>2. CASE Progress
  <2>1. CASE \E t \in Turns : Pending(t)
    BY <2>1, TakesLockSound, EnsureSound, SpawnEndsSound, SendSound, SilenceSound, TurnEndsSound DEF Pending
  <2>2. CASE \E i \in Insts : Answers(i) \/ ReaderEnds(i)
    BY <2>2, AnswersSound, ReaderEndsSound
  <2>3. CASE \E o \in Objects : Kill(o) \/ Respawn(o)
    BY <2>3, KillSound, RespawnSound
  <2> QED
    BY <1>2, <2>1, <2>2, <2>3 DEF Progress
<1>3. CASE Interferes
  <2>1. CASE \E t \in Turns : SpawnFails(t) \/ Inject(t) \/ Cancel(t)
    BY <2>1, SpawnFailsSound, InjectSound, CancelSound
  <2>2. CASE \E i \in Insts : Dies(i) \/ Hangs(i)
    BY <2>2, DiesSound
  <2>3. CASE \E s \in Sessions : KillSession(s) \/ Restart(s) \/ Recycle(s) \/ Compact(s)
    BY <2>3, KillSessionSound, RestartSound, RecycleSound
  <2> QED
    BY <1>3, <2>1, <2>2, <2>3 DEF Interferes
<1>4. CASE UNCHANGED vars
  BY <1>4 DEF vars, Sound, Shapes, Points, Pooled, Objects, Insts
<1> QED
  BY <1>1, <1>2, <1>3, <1>4 DEF Next

----------------------------------------------------------------------------
(* Locks: one turn of an object works at a time, one turn of a session     *)
(* runs, and the object's lock is held by the turn that spawns.            *)

Alone ==
    \A t, u \in Turns :
        Running(t) /\ Running(u) /\ objs[turns[t].obj].session = objs[turns[u].obj].session
            => t = u
Locking == OneTurn /\ Alone /\ LockHeld

\* One turn in another phase: the others keep everything.
LEMMA TurnEffect ==
    ASSUME Sound, NEW t \in Turns, NEW p \in Phases,
           \/ turns' = [turns EXCEPT ![t].phase = p]
           \/ \E a \in Int : turns' = [turns EXCEPT ![t].phase = p, ![t].answer = a]
    PROVE  /\ turns'[t].phase = p /\ turns'[t].obj = turns[t].obj
           /\ \A u \in Turns : u # t => turns'[u] = turns[u]
<1>1. turns[t] \in Turn /\ turns \in [Turns -> Turn]
  BY DEF Sound, Shapes
<1>2. CASE turns' = [turns EXCEPT ![t].phase = p]
  BY <1>1, <1>2 DEF Turn
<1>3. ASSUME NEW a \in Int, turns' = [turns EXCEPT ![t].phase = p, ![t].answer = a]
      PROVE  /\ turns'[t].phase = p /\ turns'[t].obj = turns[t].obj
             /\ \A u \in Turns : u # t => turns'[u] = turns[u]
  BY <1>1, <1>3 DEF Turn
<1> QED
  BY <1>2, <1>3

\* No turn starts to run, to work or to spawn, none stops spawning.
TurnsQuiet ==
    \A t \in Turns :
        /\ turns'[t].obj = turns[t].obj
        /\ Running(t)' => Running(t)
        /\ Working(t)' => Working(t)
        /\ turns'[t].phase = "spawn" <=> turns[t].phase = "spawn"

\* No lock is taken or released.
LocksQuiet ==
    /\ DOMAIN objs' = Objects
    /\ \A o \in Objects : objs'[o].session = objs[o].session /\ (objs'[o].lock <=> objs[o].lock)

LEMMA HeardQuiet ==
    ASSUME Sound, NEW o, NEW m \in Int
    PROVE  /\ turns' = Heard(o, m) => TurnsQuiet
           /\ Told(o) => TurnsQuiet
           /\ turns' = turns => TurnsQuiet
           /\ objs' = objs => LocksQuiet
<1>1. Shapes
  BY DEF Sound
<1>2. ASSUME turns' = Heard(o, m)
      PROVE  TurnsQuiet
  BY <1>1, <1>2, HeardTurns DEF TurnsQuiet, Running, Working, Sending
<1>3. ASSUME Told(o)
      PROVE  TurnsQuiet
  BY <1>1, <1>3, ToldTurns DEF TurnsQuiet, Running, Working, Sending
<1>4. turns' = turns => TurnsQuiet
  BY DEF TurnsQuiet, Running, Working
<1>5. objs' = objs => LocksQuiet
  BY DEF LocksQuiet, Objects
<1> QED
  BY <1>2, <1>3, <1>4, <1>5

\* A turn goes on from one phase to another that is not "spawn".
LEMMA TurnQuiet ==
    ASSUME Sound, NEW t \in Turns, turns[t].phase \in Sending, turns[t].phase # "spawn",
           NEW p \in {"ready", "ack", "send", "wait", "answered", "ended"},
           \/ turns' = [turns EXCEPT ![t].phase = p]
           \/ \E a \in Int : turns' = [turns EXCEPT ![t].phase = p, ![t].answer = a]
    PROVE  TurnsQuiet
<1>1. p \in Phases
  BY DEF Phases
<1>2. /\ turns'[t].phase = p /\ turns'[t].obj = turns[t].obj
      /\ \A u \in Turns : u # t => turns'[u] = turns[u]
  BY <1>1, TurnEffect
<1> QED
  BY <1>2 DEF TurnsQuiet, Running, Working, Sending

LEMMA QuietLocking ==
    ASSUME Sound, Locking, TurnsQuiet, LocksQuiet
    PROVE  Locking'
<1>1. \A t \in Turns : Running(t) => turns[t].obj \in Objects
  BY DEF Sound, Points, Running, Sending
<1>2. OneTurn'
  BY DEF Locking, OneTurn, Working, Sending, TurnsQuiet
<1>3. Alone'
  BY <1>1 DEF Locking, Alone, Running, Sending, TurnsQuiet, LocksQuiet
<1>4. LockHeld'
  BY DEF Locking, LockHeld, TurnsQuiet, LocksQuiet, Objects
<1> QED
  BY <1>2, <1>3, <1>4 DEF Locking

LEMMA MessageLocking ==
    ASSUME Sound, Locking, NEW t \in Turns, NEW s \in Sessions, Message(t, s)
    PROVE  Locking'
<1>1. turns[t].phase = "new" /\ turns[t] \in Turn /\ turns \in [Turns -> Turn]
  BY DEF Sound, Shapes, Message
<1>2. CASE GetOrCreate(s) = {}
  <2>1. /\ turns' = [turns EXCEPT ![t].phase = "ended", ![t].answer = Failed] /\ objs' = objs
        /\ "ended" \in Phases /\ Failed \in Int
    BY <1>2 DEF Message, Phases, Failed
  <2>2. turns'[t].phase = "ended" /\ turns'[t].obj = turns[t].obj
        /\ \A u \in Turns : u # t => turns'[u] = turns[u]
    BY <2>1, TurnEffect
  <2>3. TurnsQuiet
    BY <1>1, <2>2 DEF TurnsQuiet, Running, Working, Sending
  <2> QED
    BY <2>1, <2>3, HeardQuiet, QuietLocking DEF Failed
<1>3. ASSUME NEW got \in GetOrCreate(s), Obtained(s, got),
             turns' = [turns EXCEPT ![t].obj = got.obj,
                         ![t].phase = IF Locked(got.obj) THEN "queued" ELSE "ensure"]
      PROVE  Locking'
  <2>1. /\ objs' \in Seq(Object) /\ DOMAIN objs' = Objects \cup {got.obj} /\ got.obj \in Nat \ {0}
        /\ \A o \in Objects : objs'[o] = objs[o]
        /\ got.obj \notin Objects => objs'[got.obj] = NewObject(s)
        /\ objs'[got.obj].session = s
    BY <1>3, ObtainedEffect
  <2>2. turns'[t].obj = got.obj /\ \A u \in Turns : u # t => turns'[u] = turns[u]
    BY <1>1, <1>3 DEF Turn
  <2>3. turns'[t].phase \in {"queued", "ensure"} /\ (turns'[t].phase = "ensure" => ~Locked(got.obj))
    BY <1>1, <1>3 DEF Turn
  <2>4. \A u \in Turns : Running(u) \/ Working(u) => turns[u].obj \in Objects
    BY DEF Sound, Points, Running, Working, Sending
  <2>5. OneTurn'
    BY <2>2, <2>3 DEF Locking, OneTurn, Locked, Working, Sending
  <2>6. Alone'
    <3>1. \A u \in Turns : u # t /\ Running(u)' => /\ Running(u)
                                                  /\ objs'[turns'[u].obj].session = objs[turns[u].obj].session
                                                  /\ objs'[turns'[u].obj].session # s
      BY <2>1, <2>2, <2>4 DEF Message, Running
    <3> QED
      BY <2>1, <2>2, <3>1 DEF Locking, Alone, Running, Sending
  <2>7. LockHeld'
    <3>1. ~NewObject(s).lock
      BY DEF NewObject
    <3>2. \A u \in Turns : turns[u].phase = "spawn" => turns[u].obj \in Objects
      BY <2>4 DEF Running, Sending
    <3>3. \A u \in Turns : /\ turns'[u].phase = "spawn" <=> turns[u].phase = "spawn"
                           /\ turns[u].phase = "spawn" => turns'[u].obj = turns[u].obj
      BY <1>1, <2>2, <2>3
    <3> QED
      BY <2>1, <3>1, <3>2, <3>3 DEF Locking, LockHeld, Objects
  <2> QED
    BY <2>5, <2>6, <2>7 DEF Locking
<1> QED
  BY <1>2, <1>3 DEF Message

LEMMA TakesLockLocking ==
    ASSUME Sound, Locking, NEW t \in Turns, TakesLock(t)
    PROVE  Locking'
<1>1. /\ turns' = [turns EXCEPT ![t].phase = "ensure"] /\ "ensure" \in Phases
      /\ turns[t].phase = "queued" /\ ~Locked(turns[t].obj) /\ objs' = objs
  BY DEF TakesLock, Phases
<1>2. turns'[t].phase = "ensure" /\ turns'[t].obj = turns[t].obj
      /\ \A u \in Turns : u # t => turns'[u] = turns[u]
  BY <1>1, TurnEffect
<1>3. OneTurn'
  BY <1>1, <1>2 DEF Locking, OneTurn, Locked, Working, Sending
<1>4. Alone'
  BY <1>1, <1>2 DEF Locking, Alone, Running, Sending
<1>5. LockHeld'
  BY <1>1, <1>2 DEF Locking, LockHeld, Objects
<1> QED
  BY <1>3, <1>4, <1>5 DEF Locking

LEMMA EnsureLocking ==
    ASSUME Sound, Locking, NEW t \in Turns, Ensure(t)
    PROVE  Locking'
<1> DEFINE o == turns[t].obj
<1>1. turns[t].phase = "ensure"
  BY DEF Ensure
<1>2. o \in Objects /\ objs[o] \in Object
  BY <1>1, OnObject
<1>3. CASE Alive(o)
  <2>1. turns' = [turns EXCEPT ![t].phase = "ready"] /\ objs' = objs
    BY <1>3 DEF Ensure
  <2>2. TurnsQuiet
    BY <1>1, <2>1, TurnQuiet DEF Sending
  <2>3. LocksQuiet
    BY <2>1 DEF LocksQuiet, Objects
  <2> QED
    BY <2>2, <2>3, QuietLocking
<1>4. CASE ~Alive(o)
  <2>1. turns' = [turns EXCEPT ![t].phase = "spawn"] /\ "spawn" \in Phases
    BY <1>4 DEF Ensure, Phases
  <2>2. turns'[t].phase = "spawn" /\ turns'[t].obj = turns[t].obj
        /\ \A u \in Turns : u # t => turns'[u] = turns[u]
    BY <2>1, TurnEffect
  <2>3. objs' = [objs EXCEPT ![o].lock = TRUE,
                   ![o].conv = IF @ = Unread THEN file[objs[o].session] ELSE @]
    BY <1>4 DEF Ensure
  <2>4. /\ DOMAIN objs' = Objects /\ objs'[o].lock /\ objs'[o].session = objs[o].session
        /\ \A x \in Objects : x # o => objs'[x] = objs[x]
    BY <1>2, <2>3 DEF Objects, Object
  <2>5. OneTurn'
    BY <1>1, <2>2 DEF Locking, OneTurn, Working, Sending
  <2>6. Alone'
    <3>1. \A u \in Turns : Running(u) => turns[u].obj \in Objects
      BY DEF Sound, Points, Running, Sending
    <3>2. \A u \in Turns : Running(u)' => Running(u) /\ turns'[u].obj = turns[u].obj
      BY <1>1, <2>2 DEF Running, Sending
    <3> QED
      BY <2>4, <3>1, <3>2 DEF Locking, Alone, Running, Sending
  <2>7. LockHeld'
    BY <1>1, <2>2, <2>4 DEF Locking, LockHeld, Objects
  <2> QED
    BY <2>5, <2>6, <2>7 DEF Locking
<1> QED
  BY <1>3, <1>4

\* The turn that spawns stops spawning and its object's lock is released.
LEMMA UnlockLocking ==
    ASSUME Sound, Locking, NEW t \in Turns, NEW p \in {"ready", "ended"}, NEW o \in Objects,
           Running(t), turns[t].obj = o, objs[o].lock => turns[t].phase = "spawn",
           \/ turns' = [turns EXCEPT ![t].phase = p]
           \/ \E a \in Int : turns' = [turns EXCEPT ![t].phase = p, ![t].answer = a],
           p = "ready" => turns[t].phase = "spawn",
           DOMAIN objs' = Objects, ~objs'[o].lock, objs'[o].session = objs[o].session,
           \A x \in Objects : x # o => objs'[x] = objs[x]
    PROVE  Locking'
<1>1. p \in Phases
  BY DEF Phases
<1>2. turns'[t].phase = p /\ turns'[t].obj = turns[t].obj
      /\ \A u \in Turns : u # t => turns'[u] = turns[u]
  BY <1>1, TurnEffect
<1>3. \A u \in Turns : /\ turns'[u].obj = turns[u].obj
                       /\ Running(u)' => Running(u)
                       /\ Working(u)' => Working(u)
  BY <1>2 DEF Running, Working, Sending
<1>4. \A u \in Turns : Running(u) => turns[u].obj \in Objects
  BY DEF Sound, Points, Running, Sending
<1>5. OneTurn'
  BY <1>3 DEF Locking, OneTurn, Working, Sending
<1>6. Alone'
  BY <1>3, <1>4 DEF Locking, Alone, Running, Sending
<1>7. LockHeld'
  <2>1. \A u \in Turns : turns[u].phase = "spawn" /\ turns[u].obj = o => u = t
    BY DEF Locking, LockHeld, OneTurn, Working, Sending
  <2>2. \A u \in Turns : turns'[u].phase = "spawn" <=> turns[u].phase = "spawn" /\ u # t
    BY <1>2
  <2>3. \A x \in Objects : x # o =>
           (objs[x].lock <=> \E u \in Turns : turns[u].obj = x /\ turns[u].phase = "spawn")
    BY DEF Locking, LockHeld
  <2> QED
    BY <1>3, <2>1, <2>2, <2>3 DEF LockHeld, Objects
<1> QED
  BY <1>5, <1>6, <1>7 DEF Locking

LEMMA SpawnEndsLocking ==
    ASSUME Sound, Locking, NEW t \in Turns, SpawnEnds(t) \/ SpawnFails(t)
    PROVE  Locking'
<1> DEFINE o == turns[t].obj
<1>1. turns[t].phase = "spawn" /\ Shapes
  BY DEF SpawnEnds, SpawnFails, Sound
<1>2. o \in Objects /\ objs[o] \in Object /\ Running(t)
  BY <1>1, OnObject DEF Running, Sending
<1>3. CASE SpawnEnds(t)
  <2>1. PICK resumed \in BOOLEAN : Spawned(o, resumed, TRUE)
    BY <1>2, <1>3 DEF SpawnEnds, Object
  <2>2. /\ DOMAIN objs' = Objects /\ \A x \in Objects : x # o => objs'[x] = objs[x]
        /\ objs'[o].session = objs[o].session /\ objs'[o].lock = (objs[o].lock /\ ~TRUE)
    BY <1>1, <1>2, <2>1, SpawnedEffect
  <2>3. turns' = [turns EXCEPT ![t].phase = "ready"]
    BY <1>3 DEF SpawnEnds
  <2> QED
    BY <1>1, <1>2, <2>2, <2>3, UnlockLocking
<1>4. CASE SpawnFails(t)
  <2>1. /\ turns' = [turns EXCEPT ![t].phase = "ended", ![t].answer = Failed] /\ Failed \in Int
        /\ objs' = [objs EXCEPT ![o].lock = FALSE, ![o].force = FALSE]
    BY <1>4 DEF SpawnFails, Failed
  <2>2. /\ DOMAIN objs' = Objects /\ \A x \in Objects : x # o => objs'[x] = objs[x]
        /\ objs'[o].session = objs[o].session /\ ~objs'[o].lock
    BY <1>2, <2>1 DEF Objects, Object
  <2>3. \E a \in Int : turns' = [turns EXCEPT ![t].phase = "ended", ![t].answer = a]
    BY <2>1
  <2> QED
    BY <1>1, <1>2, <2>2, <2>3, UnlockLocking
<1> QED
  BY <1>3, <1>4

LEMMA CancelLocking ==
    ASSUME Sound, Locking, NEW t \in Turns, Cancel(t)
    PROVE  Locking'
<1> DEFINE o == turns[t].obj
<1>1. /\ Running(t) /\ (objs[o].lock => turns[t].phase = "spawn") /\ Shapes
      /\ turns' = [turns EXCEPT ![t].phase = "ended", ![t].answer = Failed] /\ Failed \in Int
      /\ Replaced(o, objs[o].conv)
  BY DEF Cancel, CancelRestarts, Failed, Sound
<1>2. o \in Objects /\ objs[o].conv \in Int
  BY <1>1, OnObject DEF Object, Running, Sending
<1>3. /\ DOMAIN objs' = Objects /\ \A x \in Objects : x # o => objs'[x] = objs[x]
      /\ objs'[o].session = objs[o].session /\ ~objs'[o].lock
  BY <1>1, <1>2, ReplacedEffect
<1> QED
  BY <1>1, <1>2, <1>3, UnlockLocking

\* A process is replaced only when nobody holds the lock of its object.
LEMMA ReplacedLocks ==
    ASSUME Sound, NEW o \in Objects, NEW conv \in Int, Replaced(o, conv), ~objs[o].lock
    PROVE  LocksQuiet
<1>1. Shapes
  BY DEF Sound
<1>2. /\ DOMAIN objs' = Objects /\ \A x \in Objects : x # o => objs'[x] = objs[x]
      /\ objs'[o].session = objs[o].session /\ ~objs'[o].lock
  BY <1>1, ReplacedEffect
<1> QED
  BY <1>2 DEF LocksQuiet

LEMMA TurnLocking ==
    ASSUME Sound, Locking, NEW t \in Turns, Send(t) \/ Silence(t) \/ TurnEnds(t)
    PROVE  Locking'
<1> DEFINE o == turns[t].obj
<1>1. Failed \in Int
  BY DEF Failed
<1>2. CASE Send(t)
  <2>1. turns[t].phase \in {"ready", "send"}
    BY <1>2 DEF Send
  <2>2. o \in Objects /\ objs[o] \in Object
    BY <2>1, OnObject
  <2>3. \E p \in {"ready", "ack", "send", "wait", "answered", "ended"} :
           \/ turns' = [turns EXCEPT ![t].phase = p]
           \/ \E a \in Int : turns' = [turns EXCEPT ![t].phase = p, ![t].answer = a]
    <3>1. CASE Alive(o)
      <4>1. turns' = [turns EXCEPT ![t].phase =
                        IF turns[t].phase = "ready" /\ NeedsContext(o) THEN "ack" ELSE "wait"]
        BY <1>2, <3>1 DEF Send
      <4> QED
        BY <4>1
    <3>2. CASE ~Alive(o)
      BY <1>1, <1>2, <3>2 DEF Send
    <3> QED
      BY <3>1, <3>2
  <2>4. TurnsQuiet
    BY <2>1, <2>3, TurnQuiet DEF Sending
  <2>5. LocksQuiet
    <3>1. CASE Alive(o)
      <4>1. objs' = [objs EXCEPT ![o].ctx = @ \/ (turns[t].phase = "ready" /\ NeedsContext(o))]
        BY <1>2, <3>1 DEF Send
      <4> QED
        BY <2>2, <4>1 DEF LocksQuiet, Objects, Object
    <3>2. CASE ~Alive(o)
      BY <1>2, <3>2 DEF Send, LocksQuiet, Objects
    <3> QED
      BY <3>1, <3>2
  <2> QED
    BY <2>4, <2>5, QuietLocking
<1>3. CASE Silence(t)
  <2>1. turns[t].phase \in {"ack", "wait"} /\ objs' = objs
        /\ \/ turns' = [turns EXCEPT ![t].phase = "send"]
           \/ turns' = [turns EXCEPT ![t].phase = "answered", ![t].answer = Failed]
    BY <1>3 DEF Silence, GivesUp
  <2>2. TurnsQuiet
    BY <1>1, <2>1, TurnQuiet DEF Sending
  <2> QED
    BY <1>1, <2>1, <2>2, HeardQuiet, QuietLocking
<1>4. CASE TurnEnds(t)
  <2>1. turns[t].phase = "answered" /\ objs' = objs /\ turns' = [turns EXCEPT ![t].phase = "ended"]
        /\ "ended" \in Phases
    BY <1>4 DEF TurnEnds, Phases
  <2>2. turns'[t].phase = "ended" /\ turns'[t].obj = turns[t].obj
        /\ \A u \in Turns : u # t => turns'[u] = turns[u]
    BY <2>1, TurnEffect
  <2>3. TurnsQuiet
    BY <2>1, <2>2 DEF TurnsQuiet, Running, Working, Sending
  <2> QED
    BY <1>1, <2>1, <2>3, HeardQuiet, QuietLocking
<1> QED
  BY <1>2, <1>3, <1>4

LEMMA InstLocking ==
    ASSUME Sound, Locking, NEW i \in Insts, Answers(i) \/ ReaderEnds(i) \/ Dies(i) \/ Hangs(i)
    PROVE  Locking'
<1> DEFINE o == insts[i].obj
<1>1. o \in Objects /\ objs[o] \in Object /\ insts[i] \in Inst /\ Failed \in Int
  BY Elements DEF Sound, Points, Failed
<1>2. CASE Answers(i)
  <2>1. insts[i].input # <<>> /\ insts[i].input \in Seq(Int)
    BY <1>1, <1>2 DEF Answers, Inst
  <2>2. Head(insts[i].input) \in Int
    BY <2>1, HeadTailProperties
  <2>3. turns' = Heard(o, Head(insts[i].input)) /\ objs' = [objs EXCEPT ![o].conv = insts[i].conv]
    BY <1>2 DEF Answers
  <2>4. TurnsQuiet
    BY <2>2, <2>3, HeardQuiet
  <2>5. LocksQuiet
    BY <1>1, <2>3 DEF LocksQuiet, Objects, Object
  <2> QED
    BY <2>4, <2>5, QuietLocking
<1>3. CASE ReaderEnds(i)
  <2>1. PICK recovered \in BOOLEAN :
           /\ turns' = IF recovered THEN turns ELSE Heard(o, Failed)
           /\ objs' = [objs EXCEPT ![o].proc = 0, ![o].force = @ \/ recovered,
                                   ![o].ctx = @ /\ ~recovered]
    BY <1>3 DEF ReaderEnds
  <2>2. TurnsQuiet
    BY <1>1, <2>1, HeardQuiet
  <2>3. LocksQuiet
    BY <1>1, <2>1 DEF LocksQuiet, Objects, Object
  <2> QED
    BY <2>2, <2>3, QuietLocking
<1>4. CASE Dies(i) \/ Hangs(i)
  <2>1. turns' = turns /\ objs' = objs
    BY <1>4 DEF Dies, Hangs
  <2> QED
    BY <1>1, <2>1, HeardQuiet, QuietLocking
<1> QED
  BY <1>2, <1>3, <1>4

LEMMA ObjectLocking ==
    ASSUME Sound, Locking, NEW o \in Objects, Kill(o) \/ Respawn(o)
    PROVE  Locking'
<1>1. objs[o] \in Object /\ Failed \in Int /\ Shapes
  BY Elements DEF Sound, Failed
<1>2. CASE Kill(o)
  <2>1. Told(o) /\ objs' = [objs EXCEPT ![o].proc = 0]
    BY <1>2 DEF Kill
  <2>2. LocksQuiet
    BY <1>1, <2>1 DEF LocksQuiet, Objects, Object
  <2> QED
    BY <1>1, <2>1, <2>2, HeardQuiet, QuietLocking
<1>3. CASE Respawn(o)
  <2>1. Spawned(o, FALSE, FALSE) /\ turns' = turns
    BY <1>3 DEF Respawn
  <2>2. /\ DOMAIN objs' = Objects /\ \A x \in Objects : x # o => objs'[x] = objs[x]
        /\ objs'[o].session = objs[o].session /\ objs'[o].lock = (objs[o].lock /\ ~FALSE)
    BY <1>1, <2>1, SpawnedEffect
  <2>3. objs[o].lock \in BOOLEAN
    BY <1>1 DEF Object
  <2>4. LocksQuiet
    BY <2>2, <2>3 DEF LocksQuiet
  <2> QED
    BY <1>1, <2>1, <2>4, HeardQuiet, QuietLocking
<1> QED
  BY <1>2, <1>3

LEMMA SessionLocking ==
    ASSUME Sound, Locking, NEW s \in Sessions,
           KillSession(s) \/ Restart(s) \/ Recycle(s) \/ Compact(s)
    PROVE  Locking'
<1> DEFINE o == pool[s]
<1>1. o \in Objects /\ objs[o] \in Object /\ Failed \in Int
  BY OfSession DEF KillSession, Restart, Recycle, Compact, Failed
<1>2. CASE KillSession(s)
  <2>1. turns' = turns /\ objs' = objs
    BY <1>2 DEF KillSession
  <2> QED
    BY <1>1, <2>1, HeardQuiet, QuietLocking
<1>3. CASE Restart(s) \/ Compact(s)
  <2>1. objs[o].conv \in Int /\ Unread \in Int
    BY <1>1 DEF Object, Unread
  <2>2. PICK conv \in Int : Replaced(o, conv)
    BY <1>3, <2>1 DEF Restart, Compact
  <2>3. ~objs[o].lock /\ Told(o)
    BY <1>3 DEF Restart, Compact
  <2>4. LocksQuiet
    BY <1>1, <2>2, <2>3, ReplacedLocks
  <2> QED
    BY <1>1, <2>3, <2>4, HeardQuiet, QuietLocking
<1>4. CASE Recycle(s)
  <2>1. turns' = turns /\ objs' = [objs EXCEPT ![o].proc = 0, ![o].ctx = FALSE, ![o].force = TRUE]
    BY <1>4 DEF Recycle
  <2>2. LocksQuiet
    BY <1>1, <2>1 DEF LocksQuiet, Objects, Object
  <2> QED
    BY <1>1, <2>1, <2>2, HeardQuiet, QuietLocking
<1> QED
  BY <1>2, <1>3, <1>4

LEMMA InitLocking ==
    ASSUME Init
    PROVE  Locking
<1>1. Objects = {} /\ \A t \in Turns : turns[t].phase = "new"
  BY DEF Init, Objects
<1> QED
  BY <1>1 DEF Locking, OneTurn, Alone, LockHeld, Working, Running, Sending

LEMMA LockingStep ==
    ASSUME Sound, Locking, [Next]_vars
    PROVE  Locking'
<1>1. CASE \E t \in Turns, s \in Sessions : Message(t, s)
  BY <1>1, MessageLocking
<1>2. CASE Progress
  <2>1. CASE \E t \in Turns : Pending(t)
    BY <2>1, TakesLockLocking, EnsureLocking, SpawnEndsLocking, TurnLocking DEF Pending
  <2>2. CASE \E i \in Insts : Answers(i) \/ ReaderEnds(i)
    BY <2>2, InstLocking
  <2>3. CASE \E o \in Objects : Kill(o) \/ Respawn(o)
    BY <2>3, ObjectLocking
  <2> QED
    BY <1>2, <2>1, <2>2, <2>3 DEF Progress
<1>3. CASE Interferes
  <2>1. CASE \E t \in Turns : SpawnFails(t) \/ Inject(t) \/ Cancel(t)
    <3>1. ASSUME NEW t \in Turns, Inject(t)
          PROVE  Locking'
      <4>1. turns' = turns /\ objs' = objs /\ Failed \in Int
        BY <3>1 DEF Inject, Failed
      <4> QED
        BY <4>1, HeardQuiet, QuietLocking
    <3> QED
      BY <2>1, <3>1, SpawnEndsLocking, CancelLocking
  <2>2. CASE \E i \in Insts : Dies(i) \/ Hangs(i)
    BY <2>2, InstLocking
  <2>3. CASE \E s \in Sessions : KillSession(s) \/ Restart(s) \/ Recycle(s) \/ Compact(s)
    BY <2>3, SessionLocking
  <2> QED
    BY <1>3, <2>1, <2>2, <2>3 DEF Interferes
<1>4. CASE UNCHANGED vars
  BY <1>4 DEF vars, Locking, OneTurn, Alone, LockHeld, Working, Running, Sending, Objects
<1> QED
  BY <1>1, <1>2, <1>3, <1>4 DEF Next

----------------------------------------------------------------------------
(* The pool's cap.                                                         *)

LEMMA MessageBounded ==
    ASSUME Sound, Bounded, NEW t \in Turns, NEW s \in Sessions, Message(t, s)
    PROVE  Bounded'
<1>1. CASE GetOrCreate(s) = {}
  BY <1>1 DEF Message, Bounded, Pooled
<1>2. ASSUME NEW got \in GetOrCreate(s), Obtained(s, got)
      PROVE  Bounded'
  <2>1. /\ got.obj \in Nat \ {0}
        /\ \A r \in Sessions : pool'[r] = IF r \in got.evicted THEN 0
                                          ELSE IF r = s THEN got.obj ELSE pool[r]
        /\ got.evicted \subseteq Pooled /\ s \notin got.evicted
    BY <1>2, ObtainedEffect, ZenonT(40)
  <2>2. Pooled' = (Pooled \ got.evicted) \cup {s}
    BY <2>1 DEF Pooled
  <2>3. IsFiniteSet(Pooled) /\ Cardinality(Pooled) \in Nat /\ Cardinality(Pooled) <= Cap
    BY FS_CardinalityType DEF Bounded
  <2>4. Cap \in Nat
    BY CapAssumption
  <2>5. CASE pool[s] # 0 /\ got.evicted = {}
    BY <2>2, <2>3, <2>5 DEF Pooled, Bounded
  <2>6. CASE got.evicted = {} /\ Cardinality(Pooled) < Cap
    <3>1. /\ IsFiniteSet(Pooled \cup {s})
          /\ Cardinality(Pooled \cup {s}) \in {Cardinality(Pooled), Cardinality(Pooled) + 1}
      BY <2>3, FS_AddElement
    <3>2. Pooled' = Pooled \cup {s}
      BY <2>2, <2>6
    <3> QED
      BY <2>3, <2>4, <2>6, <3>1, <3>2 DEF Bounded
  <2>7. ASSUME NEW e \in Evictable, got.evicted = {e}
        PROVE  Bounded'
    <3>1. e \in Pooled
      BY <2>7 DEF Evictable
    <3>2. IsFiniteSet(Pooled \ {e}) /\ Cardinality(Pooled \ {e}) = Cardinality(Pooled) - 1
      BY <2>3, <3>1, FS_RemoveElement
    <3>3. /\ IsFiniteSet((Pooled \ {e}) \cup {s})
          /\ Cardinality((Pooled \ {e}) \cup {s})
                 \in {Cardinality(Pooled \ {e}), Cardinality(Pooled \ {e}) + 1}
      BY <3>2, FS_AddElement
    <3>4. Pooled' = (Pooled \ {e}) \cup {s}
      BY <2>2, <2>7
    <3> QED
      BY <2>3, <2>4, <3>2, <3>3, <3>4 DEF Bounded
  <2> QED
    BY <2>5, <2>6, <2>7, Got
<1> QED
  BY <1>1, <1>2 DEF Message

LEMMA BoundedStep ==
    ASSUME Sound, Bounded, [Next]_vars
    PROVE  Bounded'
<1>1. CASE \E t \in Turns, s \in Sessions : Message(t, s)
  BY <1>1, MessageBounded
<1>2. ASSUME NEW s \in Sessions, KillSession(s)
      PROVE  Bounded'
  <2>1. s \in Pooled /\ Pooled' = Pooled \ {s}
    BY <1>2 DEF KillSession, Pooled, Sound, Shapes
  <2>2. IsFiniteSet(Pooled) /\ Cardinality(Pooled) \in Nat /\ Cardinality(Pooled) <= Cap /\ Cap \in Nat
    BY FS_CardinalityType, CapAssumption DEF Bounded
  <2>3. IsFiniteSet(Pooled \ {s}) /\ Cardinality(Pooled \ {s}) = Cardinality(Pooled) - 1
    BY <2>1, <2>2, FS_RemoveElement
  <2> QED
    BY <2>1, <2>2, <2>3 DEF Bounded
<1>3. CASE UNCHANGED pool
  BY <1>3 DEF Bounded, Pooled
<1>4. CASE Progress
  <2>1. UNCHANGED pool
    BY <1>4 DEF Progress, Pending, TakesLock, Ensure, SpawnEnds, Send, Silence, TurnEnds, Answers,
                ReaderEnds, Kill, Respawn
  <2> QED
    BY <1>3, <2>1
<1>5. CASE Interferes
  <2>1. UNCHANGED pool \/ \E s \in Sessions : KillSession(s)
    BY <1>5 DEF Interferes, SpawnFails, Inject, Cancel, Dies, Hangs, Restart, Recycle, Compact
  <2> QED
    BY <1>2, <1>3, <2>1
<1> QED
  BY <1>1, <1>3, <1>4, <1>5 DEF Next, vars

LEMMA Typed ==
    ASSUME Sound, Locking, Bounded
    PROVE  TypeOK
<1>1. \A t \in Turns : turns[t].phase \in Phases /\ turns[t].obj \in Objects \cup {0}
  BY DEF Sound, Shapes, Points, Turn
<1>2. ASSUME NEW o \in Objects
      PROVE  Cardinality({t \in Turns : turns[t].obj = o /\ Working(t)}) <= 1
  <2> DEFINE W == {t \in Turns : turns[t].obj = o /\ Working(t)}
  <2>1. \A t, u \in W : t = u
    BY DEF Locking, OneTurn
  <2> HIDE DEF W
  <2>2. W = {} \/ \E t \in W : W = {t}
    BY <2>1
  <2>3. Cardinality({}) = 0 /\ \A t : Cardinality({t}) = 1
    BY FS_EmptySet, FS_Singleton
  <2>4. Cardinality(W) <= 1
    BY <2>2, <2>3, SMTT(30)
  <2> QED
    BY <2>4 DEF W
<1> QED
  BY <1>1, <1>2 DEF TypeOK, Sound, Points, Locking, LockHeld, Bounded

\* The pool never holds more than its cap, every entry is the session's own, every number
\* stands for an object or a subprocess that exists, an object's lock is held by the turn that
\* spawns for it and chat_lock by one turn (get_or_create, ensure_running, send_message).
THEOREM TypesOK == Spec => []TypeOK
<1>1. Init => Sound /\ Locking /\ Bounded
  <2>1. Init => Pooled = {}
    BY DEF Init, Pooled
  <2>2. Init => Bounded
    BY <2>1, FS_EmptySet, CapAssumption DEF Bounded
  <2> QED
    BY <2>2, InitSound, InitLocking
<1>2. Sound /\ Locking /\ Bounded /\ [Next]_vars => (Sound /\ Locking /\ Bounded)'
  BY SoundStep, LockingStep, BoundedStep
<1>3. Sound /\ Locking /\ Bounded => TypeOK
  BY Typed
<1> QED
  BY <1>1, <1>2, <1>3, PTL DEF Spec

----------------------------------------------------------------------------
(* One process per object, when nothing is injected and no two starts of a *)
(* process overlap: whatever is alive is the object's process and its read *)
(* loop reads.                                                             *)

NoTalk == features \cap {"inject", "overlap"} = {}

Procs ==
    /\ \A i \in Insts : /\ insts[i].alive => objs[insts[i].obj].proc = i /\ insts[i].reader = "reading"
                        /\ ~insts[i].alive => insts[i].input = <<>>
    /\ \A o \in Objects : /\ objs[o].proc # 0 => /\ insts[objs[o].proc].obj = o
                                                 /\ \A j \in Insts : insts[j].obj = o => j <= objs[o].proc
                          /\ objs[o].lock => ~Alive(o)
                          /\ ~objs[o].respawn

LEMMA Greatest ==
    ASSUME NEW N \in Nat, NEW S \in SUBSET (0 .. N), S # {}
    PROVE  Max(S) \in S /\ \A y \in S : Max(S) >= y
<1> DEFINE C == {N - x : x \in S}
<1>1. C \in SUBSET Nat /\ C # {}
  <2>1. \A x \in S : N - x \in Nat
    OBVIOUS
  <2> QED
    BY <2>1
<1>2. \E c \in C : \A d \in C : c <= d
  <2> DEFINE R == OpToRel(<, Nat)
  <2>1. IsWellFoundedOn(R, Nat)
    BY NatLessThanWellFounded
  <2>2. \A x, y \in Nat : y < x => <<y, x>> \in R
    BY DEF OpToRel
  <2> HIDE DEF R, C
  <2>3. PICK x \in C : \A y \in C : ~(<<y, x>> \in R)
    BY <1>1, <2>1, WFMin
  <2>4. x \in Nat /\ \A y \in C : y \in Nat /\ ~(y < x)
    BY <1>1, <2>2, <2>3
  <2> QED
    BY <2>4
<1>3. PICK x \in S : \A y \in S : N - x <= N - y
  BY <1>2
<1>4. \A y \in S : x >= y
  BY <1>3
<1> QED
  BY <1>4 DEF Max

\* The newest subprocess of an object is its own.
LEMMA NewestOf ==
    ASSUME Sound, NEW o
    PROVE  /\ Newest(o) \in Insts \cup {0}
           /\ \A j \in Insts : /\ j = Newest(o) => insts[j].obj = o
                               /\ insts[j].obj = o => j <= Newest(o)
<1> DEFINE S == {i \in Insts : insts[i].obj = o} \cup {0}
<1>1. Insts = 1..Len(insts) /\ Len(insts) \in Nat
  BY Elements DEF Sound
<1>2. S \in SUBSET (0 .. Len(insts)) /\ S # {}
  BY <1>1
<1>3. Newest(o) = Max(S)
  BY DEF Newest
<1>4. \A j \in Insts : insts[j].obj = o <=> j \in S
  BY <1>1
<1>5. 0 \notin Insts
  BY <1>1
<1> HIDE DEF S
<1>6. Max(S) \in S /\ \A y \in S : Max(S) >= y
  BY <1>1, <1>2, Greatest
<1>7. Max(S) \in 0 .. Len(insts) /\ S \subseteq 0 .. Len(insts)
  BY <1>2, <1>6
<1>8. \A y \in S : y <= Max(S)
  BY <1>1, <1>6, <1>7
<1>9. Max(S) \in Insts \cup {0}
  BY <1>1, <1>7
<1> QED
  BY <1>3, <1>4, <1>6, <1>8, <1>9

\* After a kill nothing of the object is alive, and nothing else has changed.
LEMMA EndedAll ==
    ASSUME Sound, Procs, NEW o \in Objects
    PROVE  \A j \in Insts :
               /\ insts[j].obj = o => ~Ended(o)[j].alive /\ Ended(o)[j].input = <<>>
               /\ insts[j].obj # o => Ended(o)[j] = insts[j]
<1>1. Shapes /\ Insts \subseteq Nat \ {0} /\ \A j \in Insts : insts[j].obj \in Objects
  BY Elements DEF Sound, Points
<1> SUFFICES ASSUME NEW j \in Insts
             PROVE  /\ insts[j].obj = o => ~Ended(o)[j].alive /\ Ended(o)[j].input = <<>>
                    /\ insts[j].obj # o => Ended(o)[j] = insts[j]
  OBVIOUS
<1>2. \/ Ended(o)[j] = insts[j] /\ j # Newest(o)
      \/ j = Newest(o) /\ ~Ended(o)[j].alive /\ Ended(o)[j].input = <<>>
  BY <1>1, EndedInsts
<1>3. j = Newest(o) => insts[j].obj = o
  BY NewestOf
<1>4. insts[j].alive /\ insts[j].obj = o => j = Newest(o)
  <2> SUFFICES ASSUME insts[j].alive, insts[j].obj = o
               PROVE  j = Newest(o)
    OBVIOUS
  <2>1. j = objs[o].proc /\ \A k \in Insts : insts[k].obj = o => k <= j
    BY <1>1 DEF Procs
  <2> DEFINE n == Newest(o)
  <2>2. j <= n /\ n \in Insts \cup {0} /\ (n \in Insts => insts[n].obj = o)
    BY NewestOf
  <2> HIDE DEF n
  <2>3. j \in Nat /\ j > 0 /\ n \in Nat
    BY <1>1, <2>2
  <2>4. n \in Insts
    BY <2>2, <2>3
  <2>5. n <= j
    BY <2>1, <2>2, <2>4
  <2>6. j = n
    BY <2>2, <2>3, <2>5
  <2> QED
    BY <2>6 DEF n
<1> QED
  BY <1>2, <1>3, <1>4 DEF Procs

\* What is alive stays the object's process, or the object has no process.
ProcsQuiet ==
    /\ DOMAIN objs' = Objects /\ Insts' = Insts
    /\ \A i \in Insts :
         /\ insts'[i].obj = insts[i].obj
         /\ insts'[i].alive => insts[i].alive /\ insts'[i].reader = "reading"
         /\ ~insts'[i].alive => insts'[i].input = <<>>
    /\ \A o \in Objects :
         /\ \/ objs'[o].proc = objs[o].proc
            \/ objs'[o].proc = 0 /\ \A i \in Insts : insts[i].obj = o => ~insts'[i].alive
         /\ objs'[o].lock => objs[o].lock \/ ~Alive(o)
         /\ ~objs'[o].respawn

LEMMA QuietProcs ==
    ASSUME Sound, Procs, ProcsQuiet
    PROVE  Procs'
<1>1. \A i \in Insts : insts[i].obj \in Objects
  BY DEF Sound, Points
<1>2. \A o \in Objects : objs[o].proc \in Insts \cup {0}
  BY DEF Sound, Points
<1>3. \A i \in Insts : /\ insts'[i].alive => objs'[insts'[i].obj].proc = i /\ insts'[i].reader = "reading"
                       /\ ~insts'[i].alive => insts'[i].input = <<>>
  BY <1>1 DEF Procs, ProcsQuiet
<1>4. \A o \in Objects : objs'[o].proc # 0 =>
           /\ insts'[objs'[o].proc].obj = o
           /\ \A j \in Insts : insts'[j].obj = o => j <= objs'[o].proc
  BY <1>2 DEF Procs, ProcsQuiet
<1>5. \A o \in Objects : objs'[o].lock => ~Alive(o)'
  BY <1>2 DEF Procs, ProcsQuiet, Alive
<1>6. \A o \in Objects : ~objs'[o].respawn
  BY DEF ProcsQuiet
<1> QED
  BY <1>3, <1>4, <1>5, <1>6 DEF Procs, ProcsQuiet, Objects, Insts

\* One more subprocess, which is its object's process; what the object had is dead.
ProcsBorn(o) ==
    /\ DOMAIN objs' = Objects /\ Insts' = Insts \cup {NewKid} /\ NewKid \notin Insts /\ NewKid \in Nat \ {0}
    /\ \A i \in Insts :
         /\ insts[i].obj = o => ~insts'[i].alive /\ insts'[i].input = <<>> /\ insts'[i].obj = o
         /\ insts[i].obj # o => insts'[i] = insts[i]
    /\ insts'[NewKid].obj = o /\ insts'[NewKid].alive /\ insts'[NewKid].reader = "reading"
    /\ \A x \in Objects : x # o => objs'[x] = objs[x]
    /\ objs'[o].proc = NewKid /\ ~objs'[o].lock /\ ~objs'[o].respawn

LEMMA BornProcs ==
    ASSUME Sound, Procs, NEW o \in Objects, ProcsBorn(o)
    PROVE  Procs'
<1>1. /\ \A i \in Insts : insts[i].obj \in Objects
      /\ \A x \in Objects : objs[x].proc \in Insts \cup {0}
      /\ Insts \subseteq Nat \ {0} /\ \A i \in Insts : i <= NewKid
  BY Elements DEF Sound, Points, NewKid
<1>2. \A i \in Insts' : /\ insts'[i].alive => objs'[insts'[i].obj].proc = i /\ insts'[i].reader = "reading"
                        /\ ~insts'[i].alive => insts'[i].input = <<>>
  BY <1>1 DEF Procs, ProcsBorn
<1>3. \A x \in Objects : objs'[x].proc # 0 =>
           /\ insts'[objs'[x].proc].obj = x
           /\ \A j \in Insts' : insts'[j].obj = x => j <= objs'[x].proc
  <2>1. insts'[NewKid].obj = o /\ \A j \in Insts' : j <= NewKid
    BY <1>1 DEF ProcsBorn
  <2>2. objs'[o].proc = NewKid /\ \A x \in Objects : x # o => objs'[x] = objs[x]
    BY DEF ProcsBorn
  <2> SUFFICES ASSUME NEW x \in Objects, NEW p, p = objs'[x].proc, p # 0
               PROVE  /\ insts'[p].obj = x
                      /\ \A j \in Insts' : insts'[j].obj = x => j <= p
    OBVIOUS
  <2>3. CASE x = o
    <3>1. p = NewKid
      BY <2>2, <2>3
    <3> QED
      BY <2>1, <2>3, <3>1
  <2>4. CASE x # o
    <3>1. p = objs[x].proc
      BY <2>2, <2>4
    <3>2. p \in Insts /\ insts[p].obj = x /\ \A j \in Insts : insts[j].obj = x => j <= p
      BY <1>1, <3>1 DEF Procs
    <3>3. insts'[p].obj = x
      BY <2>4, <3>2 DEF ProcsBorn
    <3>4. ASSUME NEW j \in Insts', insts'[j].obj = x
          PROVE  j \in Insts /\ insts[j].obj = x
      BY <2>4, <3>4 DEF ProcsBorn
    <3> QED
      BY <3>2, <3>3, <3>4
  <2> QED
    BY <2>3, <2>4
<1>4. \A x \in Objects : objs'[x].lock => ~Alive(x)'
  <2> SUFFICES ASSUME NEW x \in Objects, objs'[x].lock
               PROVE  ~Alive(x)'
    OBVIOUS
  <2>1. x # o /\ objs'[x] = objs[x] /\ ~Alive(x)
    BY DEF Procs, ProcsBorn
  <2> SUFFICES ASSUME NEW p, p = objs[x].proc, p # 0
               PROVE  ~insts'[p].alive
    BY <2>1 DEF Alive
  <2>2. p \in Insts /\ insts[p].obj = x /\ ~insts[p].alive
    BY <1>1, <2>1 DEF Procs, Alive
  <2> QED
    BY <2>1, <2>2 DEF ProcsBorn
<1>5. \A x \in Objects : ~objs'[x].respawn
  BY DEF Procs, ProcsBorn
<1> QED
  BY <1>2, <1>3, <1>4, <1>5 DEF Procs, ProcsBorn, Objects, Insts

LEMMA ReplacedProcs ==
    ASSUME Sound, Procs, NoTalk, NEW o \in Objects, NEW conv \in Int, Replaced(o, conv)
    PROVE  ProcsBorn(o)
<1>1. Shapes /\ "overlap" \notin features
  BY DEF Sound, NoTalk
<1>2. /\ NewKid \notin Insts /\ NewKid \in Nat \ {0} /\ DOMAIN insts' = Insts \cup {NewKid}
      /\ \A j \in Insts : insts'[j] = Ended(o)[j]
      /\ insts'[NewKid].obj = o /\ insts'[NewKid].alive /\ insts'[NewKid].reader = "reading"
      /\ DOMAIN objs' = Objects /\ \A x \in Objects : x # o => objs'[x] = objs[x]
      /\ ~objs'[o].lock /\ objs'[o].proc = NewKid /\ ~objs'[o].respawn
  BY <1>1, ReplacedEffect
<1>3. \A j \in Insts : Ended(o)[j].obj = insts[j].obj
  BY <1>1, EndedInsts
<1> QED
  BY <1>2, <1>3, EndedAll DEF ProcsBorn, Insts

LEMMA SpawnEndsProcs ==
    ASSUME Sound, Locking, Procs, NEW t \in Turns, SpawnEnds(t)
    PROVE  ProcsBorn(turns[t].obj)
<1> DEFINE o == turns[t].obj
<1>1. turns[t].phase = "spawn" /\ Shapes
  BY DEF SpawnEnds, Sound
<1>2. o \in Objects /\ objs[o] \in Object
  BY <1>1, OnObject
<1>3. objs[o].lock /\ ~Alive(o) /\ ~objs[o].respawn
  BY <1>1, <1>2 DEF Locking, LockHeld, Procs
<1>4. PICK resumed \in BOOLEAN : Spawned(o, resumed, TRUE)
  BY <1>2 DEF SpawnEnds, Object
<1>5. /\ DOMAIN insts' = Insts \cup {NewKid} /\ NewKid \notin Insts /\ NewKid \in Nat \ {0}
      /\ \A j \in Insts : insts'[j] = insts[j]
      /\ insts'[NewKid].obj = o /\ insts'[NewKid].alive /\ insts'[NewKid].reader = "reading"
      /\ DOMAIN objs' = Objects /\ \A x \in Objects : x # o => objs'[x] = objs[x]
      /\ objs'[o].proc = NewKid
      /\ objs'[o].lock = (objs[o].lock /\ ~TRUE) /\ objs'[o].respawn = (objs[o].respawn /\ TRUE)
  BY <1>1, <1>2, <1>4, SpawnedEffect
<1>6. \A j \in Insts : insts[j].obj = o => ~insts[j].alive /\ insts[j].input = <<>>
  BY <1>3, Elements DEF Procs, Alive, Sound
<1>7. ~objs'[o].lock /\ ~objs'[o].respawn
  BY <1>3, <1>5
<1>8. Insts' = Insts \cup {NewKid}
  BY <1>5 DEF Insts
<1>9. \A j \in Insts : /\ insts[j].obj = o => ~insts'[j].alive /\ insts'[j].input = <<>> /\ insts'[j].obj = o
                       /\ insts[j].obj # o => insts'[j] = insts[j]
  BY <1>5, <1>6
<1> QED
  BY <1>5, <1>7, <1>8, <1>9 DEF ProcsBorn

----------------------------------------------------------------------------
(* What a subprocess has to read, as long as nothing is injected: nothing, *)
(* the context of a turn that waits for its acknowledgement, or the message*)
(* of a turn that waits for its answer.                                    *)

Talk ==
    \A i \in Insts : insts[i].alive /\ ~insts[i].hung =>
        \/ insts[i].input = <<>>
        \/ insts[i].input = <<Ctx>> /\ \E t \in Turns : turns[t].obj = insts[i].obj /\ turns[t].phase = "ack"
        \/ \E t \in Turns : /\ insts[i].input = <<t>>
                            /\ turns[t].obj = insts[i].obj /\ turns[t].phase = "wait"

\* A turn that listens goes on listening.
Listens(o) ==
    \A t \in Turns : turns[t].obj = o /\ turns[t].phase \in {"ack", "wait"} =>
        turns'[t].obj = o /\ turns'[t].phase = turns[t].phase

\* What a subprocess has to read is as before, or gone.
TalkQuiet ==
    \A i \in Insts' : insts'[i].alive /\ ~insts'[i].hung =>
        \/ insts'[i].input = <<>>
        \/ /\ i \in Insts /\ insts[i].alive /\ ~insts[i].hung
           /\ insts'[i].input = insts[i].input /\ insts'[i].obj = insts[i].obj
           /\ Listens(insts[i].obj)

LEMMA QuietTalk ==
    ASSUME Sound, Talk, TalkQuiet
    PROVE  Talk'
<1> SUFFICES ASSUME NEW i \in Insts', insts'[i].alive, ~insts'[i].hung, insts'[i].input # <<>>
             PROVE  \/ /\ insts'[i].input = <<Ctx>>
                       /\ \E t \in Turns : turns'[t].obj = insts'[i].obj /\ turns'[t].phase = "ack"
                    \/ \E t \in Turns : /\ insts'[i].input = <<t>>
                                        /\ turns'[t].obj = insts'[i].obj /\ turns'[t].phase = "wait"
  BY DEF Talk
<1>1. /\ i \in Insts /\ insts[i].alive /\ ~insts[i].hung
      /\ insts'[i].input = insts[i].input /\ insts'[i].obj = insts[i].obj
      /\ Listens(insts[i].obj)
  BY DEF TalkQuiet
<1>2. CASE /\ insts[i].input = <<Ctx>>
           /\ \E t \in Turns : turns[t].obj = insts[i].obj /\ turns[t].phase = "ack"
  BY <1>1, <1>2 DEF Listens
<1>3. ASSUME NEW t \in Turns, insts[i].input = <<t>>, turns[t].obj = insts[i].obj, turns[t].phase = "wait"
      PROVE  \E u \in Turns : /\ insts'[i].input = <<u>>
                              /\ turns'[u].obj = insts'[i].obj /\ turns'[u].phase = "wait"
  BY <1>1, <1>3 DEF Listens
<1> QED
  BY <1>1, <1>2, <1>3 DEF Talk

Private == Procs /\ Talk

\* A step that leaves the subprocesses alone.
LEMMA SameInsts ==
    ASSUME Sound, Private, insts' = insts, \A o : Listens(o)
    PROVE  /\ Insts' = Insts /\ Talk'
           /\ \A i \in Insts :
                /\ insts'[i].obj = insts[i].obj
                /\ insts'[i].alive => insts[i].alive /\ insts'[i].reader = "reading"
                /\ ~insts'[i].alive => insts'[i].input = <<>>
<1>1. Insts' = Insts
  BY DEF Insts
<1>2. TalkQuiet
  BY DEF TalkQuiet, Insts
<1>3. Talk'
  BY <1>2, QuietTalk DEF Private
<1> QED
  BY <1>1, <1>3 DEF Private, Procs

\* Neither does it touch what objects say of processes and locks.
LEMMA SameObjects ==
    ASSUME Sound, Private, insts' = insts, \A o : Listens(o), DOMAIN objs' = Objects,
           \A o \in Objects : /\ objs'[o].proc = objs[o].proc
                              /\ objs'[o].lock => objs[o].lock \/ ~Alive(o)
                              /\ ~objs'[o].respawn
    PROVE  Private'
<1>1. ProcsQuiet /\ Talk'
  BY SameInsts DEF ProcsQuiet
<1> QED
  BY <1>1, QuietProcs DEF Private

\* One turn that does not listen, or stops doing so, leaves the others listening.
LEMMA OthersListen ==
    ASSUME Sound, NEW t \in Turns, NEW p \in Phases,
           \/ turns' = [turns EXCEPT ![t].phase = p]
           \/ \E a \in Int : turns' = [turns EXCEPT ![t].phase = p, ![t].answer = a]
    PROVE  /\ turns[t].phase \notin {"ack", "wait"} => \A o : Listens(o)
           /\ \A o : o # turns[t].obj => Listens(o)
<1>1. /\ turns'[t].phase = p /\ turns'[t].obj = turns[t].obj
      /\ \A u \in Turns : u # t => turns'[u] = turns[u]
  BY TurnEffect
<1> QED
  BY <1>1 DEF Listens

LEMMA MessagePrivate ==
    ASSUME Sound, Private, NEW t \in Turns, NEW s \in Sessions, Message(t, s)
    PROVE  Private'
<1>1. turns[t].phase = "new" /\ turns[t] \in Turn /\ turns \in [Turns -> Turn] /\ insts' = insts
  BY DEF Sound, Shapes, Message
<1>2. CASE GetOrCreate(s) = {}
  <2>1. /\ turns' = [turns EXCEPT ![t].phase = "ended", ![t].answer = Failed] /\ objs' = objs
        /\ "ended" \in Phases /\ Failed \in Int
    BY <1>2 DEF Message, Phases, Failed
  <2>2. \A o : Listens(o)
    BY <1>1, <2>1, OthersListen
  <2> QED
    BY <1>1, <2>1, <2>2, SameObjects DEF Private, Procs, Objects
<1>3. ASSUME NEW got \in GetOrCreate(s), Obtained(s, got),
             turns' = [turns EXCEPT ![t].obj = got.obj,
                         ![t].phase = IF Locked(got.obj) THEN "queued" ELSE "ensure"]
      PROVE  Private'
  <2>1. /\ DOMAIN objs' = Objects \cup {got.obj}
        /\ \A o \in Objects : objs'[o] = objs[o]
        /\ got.obj \notin Objects => objs'[got.obj] = NewObject(s)
    BY <1>3, ObtainedEffect
  <2>2. \A u \in Turns : u # t => turns'[u] = turns[u]
    BY <1>1, <1>3
  <2>3. \A o : Listens(o)
    BY <1>1, <2>2 DEF Listens
  <2>4. Talk'
    BY <1>1, <2>3, SameInsts
  <2>5. NewObject(s).proc = 0 /\ ~NewObject(s).lock /\ ~NewObject(s).respawn
    BY DEF NewObject
  <2>6. Insts' = Insts /\ \A i \in Insts : insts[i].obj \in Objects
    BY <1>1 DEF Sound, Points, Insts
  <2>7. \A i \in Insts' : /\ insts'[i].alive => objs'[insts'[i].obj].proc = i /\ insts'[i].reader = "reading"
                          /\ ~insts'[i].alive => insts'[i].input = <<>>
    BY <1>1, <2>1, <2>6 DEF Private, Procs
  <2>8. \A o \in Objects' :
            /\ objs'[o].proc # 0 => /\ insts'[objs'[o].proc].obj = o
                                    /\ \A j \in Insts' : insts'[j].obj = o => j <= objs'[o].proc
            /\ objs'[o].lock => ~Alive(o)'
            /\ ~objs'[o].respawn
    <3>1. ASSUME NEW o \in Objects, objs'[o] = objs[o]
          PROVE  /\ objs'[o].proc # 0 => /\ insts'[objs'[o].proc].obj = o
                                         /\ \A j \in Insts' : insts'[j].obj = o => j <= objs'[o].proc
                 /\ objs'[o].lock => ~Alive(o)'
                 /\ ~objs'[o].respawn
      BY <1>1, <2>6, <3>1 DEF Private, Procs, Alive
    <3>2. Objects' = Objects \cup {got.obj}
      BY <2>1 DEF Objects
    <3> QED
      BY <2>1, <2>5, <3>1, <3>2 DEF Alive
  <2>9. Procs'
    BY <2>7, <2>8 DEF Procs
  <2> QED
    BY <2>4, <2>9 DEF Private
<1> QED
  BY <1>2, <1>3 DEF Message

LEMMA EnsurePrivate ==
    ASSUME Sound, Private, NEW t \in Turns, TakesLock(t) \/ Ensure(t) \/ SpawnFails(t) \/ TurnEnds(t)
    PROVE  Private'
<1> DEFINE o == turns[t].obj
<1>1. insts' = insts /\ Failed \in Int
      /\ turns[t].phase \in {"queued", "ensure", "spawn", "answered"}
  BY DEF TakesLock, Ensure, SpawnFails, TurnEnds, Failed
<1>2. o \in Objects /\ objs[o] \in Object
  BY <1>1, OnObject
<1>3. \A x : Listens(x)
  <2>1. \E p \in Phases :
           \/ turns' = [turns EXCEPT ![t].phase = p]
           \/ \E a \in Int : turns' = [turns EXCEPT ![t].phase = p, ![t].answer = a]
    BY <1>1 DEF TakesLock, Ensure, SpawnFails, TurnEnds, Phases
  <2> QED
    BY <1>1, <2>1, OthersListen
<1>4. /\ DOMAIN objs' = Objects
      /\ \A x \in Objects : x # o => objs'[x] = objs[x]
      /\ objs'[o].proc = objs[o].proc
      /\ objs'[o].lock => objs[o].lock \/ ~Alive(o)
      /\ objs'[o].respawn => objs[o].respawn
  <2>1. CASE objs' = objs
    BY <1>2, <2>1 DEF Objects
  <2>2. CASE Ensure(t) /\ ~Alive(o)
    <3>1. objs' = [objs EXCEPT ![o].lock = TRUE,
                     ![o].conv = IF @ = Unread THEN file[objs[o].session] ELSE @]
      BY <2>2 DEF Ensure
    <3> QED
      BY <1>2, <2>2, <3>1 DEF Object, Objects
  <2>3. CASE SpawnFails(t)
    <3>1. objs' = [objs EXCEPT ![o].lock = FALSE, ![o].force = FALSE]
      BY <2>3 DEF SpawnFails
    <3> QED
      BY <1>2, <3>1 DEF Object, Objects
  <2> QED
    BY <2>1, <2>2, <2>3 DEF TakesLock, Ensure, TurnEnds
<1>5. \A x \in Objects : ~objs[x].respawn
  BY DEF Private, Procs
<1> QED
  BY <1>1, <1>3, <1>4, <1>5, SameObjects

\* A new subprocess has nothing to read, and turns of other objects go on listening.
LEMMA BornPrivate ==
    ASSUME Sound, Private, NEW o \in Objects, ProcsBorn(o), insts'[NewKid].input = <<>>,
           \A x : x # o => Listens(x)
    PROVE  Private'
<1>1. Procs'
  BY BornProcs DEF Private
<1>2. TalkQuiet
  <2> SUFFICES ASSUME NEW i \in Insts', insts'[i].alive, ~insts'[i].hung, insts'[i].input # <<>>
               PROVE  /\ i \in Insts /\ insts[i].alive /\ ~insts[i].hung
                      /\ insts'[i].input = insts[i].input /\ insts'[i].obj = insts[i].obj
                      /\ Listens(insts[i].obj)
    BY DEF TalkQuiet
  <2>1. i \in Insts /\ insts[i].obj # o
    BY DEF ProcsBorn
  <2> QED
    BY <2>1 DEF ProcsBorn
<1> QED
  BY <1>1, <1>2, QuietTalk DEF Private

LEMMA HeardListens ==
    ASSUME Sound, NEW o, NEW m \in Int
    PROVE  /\ turns' = Heard(o, m) => \A x : x # o => Listens(x)
           /\ Told(o) => \A x : x # o => Listens(x)
           /\ turns' = turns => \A x : Listens(x)
<1>1. Shapes
  BY DEF Sound
<1>2. ASSUME turns' = Heard(o, m), NEW x, x # o
      PROVE  Listens(x)
  BY <1>1, <1>2, HeardTurns DEF Listens
<1>3. ASSUME Told(o), NEW x, x # o
      PROVE  Listens(x)
  BY <1>1, <1>3, ToldTurns DEF Listens
<1>4. turns' = turns => \A x : Listens(x)
  BY DEF Listens
<1> QED
  BY <1>2, <1>3, <1>4

\* What ends leaves nothing to read, and turns of other objects go on listening.
LEMMA QuietPrivate ==
    ASSUME Sound, Private, ProcsQuiet, NEW o, \A x : x # o => Listens(x),
           \A i \in Insts : insts'[i].alive /\ ~insts'[i].hung =>
               /\ insts'[i].input = insts[i].input /\ ~insts[i].hung
               /\ insts[i].obj = o => insts'[i].input = <<>>
    PROVE  Private'
<1>1. Procs'
  BY QuietProcs DEF Private
<1>2. TalkQuiet
  BY DEF TalkQuiet, ProcsQuiet
<1> QED
  BY <1>1, <1>2, QuietTalk DEF Private

LEMMA SpawnEndsPrivate ==
    ASSUME Sound, Locking, Private, NEW t \in Turns, SpawnEnds(t)
    PROVE  Private'
<1> DEFINE o == turns[t].obj
<1>1. turns[t].phase = "spawn" /\ Shapes /\ turns' = [turns EXCEPT ![t].phase = "ready"] /\ "ready" \in Phases
  BY DEF SpawnEnds, Sound, Phases
<1>2. o \in Objects /\ objs[o] \in Object
  BY <1>1, OnObject
<1>3. PICK resumed \in BOOLEAN : Spawned(o, resumed, TRUE)
  BY <1>2 DEF SpawnEnds, Object
<1>4. insts'[NewKid].input = <<>>
  BY <1>1, <1>2, <1>3, SpawnedEffect
<1>5. ProcsBorn(o)
  BY SpawnEndsProcs DEF Private
<1>6. \A x : Listens(x)
  BY <1>1, OthersListen
<1> QED
  BY <1>2, <1>4, <1>5, <1>6, BornPrivate

LEMMA CancelPrivate ==
    ASSUME Sound, Private, NoTalk, NEW t \in Turns, Cancel(t)
    PROVE  Private'
<1> DEFINE o == turns[t].obj
<1>1. /\ turns[t].phase \notin {"new", "ended"} /\ Shapes
      /\ turns' = [turns EXCEPT ![t].phase = "ended", ![t].answer = Failed]
      /\ Replaced(o, objs[o].conv) /\ "ended" \in Phases /\ Failed \in Int
  BY DEF Cancel, CancelRestarts, Running, Sending, Phases, Failed, Sound
<1>2. o \in Objects /\ objs[o].conv \in Int /\ "overlap" \notin features
  BY <1>1, OnObject DEF Object, NoTalk
<1>3. insts'[NewKid].input = <<>>
  BY <1>1, <1>2, ReplacedEffect
<1>4. ProcsBorn(o)
  BY <1>1, <1>2, ReplacedProcs DEF Private
<1>5. \A x : x # o => Listens(x)
  BY <1>1, OthersListen
<1> QED
  BY <1>2, <1>3, <1>4, <1>5, BornPrivate

LEMMA RestartPrivate ==
    ASSUME Sound, Private, NoTalk, NEW s \in Sessions, Restart(s) \/ Compact(s)
    PROVE  Private'
<1> DEFINE o == pool[s]
<1>1. o # 0 /\ Told(o) /\ Shapes
  BY DEF Restart, Compact, Sound
<1>2. o \in Objects /\ objs[o].conv \in Int /\ Unread \in Int /\ Failed \in Int /\ "overlap" \notin features
  BY <1>1, OfSession DEF Object, Unread, Failed, NoTalk
<1>3. PICK conv \in Int : Replaced(o, conv)
  BY <1>2 DEF Restart, Compact
<1>4. insts'[NewKid].input = <<>>
  BY <1>1, <1>2, <1>3, ReplacedEffect
<1>5. ProcsBorn(o)
  BY <1>2, <1>3, ReplacedProcs DEF Private
<1>6. \A x : x # o => Listens(x)
  BY <1>1, <1>2, HeardListens
<1> QED
  BY <1>2, <1>4, <1>5, <1>6, BornPrivate

LEMMA KillPrivate ==
    ASSUME Sound, Private, NEW o \in Objects, Kill(o)
    PROVE  Private'
<1>1. /\ insts' = Ended(o) /\ Told(o) /\ objs' = [objs EXCEPT ![o].proc = 0] /\ Failed \in Int
  BY DEF Kill, Failed
<1>2. objs[o] \in Object
  BY Elements DEF Sound
<1>3. DOMAIN insts' = Insts /\ \A i \in Insts : insts'[i].obj = insts[i].obj
  BY <1>1, EndedInsts DEF Sound
<1>4. \A i \in Insts :
         /\ insts[i].obj = o => ~insts'[i].alive /\ insts'[i].input = <<>>
         /\ insts[i].obj # o => insts'[i] = insts[i]
  BY <1>1, EndedAll DEF Private
<1>5. /\ DOMAIN objs' = Objects /\ objs'[o].proc = 0 /\ objs'[o].lock = objs[o].lock
      /\ objs'[o].respawn = objs[o].respawn /\ \A x \in Objects : x # o => objs'[x] = objs[x]
  BY <1>1, <1>2 DEF Object, Objects
<1>6. ProcsQuiet
  <2>1. \A i \in Insts :
           /\ insts'[i].alive => insts[i].alive /\ insts'[i].reader = "reading"
           /\ ~insts'[i].alive => insts'[i].input = <<>>
    BY <1>4 DEF Private, Procs
  <2>2. \A x \in Objects :
           /\ \/ objs'[x].proc = objs[x].proc
              \/ objs'[x].proc = 0 /\ \A i \in Insts : insts[i].obj = x => ~insts'[i].alive
           /\ objs'[x].lock => objs[x].lock \/ ~Alive(x)
           /\ ~objs'[x].respawn
    BY <1>4, <1>5 DEF Private, Procs
  <2> QED
    BY <1>3, <1>5, <2>1, <2>2 DEF ProcsQuiet, Insts
<1>7. \A x : x # o => Listens(x)
  BY <1>1, HeardListens
<1>8. \A i \in Insts : insts'[i].alive => insts[i].obj # o /\ insts'[i] = insts[i]
  BY <1>4
<1> QED
  BY <1>6, <1>7, <1>8, QuietPrivate

LEMMA ReaderEndsPrivate ==
    ASSUME Sound, Private, NEW i \in Insts, ReaderEnds(i)
    PROVE  Private'
<1> DEFINE o == insts[i].obj
<1>1. PICK recovered \in BOOLEAN :
         /\ turns' = IF recovered THEN turns ELSE Heard(o, Failed)
         /\ objs' = [objs EXCEPT ![o].proc = 0, ![o].force = @ \/ recovered,
                                 ![o].ctx = @ /\ ~recovered]
  BY DEF ReaderEnds
<1>2. o \in Objects /\ objs[o] \in Object /\ Failed \in Int /\ insts[i].reader = "ending"
  BY Elements DEF Sound, Points, Failed, ReaderEnds
<1>3. ~insts[i].alive /\ insts[i].input = <<>>
  BY <1>2 DEF Private, Procs
<1>4. /\ Insts' = Insts
      /\ \A j \in Insts :
           /\ insts'[j].obj = insts[j].obj
           /\ \/ /\ j = i /\ insts'[j].input = insts[j].input
                 /\ insts'[j].alive => insts[j].alive /\ j # objs[o].proc
              \/ /\ j # i /\ j = objs[o].proc
                 /\ ~insts'[j].alive /\ insts'[j].input = <<>>
              \/ j # i /\ j # objs[o].proc /\ insts'[j] = insts[j]
  BY ReaderEffect DEF Sound
<1>5. \A j \in Insts : insts'[j].alive => insts[j].alive /\ insts[j].obj # o /\ insts'[j] = insts[j]
  BY <1>3, <1>4 DEF Private, Procs
<1>6. \A j \in Insts : ~insts'[j].alive => insts'[j].input = <<>>
  BY <1>3, <1>4 DEF Private, Procs
<1>7. /\ DOMAIN objs' = Objects /\ objs'[o].proc = 0 /\ objs'[o].lock = objs[o].lock
      /\ objs'[o].respawn = objs[o].respawn /\ \A x \in Objects : x # o => objs'[x] = objs[x]
  BY <1>1, <1>2 DEF Object, Objects
<1>8. ProcsQuiet
  <2>1. \A x \in Objects :
           /\ \/ objs'[x].proc = objs[x].proc
              \/ objs'[x].proc = 0 /\ \A j \in Insts : insts[j].obj = x => ~insts'[j].alive
           /\ objs'[x].lock => objs[x].lock \/ ~Alive(x)
           /\ ~objs'[x].respawn
    BY <1>5, <1>7 DEF Private, Procs
  <2>2. \A j \in Insts : insts'[j].alive => insts[j].alive /\ insts'[j].reader = "reading"
    BY <1>5 DEF Private, Procs
  <2> QED
    BY <1>4, <1>6, <1>7, <2>1, <2>2 DEF ProcsQuiet
<1>9. \A x : x # o => Listens(x)
  BY <1>1, <1>2, HeardListens
<1> QED
  BY <1>5, <1>8, <1>9, QuietPrivate

LEMMA DiesPrivate ==
    ASSUME Sound, Private, NEW i \in Insts, Dies(i) \/ Hangs(i)
    PROVE  Private'
<1>1. objs' = objs /\ turns' = turns /\ Shapes /\ Failed \in Int
  BY DEF Dies, Hangs, Sound, Failed
<1>2. insts[i] \in Inst
  BY Elements DEF Sound
<1>3. /\ Insts' = Insts /\ \A j \in Insts : j # i => insts'[j] = insts[j]
      /\ insts'[i].obj = insts[i].obj
      /\ insts'[i].alive => /\ insts[i].alive /\ insts'[i].hung /\ insts'[i].reader = insts[i].reader
      /\ ~insts'[i].alive => insts'[i].input = <<>>
  <2>1. CASE Dies(i)
    <3>1. insts' = [insts EXCEPT ![i] = Dead(i)]
      BY <2>1 DEF Dies
    <3> HIDE DEF Dead
    <3> QED
      BY <1>1, <3>1, DeadInst DEF Insts
  <2>2. CASE Hangs(i)
    <3>1. insts' = [insts EXCEPT ![i] = [insts[i] EXCEPT !.hung = TRUE]] /\ insts[i].alive
      BY <2>2 DEF Hangs
    <3>2. insts'[i] = [insts[i] EXCEPT !.hung = TRUE] /\ DOMAIN insts' = DOMAIN insts
          /\ \A j \in DOMAIN insts : j # i => insts'[j] = insts[j]
      BY <3>1 DEF Insts
    <3> QED
      BY <1>2, <3>1, <3>2 DEF Insts, Inst
  <2> QED
    BY <2>1, <2>2
<1>4. ProcsQuiet
  <2>1. \A j \in Insts :
           /\ insts'[j].obj = insts[j].obj
           /\ insts'[j].alive => insts[j].alive /\ insts'[j].reader = "reading"
           /\ ~insts'[j].alive => insts'[j].input = <<>>
    BY <1>3 DEF Private, Procs
  <2> QED
    BY <1>1, <1>3, <2>1 DEF ProcsQuiet, Private, Procs, Objects
<1>5. Procs'
  BY <1>4, QuietProcs DEF Private
<1>6. \A x : Listens(x)
  BY <1>1, HeardListens
<1>7. TalkQuiet
  BY <1>3, <1>6 DEF TalkQuiet
<1> QED
  BY <1>5, <1>7, QuietTalk DEF Private

LEMMA RecyclePrivate ==
    ASSUME Sound, Private, NEW s \in Sessions, Recycle(s)
    PROVE  Private'
<1> DEFINE o == pool[s]
           p == objs[o].proc
<1>1. /\ o # 0 /\ Alive(o) /\ insts' = [insts EXCEPT ![p] = Dead(p)] /\ turns' = turns
      /\ objs' = [objs EXCEPT ![o].proc = 0, ![o].ctx = FALSE, ![o].force = TRUE]
      /\ Failed \in Int /\ Shapes
  BY DEF Recycle, Failed, Sound
<1>2. o \in Objects /\ objs[o] \in Object
  BY <1>1, OfSession
<1>3. p \in Insts
  BY <1>1, <1>2 DEF Alive, Sound, Points
<1>4. /\ Insts' = Insts /\ \A j \in Insts : j # p => insts'[j] = insts[j]
      /\ insts'[p].obj = insts[p].obj /\ ~insts'[p].alive /\ insts'[p].input = <<>>
  BY <1>1, <1>3, DeadInst DEF Insts
<1>5. /\ DOMAIN objs' = Objects /\ objs'[o].proc = 0 /\ objs'[o].lock = objs[o].lock
      /\ objs'[o].respawn = objs[o].respawn /\ \A x \in Objects : x # o => objs'[x] = objs[x]
  BY <1>1, <1>2 DEF Object, Objects
<1>6. \A j \in Insts : insts'[j].alive => insts[j].alive /\ insts[j].obj # o /\ insts'[j] = insts[j]
  BY <1>4 DEF Private, Procs
<1>7. ProcsQuiet
  <2>1. \A j \in Insts :
           /\ insts'[j].obj = insts[j].obj
           /\ insts'[j].alive => insts[j].alive /\ insts'[j].reader = "reading"
           /\ ~insts'[j].alive => insts'[j].input = <<>>
    BY <1>4, <1>6 DEF Private, Procs
  <2>2. \A x \in Objects :
           /\ \/ objs'[x].proc = objs[x].proc
              \/ objs'[x].proc = 0 /\ \A j \in Insts : insts[j].obj = x => ~insts'[j].alive
           /\ objs'[x].lock => objs[x].lock \/ ~Alive(x)
           /\ ~objs'[x].respawn
    BY <1>5, <1>6 DEF Private, Procs
  <2> QED
    BY <1>4, <1>5, <2>1, <2>2 DEF ProcsQuiet
<1>8. \A x : x # o => Listens(x)
  BY <1>1, HeardListens
<1> QED
  BY <1>6, <1>7, <1>8, QuietPrivate

LEMMA SilencePrivate ==
    ASSUME Sound, Private, NEW t \in Turns, Silence(t)
    PROVE  Private'
<1> DEFINE o == turns[t].obj
<1>1. /\ turns[t].phase \in {"ack", "wait"} /\ Silent(o) /\ objs' = objs /\ insts' = insts
      /\ Failed \in Int
  BY DEF Silence, GivesUp, Failed
<1>2. \E p \in Phases :
         \/ turns' = [turns EXCEPT ![t].phase = p]
         \/ \E a \in Int : turns' = [turns EXCEPT ![t].phase = p, ![t].answer = a]
  BY <1>1 DEF Silence, Phases
<1>3. \A x : x # o => Listens(x)
  BY <1>2, OthersListen
<1>4. ProcsQuiet
  BY <1>1 DEF ProcsQuiet, Private, Procs, Objects, Insts
<1>5. \A i \in Insts : insts[i].alive /\ ~insts[i].hung /\ insts[i].obj = o => insts[i].input = <<>>
  BY <1>1 DEF Silent, Private, Procs
<1> QED
  BY <1>1, <1>3, <1>4, <1>5, QuietPrivate

LEMMA AnswersPrivate ==
    ASSUME Sound, Private, NEW i \in Insts, Answers(i)
    PROVE  Private'
<1> DEFINE o == insts[i].obj
           m == Head(insts[i].input)
           kid == [insts[i] EXCEPT !.input = Tail(insts[i].input),
                      !.reader = IF objs[o].proc = i THEN insts[i].reader ELSE "ending"]
<1>1. /\ insts[i].alive /\ ~insts[i].hung /\ insts[i].input # <<>> /\ insts[i].reader = "reading"
      /\ turns' = Heard(o, m) /\ insts' = [insts EXCEPT ![i] = kid]
      /\ objs' = [objs EXCEPT ![o].conv = insts[i].conv]
  BY DEF Answers
<1>2. o \in Objects /\ objs[o] \in Object /\ insts[i] \in Inst
  BY Elements DEF Sound, Points
<1>3. objs[o].proc = i
  BY <1>1 DEF Private, Procs
<1>4. m \in Int /\ Tail(insts[i].input) = <<>>
  <2>1. insts[i].input = <<Ctx>> \/ \E t \in Turns : insts[i].input = <<t>>
    BY <1>1 DEF Private, Talk
  <2>2. PICK x \in Int : insts[i].input = <<x>>
    BY <2>1 DEF Ctx, Turns
  <2>3. Head(<<x>>) = x /\ Tail(<<x>>) = <<>>
    OBVIOUS
  <2> QED
    BY <2>2, <2>3
<1>5. kid.input = <<>> /\ kid.obj = o /\ kid.alive /\ ~kid.hung /\ kid.reader = "reading"
  BY <1>1, <1>2, <1>3, <1>4 DEF Inst
<1> HIDE DEF kid
<1>6. Insts' = Insts /\ insts'[i] = kid /\ \A j \in Insts : j # i => insts'[j] = insts[j]
  BY <1>1 DEF Insts
<1>7. /\ DOMAIN objs' = Objects /\ \A x \in Objects : /\ objs'[x].proc = objs[x].proc
                                                      /\ objs'[x].lock = objs[x].lock
                                                      /\ objs'[x].respawn = objs[x].respawn
  BY <1>1, <1>2 DEF Object, Objects
<1>8. ProcsQuiet
  <2>1. \A j \in Insts :
           /\ insts'[j].obj = insts[j].obj
           /\ insts'[j].alive => insts[j].alive /\ insts'[j].reader = "reading"
           /\ ~insts'[j].alive => insts'[j].input = <<>>
    BY <1>1, <1>5, <1>6 DEF Private, Procs
  <2> QED
    BY <1>6, <1>7, <2>1 DEF ProcsQuiet, Private, Procs
<1>9. Procs'
  BY <1>8, QuietProcs DEF Private
<1>10. \A x : x # o => Listens(x)
  BY <1>1, <1>4, HeardListens
<1>11. TalkQuiet
  <2>1. \A j \in Insts : j # i /\ insts[j].alive => insts[j].obj # o
    BY <1>3 DEF Private, Procs
  <2> QED
    BY <1>5, <1>6, <1>10, <2>1 DEF TalkQuiet
<1> QED
  BY <1>9, <1>11, QuietTalk DEF Private

LEMMA SendPrivate ==
    ASSUME Sound, Locking, Private, NEW t \in Turns, Send(t)
    PROVE  Private'
<1> DEFINE o == turns[t].obj
           p == objs[o].proc
           context == turns[t].phase = "ready" /\ NeedsContext(o)
<1>1. turns[t].phase \in {"ready", "send"} /\ Failed \in Int
  BY DEF Send, Failed
<1>2. o \in Objects /\ objs[o] \in Object
  BY <1>1, OnObject
<1>3. CASE ~Alive(o)
  <2>1. /\ turns' = [turns EXCEPT ![t].phase = "ended", ![t].answer = Failed]
        /\ objs' = objs /\ insts' = insts /\ "ended" \in Phases
    BY <1>3 DEF Send, Phases
  <2>2. \A x : Listens(x)
    BY <1>1, <2>1, OthersListen
  <2> QED
    BY <2>1, <2>2, SameObjects DEF Private, Procs, Objects
<1>4. CASE Alive(o)
  <2>1. PICK m \in Int, q \in Phases :
           /\ Written(o, m) /\ turns' = [turns EXCEPT ![t].phase = q]
           /\ \/ m = Ctx /\ q = "ack"
              \/ m = t /\ q = "wait"
    <3>1. CASE context
      BY <1>4, <3>1 DEF Send, Phases, Ctx
    <3>2. CASE ~context
      BY <1>4, <3>2 DEF Send, Phases, Turns
    <3> QED
      BY <3>1, <3>2
  <2>2. objs' = [objs EXCEPT ![o].ctx = @ \/ context]
    BY <1>4 DEF Send
  <2>3. /\ p \in Insts /\ Insts' = Insts
        /\ \A j \in Insts : j # p => insts'[j] = insts[j]
        /\ insts'[p].obj = insts[p].obj /\ insts'[p].reader = insts[p].reader
        /\ insts'[p].alive <=> insts[p].alive
        /\ insts'[p].hung <=> insts[p].hung
        /\ \A old \in Seq(Int) : old = insts[p].input => insts'[p].input = Append(old, m)
    BY <1>2, <1>4, <2>1, WrittenEffect
  <2>4. insts[p] \in Inst /\ insts[p].alive /\ insts[p].obj = o
    BY <1>2, <1>4, <2>3, Elements DEF Sound, Private, Procs, Alive
  <2>5. insts'[p].obj = o /\ insts'[p].alive /\ insts[p].reader = "reading"
    BY <2>3, <2>4 DEF Private, Procs
  <2>6. /\ DOMAIN objs' = Objects /\ \A x \in Objects : /\ objs'[x].proc = objs[x].proc
                                                        /\ objs'[x].lock = objs[x].lock
                                                        /\ objs'[x].respawn = objs[x].respawn
    BY <1>2, <2>2 DEF Object, Objects
  <2>7. ProcsQuiet
    <3>1. \A j \in Insts :
             /\ insts'[j].obj = insts[j].obj
             /\ insts'[j].alive => insts[j].alive /\ insts'[j].reader = "reading"
             /\ ~insts'[j].alive => insts'[j].input = <<>>
      BY <2>3, <2>4, <2>5 DEF Private, Procs
    <3> QED
      BY <2>3, <2>6, <3>1 DEF ProcsQuiet, Private, Procs
  <2>8. Procs'
    BY <2>7, QuietProcs DEF Private
  <2>9. turns'[t].phase = q /\ turns'[t].obj = o /\ \A u \in Turns : u # t => turns'[u] = turns[u]
    BY <2>1, TurnEffect
  <2>10. ~insts[p].hung => insts[p].input = <<>>
    <3>1. \A u \in Turns : turns[u].obj = o => turns[u].phase \notin {"ack", "wait"}
      BY <1>1 DEF Locking, OneTurn, Working, Sending
    <3> SUFFICES ASSUME ~insts[p].hung, insts[p].input # <<>>
                 PROVE  FALSE
      OBVIOUS
    <3>2. \E u \in Turns : turns[u].obj = insts[p].obj /\ turns[u].phase \in {"ack", "wait"}
      BY <2>3, <2>4 DEF Private, Talk
    <3> QED
      BY <2>4, <3>1, <3>2
  <2>11. <<>> \in Seq(Int) /\ Append(<<>>, m) = <<m>>
    BY <2>1, EmptySeq
  <2>12. Talk'
    <3> SUFFICES ASSUME NEW i \in Insts, insts'[i].alive, ~insts'[i].hung
                 PROVE  \/ insts'[i].input = <<>>
                        \/ /\ insts'[i].input = <<Ctx>>
                           /\ \E u \in Turns : turns'[u].obj = insts'[i].obj /\ turns'[u].phase = "ack"
                        \/ \E u \in Turns : /\ insts'[i].input = <<u>>
                                            /\ turns'[u].obj = insts'[i].obj /\ turns'[u].phase = "wait"
      BY <2>3 DEF Talk
    <3>1. CASE i = p
      <4>1. insts'[i].input = <<m>>
        BY <2>3, <2>5, <2>10, <2>11, <3>1
      <4> QED
        BY <2>1, <2>5, <2>9, <3>1, <4>1
    <3>2. CASE i # p
      <4>1. insts'[i] = insts[i]
        BY <2>3, <3>2
      <4>2. \A u \in Turns : turns[u].phase \in {"ack", "wait"} => turns'[u] = turns[u]
        BY <1>1, <2>9
      <4>3. CASE /\ insts[i].input = <<Ctx>>
                 /\ \E u \in Turns : turns[u].obj = insts[i].obj /\ turns[u].phase = "ack"
        BY <4>1, <4>2, <4>3
      <4>4. CASE \E u \in Turns : /\ insts[i].input = <<u>>
                                  /\ turns[u].obj = insts[i].obj /\ turns[u].phase = "wait"
        BY <4>1, <4>2, <4>4
      <4> QED
        BY <4>1, <4>3, <4>4 DEF Private, Talk
    <3> QED
      BY <3>1, <3>2
  <2> QED
    BY <2>8, <2>12 DEF Private
<1> QED
  BY <1>3, <1>4

LEMMA InitPrivate ==
    ASSUME Init
    PROVE  Private
<1>1. Objects = {} /\ Insts = {}
  BY DEF Init, Objects, Insts
<1> QED
  BY <1>1 DEF Private, Procs, Talk

LEMMA PrivateStep ==
    ASSUME Sound, Locking, Private, NoTalk, [Next]_vars
    PROVE  Private'
<1>1. CASE \E t \in Turns, s \in Sessions : Message(t, s)
  BY <1>1, MessagePrivate
<1>2. CASE Progress
  <2>1. CASE \E t \in Turns : Pending(t)
    BY <2>1, EnsurePrivate, SpawnEndsPrivate, SendPrivate, SilencePrivate DEF Pending
  <2>2. CASE \E i \in Insts : Answers(i) \/ ReaderEnds(i)
    BY <2>2, AnswersPrivate, ReaderEndsPrivate
  <2>3. CASE \E o \in Objects : Kill(o) \/ Respawn(o)
    BY <2>3, KillPrivate DEF Respawn, Private, Procs
  <2> QED
    BY <1>2, <2>1, <2>2, <2>3 DEF Progress
<1>3. CASE Interferes
  <2>1. CASE \E t \in Turns : SpawnFails(t) \/ Inject(t) \/ Cancel(t)
    BY <2>1, EnsurePrivate, CancelPrivate DEF Inject, May, NoTalk
  <2>2. CASE \E i \in Insts : Dies(i) \/ Hangs(i)
    BY <2>2, DiesPrivate
  <2>3. CASE \E s \in Sessions : KillSession(s) \/ Restart(s) \/ Recycle(s) \/ Compact(s)
    <3>1. ASSUME NEW s \in Sessions, KillSession(s)
          PROVE  Private'
      <4>1. objs' = objs /\ insts' = insts /\ turns' = turns /\ Failed \in Int
        BY <3>1 DEF KillSession, Failed
      <4>2. \A x : Listens(x)
        BY <4>1, HeardListens
      <4> QED
        BY <4>1, <4>2, SameObjects DEF Private, Procs, Objects
    <3> QED
      BY <2>3, <3>1, RestartPrivate, RecyclePrivate
  <2> QED
    BY <1>3, <2>1, <2>2, <2>3 DEF Interferes
<1>4. CASE UNCHANGED vars
  <2>1. objs' = objs /\ insts' = insts /\ turns' = turns /\ Failed \in Int
    BY <1>4 DEF vars, Failed
  <2>2. \A x : Listens(x)
    BY <2>1, HeardListens
  <2> QED
    BY <2>1, <2>2, SameObjects DEF Private, Procs, Objects
<1> QED
  BY <1>1, <1>2, <1>3, <1>4 DEF Next

----------------------------------------------------------------------------
(* Answers.                                                                *)

\* No step but a result gives a turn an answer other than an error.
AnswersKept == \A t \in Turns : turns'[t].answer \in {turns[t].answer, Failed}

LEMMA OneAnswer ==
    ASSUME Sound, NEW t \in Turns, NEW p \in Phases,
           \/ turns' = [turns EXCEPT ![t].phase = p]
           \/ turns' = [turns EXCEPT ![t].phase = p, ![t].answer = Failed]
    PROVE  AnswersKept
<1>1. turns[t] \in Turn /\ turns \in [Turns -> Turn]
  BY DEF Sound, Shapes
<1>2. CASE turns' = [turns EXCEPT ![t].phase = p]
  BY <1>1, <1>2 DEF Turn, AnswersKept
<1>3. CASE turns' = [turns EXCEPT ![t].phase = p, ![t].answer = Failed]
  BY <1>1, <1>3 DEF Turn, AnswersKept
<1> QED
  BY <1>2, <1>3

LEMMA HeardAnswers ==
    ASSUME Sound, NEW o
    PROVE  /\ turns' = Heard(o, Failed) => AnswersKept
           /\ Told(o) => AnswersKept
           /\ turns' = turns => AnswersKept
<1>1. Shapes /\ Failed \in Int
  BY DEF Sound, Failed
<1>2. ASSUME turns' = Heard(o, Failed)
      PROVE  AnswersKept
  BY <1>1, <1>2, HeardTurns DEF AnswersKept
<1>3. ASSUME Told(o)
      PROVE  AnswersKept
  BY <1>1, <1>3, ToldTurns DEF AnswersKept
<1> QED
  BY <1>2, <1>3 DEF AnswersKept

LEMMA AnswersOwn ==
    ASSUME Sound, Locking, Private, AnswersAreOwn, NEW i \in Insts, Answers(i)
    PROVE  AnswersAreOwn'
<1> DEFINE o == insts[i].obj
           m == Head(insts[i].input)
<1>1. /\ insts[i].alive /\ ~insts[i].hung /\ insts[i].input # <<>> /\ turns' = Heard(o, m) /\ Shapes
  BY DEF Answers, Sound
<1>2. PICK x \in Int : /\ insts[i].input = <<x>>
                       /\ \/ \E t \in Turns : turns[t].obj = o /\ turns[t].phase = "ack"
                          \/ x \in Turns /\ turns[x].obj = o /\ turns[x].phase = "wait"
  BY <1>1 DEF Private, Talk, Ctx, Turns
<1>3. m = x
  BY <1>2
<1> HIDE DEF m
<1>4. \A t \in Turns : turns[t].obj = o /\ turns[t].phase = "wait" => m = t
  BY <1>2, <1>3 DEF Locking, OneTurn, Working, Sending
<1>5. \A t \in Turns : \/ turns'[t].answer \in {turns[t].answer, Failed}
                       \/ turns'[t].answer = t
  BY <1>1, <1>3, <1>4, HeardTurns
<1> QED
  BY <1>5 DEF AnswersAreOwn

LEMMA OwnStep ==
    ASSUME Sound, Locking, Private, AnswersAreOwn, NoTalk, [Next]_vars
    PROVE  AnswersAreOwn'
<1>0. AnswersKept => AnswersAreOwn'
  BY DEF AnswersKept, AnswersAreOwn
<1>1. ASSUME NEW t \in Turns, NEW s \in Sessions, Message(t, s)
      PROVE  AnswersKept
  <2>1. turns[t] \in Turn /\ turns \in [Turns -> Turn]
    BY DEF Sound, Shapes
  <2>2. CASE GetOrCreate(s) = {}
    BY <1>1, <2>2, OneAnswer DEF Message, Phases
  <2>3. ASSUME NEW got \in GetOrCreate(s),
               turns' = [turns EXCEPT ![t].obj = got.obj,
                           ![t].phase = IF Locked(got.obj) THEN "queued" ELSE "ensure"]
        PROVE  AnswersKept
    BY <2>1, <2>3 DEF AnswersKept, Turn
  <2> QED
    BY <1>1, <2>2, <2>3 DEF Message
<1>2. ASSUME NEW t \in Turns, Pending(t) \/ SpawnFails(t) \/ Cancel(t)
      PROVE  AnswersKept
  <2>1. \E p \in Phases :
           \/ turns' = [turns EXCEPT ![t].phase = p]
           \/ turns' = [turns EXCEPT ![t].phase = p, ![t].answer = Failed]
    <3>1. CASE Send(t)
      <4>1. CASE Alive(turns[t].obj)
        <5>1. turns' = [turns EXCEPT ![t].phase =
                          IF turns[t].phase = "ready" /\ NeedsContext(turns[t].obj) THEN "ack" ELSE "wait"]
          BY <3>1, <4>1 DEF Send
        <5> QED
          BY <5>1 DEF Phases
      <4> QED
        BY <3>1, <4>1 DEF Send, Phases
    <3> QED
      BY <1>2, <3>1 DEF Pending, TakesLock, Ensure, SpawnEnds, Silence, TurnEnds, SpawnFails, Cancel, Phases
  <2> QED
    BY <2>1, OneAnswer
<1>3. ASSUME NEW i \in Insts, ReaderEnds(i) \/ Dies(i) \/ Hangs(i)
      PROVE  AnswersKept
  BY <1>3, HeardAnswers DEF ReaderEnds, Dies, Hangs
<1>4. ASSUME NEW o \in Objects, Kill(o) \/ Respawn(o)
      PROVE  AnswersKept
  BY <1>4, HeardAnswers DEF Kill, Respawn
<1>5. ASSUME NEW s \in Sessions, KillSession(s) \/ Restart(s) \/ Recycle(s) \/ Compact(s)
      PROVE  AnswersKept
  BY <1>5, HeardAnswers DEF KillSession, Restart, Recycle, Compact
<1>6. ASSUME NEW t \in Turns, Inject(t)
      PROVE  AnswersKept
  BY <1>6, HeardAnswers DEF Inject
<1>7. CASE UNCHANGED vars
  BY <1>7, HeardAnswers DEF vars, AnswersAreOwn
<1>8. CASE Progress
  BY <1>0, <1>2, <1>3, <1>4, <1>8, AnswersOwn DEF Progress
<1>9. CASE Interferes
  BY <1>0, <1>2, <1>3, <1>5, <1>6, <1>9 DEF Interferes
<1> QED
  BY <1>0, <1>1, <1>7, <1>8, <1>9 DEF Next

\* Whatever dies, hangs, is cancelled, restarted, compacted or evicted, a message is answered
\* by the result of that message or by an error, as long as no message is injected and no two
\* starts of a process overlap (send_message takes the next result its read loop broadcasts).
THEOREM OwnAnswerHolds == Spec => []OwnAnswer
<1> DEFINE Own == NoTalk => Private /\ AnswersAreOwn
<1>1. Init => Sound /\ Locking /\ Own
  BY InitSound, InitLocking, InitPrivate DEF Init, AnswersAreOwn
<1>2. Sound /\ Locking /\ Own /\ [Next]_vars => (Sound /\ Locking /\ Own)'
  <2>1. [Next]_vars => features' = features
    BY DEF Next, vars
  <2>2. [Next]_vars => (NoTalk' <=> NoTalk)
    BY <2>1 DEF NoTalk
  <2> QED
    BY <2>2, SoundStep, LockingStep, PrivateStep, OwnStep
<1>3. Own => OwnAnswer
  BY DEF OwnAnswer, NoTalk
<1> QED
  BY <1>1, <1>2, <1>3, PTL DEF Spec

----------------------------------------------------------------------------
(* The context first, as long as nobody else replaces the process: what a  *)
(* conversation is resumed from has been taught, and an object that thinks *)
(* its process was told has told it.                                       *)

Calm == features \cap {"inject", "overlap", "restart", "compact"} = {}

Informed(i) == insts[i].conv \in taught \/ \E k \in DOMAIN insts[i].input : insts[i].input[k] = Ctx
Writing == {"ack", "send", "wait"}

Context ==
    /\ \A s \in Sessions : file[s] \in {0} \cup taught /\ file[s] # Unread
    /\ \A i \in Insts : insts[i].conv # Unread
    /\ \A o \in Objects : /\ objs[o].conv \in {Unread, 0} \cup taught
                          /\ objs[o].lock => objs[o].conv # Unread
                          /\ objs[o].ctx /\ Alive(o) => Informed(objs[o].proc)
    /\ \A t \in Turns : turns[t].phase \in Writing /\ Alive(turns[t].obj) => objs[turns[t].obj].ctx
    /\ ContextRead

\* Processes end, inputs are dropped, turns stop writing.
ContextQuiet ==
    /\ taught' = taught /\ file' = file /\ DOMAIN objs' = Objects /\ Insts' = Insts
    /\ \A i \in Insts :
         /\ insts'[i].conv = insts[i].conv
         /\ insts'[i].input \in {<<>>, insts[i].input}
         /\ insts'[i].alive => insts[i].alive /\ insts'[i].input = insts[i].input
    /\ \A o \in Objects :
         /\ objs'[o].conv \in {objs[o].conv, file[objs[o].session]}
         /\ objs'[o].lock => objs[o].lock \/ objs'[o].conv # Unread
         /\ objs'[o].proc = 0 \/ (objs'[o].proc = objs[o].proc /\ (objs'[o].ctx <=> objs[o].ctx))
    /\ \A t \in Turns : turns'[t].phase \in Writing =>
         turns[t].phase \in Writing /\ turns'[t].obj = turns[t].obj

\* Dropping input or teaching keeps the context first.
LEMMA ReadOn ==
    ASSUME NEW i \in Insts, NEW j \in Insts',
           \A k \in DOMAIN insts[i].input : insts[i].input[k] # Ctx =>
               insts[i].conv \in taught \/ \E n \in 1..(k - 1) : insts[i].input[n] = Ctx,
           insts'[j].conv = insts[i].conv, taught \subseteq taught',
           insts'[j].input = insts[i].input \/ insts'[j].input = <<>>
    PROVE  \A k \in DOMAIN insts'[j].input : insts'[j].input[k] # Ctx =>
               insts'[j].conv \in taught' \/ \E n \in 1..(k - 1) : insts'[j].input[n] = Ctx
<1>1. CASE insts'[j].input = <<>>
  <2>1. DOMAIN insts'[j].input = {}
    BY <1>1
  <2> QED
    BY <2>1
<1>2. CASE insts'[j].input = insts[i].input
  BY <1>2
<1> QED
  BY <1>1, <1>2

LEMMA QuietContext ==
    ASSUME Sound, Context, ContextQuiet
    PROVE  Context'
<1>1. /\ \A o \in Objects : objs[o].proc \in Insts \cup {0} /\ objs[o].session \in Sessions
      /\ \A t \in Turns : turns[t].phase \in Writing => turns[t].obj \in Objects
  BY Elements DEF Sound, Points, Object, Writing
<1>2. Objects' = Objects /\ Insts' = Insts /\ taught' = taught /\ file' = file
  BY DEF ContextQuiet, Objects
<1>3. \A s \in Sessions : file'[s] \in {0} \cup taught' /\ file'[s] # Unread
  BY <1>2 DEF Context
<1>4. \A i \in Insts' : insts'[i].conv # Unread
  BY <1>2 DEF Context, ContextQuiet
<1>5. \A o \in Objects' : /\ objs'[o].conv \in {Unread, 0} \cup taught'
                          /\ objs'[o].lock => objs'[o].conv # Unread
  BY <1>1, <1>2 DEF Context, ContextQuiet
<1>6. \A o \in Objects : Alive(o)' => /\ Alive(o) /\ objs'[o].proc = objs[o].proc
                                      /\ objs'[o].ctx <=> objs[o].ctx
                                      /\ insts'[objs'[o].proc].conv = insts[objs[o].proc].conv
                                      /\ insts'[objs'[o].proc].input = insts[objs[o].proc].input
  <2> SUFFICES ASSUME NEW o \in Objects, Alive(o)'
               PROVE  /\ Alive(o) /\ objs'[o].proc = objs[o].proc
                      /\ objs'[o].ctx <=> objs[o].ctx
                      /\ insts'[objs'[o].proc].conv = insts[objs[o].proc].conv
                      /\ insts'[objs'[o].proc].input = insts[objs[o].proc].input
    OBVIOUS
  <2> DEFINE p == objs'[o].proc
  <2>1. p # 0 /\ insts'[p].alive
    BY DEF Alive
  <2>2. p = objs[o].proc /\ (objs'[o].ctx <=> objs[o].ctx)
    BY <2>1 DEF ContextQuiet
  <2>3. p \in Insts
    BY <1>1, <2>1, <2>2
  <2>4. insts[p].alive /\ insts'[p].conv = insts[p].conv /\ insts'[p].input = insts[p].input
    BY <2>1, <2>3 DEF ContextQuiet
  <2> QED
    BY <2>1, <2>2, <2>4 DEF Alive
<1>7. \A o \in Objects' : objs'[o].ctx /\ Alive(o)' => Informed(objs[o].proc)'
  BY <1>2, <1>6 DEF Context, Informed
<1>8. \A t \in Turns : turns'[t].phase \in Writing /\ Alive(turns[t].obj)' => objs'[turns'[t].obj].ctx
  BY <1>1, <1>6 DEF Context, ContextQuiet
<1>9. ContextRead'
  <2> SUFFICES ASSUME NEW i \in Insts'
               PROVE  \A k \in DOMAIN insts'[i].input : insts'[i].input[k] # Ctx =>
                         insts'[i].conv \in taught' \/ \E n \in 1..(k - 1) : insts'[i].input[n] = Ctx
    BY DEF ContextRead
  <2>1. i \in Insts /\ insts'[i].conv = insts[i].conv /\ taught \subseteq taught'
        /\ (insts'[i].input = insts[i].input \/ insts'[i].input = <<>>)
    BY <1>2 DEF ContextQuiet
  <2> QED
    BY <2>1, ReadOn DEF Context, ContextRead
<1> QED
  BY <1>3, <1>4, <1>5, <1>7, <1>8, <1>9 DEF Context

\* A new process of object o; a resumed conversation has been taught, a fresh one has to be.
ContextBorn(o) ==
    /\ taught' = taught /\ file' = file
    /\ \A i \in Insts : insts'[i].conv = insts[i].conv
    /\ insts'[NewKid].conv # Unread /\ insts'[NewKid].input = <<>>
    /\ objs'[o].conv = objs[o].conv
    /\ objs'[o].ctx => insts'[NewKid].conv \in taught
    /\ \A t \in Turns : turns'[t].phase \in Writing =>
         turns[t].phase \in Writing /\ turns'[t].obj = turns[t].obj /\ turns[t].obj # o

LEMMA BornContext ==
    ASSUME Sound, Context, NEW o \in Objects, ProcsBorn(o), ContextBorn(o), Procs
    PROVE  Context'
<1>1. /\ \A x \in Objects : objs[x].proc \in Insts \cup {0}
      /\ \A t \in Turns : turns[t].phase \in Writing => turns[t].obj \in Objects
  BY DEF Sound, Points, Writing
<1>2. /\ Objects' = Objects /\ Insts' = Insts \cup {NewKid} /\ taught' = taught /\ file' = file
  BY DEF ProcsBorn, ContextBorn, Objects
<1>3. \A s \in Sessions : file'[s] \in {0} \cup taught' /\ file'[s] # Unread
  BY <1>2 DEF Context
<1>4. \A i \in Insts' : insts'[i].conv # Unread
  BY <1>2 DEF Context, ContextBorn
<1>5. \A x \in Objects' : /\ objs'[x].conv \in {Unread, 0} \cup taught'
                          /\ objs'[x].lock => objs'[x].conv # Unread
  BY <1>2 DEF Context, ContextBorn, ProcsBorn
<1>6. \A x \in Objects : x # o /\ Alive(x)' => /\ Alive(x) /\ objs'[x] = objs[x]
                                               /\ insts'[objs[x].proc] = insts[objs[x].proc]
  <2> SUFFICES ASSUME NEW x \in Objects, x # o, Alive(x)'
               PROVE  /\ Alive(x) /\ objs'[x] = objs[x]
                      /\ insts'[objs[x].proc] = insts[objs[x].proc]
    OBVIOUS
  <2>1. objs'[x] = objs[x]
    BY DEF ProcsBorn
  <2> DEFINE p == objs[x].proc
  <2>2. p # 0 /\ insts'[p].alive
    BY <2>1 DEF Alive
  <2>3. p \in Insts /\ insts[p].obj = x
    BY <1>1, <2>2 DEF Procs
  <2>4. insts'[p] = insts[p]
    BY <2>3 DEF ProcsBorn
  <2> QED
    BY <2>1, <2>2, <2>4 DEF Alive
<1>7. \A x \in Objects' : objs'[x].ctx /\ Alive(x)' => Informed(objs[x].proc)'
  <2> SUFFICES ASSUME NEW x \in Objects, objs'[x].ctx, Alive(x)'
               PROVE  Informed(objs[x].proc)'
    BY <1>2
  <2>1. CASE x = o
    <3>1. objs'[x].proc = NewKid /\ insts'[NewKid].conv \in taught
      BY <2>1 DEF ProcsBorn, ContextBorn
    <3> QED
      BY <1>2, <3>1 DEF Informed
  <2>2. CASE x # o
    <3>1. Alive(x) /\ objs'[x] = objs[x] /\ insts'[objs[x].proc] = insts[objs[x].proc]
      BY <1>6, <2>2
    <3>2. Informed(objs[x].proc)
      BY <3>1 DEF Context
    <3> QED
      BY <1>2, <3>1, <3>2 DEF Informed
  <2> QED
    BY <2>1, <2>2
<1>8. \A t \in Turns : turns'[t].phase \in Writing /\ Alive(turns[t].obj)' => objs'[turns'[t].obj].ctx
  BY <1>1, <1>6 DEF Context, ContextBorn
<1>9. ContextRead'
  <2> SUFFICES ASSUME NEW i \in Insts'
               PROVE  \A k \in DOMAIN insts'[i].input : insts'[i].input[k] # Ctx =>
                         insts'[i].conv \in taught' \/ \E n \in 1..(k - 1) : insts'[i].input[n] = Ctx
    BY DEF ContextRead
  <2>1. CASE insts'[i].input = <<>>
    <3>1. DOMAIN insts'[i].input = {}
      BY <2>1
    <3> QED
      BY <3>1
  <2>2. CASE insts'[i].input # <<>>
    <3>1. i \in Insts /\ insts'[i] = insts[i]
      BY <1>2, <2>2 DEF ProcsBorn, ContextBorn
    <3> QED
      BY <1>2, <3>1, ReadOn DEF Context, ContextRead
  <2> QED
    BY <2>1, <2>2
<1> QED
  BY <1>3, <1>4, <1>5, <1>7, <1>8, <1>9 DEF Context

LEMMA SpawnEndsContext ==
    ASSUME Sound, Locking, Private, Context, NEW t \in Turns, SpawnEnds(t)
    PROVE  Context'
<1> DEFINE o == turns[t].obj
<1>1. /\ turns[t].phase = "spawn" /\ turns' = [turns EXCEPT ![t].phase = "ready"] /\ "ready" \in Phases
      /\ file' = file /\ taught' = taught /\ Shapes
  BY DEF SpawnEnds, Phases, Sound
<1>2. o \in Objects /\ objs[o] \in Object
  BY <1>1, OnObject
<1>3. PICK resumed \in {FALSE, objs[o].conv # 0 /\ ~objs[o].force} : Spawned(o, resumed, TRUE)
  BY DEF SpawnEnds
<1>4. resumed \in BOOLEAN /\ (resumed => objs[o].conv # 0)
  BY <1>2, <1>3 DEF Object
<1>5. objs[o].lock
  BY <1>1, <1>2 DEF Locking, LockHeld
<1>6. /\ \A j \in Insts : insts'[j] = insts[j]
      /\ insts'[NewKid].input = <<>>
      /\ insts'[NewKid].conv = IF resumed THEN objs[o].conv ELSE NewKid
      /\ objs'[o].ctx = resumed /\ objs'[o].conv = objs[o].conv
  BY <1>1, <1>2, <1>3, <1>4, SpawnedEffect
<1>7. ProcsBorn(o)
  BY SpawnEndsProcs DEF Private
<1>8. NewKid # Unread
  BY <1>7 DEF ProcsBorn, Unread
<1>9. insts'[NewKid].conv # Unread /\ (objs'[o].ctx => insts'[NewKid].conv \in taught)
  BY <1>2, <1>4, <1>5, <1>6, <1>8 DEF Context
<1>10. /\ turns'[t].phase = "ready" /\ turns'[t].obj = o
       /\ \A u \in Turns : u # t => turns'[u] = turns[u]
  BY <1>1, TurnEffect
<1>11. \A u \in Turns : u # t /\ turns[u].phase \in Writing => turns[u].obj # o
  BY <1>1 DEF Locking, OneTurn, Working, Sending, Writing
<1>12. ContextBorn(o)
  BY <1>1, <1>6, <1>9, <1>10, <1>11 DEF ContextBorn, Writing
<1> QED
  BY <1>2, <1>7, <1>12, BornContext DEF Private

LEMMA CancelContext ==
    ASSUME Sound, Locking, Private, NoTalk, Context, NEW t \in Turns, Cancel(t)
    PROVE  Context'
<1> DEFINE o == turns[t].obj
<1>1. /\ Running(t) /\ Shapes /\ turns[t].phase \notin {"new", "ended"}
      /\ turns' = [turns EXCEPT ![t].phase = "ended", ![t].answer = Failed]
      /\ Replaced(o, objs[o].conv) /\ "ended" \in Phases /\ Failed \in Int
      /\ file' = file /\ taught' = taught
  BY DEF Cancel, CancelRestarts, Running, Sending, Phases, Failed, Sound
<1>2. o \in Objects /\ objs[o].conv \in Int /\ "overlap" \notin features
  BY <1>1, OnObject DEF Object, NoTalk
<1>3. ProcsBorn(o)
  BY <1>1, <1>2, ReplacedProcs DEF Private
<1>4. /\ insts'[NewKid].input = <<>> /\ insts'[NewKid].conv = NewKid
      /\ objs'[o].conv = objs[o].conv /\ ~objs'[o].ctx
      /\ \A j \in Insts : insts'[j] = Ended(o)[j]
  BY <1>1, <1>2, ReplacedEffect
<1>5. \A j \in Insts : insts'[j].conv = insts[j].conv
  BY <1>1, <1>4, EndedInsts
<1>6. NewKid # Unread
  BY <1>3 DEF ProcsBorn, Unread
<1>7. /\ turns'[t].phase = "ended" /\ \A u \in Turns : u # t => turns'[u] = turns[u]
  BY <1>1, TurnEffect
<1>8. \A u \in Turns : u # t /\ turns[u].phase \in Writing => turns[u].obj # o
  BY <1>1 DEF Locking, Alone, Running, Sending, Writing
<1>9. ContextBorn(o)
  BY <1>1, <1>4, <1>5, <1>6, <1>7, <1>8 DEF ContextBorn, Writing
<1> QED
  BY <1>2, <1>3, <1>9, BornContext DEF Private

\* A turn in a phase that is not one of writing.
LEMMA StopsWriting ==
    ASSUME Sound, NEW t \in Turns, NEW p \in Phases, p \in Writing => turns[t].phase \in Writing,
           \/ turns' = [turns EXCEPT ![t].phase = p]
           \/ \E a \in Int : turns' = [turns EXCEPT ![t].phase = p, ![t].answer = a]
    PROVE  \A u \in Turns : turns'[u].phase \in Writing =>
               turns[u].phase \in Writing /\ turns'[u].obj = turns[u].obj
<1>1. /\ turns'[t].phase = p /\ turns'[t].obj = turns[t].obj
      /\ \A u \in Turns : u # t => turns'[u] = turns[u]
  BY TurnEffect
<1> QED
  BY <1>1

LEMMA HeardWriting ==
    ASSUME Sound, NEW o, NEW m \in Int
    PROVE  turns' = Heard(o, m) \/ Told(o) \/ turns' = turns =>
               \A u \in Turns : turns'[u].phase \in Writing =>
                   turns[u].phase \in Writing /\ turns'[u].obj = turns[u].obj
<1>1. Shapes
  BY DEF Sound
<1>2. ASSUME turns' = Heard(o, m), NEW u \in Turns, turns'[u].phase \in Writing
      PROVE  turns[u].phase \in Writing /\ turns'[u].obj = turns[u].obj
  BY <1>1, <1>2, HeardTurns DEF Writing
<1>3. ASSUME Told(o), NEW u \in Turns, turns'[u].phase \in Writing
      PROVE  turns[u].phase \in Writing /\ turns'[u].obj = turns[u].obj
  BY <1>1, <1>3, ToldTurns DEF Writing
<1> QED
  BY <1>2, <1>3

LEMMA EnsureContext ==
    ASSUME Sound, Context, NEW t \in Turns,
           TakesLock(t) \/ Ensure(t) \/ SpawnFails(t) \/ TurnEnds(t) \/ Silence(t)
    PROVE  Context'
<1> DEFINE o == turns[t].obj
<1>1. insts' = insts /\ file' = file /\ taught' = taught /\ Failed \in Int
      /\ turns[t].phase \in {"queued", "ensure", "spawn", "answered", "ack", "wait"}
  BY DEF TakesLock, Ensure, SpawnFails, TurnEnds, Silence, GivesUp, Failed
<1>2. o \in Objects /\ objs[o] \in Object
  BY <1>1, OnObject
<1>3. \A u \in Turns : turns'[u].phase \in Writing =>
          turns[u].phase \in Writing /\ turns'[u].obj = turns[u].obj
  <2>1. \E p \in Phases :
           /\ p \in Writing => turns[t].phase \in Writing
           /\ \/ turns' = [turns EXCEPT ![t].phase = p]
              \/ \E a \in Int : turns' = [turns EXCEPT ![t].phase = p, ![t].answer = a]
    BY <1>1 DEF TakesLock, Ensure, SpawnFails, TurnEnds, Silence, GivesUp, Phases, Writing
  <2> QED
    BY <2>1, StopsWriting
<1>4. /\ DOMAIN objs' = Objects
      /\ \A x \in Objects : x # o => objs'[x] = objs[x]
      /\ objs'[o].proc = objs[o].proc /\ (objs'[o].ctx <=> objs[o].ctx)
      /\ objs'[o].conv \in {objs[o].conv, file[objs[o].session]}
      /\ objs'[o].lock => objs[o].lock \/ objs'[o].conv # Unread
  <2>1. CASE objs' = objs
    BY <1>2, <2>1 DEF Objects
  <2>2. CASE Ensure(t) /\ ~Alive(o)
    <3>1. objs' = [objs EXCEPT ![o].lock = TRUE,
                     ![o].conv = IF @ = Unread THEN file[objs[o].session] ELSE @]
      BY <2>2 DEF Ensure
    <3>2. file[objs[o].session] # Unread
      BY <1>2 DEF Context, Object
    <3> QED
      BY <1>2, <3>1, <3>2 DEF Object, Objects
  <2>3. CASE SpawnFails(t)
    <3>1. objs' = [objs EXCEPT ![o].lock = FALSE, ![o].force = FALSE]
      BY <2>3 DEF SpawnFails
    <3> QED
      BY <1>2, <3>1 DEF Object, Objects
  <2> QED
    BY <2>1, <2>2, <2>3 DEF TakesLock, Ensure, TurnEnds, Silence
<1>5. ContextQuiet
  BY <1>1, <1>3, <1>4 DEF ContextQuiet, Insts
<1> QED
  BY <1>5, QuietContext

LEMMA EndsContext ==
    ASSUME Sound, Context, NEW i \in Insts, ReaderEnds(i) \/ Dies(i) \/ Hangs(i)
    PROVE  Context'
<1> DEFINE o == insts[i].obj
<1>1. o \in Objects /\ objs[o] \in Object /\ insts[i] \in Inst /\ Failed \in Int /\ Shapes
  BY Elements DEF Sound, Points, Failed
<1>2. CASE ReaderEnds(i)
  <2>1. PICK recovered \in BOOLEAN :
           /\ turns' = IF recovered THEN turns ELSE Heard(o, Failed)
           /\ objs' = [objs EXCEPT ![o].proc = 0, ![o].force = @ \/ recovered,
                                   ![o].ctx = @ /\ ~recovered]
    BY <1>2 DEF ReaderEnds
  <2>2. /\ Insts' = Insts
        /\ \A j \in Insts :
             /\ insts'[j].conv = insts[j].conv
             /\ \/ /\ insts'[j].input = insts[j].input
                   /\ insts'[j].alive => insts[j].alive
                \/ ~insts'[j].alive /\ insts'[j].input = <<>>
                \/ insts'[j] = insts[j]
    BY <1>1, <1>2, ReaderEffect
  <2>3. \A u \in Turns : turns'[u].phase \in Writing =>
            turns[u].phase \in Writing /\ turns'[u].obj = turns[u].obj
    BY <1>1, <2>1, HeardWriting
  <2>4. /\ DOMAIN objs' = Objects /\ objs'[o].proc = 0 /\ (objs'[o].lock <=> objs[o].lock)
        /\ objs'[o].conv = objs[o].conv /\ \A x \in Objects : x # o => objs'[x] = objs[x]
    BY <1>1, <2>1 DEF Object, Objects
  <2>5. file' = file /\ taught' = taught
    BY <1>2 DEF ReaderEnds
  <2>6. ContextQuiet
    BY <2>2, <2>3, <2>4, <2>5 DEF ContextQuiet
  <2> QED
    BY <2>6, QuietContext
<1>3. CASE Dies(i) \/ Hangs(i)
  <2>1. objs' = objs /\ turns' = turns /\ file' = file /\ taught' = taught
    BY <1>3 DEF Dies, Hangs
  <2>2. /\ Insts' = Insts /\ \A j \in Insts : j # i => insts'[j] = insts[j]
        /\ insts'[i].conv = insts[i].conv
        /\ \/ ~insts'[i].alive /\ insts'[i].input = <<>>
           \/ insts[i].alive /\ insts'[i].input = insts[i].input
    <3>1. CASE Dies(i)
      <4>1. insts' = [insts EXCEPT ![i] = Dead(i)]
        BY <3>1 DEF Dies
      <4> HIDE DEF Dead
      <4> QED
        BY <1>1, <4>1, DeadInst DEF Insts
    <3>2. CASE Hangs(i)
      <4>1. insts' = [insts EXCEPT ![i] = [insts[i] EXCEPT !.hung = TRUE]] /\ insts[i].alive
        BY <3>2 DEF Hangs
      <4>2. insts'[i] = [insts[i] EXCEPT !.hung = TRUE] /\ DOMAIN insts' = DOMAIN insts
            /\ \A j \in DOMAIN insts : j # i => insts'[j] = insts[j]
        BY <4>1 DEF Insts
      <4> QED
        BY <1>1, <4>1, <4>2 DEF Insts, Inst
    <3> QED
      BY <1>3, <3>1, <3>2
  <2>3. ContextQuiet
    BY <2>1, <2>2 DEF ContextQuiet, Objects
  <2> QED
    BY <2>3, QuietContext
<1> QED
  BY <1>2, <1>3

LEMMA KillContext ==
    ASSUME Sound, Context, NEW o \in Objects, Kill(o)
    PROVE  Context'
<1>1. /\ insts' = Ended(o) /\ Told(o) /\ objs' = [objs EXCEPT ![o].proc = 0] /\ Failed \in Int
      /\ file' = file /\ taught' = taught /\ Shapes
  BY DEF Kill, Failed, Sound
<1>2. objs[o] \in Object
  BY Elements DEF Sound
<1>3. /\ DOMAIN insts' = Insts
      /\ \A j \in Insts : /\ insts'[j].conv = insts[j].conv
                          /\ \/ insts'[j] = insts[j]
                             \/ ~insts'[j].alive /\ insts'[j].input = <<>>
  BY <1>1, EndedInsts
<1>4. /\ DOMAIN objs' = Objects /\ objs'[o].proc = 0 /\ (objs'[o].lock <=> objs[o].lock)
      /\ objs'[o].conv = objs[o].conv /\ \A x \in Objects : x # o => objs'[x] = objs[x]
  BY <1>1, <1>2 DEF Object, Objects
<1>5. \A u \in Turns : turns'[u].phase \in Writing =>
          turns[u].phase \in Writing /\ turns'[u].obj = turns[u].obj
  BY <1>1, HeardWriting
<1>6. ContextQuiet
  BY <1>1, <1>3, <1>4, <1>5 DEF ContextQuiet, Insts
<1> QED
  BY <1>6, QuietContext

LEMMA RecycleContext ==
    ASSUME Sound, Context, NEW s \in Sessions, Recycle(s)
    PROVE  Context'
<1> DEFINE o == pool[s]
           p == objs[o].proc
<1>1. /\ o # 0 /\ Alive(o) /\ insts' = [insts EXCEPT ![p] = Dead(p)] /\ turns' = turns
      /\ objs' = [objs EXCEPT ![o].proc = 0, ![o].ctx = FALSE, ![o].force = TRUE]
      /\ file' = file /\ taught' = taught /\ Shapes
  BY DEF Recycle, Sound
<1>2. o \in Objects /\ objs[o] \in Object
  BY <1>1, OfSession
<1>3. p \in Insts
  BY <1>1, <1>2 DEF Alive, Sound, Points
<1>4. /\ Insts' = Insts /\ \A j \in Insts : j # p => insts'[j] = insts[j]
      /\ insts'[p].conv = insts[p].conv /\ ~insts'[p].alive /\ insts'[p].input = <<>>
  <2> HIDE DEF Dead
  <2> QED
    BY <1>1, <1>3, DeadInst DEF Insts
<1>5. /\ DOMAIN objs' = Objects /\ objs'[o].proc = 0 /\ (objs'[o].lock <=> objs[o].lock)
      /\ objs'[o].conv = objs[o].conv /\ \A x \in Objects : x # o => objs'[x] = objs[x]
  BY <1>1, <1>2 DEF Object, Objects
<1>6. ContextQuiet
  BY <1>1, <1>4, <1>5 DEF ContextQuiet
<1> QED
  BY <1>6, QuietContext

LEMMA MessageContext ==
    ASSUME Sound, Context, NEW t \in Turns, NEW s \in Sessions, Message(t, s)
    PROVE  Context'
<1>1. turns[t].phase = "new" /\ turns[t] \in Turn /\ turns \in [Turns -> Turn]
      /\ insts' = insts /\ file' = file /\ taught' = taught
  BY DEF Sound, Shapes, Message
<1>2. CASE GetOrCreate(s) = {}
  <2>1. /\ turns' = [turns EXCEPT ![t].phase = "ended", ![t].answer = Failed] /\ objs' = objs
        /\ "ended" \in Phases /\ Failed \in Int /\ "ended" \notin Writing
    BY <1>2 DEF Message, Phases, Failed, Writing
  <2>2. \A u \in Turns : turns'[u].phase \in Writing =>
            turns[u].phase \in Writing /\ turns'[u].obj = turns[u].obj
    BY <2>1, StopsWriting
  <2>3. ContextQuiet
    BY <1>1, <2>1, <2>2 DEF ContextQuiet, Objects, Insts
  <2> QED
    BY <2>3, QuietContext
<1>3. ASSUME NEW got \in GetOrCreate(s), Obtained(s, got),
             turns' = [turns EXCEPT ![t].obj = got.obj,
                         ![t].phase = IF Locked(got.obj) THEN "queued" ELSE "ensure"]
      PROVE  Context'
  <2>1. /\ DOMAIN objs' = Objects \cup {got.obj}
        /\ \A o \in Objects : objs'[o] = objs[o]
        /\ got.obj \notin Objects => objs'[got.obj] = NewObject(s)
    BY <1>3, ObtainedEffect
  <2>2. \A u \in Turns : turns'[u].phase \in Writing => turns'[u] = turns[u]
    BY <1>1, <1>3 DEF Turn, Writing
  <2>3. NewObject(s).proc = 0 /\ ~NewObject(s).lock /\ ~NewObject(s).ctx /\ NewObject(s).conv = Unread
    BY DEF NewObject
  <2>4. Insts' = Insts /\ Objects' = Objects \cup {got.obj}
    BY <1>1, <2>1 DEF Insts, Objects
  <2>5. \A o \in Objects : Alive(o)' <=> Alive(o)
    BY <1>1, <2>1 DEF Alive
  <2>6. \A o \in Objects' :
            /\ objs'[o].conv \in {Unread, 0} \cup taught
            /\ objs'[o].lock => objs'[o].conv # Unread
            /\ objs'[o].ctx /\ Alive(o)' => Informed(objs[o].proc)'
    <3>1. ASSUME NEW o \in Objects
          PROVE  /\ objs'[o].conv \in {Unread, 0} \cup taught
                 /\ objs'[o].lock => objs'[o].conv # Unread
                 /\ objs'[o].ctx /\ Alive(o)' => Informed(objs[o].proc)'
      BY <1>1, <2>1, <2>5 DEF Context, Informed
    <3> QED
      BY <2>1, <2>3, <2>4, <3>1
  <2>7. \A u \in Turns : turns'[u].phase \in Writing /\ Alive(turns[u].obj)' => objs'[turns'[u].obj].ctx
    <3>1. \A u \in Turns : turns[u].phase \in Writing => turns[u].obj \in Objects
      BY DEF Sound, Points, Writing
    <3> QED
      BY <2>1, <2>2, <2>5, <3>1 DEF Context
  <2>8. ContextRead'
    BY <1>1, <2>4 DEF Context, ContextRead
  <2> QED
    BY <1>1, <2>4, <2>6, <2>7, <2>8 DEF Context
<1> QED
  BY <1>2, <1>3 DEF Message

LEMMA AnswersContext ==
    ASSUME Sound, Private, Context, NEW i \in Insts, Answers(i)
    PROVE  Context'
<1> DEFINE o == insts[i].obj
           c == insts[i].conv
           m == Head(insts[i].input)
           kid == [insts[i] EXCEPT !.input = Tail(insts[i].input),
                      !.reader = IF objs[o].proc = i THEN insts[i].reader ELSE "ending"]
<1>1. /\ insts[i].alive /\ ~insts[i].hung /\ insts[i].input # <<>>
      /\ turns' = Heard(o, m) /\ insts' = [insts EXCEPT ![i] = kid]
      /\ objs' = [objs EXCEPT ![o].conv = c]
      /\ file' = [file EXCEPT ![objs[o].session] = c]
      /\ taught' = IF m = Ctx THEN taught \cup {c} ELSE taught
  BY DEF Answers
<1>2. o \in Objects /\ objs[o] \in Object /\ insts[i] \in Inst /\ file \in [Sessions -> Int]
  BY Elements DEF Sound, Points, Shapes
<1>3. objs[o].proc = i /\ objs[o].session \in Sessions /\ c # Unread
  BY <1>1, <1>2 DEF Private, Procs, Object, Context
<1>4. PICK x \in Int : insts[i].input = <<x>>
  BY <1>1 DEF Private, Talk, Ctx, Turns
<1>5. m = x /\ Tail(insts[i].input) = <<>>
  <2>1. Head(<<x>>) = x /\ Tail(<<x>>) = <<>>
    OBVIOUS
  <2> QED
    BY <1>4, <2>1
<1>6. c \in taught' /\ taught \subseteq taught'
  <2>1. CASE x = Ctx
    BY <1>1, <1>5, <2>1
  <2>2. CASE x # Ctx
    <3> DEFINE q == insts[i].input
    <3>1. 1 \in DOMAIN q /\ q[1] = x
      BY <1>4
    <3> HIDE DEF q
    <3>2. c \in taught \/ \E n \in 1..(1 - 1) : q[n] = Ctx
      BY <2>2, <3>1 DEF Context, ContextRead, q
    <3> QED
      BY <1>1, <1>5, <2>2, <3>2
  <2> QED
    BY <2>1, <2>2
<1>7. kid.input = <<>> /\ kid.conv = c /\ kid.alive
  BY <1>1, <1>2, <1>5 DEF Inst
<1> HIDE DEF kid, m
<1>8. Insts' = Insts /\ insts'[i] = kid /\ \A j \in Insts : j # i => insts'[j] = insts[j]
  BY <1>1 DEF Insts
<1>9. /\ Objects' = Objects /\ objs'[o].conv = c
      /\ \A y \in Objects : /\ y # o => objs'[y].conv = objs[y].conv
                            /\ objs'[y].proc = objs[y].proc
                            /\ objs'[y].lock <=> objs[y].lock
                            /\ objs'[y].ctx <=> objs[y].ctx
  BY <1>1, <1>2 DEF Object, Objects
<1>10. \A s \in Sessions : file'[s] \in {0} \cup taught' /\ file'[s] # Unread
  BY <1>1, <1>2, <1>3, <1>6 DEF Context
<1>11. \A j \in Insts' : insts'[j].conv # Unread
  BY <1>3, <1>7, <1>8 DEF Context
<1>12. \A y \in Objects' : /\ objs'[y].conv \in {Unread, 0} \cup taught'
                           /\ objs'[y].lock => objs'[y].conv # Unread
  BY <1>3, <1>6, <1>9 DEF Context
<1>13. \A y \in Objects : /\ Alive(y)' => Alive(y)
                          /\ y # o /\ Alive(y) => insts'[objs[y].proc] = insts[objs[y].proc]
  <2>1. \A y \in Objects : y # o /\ objs[y].proc # 0 => objs[y].proc # i /\ objs[y].proc \in Insts
    BY DEF Private, Procs, Sound, Points
  <2> QED
    BY <1>1, <1>3, <1>7, <1>8, <1>9, <2>1, ZenonT(40) DEF Alive
<1>14. \A y \in Objects' : objs'[y].ctx /\ Alive(y)' => Informed(objs[y].proc)'
  <2> SUFFICES ASSUME NEW y \in Objects, objs'[y].ctx, Alive(y)'
               PROVE  Informed(objs[y].proc)'
    BY <1>9
  <2>1. CASE y = o
    <3>1. objs'[y].proc = i /\ insts'[i].conv \in taught'
      BY <1>3, <1>6, <1>7, <1>8, <1>9, <2>1
    <3> QED
      BY <3>1 DEF Informed
  <2>2. CASE y # o
    <3>1. /\ objs[y].ctx /\ Alive(y) /\ objs'[y].proc = objs[y].proc
          /\ insts'[objs[y].proc] = insts[objs[y].proc]
      BY <1>9, <1>13, <2>2
    <3>2. Informed(objs[y].proc)
      BY <3>1 DEF Context
    <3> QED
      BY <1>6, <3>1, <3>2 DEF Informed
  <2> QED
    BY <2>1, <2>2
<1>15. \A t \in Turns : turns'[t].phase \in Writing /\ Alive(turns[t].obj)' => objs'[turns'[t].obj].ctx
  <2>1. \A u \in Turns : turns'[u].phase \in Writing =>
            turns[u].phase \in Writing /\ turns'[u].obj = turns[u].obj /\ turns[u].obj \in Objects
    BY <1>1, <1>5, HeardWriting DEF Sound, Points, Writing
  <2> QED
    BY <1>9, <1>13, <2>1 DEF Context
<1>16. ContextRead'
  <2> SUFFICES ASSUME NEW j \in Insts'
               PROVE  \A k \in DOMAIN insts'[j].input : insts'[j].input[k] # Ctx =>
                         insts'[j].conv \in taught' \/ \E n \in 1..(k - 1) : insts'[j].input[n] = Ctx
    BY DEF ContextRead
  <2>1. j \in Insts /\ insts'[j].conv = insts[j].conv
        /\ (insts'[j].input = insts[j].input \/ insts'[j].input = <<>>)
    BY <1>7, <1>8
  <2> QED
    BY <1>6, <2>1, ReadOn DEF Context, ContextRead
<1> QED
  BY <1>10, <1>11, <1>12, <1>14, <1>15, <1>16 DEF Context

LEMMA SendContext ==
    ASSUME Sound, Private, Context, NEW t \in Turns, Send(t)
    PROVE  Context'
<1> DEFINE o == turns[t].obj
           p == objs[o].proc
           context == turns[t].phase = "ready" /\ NeedsContext(o)
<1>1. /\ turns[t].phase \in {"ready", "send"} /\ Failed \in Int
      /\ file' = file /\ taught' = taught
  BY DEF Send, Failed
<1>2. o \in Objects /\ objs[o] \in Object
  BY <1>1, OnObject
<1>3. CASE ~Alive(o)
  <2>1. /\ turns' = [turns EXCEPT ![t].phase = "ended", ![t].answer = Failed]
        /\ objs' = objs /\ insts' = insts /\ "ended" \in Phases /\ "ended" \notin Writing
    BY <1>3 DEF Send, Phases, Writing
  <2>2. \A u \in Turns : turns'[u].phase \in Writing =>
            turns[u].phase \in Writing /\ turns'[u].obj = turns[u].obj
    BY <1>1, <2>1, StopsWriting
  <2>3. ContextQuiet
    BY <1>1, <2>1, <2>2 DEF ContextQuiet, Objects, Insts
  <2> QED
    BY <2>3, QuietContext
<1>4. CASE Alive(o)
  <2>1. PICK m \in Int, q \in Phases :
           /\ Written(o, m) /\ turns' = [turns EXCEPT ![t].phase = q]
           /\ \/ m = Ctx /\ context
              \/ m = t /\ ~context
    <3>1. CASE context
      BY <1>4, <3>1 DEF Send, Phases, Ctx
    <3>2. CASE ~context
      BY <1>4, <3>2 DEF Send, Phases, Turns
    <3> QED
      BY <3>1, <3>2
  <2>2. m # Ctx => objs[o].ctx /\ Informed(p)
    <3>1. m # Ctx => objs[o].ctx
      BY <1>1, <1>4, <2>1 DEF NeedsContext, Context, Writing
    <3> QED
      BY <1>2, <1>4, <3>1 DEF Context
  <2>3. /\ p \in Insts /\ Insts' = Insts
        /\ \A j \in Insts : j # p => insts'[j] = insts[j]
        /\ insts'[p].conv = insts[p].conv
        /\ insts[p].input \in Seq(Int)
        /\ \A old \in Seq(Int) : old = insts[p].input => insts'[p].input = Append(old, m)
        /\ insts'[p].alive <=> insts[p].alive
    BY <1>2, <1>4, <2>1, WrittenEffect
  <2>4. PICK old \in Seq(Int) : old = insts[p].input
    BY <2>3
  <2> DEFINE new == Append(old, m)
  <2>5. insts'[p].input = new
    BY <2>3, <2>4
  <2>6. /\ DOMAIN new = DOMAIN old \cup {Len(old) + 1} /\ Len(old) \in Nat /\ DOMAIN old = 1..Len(old)
        /\ \A k \in DOMAIN old : new[k] = old[k]
        /\ new[Len(old) + 1] = m
    BY Extend
  <2> HIDE DEF new
  <2>7. /\ Objects' = Objects
        /\ \A x \in Objects : /\ objs'[x].conv = objs[x].conv
                              /\ objs'[x].proc = objs[x].proc
                              /\ objs'[x].lock <=> objs[x].lock
                              /\ x # o => objs'[x] = objs[x]
        /\ objs'[o].ctx <=> objs[o].ctx \/ context
    <3>1. objs' = [objs EXCEPT ![o].ctx = @ \/ context]
      BY <1>4 DEF Send
    <3> QED
      BY <1>2, <3>1 DEF Object, Objects
  <2>8. \A x \in Objects : /\ Alive(x)' <=> Alive(x)
                           /\ x # o /\ Alive(x) => insts'[objs[x].proc] = insts[objs[x].proc]
    <3>1. p # 0 /\ insts[p].obj = o
      BY <1>2, <1>4 DEF Alive, Private, Procs
    <3> SUFFICES ASSUME NEW x \in Objects, NEW k, k = objs[x].proc, k # 0
                 PROVE  (insts'[k].alive <=> insts[k].alive) /\ (x # o => insts'[k] = insts[k])
      BY <2>7 DEF Alive
    <3>2. k \in Insts /\ insts[k].obj = x
      BY DEF Private, Procs, Sound, Points
    <3> QED
      BY <2>3, <3>1, <3>2
  <2>9. objs'[o].ctx /\ (insts[p].conv \in taught \/ \E k \in DOMAIN new : new[k] = Ctx)
    <3>1. CASE m = Ctx
      BY <2>1, <2>2, <2>6, <2>7, <3>1 DEF Ctx, Turns
    <3>2. CASE m # Ctx
      BY <2>2, <2>4, <2>6, <2>7, <3>2 DEF Informed
    <3> QED
      BY <3>1, <3>2
  <2>10. \A x \in Objects' : objs'[x].ctx /\ Alive(x)' => Informed(objs[x].proc)'
    <3> SUFFICES ASSUME NEW x \in Objects, objs'[x].ctx, Alive(x)'
                 PROVE  Informed(objs[x].proc)'
      BY <2>7
    <3>1. CASE x = o
      <4>1. objs'[x].proc = p
        BY <2>7, <3>1
      <4> QED
        BY <1>1, <2>3, <2>5, <2>9, <4>1 DEF Informed
    <3>2. CASE x # o
      <4>1. /\ objs[x].ctx /\ Alive(x) /\ objs'[x].proc = objs[x].proc
            /\ insts'[objs[x].proc] = insts[objs[x].proc]
        BY <2>7, <2>8, <3>2
      <4>2. Informed(objs[x].proc)
        BY <4>1 DEF Context
      <4> QED
        BY <1>1, <4>1, <4>2 DEF Informed
    <3> QED
      BY <3>1, <3>2
  <2>11. \A u \in Turns : turns'[u].phase \in Writing /\ Alive(turns[u].obj)' => objs'[turns'[u].obj].ctx
    <3>1. /\ turns'[t].obj = o /\ \A u \in Turns : u # t => turns'[u] = turns[u]
      BY <2>1, TurnEffect
    <3>2. \A u \in Turns : turns[u].phase \in Writing => turns[u].obj \in Objects
      BY DEF Sound, Points, Writing
    <3>3. ASSUME NEW u \in Turns, u # t, turns'[u].phase \in Writing, Alive(turns[u].obj)'
          PROVE  objs'[turns'[u].obj].ctx
      <4>1. turns[u].obj \in Objects /\ turns'[u] = turns[u] /\ Alive(turns[u].obj)
        BY <2>8, <3>1, <3>2, <3>3
      <4>2. objs[turns[u].obj].ctx
        BY <3>3, <4>1 DEF Context
      <4> QED
        BY <2>7, <2>9, <4>1, <4>2
    <3> QED
      BY <2>9, <3>1, <3>3
  <2>12. ContextRead'
    <3> SUFFICES ASSUME NEW j \in Insts
                 PROVE  \A k \in DOMAIN insts'[j].input : insts'[j].input[k] # Ctx =>
                           insts'[j].conv \in taught' \/ \E n \in 1..(k - 1) : insts'[j].input[n] = Ctx
      BY <2>3 DEF ContextRead
    <3>1. CASE j # p
      <4>1. insts'[j] = insts[j]
        BY <2>3, <3>1
      <4> QED
        BY <1>1, <4>1 DEF Context, ContextRead
    <3>2. CASE j = p
      <4> SUFFICES ASSUME NEW k \in DOMAIN new, new[k] # Ctx, insts[p].conv \notin taught
                   PROVE  \E n \in 1..(k - 1) : new[n] = Ctx
        BY <1>1, <2>3, <2>5, <3>2
      <4>1. CASE k \in DOMAIN old
        <5>1. old[k] # Ctx /\ k \in DOMAIN old
          BY <2>6, <4>1
        <5>2. \E n \in 1..(k - 1) : old[n] = Ctx
          BY <2>3, <2>4, <5>1 DEF Context, ContextRead
        <5> QED
          BY <2>6, <4>1, <5>2
      <4>2. CASE k = Len(old) + 1
        <5>1. m # Ctx
          BY <2>6, <4>2
        <5>2. \E n \in DOMAIN old : old[n] = Ctx
          BY <2>2, <2>4, <5>1 DEF Informed
        <5> QED
          BY <2>6, <4>2, <5>2
      <4> QED
        BY <2>6, <4>1, <4>2
    <3> QED
      BY <3>1, <3>2
  <2>13. \A x \in Objects' : /\ objs'[x].conv \in {Unread, 0} \cup taught'
                             /\ objs'[x].lock => objs'[x].conv # Unread
    BY <1>1, <2>7 DEF Context
  <2>14. \A j \in Insts' : insts'[j].conv # Unread
    BY <2>3 DEF Context
  <2> QED
    BY <1>1, <2>10, <2>11, <2>12, <2>13, <2>14 DEF Context
<1> QED
  BY <1>3, <1>4

LEMMA InitContext ==
    ASSUME Init
    PROVE  Context
<1>1. Objects = {} /\ Insts = {} /\ \A t \in Turns : turns[t].phase = "new"
  BY DEF Init, Objects, Insts
<1>2. \A s \in Sessions : file[s] = 0
  BY DEF Init
<1> QED
  BY <1>1, <1>2 DEF Context, ContextRead, Writing, Unread

LEMMA ContextStep ==
    ASSUME Sound, Locking, Private, Context, Calm, [Next]_vars
    PROVE  Context'
<1>0. NoTalk
  BY DEF Calm, NoTalk
<1>1. CASE \E t \in Turns, s \in Sessions : Message(t, s)
  BY <1>1, MessageContext
<1>2. CASE Progress
  <2>1. CASE \E t \in Turns : Pending(t)
    BY <2>1, EnsureContext, SpawnEndsContext, SendContext DEF Pending
  <2>2. CASE \E i \in Insts : Answers(i) \/ ReaderEnds(i)
    BY <2>2, AnswersContext, EndsContext
  <2>3. CASE \E o \in Objects : Kill(o) \/ Respawn(o)
    BY <2>3, KillContext DEF Respawn, Private, Procs
  <2> QED
    BY <1>2, <2>1, <2>2, <2>3 DEF Progress
<1>3. CASE Interferes
  <2>1. CASE \E t \in Turns : SpawnFails(t) \/ Inject(t) \/ Cancel(t)
    BY <1>0, <2>1, EnsureContext, CancelContext DEF Inject, May, Calm
  <2>2. CASE \E i \in Insts : Dies(i) \/ Hangs(i)
    BY <2>2, EndsContext
  <2>3. CASE \E s \in Sessions : KillSession(s) \/ Restart(s) \/ Recycle(s) \/ Compact(s)
    <3>1. ASSUME NEW s \in Sessions, KillSession(s)
          PROVE  Context'
      <4>1. ContextQuiet
        BY <3>1 DEF KillSession, ContextQuiet, Objects, Insts
      <4> QED
        BY <4>1, QuietContext
    <3> QED
      BY <2>3, <3>1, RecycleContext DEF Restart, Compact, May, Calm
  <2> QED
    BY <1>3, <2>1, <2>2, <2>3 DEF Interferes
<1>4. CASE UNCHANGED vars
  <2>1. ContextQuiet
    BY <1>4 DEF vars, ContextQuiet, Objects, Insts
  <2> QED
    BY <2>1, QuietContext
<1> QED
  BY <1>1, <1>2, <1>3, <1>4 DEF Next

\* A subprocess reads the context before any message of a user, fresh or resumed, whatever
\* dies, hangs, is cancelled, evicted or refreshed, as long as nobody restarts or compacts the
\* process meanwhile (send_message tells a fresh process who it is and waits for its answer).
THEOREM ContextFirstHolds == Spec => []ContextFirst
<1> DEFINE Ours == NoTalk => Private
           First == Calm => Context
<1>1. Init => Sound /\ Locking /\ Ours /\ First
  BY InitSound, InitLocking, InitPrivate, InitContext
<1>2. Sound /\ Locking /\ Ours /\ First /\ [Next]_vars => (Sound /\ Locking /\ Ours /\ First)'
  <2>1. [Next]_vars => features' = features
    BY DEF Next, vars
  <2>2. [Next]_vars => (NoTalk' <=> NoTalk) /\ (Calm' <=> Calm)
    BY <2>1 DEF NoTalk, Calm
  <2>3. Calm => NoTalk
    BY DEF Calm, NoTalk
  <2> QED
    BY <2>2, <2>3, SoundStep, LockingStep, PrivateStep, ContextStep
<1>3. First => ContextFirst
  BY DEF ContextFirst, Calm, Context
<1> QED
  BY <1>1, <1>2, <1>3, PTL DEF Spec

=============================================================================
