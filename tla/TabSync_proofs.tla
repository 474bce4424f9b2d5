--------------------------- MODULE TabSync_proofs ---------------------------
(***************************************************************************)
(* Theorems about the tabs of several devices, for any number of devices,  *)
(* sessions and edits, any roles and any limits: the types, that stored    *)
(* names go forward, that a sync keeps the limits, that a deleted tab      *)
(* stays deleted, and that the devices converge.                           *)
(***************************************************************************)
EXTENDS TabSync, FiniteSetTheorems, WellFoundedInduction, TLAPS

----------------------------------------------------------------------------
(* Induction and the fold over the rows of a push.                         *)

LEMMA Induction ==
    ASSUME NEW G, 0 \in G, \A n \in Nat : n \in G => n + 1 \in G
    PROVE  Nat \subseteq G
<1> DEFINE T == Nat \ G
           R == OpToRel(<, Nat)
<1>1. IsWellFoundedOn(R, Nat)
  BY NatLessThanWellFounded
<1>2. \A x, y \in Nat : y < x => <<y, x>> \in R
  BY DEF OpToRel
<1> SUFFICES ASSUME T # {} PROVE FALSE
  OBVIOUS
<1> HIDE DEF R
<1>3. PICK x \in T : \A y \in T : ~(<<y, x>> \in R)
  <2>1. T \subseteq Nat
    OBVIOUS
  <2> HIDE DEF T
  <2> QED
    BY <1>1, <2>1, WFMin
<1>4. x \in Nat /\ x # 0
  BY <1>3
<1>5. x - 1 \in Nat /\ x - 1 < x /\ (x - 1) + 1 = x
  BY <1>4
<1>6. x - 1 \notin T
  BY <1>2, <1>3, <1>4, <1>5
<1>7. x - 1 \in G
  BY <1>5, <1>6
<1> QED
  BY <1>3, <1>5, <1>7

\* One row of device d's push.
Taken(st, s, d) == SyncRow(st, s, tabs[d][s])

\* The fold of a set K of keys; key[k] names the row, ch[X] the key taken last of X.
FoldOf(it, K, ch, key, start, d) ==
    [X \in K |-> IF X = {} THEN start ELSE Taken(it[X \ {ch[X]}], key[ch[X]], d)]

Chooses(ch, K) == \A X \in SUBSET K : X # {} => ch[X] \in X
Folds(K, ch, key, start, d) == \E it : it = FoldOf(it, SUBSET K, ch, key, start, d)

LEMMA FoldExists ==
    ASSUME NEW K, IsFiniteSet(K), NEW ch, Chooses(ch, K), NEW key, NEW start, NEW d
    PROVE  Folds(K, ch, key, start, d)
<1> DEFINE Up(n) == {X \in SUBSET K : Cardinality(X) <= n}
           G == {n \in Nat : \E it : it = FoldOf(it, Up(n), ch, key, start, d)}
<1>0. \A X \in SUBSET K : X # {} => ch[X] \in X
  BY DEF Chooses
<1>1. ASSUME NEW X \in SUBSET K
      PROVE  /\ Cardinality(X) \in Nat /\ Cardinality(X) <= Cardinality(K)
             /\ Cardinality(X) = 0 => X = {}
             /\ X # {} => X \ {ch[X]} \in SUBSET K /\ Cardinality(X \ {ch[X]}) = Cardinality(X) - 1
  <2>1. IsFiniteSet(X) /\ Cardinality(X) <= Cardinality(K)
    BY FS_Subset
  <2>2. Cardinality(X) \in Nat /\ (Cardinality(X) = 0 => X = {})
    BY <2>1, FS_CardinalityType, FS_EmptySet
  <2>3. X # {} => Cardinality(X \ {ch[X]}) = Cardinality(X) - 1
    BY <1>0, <2>1, FS_RemoveElement
  <2> QED
    BY <2>1, <2>2, <2>3
<1>2. 0 \in G
  <2> DEFINE U == Up(0)
             it == [X \in U |-> start]
  <2>1. \A X \in U : X = {}
    <3> SUFFICES ASSUME NEW X \in SUBSET K, Cardinality(X) <= 0 PROVE X = {}
      OBVIOUS
    <3>1. Cardinality(X) \in Nat /\ (Cardinality(X) = 0 => X = {})
      BY <1>1
    <3>2. Cardinality(X) = 0
      BY <3>1
    <3> QED
      BY <3>1, <3>2
  <2>2. it = FoldOf(it, U, ch, key, start, d)
    <3> HIDE DEF U
    <3>1. it = [X \in U |-> start]
      OBVIOUS
    <3> HIDE DEF it
    <3> QED
      BY <2>1, <3>1 DEF FoldOf
  <2> QED
    BY <2>2
<1>3. ASSUME NEW n \in Nat, n \in G
      PROVE  n + 1 \in G
  <2> DEFINE U == Up(n)
             V == Up(n + 1)
  <2>1. PICK g : g = FoldOf(g, U, ch, key, start, d)
    BY <1>3
  <2> DEFINE it == FoldOf(g, V, ch, key, start, d)
  <2>2. \A X \in V : X # {} => X \ {ch[X]} \in U
    <3> SUFFICES ASSUME NEW X \in SUBSET K, Cardinality(X) <= n + 1, X # {}
                 PROVE  X \ {ch[X]} \in SUBSET K /\ Cardinality(X \ {ch[X]}) <= n
      OBVIOUS
    <3> QED
      BY <1>1
  <2>3. \A X \in U : X \in V
    <3> SUFFICES ASSUME NEW X \in SUBSET K, Cardinality(X) <= n PROVE Cardinality(X) <= n + 1
      OBVIOUS
    <3>1. Cardinality(X) \in Nat
      BY <1>1
    <3> QED
      BY <3>1
  <2> HIDE DEF U, V
  <2>4. it = FoldOf(g, V, ch, key, start, d)
    BY Zenon DEF it
  <2> HIDE DEF it
  <2>5. ASSUME NEW X \in U PROVE it[X] = g[X]
    <3>1. g[X] = IF X = {} THEN start ELSE Taken(g[X \ {ch[X]}], key[ch[X]], d)
      BY <2>1, <2>5 DEF FoldOf
    <3>2. it[X] = IF X = {} THEN start ELSE Taken(g[X \ {ch[X]}], key[ch[X]], d)
      BY <2>3, <2>4, <2>5 DEF FoldOf
    <3> QED
      BY <3>1, <3>2
  <2>6. it = FoldOf(it, V, ch, key, start, d)
    <3>1. \A X \in V : (IF X = {} THEN start ELSE Taken(it[X \ {ch[X]}], key[ch[X]], d))
                      = (IF X = {} THEN start ELSE Taken(g[X \ {ch[X]}], key[ch[X]], d))
      BY <2>2, <2>5
    <3> QED
      BY <2>4, <3>1 DEF FoldOf
  <2>7. \E i : i = FoldOf(i, Up(n + 1), ch, key, start, d)
    BY <2>6, Zenon DEF V
  <2>8. n + 1 \in Nat
    OBVIOUS
  <2> HIDE DEF Up
  <2> QED
    BY <2>7, <2>8
<1>4. Cardinality(K) \in G
  <2> HIDE DEF G
  <2> QED
    BY <1>2, <1>3, Induction, FS_CardinalityType
<1>5. Up(Cardinality(K)) = SUBSET K
  BY <1>1
<1> QED
  BY <1>4, <1>5 DEF Folds

----------------------------------------------------------------------------
(* Types.                                                                  *)

Maps(V) == UNION {[X -> V] : X \in SUBSET Sessions}

LEMMA MapsDef ==
    ASSUME NEW V, NEW f
    PROVE  f \in Maps(V) <=> /\ f = [s \in DOMAIN f |-> f[s]] /\ DOMAIN f \subseteq Sessions
                             /\ \A s \in DOMAIN f : f[s] \in V
BY DEF Maps

LEMMA PutMaps ==
    ASSUME NEW V, NEW f \in Maps(V), NEW s \in Sessions, NEW v \in V
    PROVE  Put(f, s, v) \in Maps(V)
<1>1. DOMAIN f \subseteq Sessions /\ \A x \in DOMAIN f : f[x] \in V
  BY MapsDef
<1> DEFINE g == [x \in DOMAIN f \cup {s} |-> IF x = s THEN v ELSE f[x]]
<1>2. g \in [DOMAIN f \cup {s} -> V]
  BY <1>1
<1>3. g \in Maps(V)
  BY <1>1, <1>2 DEF Maps
<1> QED
  BY <1>3 DEF Put

LEMMA WithoutMaps ==
    ASSUME NEW V, NEW f \in Maps(V), NEW S
    PROVE  Without(f, S) \in Maps(V)
<1>1. DOMAIN f \subseteq Sessions /\ \A x \in DOMAIN f : f[x] \in V
  BY MapsDef
<1> DEFINE g == [x \in DOMAIN f \ S |-> f[x]]
<1>2. g \in [DOMAIN f \ S -> V]
  BY <1>1
<1>3. g \in Maps(V)
  BY <1>1, <1>2 DEF Maps
<1> QED
  BY <1>3 DEF Without

Tab == [label : (-1 - Cardinality(Sessions))..MaxEdits, at : 0..MaxEdits]
List == [kind : {"list"}, rows : Maps(Row), sids : SUBSET Sessions, dead : SUBSET Sessions]
Stamped(f) == \A s \in DOMAIN f : f[s].at <= edits

MetaShape == meta \in Maps(Row) /\ Stamped(meta)
TabShape == tabs \in [Devices -> Maps(Tab)] /\ \A d \in Devices : Stamped(tabs[d])
PullShape ==
    /\ pull \in [Devices -> {Idle} \cup List]
    /\ \A d \in Devices : pull[d] # Idle => Stamped(pull[d].rows)
SetShape ==
    /\ gone \subseteq Sessions /\ tomb \subseteq gone \ missed /\ hist \subseteq Sessions
    /\ cleaning \subseteq Sessions /\ roles \subseteq Sessions
    /\ due \in [Devices -> BOOLEAN] /\ heard \in [Devices -> BOOLEAN]

Shape == MetaShape /\ TabShape /\ PullShape /\ SetShape /\ edits \in 0..MaxEdits

Request == [rows : Maps(Row), known : SUBSET Sessions, rejected : SUBSET Sessions,
            saved : BOOLEAN, total : Int, codex : Int, spark : Int]

----------------------------------------------------------------------------
(* What keeps a deleted tab deleted, and the labels.                       *)

\* The rows that a device takes up as tabs.
Shown(rows) == {s \in DOMAIN rows : rows[s].worker \/ rows[s].explicit}

\* The deleted sessions that a device may still show, under their tombstone or after it.
Left == tomb \cup missed

\* A deleted session is still to be seen only under its tombstone, or when it was missed.
Deleted ==
    /\ Shown(meta) \cap gone \subseteq missed
    /\ roles \cap (gone \cup cleaning) = {}
    /\ \A d \in Devices : /\ DOMAIN tabs[d] \cap gone \subseteq Left
                          /\ pull[d] # Idle => Shown(pull[d].rows) \cap gone \subseteq Left

\* A row without a label is one of a role, and a row of a role one of a worker's session.
Roled(rows) == \A s \in DOMAIN rows : /\ rows[s].label = NoLabel => rows[s].worker
                                      /\ rows[s].worker => s \in Workers
DefaultRow(rows, s) ==
    s \in DOMAIN rows /\ Limited(s) /\ rows[s].label = Default /\ s \notin hist
\* No phantom default tab is stored beside another.
OneDefault(rows) ==
    \A r, s \in DOMAIN rows :
        DefaultRow(rows, r) /\ DefaultRow(rows, s) /\ Model[r] = Model[s] => r = s

Labels ==
    /\ roles \subseteq Workers
    /\ Roled(meta) /\ OneDefault(meta)
    /\ \A s \in DOMAIN meta \cap tomb : meta[s].label # Default
    /\ \A d \in Devices :
         /\ \A s \in DOMAIN tabs[d] : tabs[d][s].label = NoLabel => s \in Workers
         /\ pull[d] # Idle => Roled(pull[d].rows)

Facts == Shape /\ Deleted /\ Labels

----------------------------------------------------------------------------
(* One row of a push.                                                      *)

DefaultTab(d, s) ==
    s \in DOMAIN tabs[d] /\ Limited(s) /\ tabs[d][s].label = Default /\ s \notin hist

Stored(st, s, d) ==
    LET t == tabs[d][s]
        old == st.rows[s]
        older == s \in DOMAIN st.rows /\ t.at < old.at
    IN  [label |-> IF older THEN old.label ELSE t.label,
         at |-> IF older THEN old.at ELSE t.at,
         worker |-> s \in Workers,
         explicit |-> s \in Explicit \/ (s \in DOMAIN st.rows /\ old.explicit),
         old |-> FALSE]

\* What one row does to the request's state: nothing, it is rejected, or it is stored.
Skips(st, s, d, nw) ==
    /\ nw = st
    /\ \/ s \in tomb
       \/ DefaultTab(d, s) /\ \E r \in DOMAIN st.rows \ {s} : DefaultRow(st.rows, r) /\ Model[r] = Model[s]
Rejects(st, s, nw) ==
    /\ s \notin st.known
    /\ nw.rejected = st.rejected \cup {s}
    /\ nw.rows = st.rows /\ nw.known = st.known /\ nw.saved = st.saved
    /\ nw.codex = st.codex /\ nw.spark = st.spark
Stores(st, s, d, nw) ==
    /\ s \notin tomb
    /\ DefaultTab(d, s) => \A r \in DOMAIN st.rows \ {s} : DefaultRow(st.rows, r) => Model[r] # Model[s]
    /\ nw.saved = TRUE /\ nw.rejected = st.rejected
    /\ nw.rows = Put(st.rows, s, Stored(st, s, d))
    /\ IF s \in st.known \/ ~Limited(s)
       THEN nw.known = st.known /\ nw.codex = st.codex /\ nw.spark = st.spark
       ELSE /\ nw.known = st.known \cup {s}
            /\ nw.codex = IF Model[s] = "codex" THEN st.codex + 1 ELSE st.codex
            /\ nw.spark = IF Model[s] = "spark" THEN st.spark + 1 ELSE st.spark
            /\ Model[s] = "codex" => st.codex < Limits["codex"]
            /\ Model[s] = "spark" => st.spark < Limits["spark"]

LEMMA StoredIsRow ==
    ASSUME Facts, NEW d \in Devices, NEW s \in DOMAIN tabs[d], NEW st \in Request
    PROVE  Stored(st, s, d) \in Row /\ s \in Sessions
<1>1. s \in Sessions /\ tabs[d][s] \in Tab
  BY MapsDef DEF Facts, Shape, MetaShape, TabShape
<1>2. s \in DOMAIN st.rows => st.rows[s] \in Row
  BY MapsDef DEF Request
<1> QED
  BY <1>1, <1>2 DEF Stored, Tab, Row

LEMMA TakenCases ==
    ASSUME Facts, NEW d \in Devices, NEW s \in DOMAIN tabs[d], NEW st \in Request
    PROVE  LET nw == Taken(st, s, d)
           IN  /\ nw \in Request
               /\ Skips(st, s, d, nw) \/ Rejects(st, s, nw) \/ Stores(st, s, d, nw)
<1> DEFINE t == tabs[d][s]
           nw == SyncRow(st, s, t)
<1>1. s \in Sessions /\ Stored(st, s, d) \in Row
  BY StoredIsRow
<1>2. CASE s \in tomb
  <2>1. nw = st
    BY <1>2 DEF SyncRow, Tombstoned
  <2> QED
    BY <1>2, <2>1 DEF Taken, Skips
<1>3. CASE s \notin tomb /\ s \notin st.known /\ Limited(s) /\ AtLimit(st, Model[s])
  <2>1. nw = [st EXCEPT !.rejected = @ \cup {s}]
    BY <1>3 DEF SyncRow, Tombstoned
  <2>2. nw \in Request /\ Rejects(st, s, nw)
    BY <1>1, <1>3, <2>1 DEF Request, Rejects
  <2> QED
    BY <2>2 DEF Taken
<1>4. CASE s \notin tomb /\ ~(s \notin st.known /\ Limited(s) /\ AtLimit(st, Model[s])) /\ Phantom(st, s, t)
  <2>1. nw = st
    BY <1>4 DEF SyncRow, Tombstoned
  <2>2. DefaultTab(d, s) /\ \E r \in DOMAIN st.rows \ {s} : DefaultRow(st.rows, r) /\ Model[r] = Model[s]
    BY <1>4 DEF Phantom, DefaultTab, DefaultRow, Limited
  <2> QED
    BY <2>1, <2>2 DEF Taken, Skips
<1>5. CASE s \notin tomb /\ ~(s \notin st.known /\ Limited(s) /\ AtLimit(st, Model[s])) /\ ~Phantom(st, s, t)
  <2> DEFINE c == Counted(st, s)
  <2>1. nw = [c EXCEPT !.saved = TRUE, !.rows = Upserted(c.rows, s, t, s \in Workers, s \in Explicit)]
    BY <1>5 DEF SyncRow, Tombstoned
  <2>2. /\ c \in Request /\ c.rows = st.rows /\ c.rejected = st.rejected
        /\ IF s \in st.known \/ ~Limited(s)
           THEN c.known = st.known /\ c.codex = st.codex /\ c.spark = st.spark
           ELSE /\ c.known = st.known \cup {s}
                /\ c.codex = IF Model[s] = "codex" THEN st.codex + 1 ELSE st.codex
                /\ c.spark = IF Model[s] = "spark" THEN st.spark + 1 ELSE st.spark
    <3>1. CASE s \in st.known \/ ~Limited(s)
      BY <3>1 DEF Counted
    <3>2. CASE ~(s \in st.known \/ ~Limited(s))
      <4> DEFINE x == IF Model[s] = "codex" THEN st.codex + 1 ELSE st.codex
                 y == IF Model[s] = "spark" THEN st.spark + 1 ELSE st.spark
      <4>1. x \in Int /\ y \in Int /\ st.total + 1 \in Int /\ st.known \cup {s} \in SUBSET Sessions
        BY <1>1 DEF Request
      <4>2. c = [st EXCEPT !.known = st.known \cup {s}, !.total = st.total + 1, !.codex = x, !.spark = y]
        BY <3>2 DEF Counted
      <4> HIDE DEF c, x, y
      <4>3. /\ c \in Request /\ c.rows = st.rows /\ c.rejected = st.rejected
            /\ c.known = st.known \cup {s} /\ c.codex = x /\ c.spark = y
        BY <4>1, <4>2 DEF Request
      <4> QED
        BY <3>2, <4>3 DEF x, y
    <3> QED
      BY <3>1, <3>2
  <2>3. Upserted(c.rows, s, t, s \in Workers, s \in Explicit) = Put(st.rows, s, Stored(st, s, d))
    BY <2>2 DEF Upserted, Stored
  <2>4. Put(st.rows, s, Stored(st, s, d)) \in Maps(Row)
    BY <1>1, PutMaps DEF Request
  <2> HIDE DEF c, nw
  <2>5. /\ nw \in Request /\ nw.saved = TRUE /\ nw.rejected = st.rejected
        /\ nw.rows = Put(st.rows, s, Stored(st, s, d))
        /\ nw.known = c.known /\ nw.codex = c.codex /\ nw.spark = c.spark
    BY <2>1, <2>2, <2>3, <2>4 DEF Request
  <2>6. DefaultTab(d, s) => \A r \in DOMAIN st.rows \ {s} : DefaultRow(st.rows, r) => Model[r] # Model[s]
    BY <1>5 DEF Phantom, DefaultTab, DefaultRow, Limited
  <2>7. s \notin st.known /\ Limited(s) =>
            /\ Model[s] = "codex" => st.codex < Limits["codex"]
            /\ Model[s] = "spark" => st.spark < Limits["spark"]
    BY <1>5, LimitsAssumption DEF AtLimit, Request
  <2>8. Stores(st, s, d, nw)
    BY <1>5, <2>2, <2>5, <2>6, <2>7 DEF Stores
  <2> QED
    BY <2>5, <2>8 DEF Taken, nw
<1> QED
  BY <1>2, <1>3, <1>4, <1>5

----------------------------------------------------------------------------
(* What holds of the request's state when the rows of P have been taken.   *)

Done(P, st) == P \ (tomb \cup st.rejected)

\* Rows are kept, deleted ones untouched, rejected ones absent, and only those of P are new.
Keeps(P, st) ==
    /\ DOMAIN meta \subseteq DOMAIN st.rows /\ DOMAIN st.rows \subseteq DOMAIN meta \cup (P \ tomb)
    /\ DOMAIN meta \subseteq st.known /\ st.known \subseteq DOMAIN st.rows
    /\ \A s \in DOMAIN st.rows : Limited(s) => s \in st.known
    /\ st.rejected \subseteq P /\ st.rejected \cap DOMAIN st.rows = {}
    /\ \A s \in DOMAIN st.rows : \/ s \in DOMAIN meta /\ st.rows[s] = meta[s]
                                 \/ s \in Done(P, st) /\ ~st.rows[s].old
    /\ Stamped(st.rows) /\ \A s \in DOMAIN meta : st.rows[s].at >= meta[s].at

\* Each tab of P that was not rejected is stored, or is a default tab beside another row.
Takes(P, st, d) ==
    /\ \A s \in Done(P, st) : \/ s \in DOMAIN st.rows /\ ~st.rows[s].old
                              \/ DefaultTab(d, s) /\ ~DefaultRow(st.rows, s)
    /\ st.saved => \E s \in DOMAIN st.rows \ tomb : ~st.rows[s].old
    /\ ~st.saved => /\ st.rows = meta
                    /\ \A s \in Done(P, st) :
                          /\ DefaultTab(d, s)
                          /\ \E r \in DOMAIN meta \ {s} : DefaultRow(meta, r) /\ Model[r] = Model[s]

Names(st) == Roled(st.rows) /\ OneDefault(st.rows)

\* The request's count of a model is that of its rows, and stays within the limit.
Bounds(n, mk, rows) ==
    /\ n = Counts(rows, tomb, {mk})
    /\ n <= Limits[mk] \/ n <= Counts(meta, tomb, {mk})

Good(P, st, d) ==
    /\ st \in Request
    /\ Keeps(P, st) /\ Takes(P, st, d) /\ Names(st)
    /\ Bounds(st.codex, "codex", st.rows) /\ Bounds(st.spark, "spark", st.rows)

LEMMA SkipGood ==
    ASSUME Facts, NEW d \in Devices, NEW P, NEW s \in DOMAIN tabs[d] \ P, NEW st, Good(P, st, d),
           Skips(st, s, d, st)
    PROVE  Good(P \cup {s}, st, d)
<1>1. OneDefault(st.rows)
  BY DEF Good, Names
<1>2. Done(P, st) \subseteq Done(P \cup {s}, st) /\ Done(P \cup {s}, st) \subseteq Done(P, st) \cup {s}
  BY DEF Done
<1>3. Keeps(P \cup {s}, st)
  BY <1>2 DEF Good, Keeps
<1>4. Takes(P \cup {s}, st, d)
  <2>1. CASE s \in tomb
    <3>1. Done(P \cup {s}, st) = Done(P, st)
      BY <2>1 DEF Done
    <3> QED
      BY <3>1 DEF Good, Takes
  <2>2. CASE s \notin tomb
    <3>1. PICK r \in DOMAIN st.rows \ {s} : DefaultRow(st.rows, r) /\ Model[r] = Model[s]
      BY <2>2 DEF Skips
    <3>2. DefaultTab(d, s) /\ ~DefaultRow(st.rows, s)
      BY <1>1, <2>2, <3>1 DEF Skips, OneDefault, DefaultRow
    <3>3. \A x \in Done(P \cup {s}, st) : x \in Done(P, st) \/ x = s
      BY <1>2
    <3> QED
      BY <3>1, <3>2, <3>3 DEF Good, Takes
  <2> QED
    BY <2>1, <2>2
<1> QED
  BY <1>3, <1>4 DEF Good

LEMMA RejectGood ==
    ASSUME Facts, NEW d \in Devices, NEW P, NEW s \in DOMAIN tabs[d] \ P, NEW st, Good(P, st, d),
           NEW nw \in Request, Rejects(st, s, nw)
    PROVE  Good(P \cup {s}, nw, d)
<1>1. Done(P \cup {s}, nw) = Done(P, st)
  BY DEF Done, Rejects, Good, Keeps
<1>2. Keeps(P \cup {s}, nw)
  BY <1>1 DEF Good, Keeps, Rejects
<1>3. Takes(P \cup {s}, nw, d)
  BY <1>1 DEF Good, Takes, Rejects
<1> QED
  BY <1>2, <1>3 DEF Good, Rejects, Names, Bounds

LEMMA StoreGood ==
    ASSUME Facts, NEW d \in Devices, NEW P, NEW s \in DOMAIN tabs[d] \ P, NEW st, Good(P, st, d),
           NEW nw \in Request, Stores(st, s, d, nw)
    PROVE  Good(P \cup {s}, nw, d)
<1> DEFINE v == Stored(st, s, d)
<1>1. /\ v \in Row /\ s \in Sessions /\ st \in Request
  BY StoredIsRow DEF Good
<1>2. /\ DOMAIN nw.rows = DOMAIN st.rows \cup {s} /\ nw.rows[s] = v
      /\ \A r \in DOMAIN st.rows : r # s => nw.rows[r] = st.rows[r]
  <2>1. nw.rows = Put(st.rows, s, v)
    BY DEF Stores
  <2> HIDE DEF v
  <2> QED
    BY <2>1 DEF Put
<1>3. nw.rejected = st.rejected /\ s \notin st.rejected /\ s \notin tomb /\ nw.saved = TRUE
  BY DEF Stores, Good, Keeps
<1>4. Done(P \cup {s}, nw) = Done(P, st) \cup {s} /\ s \notin Done(P, st)
  BY <1>3 DEF Done
<1>5. ~v.old /\ (v.worker <=> s \in Workers) /\ v.at <= edits
      /\ (s \in DOMAIN st.rows => v.at >= st.rows[s].at)
  <2>1. tabs[d][s].at \in Int /\ tabs[d][s].at <= edits
    <3>1. tabs[d] \in Maps(Tab) /\ Stamped(tabs[d])
      BY DEF Facts, Shape, MetaShape, TabShape
    <3>2. tabs[d][s] \in Tab
      BY <3>1, MapsDef
    <3> QED
      BY <3>1, <3>2 DEF Stamped, Tab
  <2>2. s \in DOMAIN st.rows => st.rows[s].at \in Int /\ st.rows[s].at <= edits
    <3>1. st.rows \in Maps(Row)
      BY <1>1 DEF Request
    <3>2. s \in DOMAIN st.rows => st.rows[s] \in Row
      BY <3>1, MapsDef
    <3>3. Stamped(st.rows)
      BY DEF Good, Keeps
    <3> QED
      BY <3>2, <3>3 DEF Stamped, Row
  <2>3. /\ ~v.old /\ (v.worker <=> s \in Workers)
        /\ v.at = IF s \in DOMAIN st.rows /\ tabs[d][s].at < st.rows[s].at
                 THEN st.rows[s].at ELSE tabs[d][s].at
    BY DEF Stored
  <2> QED
    BY <2>1, <2>2, <2>3
<1>6. s \in DOMAIN st.rows => s \in DOMAIN meta /\ st.rows[s] = meta[s]
  BY DEF Good, Keeps, Done
<1>7. Keeps(P \cup {s}, nw)
  <2>1. /\ DOMAIN meta \subseteq DOMAIN nw.rows
        /\ DOMAIN nw.rows \subseteq DOMAIN meta \cup ((P \cup {s}) \ tomb)
    BY <1>2, <1>3 DEF Good, Keeps
  <2>2. /\ DOMAIN meta \subseteq nw.known /\ nw.known \subseteq DOMAIN nw.rows
        /\ \A r \in DOMAIN nw.rows : Limited(r) => r \in nw.known
    BY <1>2 DEF Good, Keeps, Stores
  <2>3. nw.rejected \subseteq P \cup {s} /\ nw.rejected \cap DOMAIN nw.rows = {}
    BY <1>2, <1>3 DEF Good, Keeps
  <2>4. \A r \in DOMAIN nw.rows : \/ r \in DOMAIN meta /\ nw.rows[r] = meta[r]
                                  \/ r \in Done(P \cup {s}, nw) /\ ~nw.rows[r].old
    <3>1. \A r \in DOMAIN st.rows : \/ r \in DOMAIN meta /\ st.rows[r] = meta[r]
                                    \/ r \in Done(P, st) /\ ~st.rows[r].old
      BY DEF Good, Keeps
    <3> SUFFICES ASSUME NEW r \in DOMAIN nw.rows, r # s
                 PROVE  \/ r \in DOMAIN meta /\ nw.rows[r] = meta[r]
                        \/ r \in Done(P \cup {s}, nw) /\ ~nw.rows[r].old
      <4>1. ~nw.rows[s].old /\ s \in Done(P \cup {s}, nw)
        BY <1>2, <1>4, <1>5
      <4> QED
        BY <4>1
    <3>2. r \in DOMAIN st.rows /\ nw.rows[r] = st.rows[r]
      BY <1>2
    <3> QED
      BY <1>4, <3>1, <3>2
  <2>5. Stamped(nw.rows) /\ \A r \in DOMAIN meta : nw.rows[r].at >= meta[r].at
    BY <1>2, <1>5, <1>6 DEF Good, Keeps, Stamped
  <2> QED
    BY <2>1, <2>2, <2>3, <2>4, <2>5 DEF Keeps
<1>8. Takes(P \cup {s}, nw, d)
  <2>1. \A r \in Done(P, st) : \/ r \in DOMAIN nw.rows /\ ~nw.rows[r].old
                               \/ DefaultTab(d, r) /\ ~DefaultRow(nw.rows, r)
    BY <1>2, <1>4 DEF Good, Takes, DefaultRow
  <2> QED
    BY <1>2, <1>3, <1>4, <1>5, <2>1 DEF Takes
<1>9. Names(nw)
  <2>1. Roled(nw.rows)
    <3>1. v.label = NoLabel => s \in Workers
      BY <1>6 DEF Stored, Facts, Labels, Roled
    <3> QED
      BY <1>2, <1>5, <3>1 DEF Good, Names, Roled
  <2>2. ASSUME NEW r \in DOMAIN nw.rows, NEW q \in DOMAIN nw.rows, r # q, Model[r] = Model[q],
               DefaultRow(nw.rows, r), DefaultRow(nw.rows, q)
        PROVE  FALSE
    <3>1. ASSUME NEW x \in DOMAIN nw.rows, x # s, DefaultRow(nw.rows, x)
          PROVE  DefaultRow(st.rows, x)
      BY <1>2, <3>1 DEF DefaultRow
    <3>2. ASSUME NEW x \in DOMAIN nw.rows, x # s, DefaultRow(nw.rows, x), DefaultRow(nw.rows, s),
                 Model[x] = Model[s]
          PROVE  FALSE
      <4>1. DefaultRow(st.rows, x) /\ x \in DOMAIN st.rows
        BY <3>1, <3>2 DEF DefaultRow
      <4>2. ~DefaultTab(d, s)
        BY <3>2, <4>1 DEF Stores
      <4>3. v.label = Default /\ Limited(s) /\ s \notin hist
        BY <1>2, <3>2 DEF DefaultRow
      <4>4. s \in DOMAIN st.rows /\ st.rows[s].label = Default
        BY <4>2, <4>3 DEF Stored, DefaultTab
      <4>5. DefaultRow(st.rows, s)
        BY <4>3, <4>4 DEF DefaultRow
      <4> QED
        BY <3>2, <4>1, <4>4, <4>5 DEF Good, Names, OneDefault
    <3>3. r # s /\ q # s
      BY <2>2, <3>2
    <3>4. DefaultRow(st.rows, r) /\ DefaultRow(st.rows, q)
      BY <2>2, <3>1, <3>3
    <3> QED
      BY <2>2, <3>4 DEF Good, Names, OneDefault, DefaultRow
  <2> QED
    BY <2>1, <2>2 DEF Names, OneDefault
<1>10. ASSUME NEW mk \in {"codex", "spark"}, NEW n \in Int, NEW m \in Int, Bounds(n, mk, st.rows),
              m = IF s \notin st.known /\ Model[s] = mk THEN n + 1 ELSE n,
              s \notin st.known /\ Model[s] = mk => n < Limits[mk]
       PROVE  Bounds(m, mk, nw.rows)
  <2> DEFINE A == {r \in DOMAIN st.rows \ tomb : Model[r] \in {mk}}
             B == {r \in DOMAIN nw.rows \ tomb : Model[r] \in {mk}}
  <2>1. IsFiniteSet(A)
    <3>1. A \subseteq Sessions
      BY <1>1, MapsDef DEF Request
    <3> QED
      BY <3>1, SessionsAssumption, FS_Subset
  <2>2. B = IF Model[s] = mk THEN A \cup {s} ELSE A
    BY <1>2, <1>3
  <2>3. s \in A <=> s \in st.known /\ Model[s] = mk
    BY <1>3 DEF Good, Keeps, Limited
  <2> HIDE DEF A, B
  <2>4. Cardinality(B) = IF Model[s] = mk /\ s \notin A THEN Cardinality(A) + 1 ELSE Cardinality(A)
    BY <2>1, <2>2, FS_AddElement
  <2>5. n = Cardinality(A)
    BY <1>10 DEF Bounds, Counts, A
  <2>6. m = Cardinality(B)
    BY <1>10, <2>3, <2>4, <2>5
  <2>7. Cardinality(B) = Counts(nw.rows, tomb, {mk})
    BY DEF Counts, B
  <2>8. Limits[mk] \in Int
    BY LimitsAssumption
  <2>9. m <= Limits[mk] \/ m <= Counts(meta, tomb, {mk})
    BY <1>10, <2>8 DEF Bounds
  <2> QED
    BY <2>6, <2>7, <2>9 DEF Bounds
<1>11. Bounds(nw.codex, "codex", nw.rows) /\ Bounds(nw.spark, "spark", nw.rows)
  <2>1. st.codex \in Int /\ st.spark \in Int /\ nw.codex \in Int /\ nw.spark \in Int
    BY <1>1 DEF Request
  <2>2. \A mk \in {"codex", "spark"} : Model[s] = mk => Limited(s)
    BY DEF Limited
  <2> QED
    BY <1>10, <2>1, <2>2 DEF Stores, Good
<1> QED
  BY <1>7, <1>8, <1>9, <1>11 DEF Good

LEMMA GoodStep ==
    ASSUME Facts, NEW d \in Devices, NEW P, NEW s \in DOMAIN tabs[d] \ P, NEW st, Good(P, st, d)
    PROVE  Good(P \cup {s}, Taken(st, s, d), d)
<1> DEFINE nw == Taken(st, s, d)
<1>1. st \in Request
  BY DEF Good
<1>2. nw \in Request /\ (Skips(st, s, d, nw) \/ Rejects(st, s, nw) \/ Stores(st, s, d, nw))
  BY <1>1, TakenCases
<1> HIDE DEF nw
<1>3. Skips(st, s, d, nw) => nw = st
  BY DEF Skips
<1>4. Good(P \cup {s}, nw, d)
  BY <1>2, <1>3, SkipGood, RejectGood, StoreGood
<1> QED
  BY <1>4 DEF nw

\* The values of the keys of X.
Keyed(key, X) == {key[k] : k \in X}

LEMMA FoldKeeps ==
    ASSUME Facts, NEW d \in Devices, NEW K, IsFiniteSet(K),
           NEW ch, \A X \in SUBSET K : X # {} => ch[X] \in X,
           NEW P, NEW key, \A k \in K : key[k] \in DOMAIN tabs[d] \ P,
           \A j, k \in K : key[j] = key[k] => j = k,
           NEW start, Good(P, start, d), NEW it, it = FoldOf(it, SUBSET K, ch, key, start, d)
    PROVE  Good(P \cup Keyed(key, K), it[K], d)
<1> DEFINE G == {n \in Nat : \A X \in SUBSET K : Cardinality(X) = n => Good(P \cup Keyed(key, X), it[X], d)}
<1>1. ASSUME NEW X \in SUBSET K
      PROVE  /\ IsFiniteSet(X) /\ Cardinality(X) \in Nat /\ (Cardinality(X) = 0 => X = {})
             /\ it[X] = IF X = {} THEN start ELSE Taken(it[X \ {ch[X]}], key[ch[X]], d)
             /\ X # {} => Cardinality(X \ {ch[X]}) = Cardinality(X) - 1
  <2>1. IsFiniteSet(X)
    BY FS_Subset
  <2>2. Cardinality(X) \in Nat /\ (Cardinality(X) = 0 => X = {})
    BY <2>1, FS_CardinalityType, FS_EmptySet
  <2>3. X # {} => Cardinality(X \ {ch[X]}) = Cardinality(X) - 1
    BY <2>1, FS_RemoveElement
  <2>4. it[X] = IF X = {} THEN start ELSE Taken(it[X \ {ch[X]}], key[ch[X]], d)
    BY DEF FoldOf
  <2> QED
    BY <2>1, <2>2, <2>3, <2>4
<1>2. 0 \in G
  <2> SUFFICES ASSUME NEW X \in SUBSET K, Cardinality(X) = 0
               PROVE  Good(P \cup Keyed(key, X), it[X], d)
    OBVIOUS
  <2>1. X = {} /\ it[X] = start
    BY <1>1
  <2>2. P \cup Keyed(key, X) = P
    BY <2>1 DEF Keyed
  <2> QED
    BY <2>1, <2>2
<1>3. ASSUME NEW n \in Nat, n \in G
      PROVE  n + 1 \in G
  <2>0. n + 1 \in Nat
    OBVIOUS
  <2> SUFFICES ASSUME NEW X \in SUBSET K, Cardinality(X) = n + 1
               PROVE  Good(P \cup Keyed(key, X), it[X], d)
    BY <2>0
  <2> DEFINE x == ch[X]
             Y == X \ {x}
             Q == P \cup Keyed(key, Y)
  <2>1. X # {}
    <3> SUFFICES ASSUME X = {} PROVE FALSE
      OBVIOUS
    <3>1. Cardinality({}) = 0
      BY FS_EmptySet
    <3>2. Cardinality(X) = 0
      BY <3>1
    <3> QED
      BY <3>2
  <2>2. x \in X /\ Y \in SUBSET K /\ Cardinality(Y) = n
    BY <1>1, <2>1
  <2>3. Good(Q, it[Y], d)
    BY <1>3, <2>2
  <2>4. it[X] = Taken(it[Y], key[x], d)
    BY <1>1, <2>1
  <2>5. key[x] \in DOMAIN tabs[d] \ Q
    BY <2>2 DEF Keyed
  <2>6. Q \cup {key[x]} = P \cup Keyed(key, X)
    BY <2>2 DEF Keyed
  <2> HIDE DEF x, Y, Q
  <2>7. Good(Q \cup {key[x]}, Taken(it[Y], key[x], d), d)
    BY <2>3, <2>5, GoodStep
  <2> QED
    BY <2>4, <2>6, <2>7
<1>4. Cardinality(K) \in G
  <2> HIDE DEF G
  <2> QED
    BY <1>2, <1>3, Induction, FS_CardinalityType
<1> QED
  BY <1>4


\* What a push makes of the rows the server knows, then of the new ones in their order.
KnownRows(d, start, S) == FoldSet(LAMBDA s, a : SyncRow(a, s, tabs[d][s]), start, S)
NewRows(d, start, q) == FoldLeft(LAMBDA a, s : SyncRow(a, s, tabs[d][s]), start, q)

\* The fold over a set of rows, in the order in which CHOOSE takes them.
LEMMA KnownFold ==
    ASSUME Facts, NEW d \in Devices, NEW S \in SUBSET DOMAIN tabs[d], IsFiniteSet(S),
           NEW start, Good({}, start, d)
    PROVE  Good(S, KnownRows(d, start, S), d)
<1> DEFINE ch == [X \in SUBSET S |-> CHOOSE x \in X : TRUE]
           key == [k \in S |-> k]
           F(it) == [X \in SUBSET S |-> IF X = {} THEN start
                                        ELSE SyncRow(it[X \ {CHOOSE x \in X : TRUE}],
                                                     CHOOSE x \in X : TRUE,
                                                     tabs[d][CHOOSE x \in X : TRUE])]
           it == CHOOSE it : it = F(it)
<1>1. KnownRows(d, start, S) = it[S]
  BY DEF KnownRows, FoldSet, MapThenFoldSet
<1>2. \A X \in SUBSET S : X # {} => ch[X] \in X /\ ch[X] = (CHOOSE x \in X : TRUE) /\ key[ch[X]] = ch[X]
  OBVIOUS
<1>3. \A i : FoldOf(i, SUBSET S, ch, key, start, d) = F(i)
  <2> HIDE DEF ch, key
  <2> SUFFICES ASSUME NEW i, NEW X \in SUBSET S, X # {}
               PROVE  Taken(i[X \ {ch[X]}], key[ch[X]], d)
                        = SyncRow(i[X \ {CHOOSE x \in X : TRUE}], CHOOSE x \in X : TRUE,
                                  tabs[d][CHOOSE x \in X : TRUE])
    BY DEF FoldOf
  <2> QED
    BY <1>2 DEF Taken
<1>4. \A k \in S : key[k] = k
  OBVIOUS
<1>5. Keyed(key, S) = S
  BY <1>4 DEF Keyed
<1> HIDE DEF ch, key, F
<1>6. \E i : i = F(i)
  <2>1. Chooses(ch, S)
    BY <1>2 DEF Chooses
  <2>2. Folds(S, ch, key, start, d)
    BY <2>1, FoldExists
  <2>3. \E i : i = FoldOf(i, SUBSET S, ch, key, start, d)
    BY <2>2 DEF Folds
  <2> QED
    BY <1>3, <2>3
<1>7. it = F(it)
  BY <1>6
<1> HIDE DEF it
<1>8. it = FoldOf(it, SUBSET S, ch, key, start, d)
  BY <1>3, <1>7
<1>9. Good({} \cup Keyed(key, S), it[S], d)
  <2>1. \A k \in S : key[k] \in DOMAIN tabs[d] \ {}
    BY <1>4
  <2>2. \A j, k \in S : key[j] = key[k] => j = k
    BY <1>4
  <2> QED
    BY <1>2, <1>8, <2>1, <2>2, FoldKeeps
<1>10. {} \cup Keyed(key, S) = S
  BY <1>5
<1> QED
  BY <1>1, <1>9, <1>10

LEMMA Greatest ==
    ASSUME NEW N \in Nat, NEW S \in SUBSET (0 .. N), S # {}
    PROVE  Max(S) \in S
<1> DEFINE C == {N - x : x \in S}
<1>1. C \in SUBSET Nat /\ C # {}
  <2>1. \A x \in S : N - x \in Nat
    OBVIOUS
  <2> QED
    BY <2>1
<1>2. \E c \in C : \A e \in C : c <= e
  <2> DEFINE R == OpToRel(<, Nat)
  <2>1. IsWellFoundedOn(R, Nat)
    BY NatLessThanWellFounded
  <2>2. \A x, y \in Nat : y < x => <<y, x>> \in R
    BY DEF OpToRel
  <2> HIDE DEF R, C
  <2>3. PICK x \in C : \A y \in C : ~(<<y, x>> \in R)
    BY <1>1, <2>1, WFMin
  <2>4. x \in Nat /\ \A y \in C : y \in Nat /\ ~(y < x)
    BY <1>1, <2>2, <2>3
  <2> QED
    BY <2>4
<1>3. PICK x \in S : \A y \in S : N - x <= N - y
  BY <1>2
<1>4. \A y \in S : x >= y
  BY <1>3
<1> QED
  BY <1>4 DEF Max

\* The new rows in their order: a sequence that lists a set takes each element once.
LEMMA Listed ==
    ASSUME NEW U, IsFiniteSet(U), NEW q \in SetToSeqs(U)
    PROVE  /\ IsFiniteSet(DOMAIN q) /\ DOMAIN q \in SUBSET (0 .. Cardinality(U))
           /\ Cardinality(U) \in Nat
           /\ \A i, j \in DOMAIN q : q[i] = q[j] => i = j
           /\ Keyed(q, DOMAIN q) = U
<1> DEFINE K == 1..Cardinality(U)
<1>1. Cardinality(U) \in Nat
  BY FS_CardinalityType
<1>2. q \in [K -> U] /\ \A i, j \in K : i # j => q[i] # q[j]
  BY DEF SetToSeqs
<1>3. IsFiniteSet(K) /\ Cardinality(K) = Cardinality(U)
  <2>1. Cardinality(K) = IF 1 > Cardinality(U) THEN 0 ELSE Cardinality(U) - 1 + 1
    BY <1>1, FS_Interval
  <2>2. IsFiniteSet(K)
    BY <1>1, FS_Interval
  <2> QED
    BY <1>1, <2>1, <2>2
<1>4. q \in Injection(K, U)
  BY <1>2 DEF Injection, IsInjective
<1>5. q \in Surjection(K, U)
  BY <1>3, <1>4, FS_Injection
<1>6. \A u \in U : \E k \in K : q[k] = u
  BY <1>5 DEF Surjection
<1>7. DOMAIN q = K
  BY <1>2
<1>8. Keyed(q, K) = U
  BY <1>2, <1>6 DEF Keyed
<1>9. K \in SUBSET (0 .. Cardinality(U))
  BY <1>1
<1> QED
  BY <1>1, <1>2, <1>3, <1>7, <1>8, <1>9

LEMMA NewFold ==
    ASSUME Facts, NEW d \in Devices, NEW P, NEW U \in SUBSET (DOMAIN tabs[d] \ P), IsFiniteSet(U),
           NEW q \in SetToSeqs(U), NEW start, Good(P, start, d)
    PROVE  Good(P \cup U, NewRows(d, start, q), d)
<1> DEFINE K == DOMAIN q
           ch == [X \in SUBSET K |-> Max(X)]
           F(it) == [X \in SUBSET K |-> IF X = {} THEN start
                                        ELSE SyncRow(it[X \ {Max(X)}], q[Max(X)], tabs[d][q[Max(X)]])]
           it == CHOOSE it : it = F(it)
<1>1. NewRows(d, start, q) = it[K]
  BY DEF NewRows, FoldLeft, MapThenFoldSet
<1>2. /\ IsFiniteSet(K) /\ K \in SUBSET (0 .. Cardinality(U)) /\ Cardinality(U) \in Nat
      /\ \A i, j \in K : q[i] = q[j] => i = j
      /\ Keyed(q, K) = U
  BY Listed
<1>3. \A X \in SUBSET K : X # {} => ch[X] \in X /\ ch[X] = Max(X)
  <2> SUFFICES ASSUME NEW X \in SUBSET K, X # {} PROVE Max(X) \in X
    OBVIOUS
  <2>1. X \in SUBSET (0 .. Cardinality(U))
    BY <1>2
  <2> QED
    BY <1>2, <2>1, Greatest
<1>4. \A i : FoldOf(i, SUBSET K, ch, q, start, d) = F(i)
  <2> SUFFICES ASSUME NEW i, NEW X \in SUBSET K, X # {}
               PROVE  Taken(i[X \ {ch[X]}], q[ch[X]], d)
                        = SyncRow(i[X \ {Max(X)}], q[Max(X)], tabs[d][q[Max(X)]])
    BY DEF FoldOf
  <2> HIDE DEF ch
  <2> QED
    BY <1>3 DEF Taken
<1> HIDE DEF ch, F
<1>5. \E i : i = F(i)
  <2>1. Chooses(ch, K)
    BY <1>3 DEF Chooses
  <2> HIDE DEF K
  <2>2. Folds(K, ch, q, start, d)
    BY <1>2, <2>1, FoldExists
  <2>3. \E i : i = FoldOf(i, SUBSET K, ch, q, start, d)
    BY <2>2 DEF Folds
  <2> QED
    BY <1>4, <2>3
<1>6. it = F(it)
  BY <1>5
<1> HIDE DEF it
<1>7. it = FoldOf(it, SUBSET K, ch, q, start, d)
  BY <1>4, <1>6
<1>8. Good(P \cup Keyed(q, K), it[K], d)
  <2>1. \A k \in K : q[k] \in U
    BY <1>2 DEF Keyed
  <2>2. \A k \in K : q[k] \in DOMAIN tabs[d] \ P
    BY <2>1
  <2> HIDE DEF K
  <2> QED
    BY <1>2, <1>3, <1>7, <2>2, FoldKeeps
<1>9. Good(P \cup U, it[K], d)
  BY <1>2, <1>8
<1> QED
  BY <1>1, <1>9


----------------------------------------------------------------------------
(* What a whole push does.                                                 *)

Began ==
    [rows |-> meta, known |-> DOMAIN meta, rejected |-> {}, saved |-> FALSE,
     total |-> Counts(meta, tomb, AllModels),
     codex |-> Counts(meta, tomb, {"codex"}),
     spark |-> Counts(meta, tomb, {"spark"})]

LEMMA BeganGood ==
    ASSUME Facts, NEW d \in Devices
    PROVE  Good({}, Began, d)
<1>1. meta \in Maps(Row) /\ DOMAIN meta \subseteq Sessions
  <2>1. meta \in Maps(Row)
    BY DEF Facts, Shape, MetaShape, TabShape
  <2> QED
    BY <2>1, MapsDef
<1>2. ASSUME NEW M PROVE Counts(meta, tomb, M) \in Int
  <2>1. {s \in DOMAIN meta \ tomb : Model[s] \in M} \subseteq Sessions
    BY <1>1
  <2>2. IsFiniteSet({s \in DOMAIN meta \ tomb : Model[s] \in M})
    BY <2>1, SessionsAssumption, FS_Subset
  <2> QED
    BY <2>2, FS_CardinalityType DEF Counts
<1>3. Began \in Request
  BY <1>1, <1>2 DEF Began, Request
<1>4. /\ Began.rows = meta /\ Began.known = DOMAIN meta /\ Began.rejected = {} /\ Began.saved = FALSE
      /\ Began.codex = Counts(meta, tomb, {"codex"}) /\ Began.spark = Counts(meta, tomb, {"spark"})
  BY DEF Began
<1>5. Keeps({}, Began)
  <2>1. Stamped(meta)
    BY DEF Facts, Shape, MetaShape, TabShape
  <2>2. \A s \in DOMAIN meta : meta[s].at >= meta[s].at
    <3>1. \A s \in DOMAIN meta : meta[s] \in Row
      BY <1>1, MapsDef
    <3> QED
      BY <3>1 DEF Row
  <2> QED
    BY <1>4, <2>1, <2>2 DEF Keeps
<1>6. Takes({}, Began, d)
  BY <1>4 DEF Takes, Done
<1>7. Names(Began)
  BY <1>4 DEF Names, Facts, Labels
<1>8. Bounds(Began.codex, "codex", Began.rows) /\ Bounds(Began.spark, "spark", Began.rows)
  BY <1>2, <1>4 DEF Bounds
<1> QED
  BY <1>3, <1>5, <1>6, <1>7, <1>8 DEF Good

\* The state after a push whose request ended with st.
Pushed(st, d) ==
    /\ Good(DOMAIN tabs[d], st, d)
    /\ meta' = Collected(st.rows)
    /\ heard' = [e \in Devices |-> heard[e] \/ st.saved]
    /\ tabs' = [tabs EXCEPT ![d] = Without(tabs[d], st.rejected \cap DOMAIN tabs[d])]
    /\ due' = [due EXCEPT ![d] = st.rejected \cap DOMAIN tabs[d] # {}]
    /\ UNCHANGED <<tomb, hist, cleaning, roles, gone, missed, pull, edits>>

LEMMA SyncEffect ==
    ASSUME Facts, NEW d \in Devices, Sync(d)
    PROVE  due[d] /\ \E st : Pushed(st, d)
<1> DEFINE A == DOMAIN tabs[d] \cap DOMAIN meta
           U == DOMAIN tabs[d] \ DOMAIN meta
<1>1. PICK new \in SetToSeqs(U) :
        LET st == NewRows(d, KnownRows(d, Began, A), new)
        IN  /\ meta' = Collected(st.rows)
            /\ heard' = [e \in Devices |-> heard[e] \/ st.saved]
            /\ tabs' = [tabs EXCEPT ![d] = Without(tabs[d], st.rejected \cap DOMAIN tabs[d])]
            /\ due' = [due EXCEPT ![d] = st.rejected \cap DOMAIN tabs[d] # {}]
  BY DEF Sync, NewRows, KnownRows, Began
<1>2. IsFiniteSet(A) /\ IsFiniteSet(U)
  <2>1. DOMAIN tabs[d] \subseteq Sessions
    BY MapsDef DEF Facts, Shape, MetaShape, TabShape
  <2> QED
    BY <2>1, SessionsAssumption, FS_Subset
<1>3. Good(A, KnownRows(d, Began, A), d)
  <2>1. A \in SUBSET DOMAIN tabs[d]
    OBVIOUS
  <2> HIDE DEF A
  <2> QED
    BY <1>2, <2>1, BeganGood, KnownFold
<1>4. Good(A \cup U, NewRows(d, KnownRows(d, Began, A), new), d)
  <2>1. U \in SUBSET (DOMAIN tabs[d] \ A)
    OBVIOUS
  <2> HIDE DEF A, U
  <2> QED
    BY <1>2, <1>3, <2>1, NewFold
<1>5. A \cup U = DOMAIN tabs[d]
  OBVIOUS
<1> HIDE DEF A, U
<1>6. Good(DOMAIN tabs[d], NewRows(d, KnownRows(d, Began, A), new), d)
  BY <1>4, <1>5
<1>7. due[d] /\ UNCHANGED <<tomb, hist, cleaning, roles, gone, missed, pull, edits>>
  BY DEF Sync
<1>8. Pushed(NewRows(d, KnownRows(d, Began, A), new), d)
  BY <1>1, <1>6, <1>7 DEF Pushed
<1> QED
  BY <1>7, <1>8


----------------------------------------------------------------------------
(* Shape: every action keeps it.                                           *)

LEMMA MetaFacts ==
    ASSUME Shape
    PROVE  /\ DOMAIN meta \subseteq Sessions /\ meta \in [DOMAIN meta -> Row]
           /\ \A s \in DOMAIN meta : meta[s] \in Row /\ meta[s].at \in Int /\ meta[s].at <= edits
<1>1. meta \in Maps(Row) /\ Stamped(meta)
  BY DEF Shape, MetaShape
<1>2. DOMAIN meta \subseteq Sessions /\ meta = [s \in DOMAIN meta |-> meta[s]]
      /\ \A s \in DOMAIN meta : meta[s] \in Row
  BY <1>1, MapsDef
<1> QED
  BY <1>1, <1>2 DEF Row, Stamped

LEMMA TabFacts ==
    ASSUME Shape, NEW d \in Devices
    PROVE  /\ DOMAIN tabs[d] \subseteq Sessions /\ tabs[d] \in Maps(Tab)
           /\ tabs[d] \in [DOMAIN tabs[d] -> Tab]
           /\ \A s \in DOMAIN tabs[d] : tabs[d][s] \in Tab /\ tabs[d][s].at \in Int
                                        /\ tabs[d][s].at <= edits
<1>1. tabs[d] \in Maps(Tab) /\ Stamped(tabs[d])
  BY DEF Shape, TabShape
<1>2. DOMAIN tabs[d] \subseteq Sessions /\ tabs[d] = [s \in DOMAIN tabs[d] |-> tabs[d][s]]
      /\ \A s \in DOMAIN tabs[d] : tabs[d][s] \in Tab
  BY <1>1, MapsDef
<1> QED
  BY <1>1, <1>2 DEF Tab, Stamped

LEMMA PullFacts ==
    ASSUME Shape, NEW d \in Devices, pull[d] # Idle
    PROVE  /\ pull[d] \in List /\ pull[d].kind = "list"
           /\ pull[d].rows \in Maps(Row) /\ DOMAIN pull[d].rows \subseteq Sessions
           /\ \A s \in DOMAIN pull[d].rows : /\ pull[d].rows[s] \in Row /\ pull[d].rows[s].at \in Int
                                            /\ pull[d].rows[s].at <= edits
<1>1. pull[d] \in List /\ Stamped(pull[d].rows)
  BY DEF Shape, PullShape
<1>2. pull[d].rows \in Maps(Row) /\ pull[d].kind = "list"
  BY <1>1 DEF List
<1>3. DOMAIN pull[d].rows \subseteq Sessions /\ \A s \in DOMAIN pull[d].rows : pull[d].rows[s] \in Row
  BY <1>2, MapsDef
<1> QED
  BY <1>1, <1>2, <1>3 DEF Row, Stamped

\* What is stamped by now is stamped later.
LEMMA Later ==
    ASSUME Shape, edits' \in Int, edits <= edits'
    PROVE  /\ UNCHANGED meta => MetaShape'
           /\ UNCHANGED tabs => TabShape'
           /\ UNCHANGED pull => PullShape'
<1>1. edits \in Int
  BY EditsAssumption DEF Shape
<1>2. ASSUME UNCHANGED meta PROVE MetaShape'
  <2>1. \A s \in DOMAIN meta : meta[s].at <= edits'
    BY <1>1, MetaFacts
  <2> QED
    BY <1>2, <2>1 DEF Shape, MetaShape, Stamped
<1>3. ASSUME UNCHANGED tabs PROVE TabShape'
  <2>1. \A d \in Devices : \A s \in DOMAIN tabs[d] : tabs[d][s].at <= edits'
    BY <1>1, TabFacts
  <2> QED
    BY <1>3, <2>1 DEF Shape, TabShape, Stamped
<1>4. ASSUME UNCHANGED pull PROVE PullShape'
  <2>1. \A d \in Devices : pull[d] # Idle => \A s \in DOMAIN pull[d].rows : pull[d].rows[s].at <= edits'
    BY <1>1, PullFacts
  <2> QED
    BY <1>4, <2>1 DEF Shape, PullShape, Stamped, Idle
<1> QED
  BY <1>2, <1>3, <1>4

\* Device d's tabs become f.
Shows(d, f) == tabs' = [tabs EXCEPT ![d] = f]

LEMMA OneTab ==
    ASSUME Shape, edits' \in Int, edits <= edits', NEW d \in Devices, NEW f \in Maps(Tab),
           \A s \in DOMAIN f : f[s].at <= edits', Shows(d, f)
    PROVE  TabShape'
<1>1. edits \in Int /\ tabs \in [Devices -> Maps(Tab)]
  BY EditsAssumption DEF Shape, TabShape
<1>2. tabs' \in [Devices -> Maps(Tab)] /\ tabs'[d] = f /\ \A e \in Devices : e # d => tabs'[e] = tabs[e]
  BY <1>1 DEF Shows
<1>3. \A e \in Devices : \A s \in DOMAIN tabs[e] : tabs[e][s].at <= edits'
  BY <1>1, TabFacts
<1>4. \A e \in Devices : \A s \in DOMAIN tabs'[e] : tabs'[e][s].at <= edits'
  BY <1>2, <1>3
<1> QED
  BY <1>2, <1>4 DEF TabShape, Stamped

LEMMA MapsIn ==
    ASSUME NEW V, NEW X \in SUBSET Sessions, NEW f \in [X -> V]
    PROVE  f \in Maps(V)
BY DEF Maps

LEMMA NewMeta ==
    ASSUME DOMAIN meta' \subseteq Sessions, meta' = [s \in DOMAIN meta' |-> meta'[s]],
           \A s \in DOMAIN meta' : meta'[s] \in Row /\ meta'[s].at <= edits'
    PROVE  MetaShape'
<1>1. meta' \in [DOMAIN meta' -> Row]
  OBVIOUS
<1>2. meta' \in Maps(Row)
  BY <1>1, MapsIn
<1> QED
  BY <1>2 DEF MetaShape, Stamped

LEMMA SyncShape ==
    ASSUME Facts, NEW d \in Devices, NEW st, Pushed(st, d)
    PROVE  Shape'
<1>0. Shape /\ edits \in Int /\ edits' = edits
  BY EditsAssumption DEF Facts, Shape, Pushed
<1>1. MetaShape'
  <2> DEFINE X == {s \in DOMAIN st.rows : ~st.rows[s].worker /\ st.rows[s].old /\ s \notin hist}
  <2>1. st.rows \in Maps(Row) /\ Stamped(st.rows)
    BY DEF Pushed, Good, Request, Keeps
  <2>2. meta' = Without(st.rows, X)
    BY DEF Pushed, Collected
  <2> HIDE DEF X
  <2>3. meta' \in Maps(Row)
    BY <2>1, <2>2, WithoutMaps
  <2>4. \A s \in DOMAIN meta' : meta'[s].at <= edits
    BY <2>1, <2>2 DEF Without, Stamped
  <2> QED
    BY <1>0, <2>3, <2>4 DEF MetaShape, Stamped
<1>2. TabShape'
  <2> DEFINE X == st.rejected \cap DOMAIN tabs[d]
             f == Without(tabs[d], X)
  <2>1. Shows(d, f)
    BY DEF Pushed, Shows
  <2>2. f \in Maps(Tab)
    BY <1>0, TabFacts, WithoutMaps
  <2>3. \A s \in DOMAIN f : f[s].at <= edits'
    BY <1>0, TabFacts DEF Without
  <2> HIDE DEF f
  <2> QED
    BY <1>0, <2>1, <2>2, <2>3, OneTab
<1>3. PullShape'
  BY <1>0, Later DEF Pushed
<1>4. SetShape'
  <2>1. due' \in [Devices -> BOOLEAN] /\ heard' \in [Devices -> BOOLEAN]
    <3>1. st.saved \in BOOLEAN
      BY DEF Pushed, Good, Request
    <3> QED
      BY <1>0, <3>1 DEF Pushed, Shape, SetShape
  <2> QED
    BY <1>0, <2>1 DEF Pushed, Shape, SetShape
<1> QED
  BY <1>0, <1>1, <1>2, <1>3, <1>4 DEF Shape

LEMMA CleanupShape ==
    ASSUME Shape, NEW s \in Sessions, Cleanup(s)
    PROVE  Shape'
<1>0. edits \in Int /\ edits' = edits
  BY EditsAssumption DEF Shape, Cleanup, devices
<1>1. MetaShape'
  <2>1. meta' = [x \in DOMAIN meta \ {s} |-> meta[x]]
    BY DEF Cleanup, Without
  <2> QED
    BY <1>0, <2>1, MetaFacts, NewMeta
<1>2. SetShape'
  BY DEF Cleanup, devices, Shape, SetShape
<1> QED
  BY <1>0, <1>1, <1>2, Later DEF Cleanup, devices, Shape

LEMMA SetRoleShape ==
    ASSUME Shape, NEW s \in Sessions, SetRole(s)
    PROVE  Shape'
<1>0. edits \in Nat /\ edits' = edits
  BY EditsAssumption DEF Shape, SetRole, devices
<1>1. MetaShape'
  <2>1. CASE s \in DOMAIN meta
    <3>1. meta' = [meta EXCEPT ![s] = [meta[s] EXCEPT !.worker = TRUE, !.old = FALSE]]
      BY <2>1, MetaFacts DEF SetRole
    <3>2. [meta[s] EXCEPT !.worker = TRUE, !.old = FALSE] \in Row
          /\ [meta[s] EXCEPT !.worker = TRUE, !.old = FALSE].at = meta[s].at
      BY <2>1, MetaFacts DEF Row
    <3> QED
      BY <1>0, <2>1, <3>1, <3>2, MetaFacts, NewMeta
  <2>2. CASE s \notin DOMAIN meta
    <3> DEFINE v == [label |-> NoLabel, at |-> 0, worker |-> TRUE, explicit |-> FALSE, old |-> FALSE]
    <3>1. v \in Row /\ v.at <= edits
      <4>1. Cardinality(Sessions) \in Nat
        BY SessionsAssumption, FS_CardinalityType
      <4> QED
        BY <1>0, <4>1, EditsAssumption DEF Row, NoLabel
    <3>2. meta' = [x \in DOMAIN meta \cup {s} |-> IF x = s THEN v ELSE meta[x]]
      BY <2>2 DEF SetRole, Put
    <3> HIDE DEF v
    <3> QED
      BY <1>0, <3>1, <3>2, MetaFacts, NewMeta
  <2> QED
    BY <2>1, <2>2
<1>2. SetShape'
  BY DEF SetRole, devices, Shape, SetShape
<1> QED
  BY <1>0, <1>1, <1>2, Later DEF SetRole, devices, Shape

\* A label and a stamp of now.
LEMMA NowTab ==
    ASSUME Shape, edits < MaxEdits
    PROVE  /\ [label |-> edits + 1, at |-> edits + 1] \in Tab
           /\ edits \in Nat /\ edits + 1 \in 0..MaxEdits /\ edits + 1 <= MaxEdits
<1>1. Cardinality(Sessions) \in Nat
  BY SessionsAssumption, FS_CardinalityType
<1> QED
  BY <1>1, EditsAssumption DEF Shape, Tab

LEMMA NameEffect ==
    ASSUME Shape, NEW d \in Devices, NEW s \in Sessions, NameArrives(d, s)
    PROVE  LET v == [label |-> edits + 1, at |-> edits + 1, old |-> FALSE,
                     worker |-> s \in DOMAIN meta /\ meta[s].worker,
                     explicit |-> s \in DOMAIN meta /\ meta[s].explicit]
           IN  /\ meta' = [x \in DOMAIN meta \cup {s} |-> IF x = s THEN v ELSE meta[x]]
               /\ v \in Row
               /\ edits < MaxEdits /\ edits' = edits + 1
<1>1. edits < MaxEdits /\ edits' = edits + 1
  BY DEF NameArrives
<1>2. edits \in Nat /\ edits + 1 \in 0..MaxEdits /\ [label |-> edits + 1, at |-> edits + 1] \in Tab
  BY <1>1, NowTab
<1> DEFINE w == s \in DOMAIN meta /\ meta[s].worker
           e == s \in DOMAIN meta /\ meta[s].explicit
           v == [label |-> edits + 1, at |-> edits + 1, old |-> FALSE, worker |-> w, explicit |-> e]
<1>3. w \in BOOLEAN /\ e \in BOOLEAN
  BY MetaFacts DEF Row
<1>4. ~(s \in DOMAIN meta /\ edits + 1 < meta[s].at)
  BY <1>2, MetaFacts
<1>5. meta' = [x \in DOMAIN meta \cup {s} |-> IF x = s THEN v ELSE meta[x]]
  <2> DEFINE name == [label |-> edits + 1, at |-> edits + 1]
  <2>1. meta' = Upserted(meta, s, name, w, e)
    <3>1. CASE s \in DOMAIN meta
      <4>1. meta' = Upserted(meta, s, name, meta[s].worker, meta[s].explicit)
        BY <3>1 DEF NameArrives
      <4>2. w = meta[s].worker /\ e = meta[s].explicit
        BY <3>1, MetaFacts DEF Row
      <4> HIDE DEF w, e
      <4> QED
        BY <4>1, <4>2
    <3>2. CASE s \notin DOMAIN meta
      <4>1. meta' = Upserted(meta, s, name, FALSE, FALSE)
        BY <3>2 DEF NameArrives
      <4>2. w = FALSE /\ e = FALSE
        BY <3>2
      <4> HIDE DEF w, e
      <4> QED
        BY <4>1, <4>2
    <3> QED
      BY <3>1, <3>2
  <2>2. (e \/ (s \in DOMAIN meta /\ meta[s].explicit)) = e
    OBVIOUS
  <2>3. v = [label |-> name.label, at |-> name.at, worker |-> w, explicit |-> e, old |-> FALSE]
    OBVIOUS
  <2> HIDE DEF w, e, v
  <2> QED
    BY <1>4, <2>1, <2>2, <2>3 DEF Upserted, Put
<1>6. v \in Row
  BY <1>2, <1>3 DEF Tab, Row
<1> QED
  BY <1>1, <1>5, <1>6

LEMMA NameShape ==
    ASSUME Shape, NEW d \in Devices, NEW s \in Sessions, NameArrives(d, s)
    PROVE  Shape'
<1> DEFINE name == [label |-> edits + 1, at |-> edits + 1]
<1>0. /\ edits \in Nat /\ edits' = edits + 1 /\ edits' \in 0..MaxEdits
      /\ name \in Tab /\ name.at <= edits'
  BY NowTab DEF NameArrives
<1>1. MetaShape'
  <2>1. PICK v \in Row : /\ meta' = [x \in DOMAIN meta \cup {s} |-> IF x = s THEN v ELSE meta[x]]
                         /\ v.at = edits + 1
    BY NameEffect
  <2>2. \A x \in DOMAIN meta : meta[x] \in Row /\ meta[x].at <= edits'
    BY <1>0, MetaFacts
  <2> QED
    BY <1>0, <2>1, <2>2, MetaFacts, NewMeta
<1>2. TabShape'
  <2>1. CASE s \in DOMAIN tabs[d]
    <3> DEFINE f == [tabs[d] EXCEPT ![s] = name]
    <3>1. Shows(d, f)
      BY <2>1 DEF NameArrives, Shows
    <3>2. f \in [DOMAIN tabs[d] -> Tab] /\ \A x \in DOMAIN f : f[x].at <= edits'
      BY <1>0, <2>1, TabFacts
    <3>3. f \in Maps(Tab)
      BY <3>2, TabFacts, MapsIn
    <3>4. edits' \in Int /\ edits <= edits' /\ \A x \in DOMAIN f : f[x].at <= edits'
      BY <1>0, <3>2
    <3> HIDE DEF f
    <3> QED
      BY <3>1, <3>3, <3>4, OneTab
  <2>2. CASE s \notin DOMAIN tabs[d]
    <3>1. UNCHANGED tabs
      BY <2>2 DEF NameArrives
    <3> QED
      BY <1>0, <3>1, Later
  <2> QED
    BY <2>1, <2>2
<1>3. SetShape'
  BY DEF NameArrives, Shape, SetShape
<1> QED
  BY <1>0, <1>1, <1>2, <1>3, Later DEF NameArrives, Shape

LEMMA RunEndsShape ==
    ASSUME Shape, NEW s \in Sessions, RunEnds(s)
    PROVE  Shape'
<1>0. edits \in Nat /\ edits' = edits + 1 /\ edits' \in 0..MaxEdits
  BY NowTab DEF RunEnds
<1>1. SetShape'
  BY DEF RunEnds, devices, Shape, SetShape
<1> QED
  BY <1>0, <1>1, Later DEF RunEnds, devices, Shape

LEMMA CreateShape ==
    ASSUME Shape, NEW d \in Devices, NEW s \in Sessions, Create(d, s)
    PROVE  Shape'
<1>0. edits \in Nat /\ edits' = edits + 1 /\ edits' \in 0..MaxEdits
  BY NowTab DEF Create
<1>1. TabShape'
  <2> DEFINE n == Cardinality({r \in DOMAIN tabs[d] : Model[r] = Model[s]}) + 1
             v == [label |-> IF s \in Explicit \cup Workers THEN -n ELSE Default, at |-> 0]
             f == Put(tabs[d], s, v)
  <2>1. Shows(d, f)
    BY DEF Create, Shows
  <2>2. v \in Tab
    <3>1. /\ Cardinality({r \in DOMAIN tabs[d] : Model[r] = Model[s]}) \in Nat
          /\ Cardinality({r \in DOMAIN tabs[d] : Model[r] = Model[s]}) <= Cardinality(Sessions)
          /\ Cardinality(Sessions) \in Nat
      <4>1. {r \in DOMAIN tabs[d] : Model[r] = Model[s]} \in SUBSET Sessions
        BY TabFacts
      <4> QED
        BY <4>1, SessionsAssumption, FS_Subset, FS_CardinalityType
    <3>2. -n \in (-1 - Cardinality(Sessions))..MaxEdits
      BY <3>1, EditsAssumption
    <3>3. Default \in (-1 - Cardinality(Sessions))..MaxEdits /\ 0 \in 0..MaxEdits
      BY <3>1, EditsAssumption DEF Default
    <3> HIDE DEF n
    <3> QED
      BY <3>2, <3>3 DEF Tab
  <2>3. v.at = 0
    OBVIOUS
  <2> HIDE DEF v
  <2>4. f \in Maps(Tab)
    BY <2>2, TabFacts, PutMaps
  <2>5. \A x \in DOMAIN f : f[x].at <= edits'
    BY <1>0, <2>3, TabFacts DEF Put
  <2> HIDE DEF f
  <2> QED
    BY <1>0, <2>1, <2>4, <2>5, OneTab
<1>2. SetShape'
  BY DEF Create, Shape, SetShape
<1> QED
  BY <1>0, <1>1, <1>2, Later DEF Create, Shape

LEMMA RenameShape ==
    ASSUME Shape, NEW d \in Devices, NEW s \in Sessions, Rename(d, s)
    PROVE  Shape'
<1> DEFINE name == [label |-> edits + 1, at |-> edits + 1]
           f == [tabs[d] EXCEPT ![s] = name]
<1>0. /\ edits \in Nat /\ edits' = edits + 1 /\ edits' \in 0..MaxEdits
      /\ name \in Tab /\ name.at <= edits'
  BY NowTab DEF Rename
<1>1. TabShape'
  <2>1. Shows(d, f)
    BY DEF Rename, Shows
  <2>2. f \in [DOMAIN tabs[d] -> Tab] /\ \A x \in DOMAIN f : f[x].at <= edits'
    BY <1>0, TabFacts DEF Rename
  <2>3. f \in Maps(Tab)
    BY <2>2, TabFacts, MapsIn
  <2> HIDE DEF f
  <2> QED
    BY <1>0, <2>1, <2>2, <2>3, OneTab
<1>2. SetShape'
  BY DEF Rename, server, Shape, SetShape
<1> QED
  BY <1>0, <1>1, <1>2, Later DEF Rename, server, Shape

LEMMA CloseShape ==
    ASSUME Shape, NEW d \in Devices, NEW s \in Sessions, Close(d, s)
    PROVE  Shape'
<1>0. edits \in Nat /\ edits' = edits + 1 /\ edits' \in 0..MaxEdits
  BY NowTab DEF Close
<1>1. TabShape'
  <2> DEFINE f == Without(tabs[d], {s})
  <2>1. Shows(d, f)
    BY DEF Close, Shows
  <2>2. f \in Maps(Tab)
    BY TabFacts, WithoutMaps
  <2>3. \A x \in DOMAIN f : f[x].at <= edits'
    BY <1>0, TabFacts DEF Without
  <2> HIDE DEF f
  <2> QED
    BY <1>0, <2>1, <2>2, <2>3, OneTab
<1>2. SetShape'
  BY DEF Close, Shape, SetShape
<1> QED
  BY <1>0, <1>1, <1>2, Later DEF Close, Shape

LEMMA TimeShape ==
    ASSUME Shape, TimePasses
    PROVE  Shape'
<1>0. edits \in Nat /\ edits' = edits + 1 /\ edits' \in 0..MaxEdits
  BY NowTab DEF TimePasses
<1>1. MetaShape'
  <2>1. meta' = [s \in DOMAIN meta |-> [meta[s] EXCEPT !.old = TRUE]]
    BY DEF TimePasses
  <2>2. \A s \in DOMAIN meta : /\ [meta[s] EXCEPT !.old = TRUE] \in Row
                               /\ [meta[s] EXCEPT !.old = TRUE].at <= edits'
    <3> SUFFICES ASSUME NEW s \in DOMAIN meta
                 PROVE  /\ [meta[s] EXCEPT !.old = TRUE] \in Row
                        /\ [meta[s] EXCEPT !.old = TRUE].at <= edits'
      OBVIOUS
    <3>1. meta[s] \in Row /\ meta[s].at \in Int /\ meta[s].at <= edits /\ edits \in Int
      BY <1>0, MetaFacts
    <3>2. [meta[s] EXCEPT !.old = TRUE] \in Row /\ [meta[s] EXCEPT !.old = TRUE].at = meta[s].at
      BY <3>1 DEF Row
    <3> QED
      BY <1>0, <3>1, <3>2
  <2> QED
    BY <2>1, <2>2, MetaFacts, NewMeta
<1>2. SetShape'
  BY DEF TimePasses, Shape, SetShape
<1>3. TabShape' /\ PullShape'
  BY <1>0, Later DEF TimePasses, Shape, TabShape, PullShape, Stamped
<1> QED
  BY <1>0, <1>1, <1>2, <1>3 DEF Shape

\* The list the server answers.
LEMMA ListShape ==
    ASSUME Shape
    PROVE  /\ SessionsList \in List /\ SessionsList.rows = Without(meta, tomb)
           /\ \A s \in DOMAIN SessionsList.rows : SessionsList.rows[s].at <= edits
<1>1. Without(meta, tomb) \in Maps(Row)
  BY WithoutMaps DEF Shape, MetaShape
<1>2. (DOMAIN meta \cup hist) \ tomb \in SUBSET Sessions /\ tomb \in SUBSET Sessions
  BY MetaFacts DEF Shape, SetShape
<1>3. \A s \in DOMAIN Without(meta, tomb) : Without(meta, tomb)[s].at <= edits
  BY MetaFacts DEF Without
<1>4. SessionsList = [kind |-> "list", rows |-> Without(meta, tomb),
                      sids |-> (DOMAIN meta \cup hist) \ tomb, dead |-> tomb]
  BY DEF SessionsList
<1> DEFINE R == Without(meta, tomb)
           I == (DOMAIN meta \cup hist) \ tomb
<1> HIDE DEF R, I
<1>5. [kind |-> "list", rows |-> R, sids |-> I, dead |-> tomb] \in List
  BY <1>1, <1>2 DEF List, R, I
<1>6. SessionsList \in List /\ SessionsList.rows = R
  BY <1>4, <1>5 DEF R, I
<1> QED
  BY <1>3, <1>6 DEF R

LEMMA MergedShape ==
    ASSUME NEW own \in Maps(Tab), NEW list, list.rows \in Maps(Row), NEW n \in Int,
           \A s \in DOMAIN own : own[s].at <= n,
           \A s \in DOMAIN list.rows : list.rows[s].at <= n
    PROVE  /\ Merged(own, list) \in Maps(Tab)
           /\ \A s \in DOMAIN Merged(own, list) : Merged(own, list)[s].at <= n
<1>1. DOMAIN own \subseteq Sessions /\ \A s \in DOMAIN own : own[s] \in Tab
  BY MapsDef
<1>2. DOMAIN list.rows \subseteq Sessions /\ \A s \in DOMAIN list.rows : list.rows[s] \in Row
  BY MapsDef
<1> DEFINE X == Kept(own, list) \cup Added(own, list)
           v(s) == IF s \notin DOMAIN own
                   THEN [label |-> list.rows[s].label, at |-> list.rows[s].at]
                   ELSE IF s \in DOMAIN list.rows THEN Relabelled(own[s], list.rows[s]) ELSE own[s]
<1>3. X \in SUBSET Sessions
  BY <1>1, <1>2 DEF Kept, Added
<1>4. ASSUME NEW s \in X
      PROVE  v(s) \in Tab /\ v(s).at <= n
  <2>1. CASE s \notin DOMAIN own
    <3>1. s \in DOMAIN list.rows
      BY <2>1 DEF Kept, Added
    <3> QED
      BY <1>2, <2>1, <3>1 DEF Tab, Row
  <2>2. CASE s \in DOMAIN own /\ s \notin DOMAIN list.rows
    BY <1>1, <2>2
  <2>3. CASE s \in DOMAIN own /\ s \in DOMAIN list.rows
    <3>1. own[s] \in Tab /\ list.rows[s] \in Row
      BY <1>1, <1>2, <2>3
    <3>2. Relabelled(own[s], list.rows[s]) \in Tab
      BY <3>1 DEF Relabelled, Tab, Row
    <3>3. Relabelled(own[s], list.rows[s]).at <= n
      BY <2>3, <3>1 DEF Relabelled
    <3> QED
      BY <2>3, <3>2, <3>3
  <2> QED
    BY <2>1, <2>2, <2>3
<1>5. Merged(own, list) = [s \in X |-> v(s)]
  BY DEF Merged
<1> HIDE DEF X, v
<1>6. Merged(own, list) \in [X -> Tab]
  BY <1>4, <1>5
<1>7. Merged(own, list) \in Maps(Tab)
  BY <1>3, <1>6, MapsIn
<1> QED
  BY <1>4, <1>5, <1>7

LEMMA MergeTabs ==
    ASSUME Shape, edits' = edits, NEW d \in Devices, NEW list, list.rows \in Maps(Row),
           \A s \in DOMAIN list.rows : list.rows[s].at <= edits,
           Shows(d, Merged(tabs[d], list))
    PROVE  TabShape'
<1>1. edits \in Int /\ edits <= edits'
  BY EditsAssumption DEF Shape
<1>2. /\ Merged(tabs[d], list) \in Maps(Tab)
      /\ \A s \in DOMAIN Merged(tabs[d], list) : Merged(tabs[d], list)[s].at <= edits
  BY <1>1, TabFacts, MergedShape
<1> DEFINE f == Merged(tabs[d], list)
<1>3. f \in Maps(Tab) /\ (\A s \in DOMAIN f : f[s].at <= edits') /\ Shows(d, f)
  BY <1>2
<1> HIDE DEF f
<1> QED
  BY <1>1, <1>3, OneTab

LEMMA PullStartsShape ==
    ASSUME Shape, NEW d \in Devices, PullStarts(d)
    PROVE  Shape'
<1>0. edits \in Int /\ edits' = edits
  BY EditsAssumption DEF Shape, PullStarts
<1>1. PullShape'
  <2>1. /\ pull' \in [Devices -> {Idle} \cup List]
        /\ \A e \in Devices : pull'[e] = IF e = d THEN SessionsList ELSE pull[e]
    BY ListShape DEF PullStarts, Shape, PullShape
  <2>2. \A e \in Devices : pull'[e] # Idle => \A s \in DOMAIN pull'[e].rows : pull'[e].rows[s].at <= edits
    BY <2>1, ListShape, PullFacts
  <2> QED
    BY <1>0, <2>1, <2>2 DEF PullShape, Stamped, Idle
<1>2. SetShape'
  BY DEF PullStarts, server, Shape, SetShape
<1> QED
  BY <1>0, <1>1, <1>2, Later DEF PullStarts, server, Shape

LEMMA PullEndsShape ==
    ASSUME Shape, NEW d \in Devices, PullEnds(d)
    PROVE  Shape'
<1>0. edits \in Int /\ edits' = edits /\ pull[d] # Idle
  BY EditsAssumption DEF Shape, PullEnds, Idle
<1>1. TabShape'
  <2>1. Shows(d, Merged(tabs[d], pull[d]))
    BY DEF PullEnds, Shows
  <2> QED
    BY <1>0, <2>1, PullFacts, MergeTabs
<1>2. PullShape'
  <2>1. /\ pull' \in [Devices -> {Idle} \cup List]
        /\ \A e \in Devices : pull'[e] = IF e = d THEN Idle ELSE pull[e]
    BY DEF PullEnds, Shape, PullShape
  <2>2. \A e \in Devices : pull'[e] # Idle => \A s \in DOMAIN pull'[e].rows : pull'[e].rows[s].at <= edits
    BY <2>1, PullFacts
  <2> QED
    BY <1>0, <2>1, <2>2 DEF PullShape, Stamped, Idle
<1>3. SetShape'
  BY DEF PullEnds, server, Shape, SetShape
<1> QED
  BY <1>0, <1>1, <1>2, <1>3, Later DEF PullEnds, server, Shape

LEMMA BootShape ==
    ASSUME Shape, NEW d \in Devices, Boot(d)
    PROVE  Shape'
<1>0. edits \in Int /\ edits' = edits
  BY EditsAssumption DEF Shape, Boot
<1>1. TabShape'
  <2>1. Shows(d, Merged(tabs[d], SessionsList))
    BY DEF Boot, Shows
  <2>2. SessionsList.rows \in Maps(Row)
    BY ListShape DEF List
  <2> QED
    BY <1>0, <2>1, <2>2, ListShape, MergeTabs
<1>2. SetShape'
  BY DEF Boot, server, Shape, SetShape
<1> QED
  BY <1>0, <1>1, <1>2, Later DEF Boot, server, Shape

----------------------------------------------------------------------------
(* Deleted and Labels: every action keeps them.                            *)

\* A change of the rows that adds no label Default and no role without a worker.
LEMMA RowsKept ==
    ASSUME Labels, hist \cap DOMAIN meta' \subseteq hist',
           \A s \in DOMAIN meta' :
              /\ meta'[s].label = Default => s \in DOMAIN meta /\ meta[s].label = Default
              /\ meta'[s].label = NoLabel => meta'[s].worker
              /\ meta'[s].worker => s \in Workers,
           \A s \in DOMAIN meta' \cap tomb' : meta'[s].label # Default
    PROVE  /\ Roled(meta)' /\ OneDefault(meta)'
           /\ (\A s \in DOMAIN meta \cap tomb : meta[s].label # Default)'
<1>1. \A s : DefaultRow(meta, s)' => DefaultRow(meta, s)
  BY DEF DefaultRow
<1>2. OneDefault(meta)'
  <2> SUFFICES ASSUME NEW r \in DOMAIN meta', NEW s \in DOMAIN meta',
                      DefaultRow(meta, r)', DefaultRow(meta, s)', Model[r] = Model[s]
               PROVE  r = s
    BY DEF OneDefault
  <2> QED
    BY <1>1 DEF Labels, OneDefault, DefaultRow
<1> QED
  BY <1>2 DEF Roled

LEMMA SyncKeeps ==
    ASSUME Facts, NEW d \in Devices, NEW st, Pushed(st, d)
    PROVE  Deleted' /\ Labels'
<1>1. /\ meta' = Collected(st.rows) /\ Keeps(DOMAIN tabs[d], st) /\ Names(st)
      /\ UNCHANGED <<tomb, hist, cleaning, roles, gone, missed, pull>>
  BY DEF Pushed, Good
<1>2. /\ DOMAIN meta' \subseteq DOMAIN st.rows
      /\ \A s \in DOMAIN meta' : meta'[s] = st.rows[s]
  BY <1>1 DEF Collected, Without
<1>3. \A e \in Devices : /\ DOMAIN tabs'[e] \subseteq DOMAIN tabs[e]
                         /\ \A s \in DOMAIN tabs'[e] : tabs'[e][s] = tabs[e][s]
  <2>1. tabs \in [Devices -> Maps(Tab)]
    BY DEF Facts, Shape, TabShape
  <2>2. \A e \in Devices :
          tabs'[e] = IF e = d THEN Without(tabs[d], st.rejected \cap DOMAIN tabs[d]) ELSE tabs[e]
    BY <2>1 DEF Pushed
  <2> QED
    BY <2>2 DEF Without
<1>4. \A s \in DOMAIN st.rows : \/ s \in DOMAIN meta /\ st.rows[s] = meta[s]
                                \/ s \in DOMAIN tabs[d] /\ s \notin tomb
  BY <1>1 DEF Keeps, Done
<1>5. Deleted'
  <2>1. Shown(meta') \cap gone \subseteq missed
    BY <1>2, <1>4 DEF Shown, Facts, Deleted, Left
  <2> QED
    BY <1>1, <1>3, <2>1 DEF Facts, Deleted, Left, Shown
<1>6. Labels'
  <2>1. Roled(meta')
    BY <1>1, <1>2 DEF Names, Roled
  <2>2. OneDefault(meta')
    BY <1>1, <1>2 DEF Names, OneDefault, DefaultRow
  <2>3. \A s \in DOMAIN meta' \cap tomb : meta'[s].label # Default
    BY <1>2, <1>4 DEF Facts, Labels
  <2>4. Roled(meta)' /\ OneDefault(meta)'
    BY <1>1, <2>1, <2>2 DEF Roled, OneDefault, DefaultRow
  <2> QED
    BY <1>1, <1>3, <2>3, <2>4 DEF Facts, Labels, Roled
<1> QED
  BY <1>5, <1>6

LEMMA CleanupKeeps ==
    ASSUME Facts, NEW s \in Sessions, Cleanup(s)
    PROVE  Deleted' /\ Labels'
<1>1. /\ s \in cleaning /\ hist' = hist \ {s} /\ tomb' = tomb \cup {s} /\ gone' = gone \cup {s}
      /\ missed' = missed \ {s} /\ cleaning' = cleaning \ {s} /\ UNCHANGED <<roles, tabs, pull>>
      /\ DOMAIN meta' = DOMAIN meta \ {s} /\ \A x \in DOMAIN meta' : meta'[x] = meta[x]
  BY DEF Cleanup, devices, Without
<1>2. Deleted'
  BY <1>1 DEF Facts, Deleted, Left, Shown
<1>3. Roled(meta)' /\ OneDefault(meta)' /\ (\A x \in DOMAIN meta \cap tomb : meta[x].label # Default)'
  BY <1>1, RowsKept DEF Facts, Labels, Roled
<1> QED
  BY <1>1, <1>2, <1>3 DEF Facts, Labels, Roled

LEMMA SetRoleKeeps ==
    ASSUME Facts, NEW s \in Sessions, SetRole(s)
    PROVE  Deleted' /\ Labels'
<1>1. s \in roles /\ roles' = roles \ {s} /\ UNCHANGED <<tomb, hist, cleaning, gone, missed, tabs, pull>>
  BY DEF SetRole, devices
<1>2. s \in Workers /\ s \notin gone
  BY <1>1 DEF Facts, Deleted, Labels
<1>3. /\ DOMAIN meta' = DOMAIN meta \cup {s} /\ meta'[s].worker
      /\ s \in DOMAIN meta => meta'[s].label = meta[s].label
      /\ s \notin DOMAIN meta => meta'[s].label = NoLabel
      /\ \A x \in DOMAIN meta : x # s => meta'[x] = meta[x]
  <2>1. CASE s \in DOMAIN meta
    <3>1. meta' = [meta EXCEPT ![s] = [meta[s] EXCEPT !.worker = TRUE, !.old = FALSE]]
      BY <2>1, MetaFacts DEF SetRole, Facts
    <3>2. [meta[s] EXCEPT !.worker = TRUE, !.old = FALSE].worker
          /\ [meta[s] EXCEPT !.worker = TRUE, !.old = FALSE].label = meta[s].label
      BY <2>1, MetaFacts DEF Row, Facts
    <3> QED
      BY <2>1, <3>1, <3>2
  <2>2. CASE s \notin DOMAIN meta
    BY <2>2 DEF SetRole, Put
  <2> QED
    BY <2>1, <2>2
<1>4. Deleted'
  BY <1>1, <1>2, <1>3 DEF Facts, Deleted, Left, Shown
<1>5. Roled(meta)' /\ OneDefault(meta)' /\ (\A x \in DOMAIN meta \cap tomb : meta[x].label # Default)'
  <2>1. NoLabel # Default
    BY DEF NoLabel, Default
  <2> QED
    BY <1>1, <1>2, <1>3, <2>1, RowsKept DEF Facts, Labels, Roled
<1> QED
  BY <1>1, <1>4, <1>5 DEF Facts, Labels, Roled

\* A name is none of the labels that mean something.
LEMMA NowLabel ==
    ASSUME Shape
    PROVE  edits + 1 # NoLabel /\ edits + 1 # Default
BY EditsAssumption DEF Shape, NoLabel, Default

LEMMA NameKeeps ==
    ASSUME Facts, NEW d \in Devices, NEW s \in Sessions, NameArrives(d, s)
    PROVE  Deleted' /\ Labels'
<1>1. UNCHANGED <<tomb, hist, cleaning, roles, gone, missed, pull>>
  BY DEF NameArrives
<1>2. /\ DOMAIN meta' = DOMAIN meta \cup {s} /\ meta'[s].label = edits + 1
      /\ meta'[s].worker <=> s \in DOMAIN meta /\ meta[s].worker
      /\ meta'[s].explicit <=> s \in DOMAIN meta /\ meta[s].explicit
      /\ \A x \in DOMAIN meta : x # s => meta'[x] = meta[x]
  <2> DEFINE v == [label |-> edits + 1, at |-> edits + 1, old |-> FALSE,
                   worker |-> s \in DOMAIN meta /\ meta[s].worker,
                   explicit |-> s \in DOMAIN meta /\ meta[s].explicit]
  <2>1. meta' = [x \in DOMAIN meta \cup {s} |-> IF x = s THEN v ELSE meta[x]]
    BY NameEffect DEF Facts
  <2>2. /\ v.label = edits + 1 /\ (v.worker <=> s \in DOMAIN meta /\ meta[s].worker)
        /\ v.explicit <=> s \in DOMAIN meta /\ meta[s].explicit
    OBVIOUS
  <2> HIDE DEF v
  <2> QED
    BY <2>1, <2>2
<1>3. \A e \in Devices : /\ DOMAIN tabs'[e] = DOMAIN tabs[e]
                         /\ \A x \in DOMAIN tabs'[e] : \/ tabs'[e][x] = tabs[e][x]
                                                       \/ tabs'[e][x].label = edits + 1
  <2>1. tabs \in [Devices -> Maps(Tab)]
    BY DEF Facts, Shape, TabShape
  <2>2. CASE s \in DOMAIN tabs[d]
    <3>1. tabs' = [tabs EXCEPT ![d] = [tabs[d] EXCEPT ![s] = [label |-> edits + 1, at |-> edits + 1]]]
      BY <2>2 DEF NameArrives
    <3> QED
      BY <2>1, <3>1
  <2>3. CASE s \notin DOMAIN tabs[d]
    BY <2>3 DEF NameArrives
  <2> QED
    BY <2>2, <2>3
<1>4. Deleted'
  BY <1>1, <1>2, <1>3 DEF Facts, Deleted, Left, Shown
<1>5. edits + 1 # NoLabel /\ edits + 1 # Default
  BY NowLabel DEF Facts
<1>6. Roled(meta)' /\ OneDefault(meta)' /\ (\A x \in DOMAIN meta \cap tomb : meta[x].label # Default)'
  BY <1>1, <1>2, <1>5, RowsKept DEF Facts, Labels, Roled
<1> QED
  BY <1>1, <1>3, <1>4, <1>5, <1>6 DEF Facts, Labels, Roled

LEMMA RunEndsKeeps ==
    ASSUME Facts, NEW s \in Sessions, RunEnds(s)
    PROVE  Deleted' /\ Labels'
<1>1. hist' = hist \cup {s} /\ UNCHANGED <<meta, tomb, cleaning, roles, gone, missed, tabs, pull>>
  BY DEF RunEnds, devices
<1>2. Deleted'
  BY <1>1 DEF Facts, Deleted, Left, Shown
<1>3. Roled(meta)' /\ OneDefault(meta)' /\ (\A x \in DOMAIN meta \cap tomb : meta[x].label # Default)'
  BY <1>1, RowsKept DEF Facts, Labels, Roled
<1> QED
  BY <1>1, <1>2, <1>3 DEF Facts, Labels, Roled

LEMMA CreateKeeps ==
    ASSUME Facts, NEW d \in Devices, NEW s \in Sessions, Create(d, s)
    PROVE  Deleted' /\ Labels'
<1> DEFINE n == Cardinality({r \in DOMAIN tabs[d] : Model[r] = Model[s]}) + 1
           v == [label |-> IF s \in Explicit \cup Workers THEN -n ELSE Default, at |-> 0]
<1>1. /\ UNCHANGED <<meta, tomb, hist, cleaning, gone, missed, pull>>
      /\ s \notin gone /\ s \notin cleaning
      /\ roles' = IF s \in Workers THEN roles \cup {s} ELSE roles
  BY DEF Create
<1>2. v.label # NoLabel
  <2>1. Cardinality({r \in DOMAIN tabs[d] : Model[r] = Model[s]}) \in Nat
    <3>1. {r \in DOMAIN tabs[d] : Model[r] = Model[s]} \in SUBSET Sessions
      BY TabFacts DEF Facts
    <3> QED
      BY <3>1, SessionsAssumption, FS_Subset, FS_CardinalityType
  <2> QED
    BY <2>1 DEF NoLabel, Default
<1>3. \A e \in Devices : /\ DOMAIN tabs'[e] \subseteq DOMAIN tabs[e] \cup {s}
                         /\ \A x \in DOMAIN tabs'[e] : \/ x \in DOMAIN tabs[e] /\ tabs'[e][x] = tabs[e][x]
                                                       \/ tabs'[e][x].label # NoLabel
  <2>1. tabs \in [Devices -> Maps(Tab)]
    BY DEF Facts, Shape, TabShape
  <2>2. tabs' = [tabs EXCEPT ![d] = Put(tabs[d], s, v)]
    BY DEF Create
  <2> HIDE DEF v
  <2> QED
    BY <1>2, <2>1, <2>2 DEF Put
<1>4. Deleted'
  BY <1>1, <1>3 DEF Facts, Deleted, Left, Shown
<1>5. Roled(meta)' /\ OneDefault(meta)' /\ (\A x \in DOMAIN meta \cap tomb : meta[x].label # Default)'
  BY <1>1, RowsKept DEF Facts, Labels, Roled
<1> QED
  BY <1>1, <1>3, <1>4, <1>5 DEF Facts, Labels, Roled

LEMMA RenameKeeps ==
    ASSUME Facts, NEW d \in Devices, NEW s \in Sessions, Rename(d, s)
    PROVE  Deleted' /\ Labels'
<1>1. UNCHANGED <<meta, tomb, hist, cleaning, roles, gone, missed, pull>>
  BY DEF Rename, server
<1>2. \A e \in Devices : /\ DOMAIN tabs'[e] = DOMAIN tabs[e]
                         /\ \A x \in DOMAIN tabs'[e] : \/ tabs'[e][x] = tabs[e][x]
                                                       \/ tabs'[e][x].label = edits + 1
  <2>1. tabs \in [Devices -> Maps(Tab)]
    BY DEF Facts, Shape, TabShape
  <2>2. tabs' = [tabs EXCEPT ![d] = [tabs[d] EXCEPT ![s] = [label |-> edits + 1, at |-> edits + 1]]]
    BY DEF Rename
  <2> QED
    BY <2>1, <2>2
<1>3. edits + 1 # NoLabel /\ edits + 1 # Default
  BY NowLabel DEF Facts
<1>4. Deleted'
  BY <1>1, <1>2 DEF Facts, Deleted, Left, Shown
<1>5. Roled(meta)' /\ OneDefault(meta)' /\ (\A x \in DOMAIN meta \cap tomb : meta[x].label # Default)'
  BY <1>1, RowsKept DEF Facts, Labels, Roled
<1> QED
  BY <1>1, <1>2, <1>3, <1>4, <1>5 DEF Facts, Labels, Roled

LEMMA CloseKeeps ==
    ASSUME Facts, NEW d \in Devices, NEW s \in Sessions, Close(d, s)
    PROVE  Deleted' /\ Labels'
<1>1. UNCHANGED <<meta, tomb, hist, roles, gone, missed, pull>> /\ s \notin roles /\ cleaning' = cleaning \cup {s}
  BY DEF Close
<1>2. \A e \in Devices : /\ DOMAIN tabs'[e] \subseteq DOMAIN tabs[e]
                         /\ \A x \in DOMAIN tabs'[e] : tabs'[e][x] = tabs[e][x]
  <2>1. tabs \in [Devices -> Maps(Tab)]
    BY DEF Facts, Shape, TabShape
  <2>2. tabs' = [tabs EXCEPT ![d] = Without(tabs[d], {s})]
    BY DEF Close
  <2> QED
    BY <2>1, <2>2 DEF Without
<1>3. Deleted'
  BY <1>1, <1>2 DEF Facts, Deleted, Left, Shown
<1>4. Roled(meta)' /\ OneDefault(meta)' /\ (\A x \in DOMAIN meta \cap tomb : meta[x].label # Default)'
  BY <1>1, RowsKept DEF Facts, Labels, Roled
<1> QED
  BY <1>1, <1>2, <1>3, <1>4 DEF Facts, Labels, Roled

LEMMA TimeKeeps ==
    ASSUME Facts, TimePasses
    PROVE  Deleted' /\ Labels'
<1>1. /\ UNCHANGED <<hist, cleaning, roles, gone, tabs>> /\ tomb' \subseteq tomb
      /\ missed \subseteq missed' /\ \A d \in Devices : pull'[d] = Idle
      /\ \A d \in Devices : DOMAIN tabs[d] \cap (tomb \cup missed) \subseteq tomb' \cup missed'
  BY DEF TimePasses
<1>2. /\ DOMAIN meta' = DOMAIN meta
      /\ \A s \in DOMAIN meta : /\ meta'[s].label = meta[s].label /\ meta'[s].worker = meta[s].worker
                                /\ meta'[s].explicit = meta[s].explicit
  <2>1. meta' = [s \in DOMAIN meta |-> [meta[s] EXCEPT !.old = TRUE]]
    BY DEF TimePasses
  <2>2. ASSUME NEW s \in DOMAIN meta
        PROVE  /\ meta'[s].label = meta[s].label /\ meta'[s].worker = meta[s].worker
               /\ meta'[s].explicit = meta[s].explicit
    <3>1. meta[s] \in Row
      BY MetaFacts DEF Facts
    <3> QED
      BY <2>1, <3>1 DEF Row
  <2> QED
    BY <2>1, <2>2
<1>3. Deleted'
  BY <1>1, <1>2 DEF Facts, Deleted, Left, Shown
<1>4. Roled(meta)' /\ OneDefault(meta)' /\ (\A x \in DOMAIN meta \cap tomb : meta[x].label # Default)'
  BY <1>1, <1>2, RowsKept DEF Facts, Labels, Roled
<1> QED
  BY <1>1, <1>3, <1>4 DEF Facts, Labels, Roled

\* What a device shows after a list: tabs it had, and rows shown by the list.
LEMMA MergedTabs ==
    ASSUME NEW own, NEW list
    PROVE  /\ \A s : s \in DOMAIN Merged(own, list) <=> s \in Kept(own, list) \/ s \in Added(own, list)
           /\ \A s \in Kept(own, list) : s \in DOMAIN own /\ s \notin list.dead
           /\ \A s : s \in Added(own, list) <=> s \in Shown(list.rows) /\ s \notin DOMAIN own
           /\ \A s \in DOMAIN Merged(own, list) :
                 \/ s \in DOMAIN own /\ Merged(own, list)[s] = own[s]
                 \/ s \in DOMAIN list.rows /\ Merged(own, list)[s].label = list.rows[s].label
                    /\ (s \in DOMAIN own => list.rows[s].label # NoLabel /\ list.rows[s].label # own[s].label)
<1> DEFINE X == Kept(own, list) \cup Added(own, list)
<1>1. Kept(own, list) \subseteq DOMAIN own \ list.dead /\ Added(own, list) = Shown(list.rows) \ DOMAIN own
  BY DEF Kept, Added, Shown
<1>2. DOMAIN Merged(own, list) = X
  BY DEF Merged
<1>3. ASSUME NEW s \in X
      PROVE  \/ s \in DOMAIN own /\ Merged(own, list)[s] = own[s]
             \/ s \in DOMAIN list.rows /\ Merged(own, list)[s].label = list.rows[s].label
                /\ (s \in DOMAIN own => list.rows[s].label # NoLabel /\ list.rows[s].label # own[s].label)
  <2>1. Merged(own, list)[s] =
          IF s \notin DOMAIN own THEN [label |-> list.rows[s].label, at |-> list.rows[s].at]
          ELSE IF s \in DOMAIN list.rows THEN Relabelled(own[s], list.rows[s]) ELSE own[s]
    BY DEF Merged
  <2>2. CASE s \notin DOMAIN own
    BY <1>1, <2>1, <2>2 DEF Shown
  <2>3. CASE s \in DOMAIN own /\ s \notin DOMAIN list.rows
    BY <2>1, <2>3
  <2>4. CASE s \in DOMAIN own /\ s \in DOMAIN list.rows
    <3>1. Merged(own, list)[s] = Relabelled(own[s], list.rows[s])
      BY <2>1, <2>4
    <3> QED
      BY <2>4, <3>1 DEF Relabelled
  <2> QED
    BY <2>2, <2>3, <2>4
<1> HIDE DEF X
<1> QED
  BY <1>1, <1>2, <1>3 DEF X

LEMMA MergeKeeps ==
    ASSUME Facts, NEW d \in Devices, NEW list, Shows(d, Merged(tabs[d], list)),
           Roled(list.rows), Shown(list.rows) \cap gone \subseteq Left, UNCHANGED server,
           \A e \in Devices : pull'[e] \in {pull[e], Idle}
    PROVE  Deleted' /\ Labels'
<1>0. UNCHANGED <<meta, tomb, hist, cleaning, roles, gone, missed>>
  BY DEF server
<1>1. \A e \in Devices : tabs'[e] = IF e = d THEN Merged(tabs[d], list) ELSE tabs[e]
  BY DEF Shows, Facts, Shape, TabShape
<1>2. /\ DOMAIN Merged(tabs[d], list) \subseteq DOMAIN tabs[d] \cup Shown(list.rows)
      /\ \A s \in DOMAIN Merged(tabs[d], list) :
            \/ s \in DOMAIN tabs[d] /\ Merged(tabs[d], list)[s] = tabs[d][s]
            \/ s \in DOMAIN list.rows /\ Merged(tabs[d], list)[s].label = list.rows[s].label
  <2> DEFINE own == tabs[d]
  <2> HIDE DEF own
  <2>1. /\ DOMAIN Merged(own, list) \subseteq DOMAIN own \cup Shown(list.rows)
        /\ \A s \in DOMAIN Merged(own, list) :
              \/ s \in DOMAIN own /\ Merged(own, list)[s] = own[s]
              \/ s \in DOMAIN list.rows /\ Merged(own, list)[s].label = list.rows[s].label
    BY MergedTabs
  <2> QED
    BY <2>1 DEF own
<1>3. \A s \in DOMAIN Merged(tabs[d], list) : Merged(tabs[d], list)[s].label = NoLabel => s \in Workers
  BY <1>2 DEF Facts, Labels, Roled
<1>4. Deleted'
  BY <1>0, <1>1, <1>2 DEF Facts, Deleted, Left, Shown
<1>5. Roled(meta)' /\ OneDefault(meta)' /\ (\A x \in DOMAIN meta \cap tomb : meta[x].label # Default)'
  BY <1>0, RowsKept DEF Facts, Labels, Roled
<1> QED
  BY <1>0, <1>1, <1>3, <1>4, <1>5 DEF Facts, Labels, Roled

LEMMA ListRoled ==
    ASSUME Facts
    PROVE  Roled(SessionsList.rows) /\ Shown(SessionsList.rows) \cap gone \subseteq Left
<1>1. SessionsList.rows = Without(meta, tomb)
  BY ListShape DEF Facts
<1>2. DOMAIN SessionsList.rows = DOMAIN meta \ tomb
      /\ \A s \in DOMAIN meta \ tomb : SessionsList.rows[s] = meta[s]
  BY <1>1 DEF Without
<1> QED
  BY <1>2 DEF Roled, Shown, Facts, Deleted, Left, Labels

LEMMA PullStartsKeeps ==
    ASSUME Facts, NEW d \in Devices, PullStarts(d)
    PROVE  Deleted' /\ Labels'
<1>0. UNCHANGED <<meta, tomb, hist, cleaning, roles, gone, missed, tabs>>
  BY DEF PullStarts, server
<1>1. \A e \in Devices : pull'[e] = IF e = d THEN SessionsList ELSE pull[e]
  BY DEF PullStarts, Facts, Shape, PullShape
<1>2. Deleted'
  BY <1>0, <1>1, ListRoled DEF Facts, Deleted, Left, Shown
<1>3. Roled(meta)' /\ OneDefault(meta)' /\ (\A x \in DOMAIN meta \cap tomb : meta[x].label # Default)'
  BY <1>0, RowsKept DEF Facts, Labels, Roled
<1> QED
  BY <1>0, <1>1, <1>2, <1>3, ListRoled DEF Facts, Labels, Roled

LEMMA PullEndsKeeps ==
    ASSUME Facts, NEW d \in Devices, PullEnds(d)
    PROVE  Deleted' /\ Labels'
<1>1. pull[d] # Idle /\ Shows(d, Merged(tabs[d], pull[d])) /\ UNCHANGED server
  BY DEF PullEnds, Shows, Idle
<1>2. \A e \in Devices : pull'[e] \in {pull[e], Idle}
  BY DEF PullEnds, Facts, Shape, PullShape
<1> QED
  BY <1>1, <1>2, MergeKeeps DEF Facts, Deleted, Labels

LEMMA BootKeeps ==
    ASSUME Facts, NEW d \in Devices, Boot(d)
    PROVE  Deleted' /\ Labels'
<1>1. Shows(d, Merged(tabs[d], SessionsList)) /\ UNCHANGED server /\ UNCHANGED pull
  BY DEF Boot, Shows
<1>2. \A e \in Devices : pull'[e] \in {pull[e], Idle}
  BY <1>1
<1>3. Shown(SessionsList.rows) \cap gone \subseteq Left /\ Roled(SessionsList.rows)
  BY ListRoled
<1> DEFINE list == SessionsList
<1>4. Shows(d, Merged(tabs[d], list)) /\ Shown(list.rows) \cap gone \subseteq Left /\ Roled(list.rows)
  BY <1>1, <1>3
<1> HIDE DEF list
<1> QED
  BY <1>1, <1>2, <1>4, MergeKeeps

----------------------------------------------------------------------------
(* The facts hold in every state.                                          *)

LEMMA InitFacts ==
    ASSUME Init
    PROVE  Facts
<1>1. Cardinality(Sessions) \in Nat \ {0}
  <2>1. Cardinality(Sessions) \in Nat /\ Sessions # {}
    BY SessionsAssumption, FS_CardinalityType
  <2>2. Cardinality(Sessions) # 0
    BY <2>1, SessionsAssumption, FS_EmptySet
  <2> QED
    BY <2>1, <2>2
<1>2. -2 \in (-1 - Cardinality(Sessions))..MaxEdits /\ 0 \in 0..MaxEdits
  BY <1>1, EditsAssumption
<1>3. MetaShape
  <2> DEFINE v(s) == [label |-> -2, at |-> 0, worker |-> s \in Workers,
                      explicit |-> s \in Explicit, old |-> FALSE]
  <2>1. \A s \in Shared : v(s) \in Row /\ v(s).at = 0
    BY <1>2 DEF Row
  <2>2. meta = [s \in Shared |-> v(s)]
    BY DEF Init
  <2> HIDE DEF v
  <2>3. meta \in [Shared -> Row]
    BY <2>1, <2>2
  <2>4. meta \in Maps(Row)
    BY <2>3, SessionsAssumption, MapsIn
  <2>5. edits = 0
    BY DEF Init
  <2>6. \A s \in DOMAIN meta : meta[s].at = 0
    BY <2>1, <2>2
  <2> QED
    BY <2>4, <2>5, <2>6 DEF MetaShape, Stamped
<1>4. TabShape
  <2> DEFINE f == [s \in Shared |-> [label |-> -2, at |-> 0]]
  <2>1. f \in [Shared -> Tab] /\ \A s \in Shared : f[s].at = 0
    BY <1>2 DEF Tab
  <2>2. f \in Maps(Tab) /\ DOMAIN f = Shared
    BY <2>1, SessionsAssumption, MapsIn
  <2>3. tabs = [d \in Devices |-> f] /\ edits = 0
    BY DEF Init
  <2> HIDE DEF f
  <2> QED
    BY <2>1, <2>2, <2>3 DEF TabShape, Stamped
<1>5. PullShape /\ SetShape /\ edits \in 0..MaxEdits
  BY <1>2 DEF Init, PullShape, SetShape
<1>6. Deleted
  BY DEF Init, Deleted
<1>7. Labels
  <2>1. \A s \in DOMAIN meta : meta[s].label = -2 /\ (meta[s].worker <=> s \in Workers)
    BY DEF Init
  <2>2. -2 # NoLabel /\ -2 # Default
    BY DEF NoLabel, Default
  <2>3. Roled(meta) /\ OneDefault(meta)
    BY <2>1, <2>2 DEF Roled, OneDefault, DefaultRow
  <2>4. roles = {} /\ tomb = {} /\ (\A d \in Devices : pull[d] = Idle)
    BY DEF Init
  <2>5. \A d \in Devices : \A s \in DOMAIN tabs[d] : tabs[d][s].label # NoLabel
    BY <2>2 DEF Init
  <2> QED
    BY <2>3, <2>4, <2>5 DEF Labels
<1> QED
  BY <1>3, <1>4, <1>5, <1>6, <1>7 DEF Facts, Shape

LEMMA NextFacts ==
    ASSUME Facts, [Next]_vars
    PROVE  Facts'
<1>1. ASSUME NEW d \in Devices, NEW s \in Sessions,
             Create(d, s) \/ Rename(d, s) \/ Close(d, s) \/ NameArrives(d, s)
      PROVE  Facts'
  <2>1. Shape'
    BY <1>1, CreateShape, RenameShape, CloseShape, NameShape DEF Facts
  <2>2. Deleted' /\ Labels'
    BY <1>1, CreateKeeps, RenameKeeps, CloseKeeps, NameKeeps
  <2> QED
    BY <2>1, <2>2 DEF Facts
<1>2. ASSUME NEW s \in Sessions, RunEnds(s) \/ Cleanup(s) \/ SetRole(s)
      PROVE  Facts'
  <2>1. Shape'
    BY <1>2, RunEndsShape, CleanupShape, SetRoleShape DEF Facts
  <2>2. Deleted' /\ Labels'
    BY <1>2, RunEndsKeeps, CleanupKeeps, SetRoleKeeps
  <2> QED
    BY <2>1, <2>2 DEF Facts
<1>3. TimePasses => Facts'
  BY TimeShape, TimeKeeps DEF Facts
<1>4. ASSUME NEW d \in Devices, Settles(d)
      PROVE  Facts'
  <2>1. CASE Sync(d)
    <3>1. PICK st : Pushed(st, d)
      BY <2>1, SyncEffect
    <3> QED
      BY <3>1, SyncShape, SyncKeeps DEF Facts
  <2>2. CASE Boot(d)
    BY <2>2, BootShape, BootKeeps DEF Facts
  <2>3. CASE PullStarts(d)
    BY <2>3, PullStartsShape, PullStartsKeeps DEF Facts
  <2>4. CASE PullEnds(d)
    BY <2>4, PullEndsShape, PullEndsKeeps DEF Facts
  <2> QED
    BY <1>4, <2>1, <2>2, <2>3, <2>4 DEF Settles
<1>5. ASSUME UNCHANGED vars
      PROVE  Facts'
  <2>1. /\ UNCHANGED <<meta, tomb, hist, cleaning, roles, gone, missed>>
        /\ UNCHANGED <<tabs, due, pull, heard, edits>>
    BY <1>5 DEF vars, server, devices
  <2>2. Shape'
    BY <2>1 DEF Facts, Shape, MetaShape, TabShape, PullShape, SetShape, Stamped
  <2>3. Deleted' /\ Labels'
    BY <2>1 DEF Facts, Deleted, Left, Labels, Shown, Roled, OneDefault, DefaultRow
  <2> QED
    BY <2>2, <2>3 DEF Facts
<1> QED
  BY <1>1, <1>2, <1>3, <1>4, <1>5 DEF Next, Changes

LEMMA AlwaysFacts == Spec => []Facts
<1> QED
  BY InitFacts, NextFacts, PTL DEF Spec

\* The tables keep their shape, and a row that a late name leaves of a deleted session is
\* neither of a role nor explicit (api_auto_name_single, _cleanup_tab_session).
THEOREM TablesTyped == Spec => []TypeOK
<1>1. Facts => TypeOK
  <2> SUFFICES ASSUME Facts PROVE TypeOK
    OBVIOUS
  <2>1. DOMAIN meta \subseteq Sessions /\ \A s \in DOMAIN meta : meta[s] \in Row
    BY MetaFacts DEF Facts
  <2>2. tomb \subseteq gone \ missed
    BY DEF Facts, Shape, SetShape
  <2>3. \A s \in DOMAIN meta \cap (gone \ missed) : ~meta[s].worker /\ ~meta[s].explicit
    BY DEF Facts, Deleted, Left, Shown
  <2>4. \A d \in Devices : /\ DOMAIN tabs[d] \subseteq Sessions
                           /\ pull[d].kind \in {"idle", "list"}
    BY TabFacts, PullFacts DEF Facts, Idle
  <2> QED
    BY <2>1, <2>2, <2>3, <2>4 DEF TypeOK
<1> QED
  BY <1>1, AlwaysFacts, PTL

LEMMA SyncLimits ==
    ASSUME Facts, NEW d \in Devices, Sync(d), NEW mk \in {"codex", "spark"}
    PROVE  \/ Counts(meta', tomb', {mk}) <= Limits[mk]
           \/ Counts(meta', tomb', {mk}) <= Counts(meta, tomb, {mk})
<1>1. PICK st : Pushed(st, d)
  BY SyncEffect
<1>2. st.rows \in Maps(Row) /\ meta' = Collected(st.rows) /\ tomb' = tomb
  BY <1>1 DEF Pushed, Good, Request
<1>3. PICK n \in Int : Bounds(n, mk, st.rows)
  <2>1. /\ st.codex \in Int /\ Bounds(st.codex, "codex", st.rows)
        /\ st.spark \in Int /\ Bounds(st.spark, "spark", st.rows)
    BY <1>1 DEF Pushed, Good, Request
  <2> QED
    BY <2>1
<1> DEFINE A == {s \in DOMAIN st.rows \ tomb : Model[s] \in {mk}}
           B == {s \in DOMAIN meta' \ tomb' : Model[s] \in {mk}}
           M == {s \in DOMAIN meta \ tomb : Model[s] \in {mk}}
<1>4. IsFiniteSet(A) /\ IsFiniteSet(M)
  <2>1. DOMAIN st.rows \subseteq Sessions
    BY <1>2, MapsDef
  <2>2. DOMAIN meta \subseteq Sessions
    BY MetaFacts DEF Facts
  <2>3. A \in SUBSET Sessions /\ M \in SUBSET Sessions
    BY <2>1, <2>2
  <2> HIDE DEF A, M
  <2> QED
    BY <2>3, SessionsAssumption, FS_Subset
<1>5. B \in SUBSET A
  BY <1>2 DEF Collected, Without
<1> HIDE DEF A, B, M
<1>6. /\ Cardinality(A) \in Int /\ Cardinality(B) \in Int /\ Cardinality(M) \in Int
      /\ Cardinality(B) <= Cardinality(A)
  BY <1>4, <1>5, FS_Subset, FS_CardinalityType
<1>7. n = Cardinality(A) /\ (n <= Limits[mk] \/ n <= Cardinality(M))
  BY <1>3 DEF Bounds, Counts, A, M
<1>8. Cardinality(B) <= Limits[mk] \/ Cardinality(B) <= Cardinality(M)
  BY <1>3, <1>6, <1>7, LimitsAssumption
<1> QED
  BY <1>8 DEF Counts, B, M

\* However many new tabs a push brings, the policy's limit of a model is not passed by it
\* (api_tabs_sync, _max_codex_sessions, _max_spark_sessions).
THEOREM LimitsKept == Spec => SyncKeepsLimits
<1>1. Facts => \A mk \in {"codex", "spark"} :
                  (\E d \in Devices : Sync(d))
                    => \/ Counts(meta', tomb', {mk}) <= Limits[mk]
                       \/ Counts(meta', tomb', {mk}) <= Counts(meta, tomb, {mk})
  BY SyncLimits
<1> QED
  BY <1>1, AlwaysFacts, PTL DEF SyncKeepsLimits

LEMMA StampsForward ==
    ASSUME Facts, [Next]_vars, NEW s \in DOMAIN meta \cap DOMAIN meta'
    PROVE  meta'[s].at >= meta[s].at
<1>0. meta[s] \in Row /\ meta[s].at \in Int /\ meta[s].at <= edits /\ edits \in Int
  BY MetaFacts, EditsAssumption DEF Facts, Shape
<1>1. UNCHANGED meta => meta'[s].at >= meta[s].at
  BY <1>0
<1>2. ASSUME NEW d \in Devices, NEW x \in Sessions, Create(d, x) \/ Rename(d, x) \/ Close(d, x)
      PROVE  meta'[s].at >= meta[s].at
  BY <1>1, <1>2 DEF Create, Rename, Close, server
<1>3. ASSUME NEW d \in Devices, NEW x \in Sessions, NameArrives(d, x)
      PROVE  meta'[s].at >= meta[s].at
  <2>1. meta' = [y \in DOMAIN meta \cup {x} |->
                   IF y = x THEN [label |-> edits + 1, at |-> edits + 1, old |-> FALSE,
                                  worker |-> x \in DOMAIN meta /\ meta[x].worker,
                                  explicit |-> x \in DOMAIN meta /\ meta[x].explicit]
                   ELSE meta[y]]
    BY <1>3, NameEffect DEF Facts
  <2>2. meta'[s].at = edits + 1 \/ meta'[s].at = meta[s].at
    BY <2>1
  <2> QED
    BY <1>0, <2>2
<1>4. ASSUME NEW x \in Sessions, RunEnds(x) \/ Cleanup(x) \/ SetRole(x)
      PROVE  meta'[s].at >= meta[s].at
  <2>1. CASE RunEnds(x)
    BY <1>1, <2>1 DEF RunEnds
  <2>2. CASE Cleanup(x)
    BY <1>0, <2>2 DEF Cleanup, Without
  <2>3. CASE SetRole(x)
    <3>1. CASE x \in DOMAIN meta
      <4>1. meta' = [meta EXCEPT ![x] = [meta[x] EXCEPT !.worker = TRUE, !.old = FALSE]]
        BY <2>3, <3>1, MetaFacts DEF SetRole, Facts
      <4>2. [meta[x] EXCEPT !.worker = TRUE, !.old = FALSE].at = meta[x].at
        BY <3>1, MetaFacts DEF Row, Facts
      <4> QED
        BY <1>0, <3>1, <4>1, <4>2
    <3>2. CASE x \notin DOMAIN meta
      BY <1>0, <2>3, <3>2 DEF SetRole, Put
    <3> QED
      BY <3>1, <3>2
  <2> QED
    BY <1>4, <2>1, <2>2, <2>3
<1>5. ASSUME TimePasses
      PROVE  meta'[s].at >= meta[s].at
  <2>1. meta' = [x \in DOMAIN meta |-> [meta[x] EXCEPT !.old = TRUE]]
    BY <1>5 DEF TimePasses
  <2>2. [meta[s] EXCEPT !.old = TRUE].at = meta[s].at
    BY <1>0 DEF Row
  <2>3. meta'[s] = [meta[s] EXCEPT !.old = TRUE]
    BY <2>1
  <2> QED
    BY <1>0, <2>2, <2>3
<1>6. ASSUME NEW d \in Devices, Settles(d)
      PROVE  meta'[s].at >= meta[s].at
  <2>1. CASE Sync(d)
    <3>1. PICK st : Pushed(st, d)
      BY <2>1, SyncEffect
    <3>2. meta' = Collected(st.rows) /\ st.rows[s].at >= meta[s].at
      BY <3>1 DEF Pushed, Good, Keeps
    <3> QED
      BY <3>2 DEF Collected, Without
  <2>2. CASE Boot(d) \/ PullStarts(d) \/ PullEnds(d)
    BY <1>1, <2>2 DEF Boot, PullStarts, PullEnds, server
  <2> QED
    BY <1>6, <2>1, <2>2 DEF Settles
<1>7. UNCHANGED vars => meta'[s].at >= meta[s].at
  BY <1>1 DEF vars, server
<1> QED
  BY <1>2, <1>3, <1>4, <1>5, <1>6, <1>7 DEF Next, Changes

\* A stored name is never replaced by an older one, whichever device pushes last and
\* whatever else happens meanwhile (the ON CONFLICT clause of api_tabs_sync).
THEOREM NamesForward == Spec => LabelsForward
<1>1. Facts /\ [Next]_vars => \A s \in DOMAIN meta \cap DOMAIN meta' : meta'[s].at >= meta[s].at
  BY StampsForward
<1> QED
  BY <1>1, AlwaysFacts, PTL DEF LabelsForward, Spec

----------------------------------------------------------------------------
(* A device opened since the last change: what its tabs and its list have  *)
(* to do with the server's rows, whatever is under way.                    *)

Listing(d) == pull[d] # Idle
\* A row that a collection leaves.
Lasting(s) == s \in DOMAIN meta /\ (meta[s].worker \/ ~meta[s].old \/ s \in hist)

\* A list taken from the tables as they are but for rows stored or collected since.
SoundList(list) ==
    /\ list.dead = tomb /\ DOMAIN list.rows \cap tomb = {} /\ OneDefault(list.rows)
    /\ \A s : s \in list.sids <=> s \in DOMAIN list.rows \/ (s \in hist /\ s \notin tomb)
\* No row was stored since.
CurrentList(list) ==
    /\ DOMAIN meta \subseteq DOMAIN list.rows \cup tomb
    /\ \A s \in DOMAIN meta \ tomb : meta[s] = list.rows[s]
    /\ \A s \in DOMAIN list.rows : list.rows[s].worker => s \in DOMAIN meta

ListKnown(d) ==
    Listing(d) => /\ SoundList(pull[d]) /\ DOMAIN pull[d].rows # {}
                  /\ ~heard[d] => CurrentList(pull[d])
\* The device shows, or is about to show, every tab that it has to.
ShowsAll(d) ==
    ~heard[d] => Shown(meta) \ tomb \subseteq IF Listing(d) THEN Shown(pull[d].rows) ELSE DOMAIN tabs[d]
\* There is a row the next list will bring.
Anchored(d) == heard[d] => \E s \in DOMAIN meta \ tomb : Lasting(s)
\* A tab that a push would take for a phantom has a role.
NoRival(d) ==
    ~Listing(d) /\ ~heard[d] =>
        \A s \in DOMAIN tabs[d] : \A r \in DOMAIN meta \ {s} :
            DefaultTab(d, s) /\ DefaultRow(meta, r) /\ Model[r] = Model[s]
                => s \in DOMAIN meta /\ meta[s].worker
\* A default tab that the server took for a phantom, and the list does not bring either.
Passed(d, s) ==
    /\ DefaultTab(d, s) /\ ~DefaultRow(meta, s)
    /\ Listing(d) /\ ~heard[d] => ~DefaultRow(pull[d].rows, s)
\* After a push every tab has a row that lasts, or was passed over.
Backed(d) ==
    ~due[d] => /\ \A s \in DOMAIN tabs[d] : Lasting(s) \/ Passed(d, s)
               /\ ~heard[d] /\ ~Listing(d) => \A s \in DOMAIN tabs[d] : Lasting(s)

CurrentTabs(d) ==
    /\ DOMAIN tabs[d] \cap tomb = {}
    /\ ListKnown(d) /\ ShowsAll(d) /\ Anchored(d) /\ NoRival(d) /\ Backed(d)
FreshTabs == fresh \subseteq Devices /\ \A d \in fresh : CurrentTabs(d)

LEMMA Unaffected ==
    ASSUME NEW d, CurrentTabs(d), UNCHANGED <<meta, tomb, hist>>, tabs'[d] = tabs[d],
           due'[d] = due[d], pull'[d] = pull[d], heard'[d] = heard[d]
    PROVE  CurrentTabs(d)'
<1>1. (\A s : Lasting(s)' <=> Lasting(s)) /\ (\A s : DefaultTab(d, s)' <=> DefaultTab(d, s))
      /\ (\A s : DefaultRow(meta, s)' <=> DefaultRow(meta, s))
      /\ (\A s : DefaultRow(pull[d].rows, s)' <=> DefaultRow(pull[d].rows, s))
      /\ (Listing(d)' <=> Listing(d))
  BY DEF Lasting, DefaultTab, DefaultRow, Listing
<1>2. ListKnown(d)'
  <2>1. SoundList(pull[d]) => SoundList(pull[d])'
    BY DEF SoundList, OneDefault, DefaultRow
  <2>2. CurrentList(pull[d]) => CurrentList(pull[d])'
    BY DEF CurrentList
  <2> QED
    BY <1>1, <2>1, <2>2 DEF CurrentTabs, ListKnown
<1>3. ShowsAll(d)' /\ Anchored(d)'
  BY <1>1 DEF CurrentTabs, ShowsAll, Anchored, Shown
<1>4. NoRival(d)'
  BY <1>1 DEF CurrentTabs, NoRival
<1>5. Backed(d)'
  BY <1>1 DEF CurrentTabs, Backed, Passed
<1> QED
  BY <1>2, <1>3, <1>4, <1>5 DEF CurrentTabs

\* A push that saved something: every device will hear of it.
LEMMA SavedFresh ==
    ASSUME Facts, NEW e \in Devices, NEW st, Pushed(st, e), st.saved,
           NEW d \in Devices, CurrentTabs(d)
    PROVE  CurrentTabs(d)'
<1>1. /\ meta' = Collected(st.rows) /\ Keeps(DOMAIN tabs[e], st) /\ Takes(DOMAIN tabs[e], st, e)
      /\ UNCHANGED <<tomb, hist, pull>>
  BY DEF Pushed, Good
<1>2. /\ \A s \in DOMAIN meta' : s \in DOMAIN st.rows /\ meta'[s] = st.rows[s]
      /\ \A s \in DOMAIN st.rows : st.rows[s].worker \/ ~st.rows[s].old \/ s \in hist => s \in DOMAIN meta'
  BY <1>1 DEF Collected, Without
<1>3. heard'[d] = TRUE
  BY DEF Pushed
<1>4. /\ tabs'[d] = IF d = e THEN Without(tabs[e], st.rejected \cap DOMAIN tabs[e]) ELSE tabs[d]
      /\ due'[d] = IF d = e THEN st.rejected \cap DOMAIN tabs[e] # {} ELSE due[d]
  BY DEF Pushed, Facts, Shape, TabShape, SetShape
<1>5. DOMAIN tabs'[d] \subseteq DOMAIN tabs[d] /\ \A s \in DOMAIN tabs'[d] : tabs'[d][s] = tabs[d][s]
  BY <1>4 DEF Without
<1>6. ASSUME NEW s \in DOMAIN st.rows, ~st.rows[s].old
      PROVE  Lasting(s)'
  BY <1>1, <1>2, <1>6 DEF Lasting
<1>7. \A s \in DOMAIN tabs'[d] : DefaultTab(d, s) => DefaultTab(d, s)'
  BY <1>1, <1>5 DEF DefaultTab
<1>8. ListKnown(d)' /\ ShowsAll(d)' /\ NoRival(d)'
  <2>1. SoundList(pull[d]) => SoundList(pull[d])'
    BY <1>1 DEF SoundList, OneDefault, DefaultRow
  <2> QED
    BY <1>1, <1>3, <2>1 DEF CurrentTabs, ListKnown, ShowsAll, NoRival, Listing
<1>9. Anchored(d)'
  <2>1. PICK s \in DOMAIN st.rows \ tomb : ~st.rows[s].old
    BY <1>1 DEF Takes
  <2>2. Lasting(s)'
    BY <1>6, <2>1
  <2> QED
    BY <1>1, <2>1, <2>2 DEF Anchored, Lasting
<1>10. ASSUME ~due'[d], NEW s \in DOMAIN tabs'[d]
       PROVE  Lasting(s)' \/ Passed(d, s)'
  <2>1. CASE d = e
    <3>1. s \in DOMAIN tabs[e] /\ s \notin tomb /\ s \notin st.rejected
      BY <1>4, <1>5, <1>10, <2>1 DEF CurrentTabs
    <3>2. s \in Done(DOMAIN tabs[e], st)
      BY <3>1 DEF Done
    <3>3. CASE s \in DOMAIN st.rows /\ ~st.rows[s].old
      BY <1>6, <3>3
    <3>4. CASE DefaultTab(e, s) /\ ~DefaultRow(st.rows, s)
      <4>1. ~DefaultRow(meta, s)'
        BY <1>1, <1>2, <3>4 DEF DefaultRow
      <4> QED
        BY <1>3, <1>7, <1>10, <2>1, <3>4, <4>1 DEF Passed
    <3> QED
      BY <1>1, <3>2, <3>3, <3>4 DEF Takes
  <2>2. CASE d # e
    <3>1. s \in DOMAIN tabs[d] /\ (Lasting(s) \/ Passed(d, s))
      BY <1>4, <1>10, <2>2 DEF CurrentTabs, Backed
    <3>2. CASE s \in DOMAIN st.rows /\ ~st.rows[s].old
      BY <1>6, <3>2
    <3>3. CASE s \in DOMAIN meta /\ s \in DOMAIN st.rows /\ st.rows[s] = meta[s]
      <4>1. Lasting(s) => Lasting(s)'
        BY <1>1, <1>2, <3>3 DEF Lasting
      <4>2. Passed(d, s) => Passed(d, s)'
        <5>1. ~DefaultRow(meta, s) => ~DefaultRow(meta, s)'
          BY <1>1, <1>2, <3>3 DEF DefaultRow
        <5> QED
          BY <1>3, <1>7, <1>10, <5>1 DEF Passed
      <4> QED
        BY <3>1, <4>1, <4>2
    <3>4. CASE s \notin DOMAIN st.rows
      <4>1. ~DefaultRow(meta, s)'
        BY <1>2, <3>4 DEF DefaultRow
      <4>2. ~Lasting(s)
        BY <1>1, <3>4 DEF Lasting, Keeps
      <4> QED
        BY <1>3, <1>7, <1>10, <3>1, <4>1, <4>2 DEF Passed
    <3> QED
      BY <1>1, <3>2, <3>3, <3>4 DEF Keeps
  <2> QED
    BY <2>1, <2>2
<1>11. Backed(d)'
  BY <1>3, <1>10 DEF Backed
<1>12. (DOMAIN tabs[d] \cap tomb = {})'
  BY <1>1, <1>5 DEF CurrentTabs
<1> QED
  BY <1>8, <1>9, <1>11, <1>12 DEF CurrentTabs

\* A push that saved nothing: only rows that do not last are collected.
LEMMA UnsavedFresh ==
    ASSUME Facts, NEW e \in Devices, NEW st, Pushed(st, e), ~st.saved,
           NEW d \in Devices, CurrentTabs(d)
    PROVE  CurrentTabs(d)'
<1>1. /\ meta' = Collected(meta) /\ Keeps(DOMAIN tabs[e], st) /\ Takes(DOMAIN tabs[e], st, e)
      /\ st.rows = meta /\ UNCHANGED <<tomb, hist, pull>>
  BY DEF Pushed, Good, Takes
<1>2. /\ \A s \in DOMAIN meta' : s \in DOMAIN meta /\ meta'[s] = meta[s]
      /\ \A s : Lasting(s) <=> s \in DOMAIN meta'
  BY <1>1 DEF Collected, Without, Lasting
<1>3. \A s : Lasting(s)' <=> Lasting(s)
  BY <1>1, <1>2 DEF Lasting
<1>4. heard'[d] = heard[d] /\ (Listing(d)' <=> Listing(d))
  BY <1>1 DEF Pushed, Facts, Shape, SetShape, Listing
<1>5. /\ tabs'[d] = IF d = e THEN Without(tabs[e], st.rejected \cap DOMAIN tabs[e]) ELSE tabs[d]
      /\ due'[d] = IF d = e THEN st.rejected \cap DOMAIN tabs[e] # {} ELSE due[d]
  BY DEF Pushed, Facts, Shape, TabShape, SetShape
<1>6. /\ \A s \in DOMAIN tabs'[d] : s \in DOMAIN tabs[d] /\ tabs'[d][s] = tabs[d][s]
      /\ \A s \in DOMAIN tabs[d] : s \notin st.rejected => s \in DOMAIN tabs'[d]
  BY <1>5 DEF Without
<1>7. /\ \A s : DefaultRow(meta, s)' => DefaultRow(meta, s)
      /\ \A s : DefaultRow(pull[d].rows, s)' <=> DefaultRow(pull[d].rows, s)
      /\ \A s : DefaultTab(d, s)' => DefaultTab(d, s)
      /\ \A s \in DOMAIN tabs'[d] : DefaultTab(d, s) => DefaultTab(d, s)'
  BY <1>1, <1>2, <1>6 DEF DefaultRow, DefaultTab
<1>8. ListKnown(d)'
  <2>1. SoundList(pull[d]) => SoundList(pull[d])'
    BY <1>1 DEF SoundList, OneDefault, DefaultRow
  <2>2. SoundList(pull[d]) /\ CurrentList(pull[d]) => CurrentList(pull[d])'
    <3> SUFFICES ASSUME SoundList(pull[d]), CurrentList(pull[d])
                 PROVE  CurrentList(pull[d])'
      OBVIOUS
    <3>1. ASSUME NEW s \in DOMAIN pull[d].rows, pull[d].rows[s].worker
          PROVE  s \in DOMAIN meta'
      <4>1. s \in DOMAIN meta /\ s \notin tomb
        BY <3>1 DEF SoundList, CurrentList
      <4>2. meta[s].worker
        BY <3>1, <4>1 DEF CurrentList
      <4> QED
        BY <1>2, <4>1, <4>2 DEF Lasting
    <3> QED
      BY <1>1, <1>2, <3>1 DEF CurrentList
  <2> QED
    BY <1>1, <1>4, <2>1, <2>2 DEF CurrentTabs, ListKnown
<1>9. ShowsAll(d)'
  <2>1. \A s \in Shown(meta)' : s \in Shown(meta)
    BY <1>2 DEF Shown
  <2>2. \A s \in Shown(meta) : s \notin st.rejected
    BY <1>1 DEF Keeps, Shown
  <2> QED
    BY <1>1, <1>4, <1>6, <2>1, <2>2 DEF CurrentTabs, ShowsAll
<1>10. Anchored(d)'
  <2>1. \A s \in DOMAIN meta \ tomb : Lasting(s) => s \in DOMAIN meta'
    BY <1>2
  <2> QED
    BY <1>1, <1>3, <1>4, <2>1 DEF CurrentTabs, Anchored
<1>11. NoRival(d)'
  <2> SUFFICES ASSUME ~Listing(d), ~heard[d], NEW s \in DOMAIN tabs'[d], NEW r \in DOMAIN meta', r # s,
                      DefaultTab(d, s)', DefaultRow(meta, r)', Model[r] = Model[s]
               PROVE  s \in DOMAIN meta' /\ meta'[s].worker
    BY <1>4 DEF NoRival
  <2>1. DefaultTab(d, s) /\ DefaultRow(meta, r) /\ s \in DOMAIN tabs[d] /\ r \in DOMAIN meta
    BY <1>2, <1>6, <1>7
  <2>2. s \in DOMAIN meta /\ meta[s].worker
    BY <2>1 DEF CurrentTabs, NoRival
  <2>3. Lasting(s)
    BY <2>2 DEF Lasting
  <2> QED
    BY <1>2, <2>2, <2>3
<1>12. Backed(d)'
  <2>1. ASSUME NEW s \in DOMAIN tabs'[d], Passed(d, s)
        PROVE  Passed(d, s)'
    BY <1>1, <1>4, <1>7, <2>1 DEF Passed
  <2>2. CASE d # e
    BY <1>3, <1>4, <1>5, <2>1, <2>2 DEF CurrentTabs, Backed
  <2>3. CASE d = e
    <3> SUFFICES ASSUME ~due'[d], NEW s \in DOMAIN tabs'[d]
                 PROVE  /\ Passed(d, s)'
                        /\ ~heard[d] /\ ~Listing(d) => Lasting(s)
      BY <1>3, <1>4 DEF Backed
    <3>1. s \in Done(DOMAIN tabs[d], st)
      BY <1>5, <1>6, <2>3 DEF CurrentTabs, Done
    <3>2. DefaultTab(d, s)
      BY <1>1, <2>3, <3>1 DEF Takes
    <3>3. PICK r \in DOMAIN meta \ {s} : DefaultRow(meta, r) /\ Model[r] = Model[s]
      BY <1>1, <2>3, <3>1 DEF Takes
    <3>4. ~DefaultRow(meta, s)
      BY <3>3 DEF Facts, Labels, OneDefault, DefaultRow
    <3>5. ASSUME Listing(d), ~heard[d]
          PROVE  ~DefaultRow(pull[d].rows, s)
      <4>1. SoundList(pull[d]) /\ CurrentList(pull[d])
        BY <3>5 DEF CurrentTabs, ListKnown
      <4>2. r \notin tomb
        BY <3>3 DEF Facts, Labels, DefaultRow
      <4>3. DefaultRow(pull[d].rows, r)
        BY <3>3, <4>1, <4>2 DEF CurrentList, DefaultRow
      <4> QED
        BY <3>3, <4>1, <4>3 DEF SoundList, OneDefault, DefaultRow
    <3>6. Passed(d, s)
      BY <3>2, <3>4, <3>5 DEF Passed
    <3>7. ASSUME ~heard[d], ~Listing(d)
          PROVE  Lasting(s)
      BY <1>6, <3>2, <3>3, <3>7 DEF CurrentTabs, NoRival, Lasting
    <3> QED
      BY <2>1, <3>6, <3>7
  <2> QED
    BY <2>2, <2>3
<1>13. (DOMAIN tabs[d] \cap tomb = {})'
  BY <1>1, <1>6 DEF CurrentTabs
<1> QED
  BY <1>8, <1>9, <1>10, <1>11, <1>12, <1>13 DEF CurrentTabs

\* The list the server answers now.
LEMMA ListSound ==
    ASSUME Facts
    PROVE  /\ SoundList(SessionsList) /\ CurrentList(SessionsList) /\ Roled(SessionsList.rows)
           /\ DOMAIN SessionsList.rows = DOMAIN meta \ tomb
           /\ Shown(SessionsList.rows) = Shown(meta) \ tomb
           /\ \A s : DefaultRow(SessionsList.rows, s) <=> DefaultRow(meta, s)
<1>1. /\ DOMAIN SessionsList.rows = DOMAIN meta \ tomb
      /\ \A s \in DOMAIN meta \ tomb : SessionsList.rows[s] = meta[s]
      /\ SessionsList.dead = tomb /\ SessionsList.sids = (DOMAIN meta \cup hist) \ tomb
  BY DEF SessionsList, Without
<1> DEFINE list == SessionsList
<1>2. /\ DOMAIN list.rows = DOMAIN meta \ tomb
      /\ \A s \in DOMAIN meta \ tomb : list.rows[s] = meta[s]
      /\ list.dead = tomb /\ \A s : s \in list.sids <=> (s \in DOMAIN meta \/ s \in hist) /\ s \notin tomb
  BY <1>1
<1>3. Roled(list.rows)
  BY ListRoled
<1> HIDE DEF list
<1>4. \A s : DefaultRow(list.rows, s) <=> DefaultRow(meta, s)
  BY <1>2 DEF DefaultRow, Facts, Labels
<1>5. OneDefault(list.rows)
  BY <1>2, <1>4 DEF OneDefault, Facts, Labels
<1>6. SoundList(list)
  BY <1>2, <1>5 DEF SoundList
<1>7. CurrentList(list)
  BY <1>2 DEF CurrentList
<1>8. Shown(list.rows) = Shown(meta) \ tomb
  BY <1>2 DEF Shown
<1> QED
  BY <1>2, <1>3, <1>4, <1>6, <1>7, <1>8 DEF list

LEMMA PullStartsFresh ==
    ASSUME Facts, NEW d \in Devices, PullStarts(d), CurrentTabs(d)
    PROVE  CurrentTabs(d)'
<1>1. /\ UNCHANGED <<meta, tomb, hist, tabs, due>> /\ heard[d] /\ ~Listing(d)
      /\ pull'[d] = SessionsList /\ heard'[d] = FALSE
  <2>1. pull \in [Devices -> {Idle} \cup List] /\ heard \in [Devices -> BOOLEAN]
    BY DEF Facts, Shape, PullShape, SetShape
  <2>2. /\ heard[d] /\ pull' = [pull EXCEPT ![d] = SessionsList]
        /\ heard' = [heard EXCEPT ![d] = FALSE]
        /\ UNCHANGED <<meta, tomb, hist, tabs, due>>
    BY DEF PullStarts, server
  <2>3. ~Listing(d)
    <3>1. pull[d].kind = "idle"
      BY DEF PullStarts
    <3> QED
      BY <3>1, PullFacts DEF Facts, Listing
  <2> QED
    BY <2>1, <2>2, <2>3
<1>2. Listing(d)'
  BY <1>1 DEF Listing, SessionsList, Idle
<1> DEFINE list == SessionsList
<1>3. /\ SoundList(list) /\ CurrentList(list) /\ DOMAIN list.rows = DOMAIN meta \ tomb
      /\ Shown(list.rows) = Shown(meta) \ tomb
      /\ \A s : DefaultRow(list.rows, s) <=> DefaultRow(meta, s)
      /\ pull'[d] = list
  BY <1>1, ListSound
<1> HIDE DEF list
<1>4. DOMAIN list.rows # {}
  BY <1>1, <1>3 DEF CurrentTabs, Anchored
<1>5. ListKnown(d)'
  <2>1. SoundList(pull[d])'
    BY <1>1, <1>3 DEF SoundList, OneDefault, DefaultRow
  <2>2. CurrentList(pull[d])'
    BY <1>1, <1>3 DEF CurrentList
  <2>3. (DOMAIN pull[d].rows # {})'
    BY <1>3, <1>4
  <2> QED
    BY <2>1, <2>2, <2>3 DEF ListKnown
<1>6. ShowsAll(d)'
  <2>1. Shown(meta)' = Shown(meta) /\ Shown(pull[d].rows)' = Shown(list.rows)
    BY <1>1, <1>3 DEF Shown
  <2> QED
    BY <1>1, <1>2, <1>3, <2>1 DEF ShowsAll
<1>7. Anchored(d)' /\ NoRival(d)'
  BY <1>1, <1>2 DEF Anchored, NoRival
<1>8. Backed(d)'
  <2>1. \A s : Lasting(s) => Lasting(s)'
    BY <1>1 DEF Lasting
  <2>2. \A s : Passed(d, s) => Passed(d, s)'
    <3>1. \A s : DefaultRow(pull[d].rows, s)' <=> DefaultRow(list.rows, s)
      BY <1>1, <1>3 DEF DefaultRow
    <3>2. \A s : DefaultRow(meta, s)' <=> DefaultRow(meta, s)
      BY <1>1 DEF DefaultRow
    <3>3. \A s : DefaultTab(d, s) => DefaultTab(d, s)'
      BY <1>1 DEF DefaultTab
    <3> QED
      BY <1>3, <3>1, <3>2, <3>3 DEF Passed
  <2> QED
    BY <1>1, <1>2, <2>1, <2>2 DEF CurrentTabs, Backed
<1>9. (DOMAIN tabs[d] \cap tomb = {})'
  BY <1>1 DEF CurrentTabs
<1> QED
  BY <1>5, <1>6, <1>7, <1>8, <1>9 DEF CurrentTabs

\* A tab that is a default tab after a list that has no such row for it is a role's.
LEMMA MergedDefault ==
    ASSUME NEW own, NEW list, SoundList(list), Roled(list.rows), DOMAIN list.rows # {},
           NEW s \in DOMAIN Merged(own, list), Merged(own, list)[s].label = Default,
           Limited(s), s \notin hist, ~DefaultRow(list.rows, s)
    PROVE  s \in DOMAIN list.rows /\ list.rows[s].worker
<1>1. s \in DOMAIN list.rows
  <2> SUFFICES ASSUME s \notin DOMAIN list.rows PROVE FALSE
    OBVIOUS
  <2>1. s \in Kept(own, list)
    BY MergedTabs DEF Shown
  <2>2. list.sids = {} \/ s \in list.sids
    BY <2>1 DEF Kept
  <2> QED
    BY <2>2 DEF SoundList
<1>2. list.rows[s].label # Default
  BY <1>1 DEF DefaultRow
<1>3. s \in DOMAIN own /\ Merged(own, list)[s] = Relabelled(own[s], list.rows[s])
  <2>1. s \in Kept(own, list) \cup Added(own, list)
    BY MergedTabs
  <2>2. Merged(own, list)[s] =
          IF s \notin DOMAIN own THEN [label |-> list.rows[s].label, at |-> list.rows[s].at]
          ELSE IF s \in DOMAIN list.rows THEN Relabelled(own[s], list.rows[s]) ELSE own[s]
    BY <2>1 DEF Merged
  <2> QED
    BY <1>1, <1>2, <2>2
<1>4. list.rows[s].label = NoLabel
  BY <1>2, <1>3 DEF Relabelled
<1> QED
  BY <1>1, <1>4 DEF Roled

\* What the tabs of a device are worth after a list.
LEMMA MergedFresh ==
    ASSUME Facts, NEW own, NEW list, SoundList(list), Roled(list.rows), CurrentList(list)
    PROVE  /\ \A s \in DOMAIN Merged(own, list) : s \notin tomb
           /\ \A s \in Shown(list.rows) : s \in DOMAIN Merged(own, list)
           /\ \A s \in DOMAIN Merged(own, list) : \A r \in DOMAIN meta \ {s} :
                 (/\ Merged(own, list)[s].label = Default /\ Limited(s) /\ s \notin hist
                  /\ DefaultRow(meta, r) /\ Model[r] = Model[s])
                   => s \in DOMAIN meta /\ meta[s].worker
<1>1. \A s \in DOMAIN Merged(own, list) : s \notin tomb
  BY MergedTabs DEF SoundList, Shown
<1>2. ASSUME NEW s \in Shown(list.rows)
      PROVE  s \in DOMAIN Merged(own, list)
  <2>1. CASE s \in DOMAIN own
    <3>1. s \in Kept(own, list)
      BY <1>2, <2>1 DEF Kept, SoundList, Shown
    <3> QED
      BY <3>1, MergedTabs
  <2>2. CASE s \notin DOMAIN own
    BY <2>2, MergedTabs
  <2> QED
    BY <2>1, <2>2
<1>3. ASSUME NEW s \in DOMAIN Merged(own, list), NEW r \in DOMAIN meta \ {s},
             Merged(own, list)[s].label = Default, Limited(s), s \notin hist,
             DefaultRow(meta, r), Model[r] = Model[s]
      PROVE  s \in DOMAIN meta /\ meta[s].worker
  <2>1. r \notin tomb
    BY <1>3 DEF Facts, Labels, DefaultRow
  <2>2. DefaultRow(list.rows, r)
    BY <1>3, <2>1 DEF CurrentList, DefaultRow
  <2>3. ~DefaultRow(list.rows, s)
    BY <1>3, <2>2 DEF SoundList, OneDefault, DefaultRow
  <2>4. DOMAIN list.rows # {}
    BY <2>2 DEF DefaultRow
  <2>5. s \in DOMAIN list.rows /\ list.rows[s].worker
    BY <1>3, <2>3, <2>4, MergedDefault
  <2>6. s \in DOMAIN meta /\ s \notin tomb
    BY <2>5 DEF CurrentList, SoundList
  <2> QED
    BY <2>5, <2>6 DEF CurrentList
<1>4. \A s \in Shown(list.rows) : s \in DOMAIN Merged(own, list)
  BY <1>2
<1>5. \A s \in DOMAIN Merged(own, list) : \A r \in DOMAIN meta \ {s} :
        (/\ Merged(own, list)[s].label = Default /\ Limited(s) /\ s \notin hist
         /\ DefaultRow(meta, r) /\ Model[r] = Model[s])
          => s \in DOMAIN meta /\ meta[s].worker
  BY <1>3
<1> QED
  BY <1>1, <1>4, <1>5

LEMMA PullEndsFresh ==
    ASSUME Facts, NEW d \in Devices, PullEnds(d), CurrentTabs(d)
    PROVE  CurrentTabs(d)'
<1> DEFINE list == pull[d]
           own == tabs[d]
           new == Merged(own, list)
<1>1. /\ UNCHANGED <<meta, tomb, hist, heard>> /\ Listing(d) /\ pull'[d] = Idle
      /\ tabs'[d] = new /\ due'[d] = (due[d] \/ new # own)
  BY DEF PullEnds, server, Facts, Shape, PullShape, SetShape, TabShape, Listing, Idle
<1>2. ~Listing(d)'
  BY <1>1 DEF Listing
<1>3. SoundList(list) /\ Roled(list.rows) /\ DOMAIN list.rows # {} /\ (~heard[d] => CurrentList(list))
  BY <1>1 DEF CurrentTabs, ListKnown, Listing, Facts, Labels
<1> HIDE DEF list, own, new
<1>4. (DOMAIN tabs[d] \cap tomb = {})'
  <2>1. \A s \in DOMAIN new : s \notin tomb
    BY <1>3, MergedTabs DEF SoundList, Shown, new
  <2> QED
    BY <1>1, <2>1
<1>5. ListKnown(d)' /\ Anchored(d)'
  BY <1>1, <1>2 DEF ListKnown, CurrentTabs, Anchored, Lasting
<1>6. ShowsAll(d)'
  <2>1. ~heard[d] => Shown(meta) \ tomb \subseteq Shown(list.rows)
    BY <1>1 DEF CurrentTabs, ShowsAll, list
  <2>2. ~heard[d] => \A s \in Shown(list.rows) : s \in DOMAIN new
    BY <1>3, MergedFresh DEF new
  <2>3. Shown(meta)' = Shown(meta)
    BY <1>1 DEF Shown
  <2> QED
    BY <1>1, <1>2, <2>1, <2>2, <2>3 DEF ShowsAll
<1>7. NoRival(d)'
  <2> SUFFICES ASSUME ~heard[d], NEW s \in DOMAIN new, NEW r \in DOMAIN meta \ {s},
                      DefaultTab(d, s)', DefaultRow(meta, r), Model[r] = Model[s]
               PROVE  s \in DOMAIN meta /\ meta[s].worker
    BY <1>1 DEF NoRival, DefaultRow
  <2>1. new[s].label = Default /\ Limited(s) /\ s \notin hist
    BY <1>1 DEF DefaultTab
  <2> QED
    BY <1>3, <2>1, MergedFresh DEF new
<1>8. Backed(d)'
  <2> SUFFICES ASSUME ~due'[d], NEW s \in DOMAIN new
               PROVE  /\ Lasting(s)' \/ Passed(d, s)'
                      /\ ~heard[d] => Lasting(s)'
    BY <1>1 DEF Backed
  <2>1. ~due[d] /\ new = own /\ tabs'[d] = tabs[d]
    BY <1>1 DEF own
  <2>2. Lasting(s) => Lasting(s)'
    BY <1>1 DEF Lasting
  <2>3. Lasting(s) \/ Passed(d, s)
    BY <2>1 DEF CurrentTabs, Backed, own
  <2>4. Passed(d, s) => Passed(d, s)'
    BY <1>1, <1>2, <2>1 DEF Passed, DefaultTab, DefaultRow
  <2>5. ASSUME ~heard[d], Passed(d, s)
        PROVE  Lasting(s)
    <3>1. ~DefaultRow(list.rows, s)
      BY <1>1, <2>5 DEF Passed, list
    <3>2. new[s].label = Default /\ Limited(s) /\ s \notin hist
      BY <2>1, <2>5 DEF Passed, DefaultTab, own
    <3>3. s \in DOMAIN list.rows /\ list.rows[s].worker
      BY <1>3, <3>1, <3>2, MergedDefault DEF new
    <3>4. s \in DOMAIN meta /\ s \notin tomb /\ CurrentList(list)
      BY <1>3, <2>5, <3>3 DEF CurrentList, SoundList
    <3> QED
      BY <3>3, <3>4 DEF CurrentList, Lasting
  <2> QED
    BY <2>2, <2>3, <2>4, <2>5
<1> QED
  BY <1>4, <1>5, <1>6, <1>7, <1>8 DEF CurrentTabs

LEMMA BootFresh ==
    ASSUME Facts, NEW d \in Devices, Boot(d)
    PROVE  CurrentTabs(d)'
<1> DEFINE list == SessionsList
           new == Merged(tabs[d], list)
<1>1. /\ UNCHANGED <<meta, tomb, hist, heard, pull>> /\ pull[d] = Idle /\ ~heard[d]
      /\ tabs'[d] = new /\ due'[d]
  BY DEF Boot, DeviceQuiet, server, Facts, Shape, TabShape, SetShape
<1>2. ~Listing(d)'
  BY <1>1 DEF Listing
<1>3. /\ SoundList(list) /\ Roled(list.rows) /\ CurrentList(list)
      /\ Shown(list.rows) = Shown(meta) \ tomb
  BY ListSound
<1> HIDE DEF list
<1>4. /\ \A s \in DOMAIN new : s \notin tomb
      /\ \A s \in Shown(list.rows) : s \in DOMAIN new
      /\ \A s \in DOMAIN new : \A r \in DOMAIN meta \ {s} :
            (/\ new[s].label = Default /\ Limited(s) /\ s \notin hist
             /\ DefaultRow(meta, r) /\ Model[r] = Model[s])
              => s \in DOMAIN meta /\ meta[s].worker
  BY <1>3, MergedFresh
<1> HIDE DEF new
<1>5. (DOMAIN tabs[d] \cap tomb = {})'
  BY <1>1, <1>4
<1>6. ListKnown(d)' /\ Anchored(d)' /\ Backed(d)'
  BY <1>1, <1>2 DEF ListKnown, Anchored, Backed
<1>7. ShowsAll(d)'
  BY <1>1, <1>2, <1>3, <1>4 DEF ShowsAll, Shown
<1>8. NoRival(d)'
  BY <1>1, <1>4 DEF NoRival, DefaultTab, DefaultRow
<1> QED
  BY <1>5, <1>6, <1>7, <1>8 DEF CurrentTabs

LEMMA InitFresh ==
    ASSUME Init
    PROVE  FreshTabs
<1>1. /\ \A s \in DOMAIN meta : meta[s].label = -2 /\ ~meta[s].old
      /\ fresh = Devices /\ tomb = {}
      /\ \A d \in Devices : /\ DOMAIN tabs[d] = DOMAIN meta
                            /\ \A s \in DOMAIN tabs[d] : tabs[d][s].label = -2
                            /\ pull[d] = Idle /\ ~heard[d] /\ ~due[d]
  BY DEF Init
<1>2. -2 # Default
  BY DEF Default
<1> SUFFICES ASSUME NEW d \in Devices PROVE CurrentTabs(d)
  BY <1>1 DEF FreshTabs
<1>3. ~Listing(d)
  BY <1>1 DEF Listing
<1>4. ListKnown(d) /\ Anchored(d) /\ NoRival(d)
  BY <1>1, <1>2, <1>3 DEF ListKnown, Anchored, NoRival, DefaultTab
<1>5. ShowsAll(d)
  BY <1>1, <1>3 DEF ShowsAll, Shown
<1>6. Backed(d)
  BY <1>1 DEF Backed, Lasting
<1> QED
  BY <1>1, <1>4, <1>5, <1>6 DEF CurrentTabs

LEMMA NextFresh ==
    ASSUME Facts, FreshTabs, [Next]_vars
    PROVE  FreshTabs'
<1>1. Changes => FreshTabs'
  BY DEF Changes, FreshTabs
<1>2. ASSUME NEW e \in Devices, Sync(e), UNCHANGED fresh
      PROVE  FreshTabs'
  <2>1. PICK st : Pushed(st, e)
    BY <1>2, SyncEffect
  <2>2. \A d \in fresh : CurrentTabs(d)'
    BY <2>1, SavedFresh, UnsavedFresh DEF FreshTabs
  <2> QED
    BY <1>2, <2>2 DEF FreshTabs
<1>3. ASSUME NEW e \in Devices, PullStarts(e) \/ PullEnds(e), UNCHANGED fresh
      PROVE  FreshTabs'
  <2> SUFFICES ASSUME NEW d \in fresh
               PROVE  CurrentTabs(d)'
    BY <1>3 DEF FreshTabs
  <2>1. d \in Devices /\ CurrentTabs(d)
    BY DEF FreshTabs
  <2>2. CASE d = e
    BY <1>3, <2>1, <2>2, PullStartsFresh, PullEndsFresh
  <2>3. CASE d # e
    <3>1. UNCHANGED <<meta, tomb, hist>>
      BY <1>3 DEF PullStarts, PullEnds, server
    <3>2. tabs'[d] = tabs[d] /\ due'[d] = due[d] /\ pull'[d] = pull[d] /\ heard'[d] = heard[d]
      BY <1>3, <2>1, <2>3 DEF PullStarts, PullEnds, Facts, Shape, TabShape, SetShape, PullShape
    <3> QED
      BY <2>1, <3>1, <3>2, Unaffected
  <2> QED
    BY <2>2, <2>3
<1>4. ASSUME NEW e \in Devices, Boot(e)
      PROVE  FreshTabs'
  <2>1. fresh' = fresh \cup {e}
    BY <1>4 DEF Boot
  <2> SUFFICES ASSUME NEW d \in fresh \cup {e}
               PROVE  CurrentTabs(d)'
    BY <2>1 DEF FreshTabs
  <2>2. CASE d = e
    BY <1>4, <2>2, BootFresh
  <2>3. CASE d # e
    <3>1. d \in Devices /\ CurrentTabs(d)
      BY <2>3 DEF FreshTabs
    <3>2. UNCHANGED <<meta, tomb, hist, pull, heard>>
      BY <1>4 DEF Boot, server
    <3>3. tabs'[d] = tabs[d] /\ due'[d] = due[d]
      BY <1>4, <2>3, <3>1 DEF Boot, Facts, Shape, TabShape, SetShape
    <3> QED
      BY <3>1, <3>2, <3>3, Unaffected
  <2> QED
    BY <2>2, <2>3
<1>5. ASSUME UNCHANGED vars
      PROVE  FreshTabs'
  <2>1. UNCHANGED <<meta, tomb, hist, tabs, due, pull, heard, fresh>>
    BY <1>5 DEF vars, server, devices
  <2>2. \A d \in fresh : CurrentTabs(d)'
    BY <2>1, Unaffected DEF FreshTabs
  <2> QED
    BY <2>1, <2>2 DEF FreshTabs
<1>6. ASSUME NEW e \in Devices, Settles(e)
      PROVE  FreshTabs'
  BY <1>2, <1>3, <1>4, <1>6 DEF Settles
<1> QED
  BY <1>1, <1>5, <1>6 DEF Next

LEMMA AlwaysFresh == Spec => [](Facts /\ FreshTabs)
<1>1. Init => Facts /\ FreshTabs
  BY InitFacts, InitFresh
<1>2. Facts /\ FreshTabs /\ [Next]_vars => (Facts /\ FreshTabs)'
  BY NextFacts, NextFresh
<1> QED
  BY <1>1, <1>2, PTL DEF Spec

\* A deleted tab is off every device once each has been opened since, and it stays off when
\* its tombstone has expired, unless some device still showed it when a push dropped the
\* tombstone (_cleanup_tab_session, api_tabs_sync, syncTabsFromServerSessions).
THEOREM DeletedForGood == Spec => []DeletedStaysDeleted
<1>1. Facts /\ FreshTabs => DeletedStaysDeleted
  <2> SUFFICES ASSUME Facts, FreshTabs, Settled, NEW d \in Devices
               PROVE  DOMAIN tabs[d] \cap gone \subseteq missed
    BY DEF DeletedStaysDeleted
  <2>1. CurrentTabs(d)
    BY DEF FreshTabs, Settled
  <2> QED
    BY <2>1 DEF CurrentTabs, Facts, Deleted, Left
<1> QED
  BY <1>1, AlwaysFresh, PTL

\* When every device was opened since the last change and nothing is under way, each shows
\* the tabs the server keeps, and no others (api_tabs_sync, syncTabsFromServerSessions).
THEOREM DevicesConverge == Spec => []Converged
<1>1. Facts /\ FreshTabs => Converged
  <2> SUFFICES ASSUME Facts, FreshTabs, Settled, NEW d \in Devices
               PROVE  /\ {s \in DOMAIN meta \ tomb : meta[s].worker \/ meta[s].explicit}
                              \subseteq DOMAIN tabs[d]
                      /\ DOMAIN tabs[d] \subseteq DOMAIN meta \ tomb
    BY DEF Converged
  <2>1. CurrentTabs(d) /\ ~due[d] /\ ~heard[d] /\ ~Listing(d)
    BY DEF FreshTabs, Settled, Quiet, DeviceQuiet, Listing
  <2>2. \A s \in DOMAIN tabs[d] : s \in DOMAIN meta /\ s \notin tomb
    BY <2>1 DEF CurrentTabs, Backed, Lasting
  <2>3. Shown(meta) \ tomb \subseteq DOMAIN tabs[d]
    BY <2>1 DEF CurrentTabs, ShowsAll
  <2> QED
    BY <2>2, <2>3 DEF Shown
<1> QED
  BY <1>1, AlwaysFresh, PTL

=============================================================================
