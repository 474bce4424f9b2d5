--------------------------- MODULE ToolRuns_proofs ---------------------------
(***************************************************************************)
(* Theorems about the runs of an API session, for any providers, any       *)
(* number of runs, calls and operations, any limits and whatever may       *)
(* happen: the types, that the model is told the truth about its tools,    *)
(* that a refused call takes no effect, that histories keep what was said, *)
(* and that requests are what the APIs demand.                             *)
(***************************************************************************)
EXTENDS ToolRuns, FiniteSetTheorems, SequenceTheorems, WellFoundedInduction, TLAPS

\* What the code's constants are: a loop has at least one round.
Limited == NumRuns \in Nat /\ RoundLimit \in Nat \ {0} /\ Keep \in Nat

----------------------------------------------------------------------------
(* Histories.                                                              *)

Ids == Runs \X Nat \X Nat
Hows == {"done", "asked", "denied", "blocked", "lost"}
Items == [kind : {"user", "text"}, of : Runs]
         \cup [kind : {"call"}, ids : Seq(Ids) \ {<<>>}]
         \cup [kind : {"out"}, id : Ids, how : Hows]
         \cup {Summary}

Elements(s) == {s[k] : k \in DOMAIN s}
\* An item that says nothing of what became of a call.
Plain(i) == i.kind = "out" => i.how = "lost"

Headed(s) == s # <<>> /\ s[1] = Summary
\* t has all that was said in s, or is a compaction of it.
Follows(s, t) == Headed(t) \/ (~Headed(s) /\ Said(s) \subseteq Said(t))
\* t is s with plain items added, and perhaps compacted.
Grows(s, t) ==
    /\ t \in Seq(Items) /\ Follows(s, t)
    /\ \A i \in Elements(t) : i \in Elements(s) \/ Plain(i)

LEMMA SaidOf ==
    ASSUME NEW s
    PROVE  \A i : i \in Said(s) <=> i \in Elements(s) /\ i.kind \in {"user", "text"}
BY DEF Said, Elements

LEMMA ElementsIn ==
    ASSUME NEW s \in Seq(Items)
    PROVE  /\ \A i \in Elements(s) : i \in Items
           /\ \A i : i \in Elements(s) <=> \E k \in 1..Len(s) : s[k] = i
BY DEF Elements

LEMMA NothingElements ==
    ASSUME NEW s, s = <<>>
    PROVE  \A i : i \notin Elements(s)
BY DEF Elements

LEMMA GrowsItself ==
    ASSUME NEW s \in Seq(Items)
    PROVE  Grows(s, s)
BY DEF Grows, Follows

LEMMA GrowsOn ==
    ASSUME NEW s, NEW t, NEW u, Grows(s, t), Grows(t, u)
    PROVE  Grows(s, u)
BY DEF Grows, Follows

LEMMA AppendElements ==
    ASSUME NEW s \in Seq(Items), NEW i \in Items
    PROVE  /\ Append(s, i) \in Seq(Items)
           /\ \A j : j \in Elements(Append(s, i)) <=> j \in Elements(s) \/ j = i
           /\ Follows(s, Append(s, i))
<1>1. Append(s, i) \in Seq(Items) /\ Len(Append(s, i)) = Len(s) + 1
  OBVIOUS
<1>2. \A k \in 1..(Len(s) + 1) : Append(s, i)[k] = IF k = Len(s) + 1 THEN i ELSE s[k]
  OBVIOUS
<1>3. \A j : j \in Elements(Append(s, i)) <=> j \in Elements(s) \/ j = i
  <2> DEFINE t == Append(s, i)
  <2>1. Len(t) = Len(s) + 1 /\ t \in Seq(Items) /\ Len(s) \in Nat
    BY <1>1
  <2>2. \A k \in 1..(Len(s) + 1) : t[k] = IF k = Len(s) + 1 THEN i ELSE s[k]
    BY <1>2
  <2> HIDE DEF t
  <2>3. \A j : j \in Elements(t) <=> j \in Elements(s) \/ j = i
    BY <2>1, <2>2, ElementsIn
  <2> QED
    BY <2>3 DEF t
<1>4. Follows(s, Append(s, i))
  <2>1. CASE Headed(s)
    <3>1. s # <<>> /\ Len(s) >= 1 /\ s[1] = Summary
      BY <2>1 DEF Headed
    <3>2. Append(s, i)[1] = Summary /\ Append(s, i) # <<>>
      BY <1>1, <1>2, <3>1
    <3> QED
      BY <3>2 DEF Headed, Follows
  <2>2. CASE ~Headed(s)
    <3>1. Said(s) \subseteq Said(Append(s, i))
      BY <1>3, SaidOf
    <3> QED
      BY <2>2, <3>1 DEF Follows
  <2> QED
    BY <2>1, <2>2
<1> QED
  BY <1>1, <1>3, <1>4

LEMMA AppendGrows ==
    ASSUME NEW s \in Seq(Items), NEW i \in Items, Plain(i)
    PROVE  Grows(s, Append(s, i))
BY AppendElements DEF Grows

----------------------------------------------------------------------------
(* Induction, and functions that are defined by recursion.                 *)

LEMMA Induction ==
    ASSUME NEW G, 0 \in G, \A n \in Nat : n \in G => n + 1 \in G
    PROVE  Nat \subseteq G
<1> DEFINE T == Nat \ G
           R == OpToRel(<, Nat)
<1>1. IsWellFoundedOn(R, Nat)
  BY NatLessThanWellFounded
<1>2. \A x, y \in Nat : y < x => <<y, x>> \in R
  BY DEF OpToRel
<1> SUFFICES ASSUME T # {} PROVE FALSE
  OBVIOUS
<1> HIDE DEF R
<1>3. PICK x \in T : \A y \in T : ~(<<y, x>> \in R)
  <2>1. T \subseteq Nat
    OBVIOUS
  <2> HIDE DEF T
  <2> QED
    BY <1>1, <2>1, WFMin
<1>4. x \in Nat /\ x # 0
  BY <1>3
<1>5. x - 1 \in Nat /\ x - 1 < x /\ (x - 1) + 1 = x
  BY <1>4
<1>6. x - 1 \notin T
  BY <1>2, <1>3, <1>4, <1>5
<1>7. x - 1 \in G
  BY <1>5, <1>6
<1> QED
  BY <1>3, <1>5, <1>7

\* f holds the results of the first n steps from nothing.
Steps(f, n, S, step) ==
    /\ f = [k \in 0..n |-> IF k = 0 THEN <<>> ELSE step[<<k, f[k - 1]>>]]
    /\ \A k \in 0..n : f[k] \in S

LEMMA Recursion ==
    ASSUME NEW n \in Nat, NEW S, <<>> \in S, NEW step,
           \A k \in 1..n : \A t \in S : step[<<k, t>>] \in S
    PROVE  \E f : Steps(f, n, S, step)
<1> DEFINE G == {m \in Nat : m <= n => \E f : Steps(f, m, S, step)}
<1>1. 0 \in G
  <2> DEFINE f == [k \in 0..0 |-> <<>>]
  <2>1. f = [k \in 0..0 |-> IF k = 0 THEN <<>> ELSE step[<<k, f[k - 1]>>]]
    OBVIOUS
  <2>2. Steps(f, 0, S, step)
    BY <2>1 DEF Steps
  <2> QED
    BY <2>2
<1>2. ASSUME NEW m \in Nat, m \in G PROVE m + 1 \in G
  <2> SUFFICES ASSUME m + 1 <= n PROVE \E f : Steps(f, m + 1, S, step)
    OBVIOUS
  <2>1. PICK f : Steps(f, m, S, step)
    BY <1>2
  <2> DEFINE g == [k \in 0..(m + 1) |-> IF k = 0 THEN <<>> ELSE step[<<k, f[k - 1]>>]]
  <2>2. \A k \in 0..m : g[k] = f[k]
    BY <2>1 DEF Steps
  <2>3. \A k \in 0..(m + 1) : k # 0 => k - 1 \in 0..m
    OBVIOUS
  <2>4. g = [k \in 0..(m + 1) |-> IF k = 0 THEN <<>> ELSE step[<<k, g[k - 1]>>]]
    BY <2>2, <2>3
  <2>5. \A k \in 0..(m + 1) : g[k] \in S
    BY <2>1, <2>3 DEF Steps
  <2> HIDE DEF g
  <2>6. Steps(g, m + 1, S, step)
    BY <2>4, <2>5 DEF Steps
  <2> QED
    BY <2>6
<1>3. n \in G
  <2> HIDE DEF G
  <2> QED
    BY <1>1, <1>2, Induction
<1> QED
  BY <1>3

----------------------------------------------------------------------------
(* repair_tool_items.                                                      *)

\* The first k items of s, as one of its passes leaves them.
Repaired(s, k, t) ==
    /\ t \in Seq(Items)
    /\ \A i \in Elements(t) : i \in Elements(s) \/ Plain(i)
    /\ \A j \in 1..k : s[j].kind # "out" => s[j] \in Elements(t)
    /\ k > 0 /\ s[1] = Summary => Headed(t)

LEMMA NothingRepaired ==
    ASSUME NEW s
    PROVE  Repaired(s, 0, <<>>)
<1>1. <<>> \in Seq(Items) /\ \A i : i \notin Elements(<<>>)
  BY DEF Elements
<1>2. \A j \in 1..0 : FALSE
  OBVIOUS
<1> QED
  BY <1>1, <1>2 DEF Repaired

LEMMA WholeRepaired ==
    ASSUME NEW s \in Seq(Items), NEW t, Repaired(s, Len(s), t)
    PROVE  Grows(s, t)
<1>1. \A i \in Said(s) : i \in Said(t)
  BY SaidOf, ElementsIn DEF Repaired
<1>2. Headed(s) => Headed(t)
  BY DEF Repaired, Headed
<1> QED
  BY <1>1, <1>2 DEF Grows, Follows, Repaired

LEMMA WithoutSteps ==
    ASSUME NEW s \in Seq(Items), NEW gone
    PROVE  \E f : /\ f = [k \in 0..Len(s) |->
                            IF k = 0 THEN <<>>
                            ELSE IF k \in gone THEN f[k - 1] ELSE Append(f[k - 1], s[k])]
                  /\ \A k \in 0..Len(s) : f[k] \in Seq(Items)
                  /\ Without(s, gone) = f[Len(s)]
<1> DEFINE n == Len(s)
           S == Seq(Items)
           step == [p \in (1..n) \X S |-> IF p[1] \in gone THEN p[2] ELSE Append(p[2], s[p[1]])]
<1>1. \A k \in 1..n : \A t \in S : /\ step[<<k, t>>] = IF k \in gone THEN t ELSE Append(t, s[k])
                                   /\ step[<<k, t>>] \in S
  <2>1. ASSUME NEW k \in 1..n, NEW t \in S
        PROVE  /\ step[<<k, t>>] = IF k \in gone THEN t ELSE Append(t, s[k])
               /\ step[<<k, t>>] \in S
    <3>1. s[k] \in Items /\ <<k, t>> \in (1..n) \X S /\ <<k, t>>[1] = k /\ <<k, t>>[2] = t
      OBVIOUS
    <3>2. step[<<k, t>>] = IF k \in gone THEN t ELSE Append(t, s[k])
      BY <3>1
    <3> QED
      BY <3>1, <3>2
  <2> QED
    BY <2>1
<1>2. n \in Nat /\ <<>> \in S
  OBVIOUS
<1>3. PICK f : Steps(f, n, S, step)
  <2> HIDE DEF n, S, step
  <2> QED
    BY <1>1, <1>2, Recursion
<1>4. f = [k \in 0..n |-> IF k = 0 THEN <<>>
                          ELSE IF k \in gone THEN f[k - 1] ELSE Append(f[k - 1], s[k])]
  <2> HIDE DEF step, S, n
  <2>0. \A k \in 0..n : k # 0 => k \in 1..n /\ k - 1 \in 0..n
    BY <1>2
  <2>1. \A k \in 0..n : k # 0 => k \in 1..n /\ k - 1 \in 0..n /\ f[k - 1] \in S
    BY <2>0, <1>3 DEF Steps
  <2> QED
    BY <1>1, <1>3, <2>1 DEF Steps
<1> DEFINE g == CHOOSE h : h = [k \in 0..Len(s) |->
                                  IF k = 0 THEN <<>>
                                  ELSE IF k \in gone THEN h[k - 1] ELSE Append(h[k - 1], s[k])]
<1>5. g = [k \in 0..Len(s) |-> IF k = 0 THEN <<>>
                               ELSE IF k \in gone THEN g[k - 1] ELSE Append(g[k - 1], s[k])]
  BY <1>4
<1>6. Without(s, gone) = g[Len(s)]
  BY DEF Without
<1> HIDE DEF g
<1>7. \A k \in 0..n : g[k] \in S
  <2> DEFINE G == {k \in Nat : k <= n => g[k] \in S}
  <2>1. 0 \in G
    BY <1>2, <1>5
  <2>2. ASSUME NEW k \in Nat, k \in G PROVE k + 1 \in G
    <3> SUFFICES ASSUME k + 1 <= n PROVE g[k + 1] \in S
      OBVIOUS
    <3>1. k + 1 \in 0..Len(s) /\ k + 1 \in 1..Len(s) /\ k + 1 # 0 /\ (k + 1) - 1 = k /\ k <= n
      BY <1>2
    <3>2. g[k + 1] = IF k + 1 \in gone THEN g[(k + 1) - 1] ELSE Append(g[(k + 1) - 1], s[k + 1])
      BY <1>5, <3>1
    <3>3. g[k] \in S /\ s[k + 1] \in Items
      BY <2>2, <3>1
    <3> QED
      BY <3>1, <3>2, <3>3
  <2> HIDE DEF G
  <2>3. Nat \subseteq G
    BY <2>1, <2>2, Induction
  <2> QED
    BY <1>2, <2>3 DEF G
<1> QED
  BY <1>5, <1>6, <1>7

LEMMA StrayRepaired ==
    ASSUME NEW s \in Seq(Items)
    PROVE  Grows(s, WithoutStray(s))
<1> DEFINE gone == {k \in DOMAIN s : Stray(s, k)}
<1>0. \A k \in 1..Len(s) : k \in gone <=> Stray(s, k)
  OBVIOUS
<1> HIDE DEF gone
<1>1. PICK f : /\ f = [k \in 0..Len(s) |->
                        IF k = 0 THEN <<>>
                        ELSE IF k \in gone THEN f[k - 1] ELSE Append(f[k - 1], s[k])]
               /\ \A k \in 0..Len(s) : f[k] \in Seq(Items)
               /\ WithoutStray(s) = f[Len(s)]
  BY WithoutSteps DEF WithoutStray, gone
<1> DEFINE G == {k \in Nat : k <= Len(s) => Repaired(s, k, f[k])}
<1>2. 0 \in G
  <2>1. f[0] = <<>>
    BY <1>1
  <2> QED
    BY <2>1, NothingRepaired
<1>3. ASSUME NEW k \in Nat, k \in G PROVE k + 1 \in G
  <2> SUFFICES ASSUME k + 1 <= Len(s) PROVE Repaired(s, k + 1, f[k + 1])
    OBVIOUS
  <2>1. /\ k + 1 \in 0..Len(s) /\ k + 1 \in 1..Len(s) /\ k + 1 # 0 /\ (k + 1) - 1 = k /\ k <= Len(s)
        /\ s[k + 1] \in Items
    OBVIOUS
  <2>2. f[k + 1] = IF Stray(s, k + 1) THEN f[k] ELSE Append(f[k], s[k + 1])
    BY <1>0, <1>1, <2>1
  <2>3. Repaired(s, k, f[k])
    BY <1>3, <2>1
  <2> HIDE DEF G
  <2>4. \A j \in 1..(k + 1) : j = k + 1 \/ j \in 1..k
    OBVIOUS
  <2>5. CASE Stray(s, k + 1)
    <3>1. s[k + 1].kind = "out"
      BY <2>5 DEF Stray
    <3>2. s[k + 1] # Summary
      BY <3>1 DEF Summary
    <3>3. k > 0 \/ s[1] # Summary
      BY <3>2
    <3> QED
      BY <2>2, <2>3, <2>4, <2>5, <3>1, <3>3 DEF Repaired
  <2>6. CASE ~Stray(s, k + 1)
    <3>1. /\ f[k] \in Seq(Items)
          /\ f[k + 1] \in Seq(Items)
          /\ \A i : i \in Elements(f[k + 1]) <=> i \in Elements(f[k]) \/ i = s[k + 1]
      BY <2>1, <2>2, <2>3, <2>6, AppendElements DEF Repaired
    <3>2. s[k + 1] \in Elements(s)
      BY <2>1, ElementsIn
    <3>3. s[1] = Summary => Headed(f[k + 1])
      <4>1. CASE k = 0
        <5>1. f[0] = <<>>
          BY <1>1
        <5>2. f[k + 1] = Append(<<>>, s[1])
          BY <2>2, <2>6, <4>1, <5>1
        <5>3. f[k + 1] # <<>> /\ f[k + 1][1] = s[1]
          BY <5>2, <3>1
        <5> QED
          BY <5>3 DEF Headed
      <4>2. CASE k > 0
        <5>1. s[1] = Summary => f[k] # <<>> /\ f[k][1] = Summary
          BY <2>3, <4>2 DEF Repaired, Headed
        <5>2. f[k + 1] = Append(f[k], s[k + 1])
          BY <2>2, <2>6
        <5>3. f[k] # <<>> => f[k + 1] # <<>> /\ f[k + 1][1] = f[k][1]
          BY <2>1, <3>1, <5>2
        <5> QED
          BY <5>1, <5>3 DEF Headed
      <4> QED
        BY <4>1, <4>2
    <3> QED
      BY <2>3, <2>4, <3>1, <3>2, <3>3 DEF Repaired
  <2> QED
    BY <2>5, <2>6
<1>4. Len(s) \in G
  <2> HIDE DEF G
  <2>1. Nat \subseteq G
    BY <1>2, <1>3, Induction
  <2> QED
    BY <2>1
<1>5. Repaired(s, Len(s), f[Len(s)])
  BY <1>4
<1> QED
  BY <1>1, <1>5, WholeRepaired

\* A call and the output that it lacks.
Answered(s, k, t) ==
    Append(t, s[k]) \o IF Unanswered(s, k) THEN <<Out(s[k].ids[1], "lost")>> ELSE <<>>

LEMMA AnsweredRepairs ==
    ASSUME NEW s \in Seq(Items), NEW k \in 1..Len(s), NEW t, Repaired(s, k - 1, t),
           k = 1 => t = <<>>
    PROVE  Repaired(s, k, Answered(s, k, t))
<1> DEFINE u == Append(t, s[k])
           lost == Out(s[k].ids[1], "lost")
<1>1. t \in Seq(Items) /\ s[k] \in Items /\ s[k] \in Elements(s)
  BY ElementsIn DEF Repaired
<1>2. u \in Seq(Items) /\ \A i : i \in Elements(u) <=> i \in Elements(t) \/ i = s[k]
  BY <1>1, AppendElements
<1>3. \A j \in 1..k : j = k \/ j \in 1..(k - 1)
  OBVIOUS
<1>4. s[1] = Summary => Headed(u)
  <2>1. Len(u) = Len(t) + 1 /\ (t # <<>> => u[1] = t[1]) /\ (t = <<>> => u[1] = s[k])
    BY <1>1
  <2>2. u # <<>>
    BY <1>1
  <2>3. CASE k = 1
    BY <2>1, <2>2, <2>3 DEF Headed
  <2>4. CASE k # 1
    <3>1. s[1] = Summary => Headed(t)
      BY <2>4 DEF Repaired
    <3> QED
      BY <2>1, <2>2, <3>1 DEF Headed
  <2> QED
    BY <2>3, <2>4
<1>5. Repaired(s, k, u)
  <2> HIDE DEF u
  <2> QED
    BY <1>1, <1>2, <1>3, <1>4 DEF Repaired
<1>6. CASE ~Unanswered(s, k)
  <2>1. Answered(s, k, t) = u
    BY <1>2, <1>6 DEF Answered
  <2> QED
    BY <1>5, <2>1
<1>7. CASE Unanswered(s, k)
  <2>1. s[k].kind = "call"
    BY <1>7 DEF Unanswered
  <2>2. s[k].ids \in Seq(Ids) \ {<<>>}
    BY <1>1, <2>1 DEF Items, Summary
  <2>3. s[k].ids[1] \in Ids
    BY <2>2
  <2>4. lost \in Items /\ Plain(lost)
    BY <2>3 DEF Items, Out, Hows, Plain
  <2>5. Answered(s, k, t) = Append(u, lost)
    <3>1. Answered(s, k, t) = u \o <<lost>>
      BY <1>7 DEF Answered
    <3> HIDE DEF u, lost
    <3> QED
      BY <1>2, <2>4, <3>1
  <2>6. /\ Append(u, lost) \in Seq(Items)
        /\ \A i : i \in Elements(Append(u, lost)) <=> i \in Elements(u) \/ i = lost
    <3> HIDE DEF u, lost
    <3> QED
      BY <1>2, <2>4, AppendElements
  <2>7. Headed(u) => Headed(Append(u, lost))
    <3> HIDE DEF u, lost
    <3> QED
      BY <1>2, <2>4 DEF Headed
  <2>8. Repaired(s, k, Append(u, lost))
    <3> HIDE DEF u, lost
    <3> QED
      BY <1>5, <2>4, <2>6, <2>7 DEF Repaired
  <2> QED
    BY <2>5, <2>8
<1> QED
  BY <1>6, <1>7

LEMMA LostSteps ==
    ASSUME NEW s \in Seq(Items)
    PROVE  \E f : /\ f = [k \in 0..Len(s) |->
                            IF k = 0 THEN <<>> ELSE Answered(s, k, f[k - 1])]
                  /\ \A k \in 0..Len(s) : Repaired(s, k, f[k])
                  /\ WithLost(s) = f[Len(s)]
<1> DEFINE n == Len(s)
           S(k) == {t \in Seq(Items) : Repaired(s, k, t) /\ (k = 0 => t = <<>>)}
           H == {m \in Nat : m <= n => \E f : /\ f = [k \in 0..m |-> IF k = 0 THEN <<>>
                                                                ELSE Answered(s, k, f[k - 1])]}
<1>1. n \in Nat /\ n = Len(s)
  OBVIOUS
<1>2. 0 \in H
  <2> DEFINE f == [k \in 0..0 |-> <<>>]
  <2>1. f = [k \in 0..0 |-> IF k = 0 THEN <<>> ELSE Answered(s, k, f[k - 1])]
    OBVIOUS
  <2> HIDE DEF f
  <2> QED
    BY <2>1
<1>3. ASSUME NEW m \in Nat, m \in H PROVE m + 1 \in H
  <2> SUFFICES ASSUME m + 1 <= n
               PROVE  \E f : f = [k \in 0..(m + 1) |-> IF k = 0 THEN <<>>
                                                       ELSE Answered(s, k, f[k - 1])]
    OBVIOUS
  <2>1. PICK f : f = [k \in 0..m |-> IF k = 0 THEN <<>> ELSE Answered(s, k, f[k - 1])]
    BY <1>1, <1>3
  <2> DEFINE g == [k \in 0..(m + 1) |-> IF k = 0 THEN <<>> ELSE Answered(s, k, f[k - 1])]
  <2>2. \A k \in 0..m : g[k] = f[k]
    BY <2>1
  <2>3. \A k \in 0..(m + 1) : k # 0 => k - 1 \in 0..m
    OBVIOUS
  <2>4. g = [k \in 0..(m + 1) |-> IF k = 0 THEN <<>> ELSE Answered(s, k, g[k - 1])]
    BY <2>2, <2>3
  <2> HIDE DEF g
  <2> QED
    BY <2>4
<1>4. \E f : f = [k \in 0..Len(s) |-> IF k = 0 THEN <<>> ELSE Answered(s, k, f[k - 1])]
  <2>1. n \in H
    <3> HIDE DEF H
    <3> QED
      BY <1>1, <1>2, <1>3, Induction
  <2> QED
    BY <1>1, <2>1
<1> DEFINE g == CHOOSE h : h = [k \in 0..Len(s) |->
                                  IF k = 0 THEN <<>> ELSE Answered(s, k, h[k - 1])]
<1>5. g = [k \in 0..Len(s) |-> IF k = 0 THEN <<>> ELSE Answered(s, k, g[k - 1])]
  BY <1>4
<1>6. WithLost(s) = g[Len(s)]
  BY DEF WithLost, Answered
<1> HIDE DEF g
<1> DEFINE G == {k \in Nat : k <= Len(s) => Repaired(s, k, g[k]) /\ (k = 0 => g[k] = <<>>)}
<1>7. 0 \in G
  <2>1. g[0] = <<>>
    BY <1>5
  <2> QED
    BY <2>1, NothingRepaired
<1>8. ASSUME NEW k \in Nat, k \in G PROVE k + 1 \in G
  <2> SUFFICES ASSUME k + 1 <= Len(s)
               PROVE  Repaired(s, k + 1, g[k + 1]) /\ (k + 1 = 0 => g[k + 1] = <<>>)
    OBVIOUS
  <2>1. k + 1 \in 0..Len(s) /\ k + 1 \in 1..Len(s) /\ k + 1 # 0 /\ (k + 1) - 1 = k /\ k <= Len(s)
    OBVIOUS
  <2>2. g[k + 1] = Answered(s, k + 1, g[k])
    BY <1>5, <2>1
  <2>3. Repaired(s, k, g[k]) /\ (k + 1 = 1 => g[k] = <<>>)
    BY <1>8, <2>1
  <2>4. Repaired(s, k + 1, Answered(s, k + 1, g[k]))
    BY <2>1, <2>3, AnsweredRepairs
  <2> QED
    BY <2>1, <2>2, <2>4
<1>9. \A k \in 0..Len(s) : Repaired(s, k, g[k])
  <2> HIDE DEF G
  <2>1. Nat \subseteq G
    BY <1>7, <1>8, Induction
  <2> QED
    BY <2>1 DEF G
<1> QED
  BY <1>5, <1>6, <1>9

LEMMA RepairGrows ==
    ASSUME NEW s \in Seq(Items)
    PROVE  Grows(s, RepairTools(s))
<1> DEFINE t == WithoutStray(s)
<1>1. Grows(s, t)
  BY StrayRepaired
<1>2. t \in Seq(Items)
  BY <1>1 DEF Grows
<1> HIDE DEF t
<1>3. PICK f : (\A k \in 0..Len(t) : Repaired(t, k, f[k])) /\ WithLost(t) = f[Len(t)]
  BY <1>2, LostSteps
<1>4. Len(t) \in 0..Len(t)
  BY <1>2
<1>5. Grows(t, WithLost(t))
  BY <1>2, <1>3, <1>4, WholeRepaired
<1>6. Grows(s, WithLost(t))
  BY <1>1, <1>5, GrowsOn
<1> QED
  BY <1>6 DEF t, RepairTools

----------------------------------------------------------------------------
(* compact_messages.                                                       *)

LEMMA SplitExists ==
    ASSUME Limited, NEW s \in Seq(Items), Len(s) > Keep
    PROVE  /\ Split(s) \in 0..(Len(s) - Keep)
           /\ Split(s) = 0 \/ ~(provider = "codex" /\ s[Split(s) + 1].kind = "out")
<1> DEFINE out(k) == provider = "codex" /\ s[k + 1].kind = "out"
           G == {n \in Nat : \E k \in 0..n : (k = 0 \/ ~out(k)) /\ \A j \in (k + 1)..n : out(j)}
<1> HIDE DEF out
<1>1. 0 \in G
  OBVIOUS
<1>2. ASSUME NEW n \in Nat, n \in G PROVE n + 1 \in G
  <2>1. PICK k \in 0..n : (k = 0 \/ ~out(k)) /\ \A j \in (k + 1)..n : out(j)
    BY <1>2
  <2>2. CASE out(n + 1)
    <3>1. \A j \in (k + 1)..(n + 1) : out(j)
      <4>1. \A j \in (k + 1)..(n + 1) : j = n + 1 \/ j \in (k + 1)..n
        OBVIOUS
      <4> QED
        BY <2>1, <2>2, <4>1
    <3>2. k \in 0..(n + 1)
      OBVIOUS
    <3> QED
      BY <2>1, <3>1, <3>2
  <2>3. CASE ~out(n + 1)
    <3>1. n + 1 \in 0..(n + 1) /\ \A j \in ((n + 1) + 1)..(n + 1) : out(j)
      OBVIOUS
    <3> QED
      BY <2>3, <3>1
  <2> QED
    BY <2>2, <2>3
<1>3. Len(s) - Keep \in Nat
  BY DEF Limited
<1>4. Len(s) - Keep \in G
  <2> HIDE DEF G
  <2> QED
    BY <1>1, <1>2, <1>3, Induction
<1>5. PICK k \in 0..(Len(s) - Keep) : (k = 0 \/ ~out(k)) /\ \A j \in (k + 1)..(Len(s) - Keep) : out(j)
  BY <1>4
<1> QED
  BY <1>5 DEF Split, out

\* A compacted history: the summary, and what follows the first k items.
Shortened(s, k, t) ==
    /\ t \in Seq(Items) /\ k \in 0..Len(s) /\ Len(t) = (Len(s) - k) + 1 /\ t[1] = Summary
    /\ \A j \in 2..Len(t) : t[j] = s[k + (j - 1)] /\ k + (j - 1) \in 1..Len(s)
    /\ k = 0 \/ ~(provider = "codex" /\ s[k + 1].kind = "out")

LEMMA CompactFacts ==
    ASSUME Limited, NEW s \in Seq(Items)
    PROVE  /\ Len(s) <= Keep => CompactMessages(s) = s
           /\ Len(s) > Keep => \E k : Shortened(s, k, CompactMessages(s))
<1>1. CASE Len(s) <= Keep
  BY <1>1 DEF CompactMessages, Limited
<1>2. CASE Len(s) > Keep
  <2> DEFINE k == Split(s)
             t == SubSeq(s, k + 1, Len(s))
  <2>1. /\ k \in 0..(Len(s) - Keep) /\ k \in Nat /\ k <= Len(s)
        /\ k = 0 \/ ~(provider = "codex" /\ s[k + 1].kind = "out")
    <3>1. k \in 0..(Len(s) - Keep)
      BY <1>2, SplitExists
    <3>2. k = 0 \/ ~(provider = "codex" /\ s[k + 1].kind = "out")
      BY <1>2, SplitExists
    <3> HIDE DEF k
    <3> QED
      BY <3>1, <3>2 DEF Limited
  <2> HIDE DEF k
  <2>2. t \in Seq(Items) /\ Len(t) = Len(s) - k /\ \A j \in 1..Len(t) : t[j] = s[k + j]
    <3>1. k + 1 \in Nat \ {0} /\ Len(s) \in Nat /\ k + 1 <= Len(s) + 1
      BY <2>1
    <3>2. \A j \in (k + 1)..Len(s) : s[j] \in Items
      BY <2>1
    <3> QED
      BY <2>1, <3>1, <3>2, SubSeqProperties
  <2>3. CompactMessages(s) = <<Summary>> \o t
    <3>1. ~(Len(s) <= Keep)
      BY <1>2 DEF Limited
    <3> HIDE DEF t
    <3>2. CompactMessages(s) = <<Summary>> \o SubSeq(s, k + 1, Len(s))
      BY <3>1 DEF CompactMessages, k
    <3> QED
      BY <3>2 DEF t
  <2> HIDE DEF t
  <2>4. Summary \in Items /\ <<Summary>> \in Seq(Items) /\ Len(<<Summary>>) = 1
    BY DEF Items
  <2> DEFINE u == <<Summary>> \o t
  <2>5. u \in Seq(Items) /\ Len(u) = Len(t) + 1 /\ u[1] = Summary /\ \A j \in 2..Len(u) : u[j] = t[j - 1]
    BY <2>2, <2>4
  <2> HIDE DEF u
  <2>6. \A j \in 2..Len(u) : j - 1 \in 1..Len(t) /\ k + (j - 1) \in 1..Len(s)
    <3>1. \A m, n \in Nat : n <= m => \A j \in 2..((m - n) + 1) : /\ j - 1 \in 1..(m - n)
                                                              /\ n + (j - 1) \in 1..m
      OBVIOUS
    <3>2. Len(s) \in Nat /\ Len(t) = Len(s) - k /\ Len(u) = (Len(s) - k) + 1
      BY <2>2, <2>5
    <3> QED
      BY <2>1, <3>1, <3>2
  <2>7. \A j \in 2..Len(u) : u[j] = s[k + (j - 1)]
    BY <2>2, <2>5, <2>6
  <2>8. Len(u) = (Len(s) - k) + 1 /\ k \in 0..Len(s)
    BY <2>1, <2>2, <2>5
  <2>9. Shortened(s, k, u)
    BY <2>1, <2>5, <2>6, <2>7, <2>8 DEF Shortened
  <2> QED
    BY <1>2, <2>3, <2>9 DEF u, Limited
<1>3. Len(s) \in Nat
  OBVIOUS
<1> QED
  BY <1>1, <1>2, <1>3 DEF Limited

LEMMA CompactGrows ==
    ASSUME Limited, NEW s \in Seq(Items)
    PROVE  /\ Grows(s, CompactMessages(s))
           /\ Len(s) > Keep => Headed(CompactMessages(s))
<1>1. CASE Len(s) <= Keep
  <2>1. CompactMessages(s) = s /\ ~(Len(s) > Keep)
    BY <1>1, CompactFacts DEF Limited
  <2> QED
    BY <2>1, GrowsItself
<1>2. CASE Len(s) > Keep
  <2> DEFINE u == CompactMessages(s)
  <2>1. PICK k : Shortened(s, k, u)
    BY <1>2, CompactFacts
  <2> HIDE DEF u
  <2>2. u \in Seq(Items) /\ u[1] = Summary /\ u # <<>>
    BY <2>1 DEF Shortened
  <2>3. ASSUME NEW j \in 1..Len(u) PROVE u[j] \in Elements(s) \/ Plain(u[j])
    <3>1. CASE j = 1
      BY <2>2, <3>1 DEF Plain, Summary
    <3>2. CASE j # 1
      <4>1. j \in 2..Len(u)
        BY <2>2, <3>2
      <4>2. u[j] = s[k + (j - 1)] /\ k + (j - 1) \in 1..Len(s)
        BY <2>1, <4>1 DEF Shortened
      <4> QED
        BY <4>2, ElementsIn
    <3> QED
      BY <3>1, <3>2
  <2>4. \A i \in Elements(u) : i \in Elements(s) \/ Plain(i)
    BY <2>2, <2>3, ElementsIn
  <2>5. Headed(u)
    BY <2>2 DEF Headed
  <2>6. Grows(s, u)
    BY <2>2, <2>4, <2>5 DEF Grows, Follows
  <2> QED
    BY <2>5, <2>6 DEF u
<1>3. Len(s) \in Nat
  OBVIOUS
<1> QED
  BY <1>1, <1>2, <1>3 DEF Limited

----------------------------------------------------------------------------
(* The invariant.                                                          *)

Threaded(u) == u.phase \in {"tool", "asking", "again"} \/ u.late # ""
Ready(u) == u.phase \in {"new", "load", "request"}
Apart(s) == \A j, k \in DOMAIN s : s[j] = s[k] => j = k

Run(x) == [phase : Phases, items : Seq(Items), sent : {x}, round : Nat, todo : Seq(Ids),
           paused : BOOLEAN, late : {"", "tool", "again"}]

\* Run r, as u, has a call in hand while a thread works for it, of its round.
RunShape(r, u) ==
    /\ u \in Run(u.sent) /\ u.round < RoundLimit /\ Apart(u.todo)
    /\ u.late # "" => u.phase \in {"stopped", "ended"}
    /\ Threaded(u) => u.todo # <<>>
    /\ Threaded(u) => \A k \in DOMAIN u.todo : u.todo[k][1] = r /\ u.todo[k][2] = u.round

Shape ==
    /\ history \in Seq(Items) /\ compacting \in Seq(Items)
    /\ compacting # <<>> => Len(compacting) > Keep
    /\ entry = [status |-> entry.status, run |-> entry.run]
    /\ runs = [r \in Runs |-> runs[r]] /\ \A r \in Runs : RunShape(r, runs[r])
    /\ performed \in Seq(Ids) /\ asked \subseteq Ids /\ refused \subseteq Ids
    /\ approved \subseteq asked /\ granted \subseteq {"all", "elevated"}

\* The run that has not ended is the entry's, unless it was reaped or runs overlap.
Alone ==
    features \cap {"early", "reap"} = {} =>
        /\ \A r \in Runs : runs[r].phase \in Waiting => entry = [status |-> "running", run |-> r]
        /\ \A q, r \in Runs : Live(q) /\ Live(r) => q = r

Held(i) == \/ i \in Elements(history) \/ i \in Elements(compacting)
           \/ \E r \in Runs : i \in Elements(runs[r].items)
Reported(id) == \E i : Held(i) /\ ~Plain(i) /\ i.id = id
Did(id) == id \in Elements(performed)
Met(id) == id \in asked \/ id \in refused

\* What was begun belongs to a round of before, or to the one under way.
Past(id) ==
    /\ id \in Ids /\ id[2] <= runs[id[1]].round
    /\ Ready(runs[id[1]]) => id[2] < runs[id[1]].round
\* The call that a thread executes after the user was asked.
AtCurrent(r, id) ==
    /\ id = Head(runs[r].todo)
    /\ runs[r].phase \in {"asking", "again"} \/ runs[r].late = "again"

Truth ==
    /\ Apart(performed)
    /\ \A id : Did(id) \/ Met(id) \/ Reported(id) => Past(id)
    /\ \A r \in Runs : Threaded(runs[r]) =>
          \A id \in Elements(runs[r].todo) :
              ~Did(id) /\ ~Reported(id) /\ (Met(id) => AtCurrent(r, id))
    /\ \A i : Held(i) /\ ~Plain(i) => (Did(i.id) <=> i.how = "done")
    /\ asked \cap refused = {}

\* A run that has loaded the history has all of it.
Kept ==
    features \cap {"early", "reap", "beside"} = {} =>
        /\ compacting # <<>> => \A r \in Runs : ~Live(r)
        /\ \A r \in Runs :
              runs[r].phase \in Waiting \ {"load"} => Follows(history, runs[r].items)

Facts == Shape /\ Alone /\ Truth /\ Kept

----------------------------------------------------------------------------
(* One step of a run.                                                      *)

\* Run r is u from now on, and no other changes.
Becomes(r, u) ==
    /\ runs' = [q \in Runs |-> IF q = r THEN u ELSE runs[q]]
    /\ RunShape(r, u)
Loading == Waiting \ {"load"}

\* The entry stays, or is done with the run; what a run saves follows what it has.
Moves(r, u) ==
    /\ Becomes(r, u) /\ runs[r].round <= u.round
    /\ history' \in Seq(Items) /\ compacting' = compacting /\ granted' = granted
    /\ \/ entry' = entry
       \/ /\ \/ entry' = [entry EXCEPT !.status = "done"]
             \/ entry' = [entry EXCEPT !.status = "cancelled"]
          /\ Live(r) /\ u.phase \notin Waiting
    /\ u.phase \in Waiting => runs[r].phase \in Waiting
    /\ u.phase \in {"marked", "stopped"} => Live(r)
    /\ \/ history' = history
       \/ Live(r) /\ Follows(history, history')
       \/ runs[r].phase \in Loading /\ Follows(runs[r].items, history')
    /\ u.phase \in Loading =>
          \/ history' = history /\ Follows(history, u.items)
          \/ /\ runs[r].phase \in Loading /\ Follows(runs[r].items, u.items)
             /\ history' = history \/ history' = u.items

\* All that is new in the histories are plain items and the set got.
Hears(u, got) ==
    \A i : i \in Elements(history') \/ i \in Elements(u.items) => Held(i) \/ Plain(i) \/ i \in got

\* Of no call it is said what became of it.
Quiet(r, u) ==
    /\ Moves(r, u) /\ Hears(u, {}) /\ UNCHANGED <<performed, refused>>
    /\ Ready(u) => Ready(runs[r])
    /\ \/ asked' = asked /\ approved' = approved
       \/ /\ asked' = asked /\ u.phase = "again"
          /\ approved' = approved \cup {Current(r)} /\ Current(r) \in asked
       \/ approved' = approved /\ asked' = asked \cup {Current(r)} /\ u.phase = "asking" /\ Current(r) \in Ids
    /\ Threaded(u) => \A id \in Elements(u.todo) :
          \/ /\ Threaded(runs[r]) /\ u.todo = runs[r].todo
             /\ AtCurrent(r, id) => u.phase \in {"asking", "again"} \/ u.late = "again"
             /\ asked' # asked => runs[r].phase = "tool"
          \/ Ready(runs[r]) /\ id[1] = r /\ id[2] = runs[r].round /\ asked' = asked

LEMMA SameRound == \A n \in Nat : n <= n
OBVIOUS

LEMMA RunFacts ==
    ASSUME Shape, NEW r \in Runs
    PROVE  /\ RunShape(r, runs[r]) /\ runs[r] \in Run(runs[r].sent) /\ runs[r].items \in Seq(Items)
           /\ history \in Seq(Items) /\ runs[r].round \in Nat /\ runs[r].round + 1 \in Nat
<1>1. /\ RunShape(r, runs[r]) /\ runs[r] \in Run(runs[r].sent) /\ runs[r].items \in Seq(Items)
      /\ history \in Seq(Items) /\ runs[r].round \in Nat
  BY DEF Shape, RunShape, Run
<1>2. \A n \in Nat : n + 1 \in Nat
  OBVIOUS
<1> QED
  BY <1>1, <1>2

LEMMA HeldFacts ==
    ASSUME NEW r \in Runs
    PROVE  \A i : i \in Elements(history) \/ i \in Elements(runs[r].items) => Held(i)
BY DEF Held

LEMMA SpokenItems ==
    ASSUME NEW r \in Runs
    PROVE  /\ User(r) \in Items /\ Text(r) \in Items /\ Plain(User(r)) /\ Plain(Text(r))
BY DEF User, Text, Items, Plain

LEMMA SpokenGrows ==
    ASSUME NEW r \in Runs, NEW s \in Seq(Items)
    PROVE  Grows(s, Append(s, User(r))) /\ Grows(s, Append(s, Text(r)))
BY SpokenItems, AppendGrows


\* A run that has loaded t.
LEMMA LoadedQuiet ==
    ASSUME Shape, NEW r \in Runs, runs[r].phase = "load", NEW t, Grows(history, t), NEW x, Loaded(r, t, x)
    PROVE  \E u : Quiet(r, u)
<1> DEFINE v == runs[r]
           u == [v EXCEPT !.items = t, !.sent = x, !.phase = "request"]
<1>1. RunShape(r, v) /\ v \in Run(v.sent)
  BY RunFacts
<1>2. runs' = [q \in Runs |-> IF q = r THEN u ELSE runs[q]]
  BY <1>1 DEF Shape, Loaded
<1>4. t \in Seq(Items)
  BY DEF Grows
<1>3. /\ u.phase = "request" /\ u.items = t /\ u.round = v.round /\ u.todo = v.todo /\ u.late = v.late
      /\ u.sent = x /\ u \in Run(x)
  BY <1>1, <1>4 DEF Run, Phases, Waiting
<1> HIDE DEF u
<1>5. RunShape(r, u) /\ ~Threaded(u)
  BY <1>1, <1>3, <1>4 DEF RunShape, Threaded
<1>6. Becomes(r, u)
  BY <1>2, <1>5 DEF Becomes
<1>9. v.round \in Nat
  BY <1>1 DEF Run
<1>7. Moves(r, u)
  BY <1>1, <1>3, <1>6, <1>9, RunFacts DEF Moves, Loaded, Grows, Loading, Waiting, Live, elevation
<1>8. Hears(u, {})
  BY <1>3 DEF Hears, Loaded, Grows, Held
<1>10. Quiet(r, u)
  BY <1>3, <1>5, <1>7, <1>8 DEF Quiet, Loaded, elevation, Ready
<1> QED
  BY <1>10

LEMMA LoadQuiet ==
    ASSUME Limited, Shape, NEW r \in Runs,
           LoadCodex(r) \/ LoadAnthropic(r) \/ LoadOpenRouter(r)
    PROVE  \E u : Quiet(r, u)
<1> DEFINE s == Append(history, User(r))
<1>1. Grows(history, s) /\ s \in Seq(Items)
  BY RunFacts, SpokenGrows DEF Grows
<1>2. runs[r].phase = "load"
  BY DEF LoadCodex, LoadAnthropic, LoadOpenRouter
<1>3. CASE LoadCodex(r)
  <2>1. PICK t : (t = s \/ t = CompactMessages(s)) /\ Loaded(r, RepairTools(t), RepairTools(t))
    BY <1>3 DEF LoadCodex
  <2> HIDE DEF s
  <2>2. Grows(s, t) /\ t \in Seq(Items)
    BY <1>1, <2>1, CompactGrows, GrowsItself DEF Grows
  <2>3. Grows(history, t)
    BY <1>1, <2>2, GrowsOn
  <2>4. Grows(t, RepairTools(t))
    BY <2>2, RepairGrows
  <2>5. Grows(history, RepairTools(t))
    BY <2>3, <2>4, GrowsOn
  <2> QED
    BY <1>2, <2>1, <2>5, LoadedQuiet
<1>4. CASE LoadAnthropic(r)
  <2>1. Loaded(r, s, Append(ConvertAnthropic(history), User(r)))
    BY <1>4 DEF LoadAnthropic
  <2> HIDE DEF s
  <2> QED
    BY <1>1, <1>2, <2>1, LoadedQuiet
<1>5. CASE LoadOpenRouter(r)
  <2>1. Loaded(r, s, Append(LastItems(history), User(r)))
    BY <1>5 DEF LoadOpenRouter
  <2> HIDE DEF s
  <2> QED
    BY <1>1, <1>2, <2>1, LoadedQuiet
<1> QED
  BY <1>3, <1>4, <1>5

\* A run that is over, with nothing in hand.
Over(r) ==
    \E u : /\ Moves(r, u) /\ ~Ready(u) /\ ~Threaded(u)
           /\ u.items = runs[r].items \/ u.items = history'

LEMMA SavesOver ==
    ASSUME Shape, NEW r \in Runs, runs[r].phase \in Loading, NEW t \in Seq(Items),
           Follows(runs[r].items, t), Saves(r, t), UNCHANGED <<compacting, granted>>
    PROVE  Over(r)
<1> DEFINE v == runs[r]
           u == [v EXCEPT !.phase = "marked", !.items = t]
<1>1. RunShape(r, v) /\ v \in Run(v.sent)
  BY RunFacts
<1>2. runs' = [q \in Runs |-> IF q = r THEN u ELSE runs[q]]
  BY <1>1 DEF Shape, Saves
<1>3. /\ u.phase = "marked" /\ u.items = t /\ u.round = v.round /\ u.todo = v.todo /\ u.late = v.late
      /\ u.sent = v.sent /\ u \in Run(u.sent) /\ v.round \in Nat
  BY <1>1 DEF Run, Phases, Waiting
<1>4. v.late = ""
  BY <1>1 DEF RunShape, Loading, Waiting
<1> HIDE DEF u
<1>5. RunShape(r, u) /\ ~Threaded(u) /\ ~Ready(u)
  BY <1>1, <1>3, <1>4 DEF RunShape, Threaded, Ready
<1>6. Becomes(r, u)
  BY <1>2, <1>5 DEF Becomes
<1>7. Moves(r, u)
  BY <1>3, <1>6 DEF Moves, Saves, Loading, Waiting, Live
<1> QED
  BY <1>3, <1>5, <1>7 DEF Over, Saves

LEMMA StopsOver ==
    ASSUME Shape, NEW r \in Runs, runs[r].phase \in Waiting, NEW t \in Seq(Items),
           \/ t = history \/ Follows(history, t)
           \/ runs[r].phase \in Loading /\ Follows(runs[r].items, t),
           Stops(r, t), UNCHANGED <<compacting, granted>>
    PROVE  Over(r)
<1> DEFINE v == runs[r]
           u == [v EXCEPT !.phase = "stopped"]
<1>1. RunShape(r, v) /\ v \in Run(v.sent)
  BY RunFacts
<1>2. runs' = [q \in Runs |-> IF q = r THEN u ELSE runs[q]]
  BY <1>1 DEF Shape, Stops
<1>3. /\ u.phase = "stopped" /\ u.items = v.items /\ u.round = v.round /\ u.todo = v.todo /\ u.late = v.late
      /\ u.sent = v.sent /\ u \in Run(u.sent) /\ v.round \in Nat
  BY <1>1 DEF Run, Phases, Waiting
<1>4. v.late = ""
  BY <1>1 DEF RunShape, Waiting
<1> HIDE DEF u
<1>5. RunShape(r, u) /\ ~Threaded(u) /\ ~Ready(u)
  BY <1>1, <1>3, <1>4 DEF RunShape, Threaded, Ready
<1>6. Becomes(r, u)
  BY <1>2, <1>5 DEF Becomes
<1>7. Moves(r, u)
  BY <1>3, <1>6 DEF Moves, Stops, Loading, Waiting, Live
<1> QED
  BY <1>3, <1>5, <1>7 DEF Over

LEMMA OverQuiet ==
    ASSUME Shape, NEW r \in Runs, Over(r), UNCHANGED elevation,
           \A i \in Elements(history') : Held(i) \/ Plain(i)
    PROVE  \E u : Quiet(r, u)
<1>1. PICK u : /\ Moves(r, u) /\ ~Ready(u) /\ ~Threaded(u)
               /\ u.items = runs[r].items \/ u.items = history'
  BY DEF Over
<1>2. Hears(u, {})
  BY <1>1, HeldFacts DEF Hears
<1>3. Quiet(r, u)
  BY <1>1, <1>2 DEF Quiet, elevation
<1> QED
  BY <1>3

\* What is saved follows what the run has.
LEMMA GrownQuiet ==
    ASSUME Shape, NEW r \in Runs, NEW t, UNCHANGED <<elevation, compacting>>,
           \/ runs[r].phase \in Loading /\ Grows(runs[r].items, t) /\ (Saves(r, t) \/ Stops(r, t))
           \/ runs[r].phase \in Waiting /\ Grows(history, t) /\ Stops(r, t)
    PROVE  \E u : Quiet(r, u)
<1>1. t \in Seq(Items)
  BY DEF Grows
<1>2. \A i \in Elements(t) : Held(i) \/ Plain(i)
  BY HeldFacts DEF Grows
<1>3. UNCHANGED granted /\ (runs[r].phase \in Loading => runs[r].phase \in Waiting)
  BY DEF elevation, Loading
<1>4. Over(r)
  BY <1>1, <1>3, SavesOver, StopsOver DEF Grows
<1>5. history' = t
  BY DEF Saves, Stops
<1> QED
  BY <1>2, <1>4, <1>5, OverQuiet

LEMMA EndsQuiet ==
    ASSUME Shape, NEW r \in Runs,
           \/ NoKey(r) \/ Answer(r) \/ RequestFailsCodex(r) \/ RequestFailsAnthropic(r)
           \/ RequestFailsOpenRouter(r) \/ Raises(r)
    PROVE  \E u : Quiet(r, u)
<1> DEFINE said == Append(runs[r].items, Text(r))
<1>1. /\ Grows(history, history) /\ Grows(runs[r].items, runs[r].items)
      /\ Grows(history, Append(history, Text(r))) /\ Grows(runs[r].items, said)
  BY RunFacts, SpokenGrows, GrowsItself
<1> HIDE DEF said
<1>2. UNCHANGED <<elevation, compacting>>
  BY DEF NoKey, Answer, RequestFailsCodex, RequestFailsAnthropic, RequestFailsOpenRouter, Raises, Failing
<1>3. CASE NoKey(r)
  <2>1. PICK t \in {history, Append(history, Text(r))} : history' = t
    BY <1>3 DEF NoKey
  <2>2. Stops(r, t) /\ runs[r].phase \in Waiting
    BY <1>3, <2>1 DEF NoKey, Stops, Waiting
  <2>3. Grows(history, t)
    BY <1>1, <2>1
  <2> QED
    BY <1>2, <2>2, <2>3, GrownQuiet
<1>4. CASE Answer(r)
  <2>1. Saves(r, said) /\ runs[r].phase \in Loading
    BY <1>4 DEF Answer, said, Loading, Waiting
  <2> QED
    BY <1>1, <1>2, <2>1, GrownQuiet
<1>5. CASE RequestFailsCodex(r)
  <2>1. Saves(r, runs[r].items) /\ runs[r].phase \in Loading
    BY <1>5 DEF RequestFailsCodex, Failing, Loading, Waiting
  <2> QED
    BY <1>1, <1>2, <2>1, GrownQuiet
<1>6. CASE RequestFailsAnthropic(r) \/ RequestFailsOpenRouter(r)
  <2>1. PICK t : t \in {history, runs[r].items, said} /\ Stops(r, t)
    BY <1>6 DEF RequestFailsAnthropic, RequestFailsOpenRouter, said
  <2>2. runs[r].phase \in Loading /\ runs[r].phase \in Waiting
    BY <1>6 DEF RequestFailsAnthropic, RequestFailsOpenRouter, Failing, Loading, Waiting
  <2>3. Grows(history, t) \/ Grows(runs[r].items, t)
    BY <1>1, <2>1
  <2> QED
    BY <1>2, <2>1, <2>2, <2>3, GrownQuiet
<1>7. CASE Raises(r)
  <2>1. Saves(r, runs[r].items) \/ Stops(r, runs[r].items)
    BY <1>7 DEF Raises
  <2>2. runs[r].phase \in Loading
    BY <1>7 DEF Raises, Loading, Waiting
  <2> QED
    BY <1>1, <1>2, <2>1, <2>2, GrownQuiet
<1> QED
  BY <1>3, <1>4, <1>5, <1>6, <1>7

LEMMA TriesAgainQuiet ==
    ASSUME Limited, Shape, NEW r \in Runs, TriesAgain(r)
    PROVE  \E u : Quiet(r, u)
<1> DEFINE v == runs[r]
           u == [v EXCEPT !.round = @ + 1]
<1>0. /\ v.phase = "request" /\ UNCHANGED <<elevation, compacting>>
      /\ v.phase \in Loading /\ v.phase \in Waiting
  BY DEF TriesAgain, Failing, Loading, Waiting
<1>1. RunShape(r, v) /\ v \in Run(v.sent) /\ v.items \in Seq(Items)
  BY RunFacts
<1>2. CASE v.round + 1 < RoundLimit
  <2>1. runs' = [q \in Runs |-> IF q = r THEN u ELSE runs[q]] /\ UNCHANGED <<history, entry>>
    BY <1>1, <1>2 DEF Shape, TriesAgain
  <2>2. /\ u.phase = "request" /\ u.items = v.items /\ u.round = v.round + 1 /\ u.todo = v.todo
        /\ u.late = v.late /\ u.sent = v.sent /\ u \in Run(u.sent) /\ v.round \in Nat
    <3>1. v.round \in Nat /\ v.round + 1 \in Nat
      BY RunFacts
    <3> DEFINE n == v.round + 1
    <3> HIDE DEF v, n
    <3>2. /\ [v EXCEPT !.round = n].phase = v.phase /\ [v EXCEPT !.round = n].items = v.items
          /\ [v EXCEPT !.round = n].round = n /\ [v EXCEPT !.round = n].todo = v.todo
          /\ [v EXCEPT !.round = n].late = v.late /\ [v EXCEPT !.round = n].sent = v.sent
          /\ [v EXCEPT !.round = n] \in Run(v.sent)
      <4>1. n \in Nat
        BY <3>1 DEF n
      <4> QED
        BY <1>1, <4>1 DEF Run
    <3> QED
      BY <1>0, <3>1, <3>2 DEF n
  <2>3. v.late = ""
    BY <1>0, <1>1 DEF RunShape
  <2> HIDE DEF u
  <2>4. RunShape(r, u) /\ ~Threaded(u)
    BY <1>0, <1>1, <1>2, <2>2, <2>3 DEF RunShape, Threaded
  <2>5. Becomes(r, u)
    BY <2>1, <2>4 DEF Becomes
  <2>6. Follows(v.items, v.items) /\ history \in Seq(Items)
    BY RunFacts, GrowsItself DEF Grows
  <2>7. Moves(r, u)
    BY <1>0, <2>1, <2>2, <2>5, <2>6 DEF Moves, elevation, Loading, Live
  <2>8. Hears(u, {})
    BY <2>1, <2>2, HeldFacts DEF Hears
  <2>9. Quiet(r, u)
    BY <1>0, <2>2, <2>4, <2>7, <2>8 DEF Quiet, elevation, Ready
  <2> QED
    BY <2>9
<1>3. CASE ~(v.round + 1 < RoundLimit)
  <2>1. OutOfRounds(r, v.items)
    BY <1>3 DEF TriesAgain
  <2>2. PICK t \in {v.items, Append(v.items, Text(r))} : Saves(r, t) \/ Stops(r, t)
    BY <2>1 DEF OutOfRounds
  <2>3. Grows(v.items, t)
    BY <1>1, <2>2, GrowsItself, SpokenGrows
  <2> QED
    BY <1>0, <2>2, <2>3, GrownQuiet
<1> QED
  BY <1>2, <1>3

\* The calls of a round of run r.
RoundCalls(r, ids, round) ==
    /\ ids # <<>> /\ Apart(ids)
    /\ \A k \in DOMAIN ids : ids[k][1] = r /\ ids[k][2] = round

LEMMA NextCallsFacts ==
    ASSUME Limited, Shape, NEW r \in Runs, NEW n \in 1..2, NEW ids, ids = NextCalls(r, n)
    PROVE  /\ ids \in Seq(Ids) /\ RoundCalls(r, ids, runs[r].round)
           /\ Call(ids) \in Items /\ Plain(Call(ids))
           /\ Call(<<Head(ids)>>) \in Items /\ Plain(Call(<<Head(ids)>>))
<1> DEFINE d == runs[r].round
<1>1. d \in Nat
  BY RunFacts
<1> HIDE DEF d
<1>2. ids = [k \in 1..n |-> <<r, d, k>>]
  BY DEF NextCalls, d
<1>3. \A k \in 1..n : <<r, d, k>> \in Ids
  BY <1>1 DEF Ids
<1>4. ids \in Seq(Ids) /\ Len(ids) = n /\ DOMAIN ids = 1..n
  BY <1>2, <1>3
<1>5. ids # <<>> /\ Head(ids) \in Ids
  BY <1>4
<1>6. \A k \in 1..n : ids[k][1] = r /\ ids[k][2] = d /\ ids[k][3] = k
  BY <1>2
<1>7. Apart(ids)
  BY <1>4, <1>6 DEF Apart
<1>8. <<Head(ids)>> \in Seq(Ids) \ {<<>>}
  BY <1>5
<1>9. \A s \in Seq(Ids) \ {<<>>} : Call(s) \in Items /\ Plain(Call(s))
  BY DEF Call, Items, Plain
<1> QED
  BY <1>4, <1>5, <1>6, <1>7, <1>8, <1>9 DEF d, RoundCalls

\* Run r wants the calls ids; its thread begins with the first.
LEMMA CallsQuiet ==
    ASSUME Limited, Shape, NEW r \in Runs, runs[r].phase = "request", NEW n \in 1..2,
           NEW u, u \in Run(u.sent), u.phase = "tool", u.todo = NextCalls(r, n),
           u.round = runs[r].round, u.late = runs[r].late,
           u.items = runs[r].items \/ Grows(runs[r].items, u.items),
           runs' = [q \in Runs |-> IF q = r THEN u ELSE runs[q]],
           UNCHANGED <<history, entry, elevation, compacting>>
    PROVE  Quiet(r, u)
<1> DEFINE v == runs[r]
           ids == u.todo
<1>1. RunShape(r, v) /\ v \in Run(v.sent) /\ v.items \in Seq(Items) /\ history \in Seq(Items)
      /\ v.round \in Nat
  BY RunFacts
<1>2. ids \in Seq(Ids) /\ RoundCalls(r, ids, v.round)
  BY NextCallsFacts
<1>3. v.late = ""
  BY <1>1 DEF RunShape
<1>4. RunShape(r, u)
  BY <1>1, <1>2, <1>3 DEF RunShape, RoundCalls
<1>5. Becomes(r, u)
  BY <1>4 DEF Becomes
<1>6. Follows(v.items, u.items)
  BY <1>1, GrowsItself DEF Grows
<1>7. Moves(r, u)
  BY <1>1, <1>5, <1>6 DEF Moves, Loading, Waiting, elevation
<1>8. Hears(u, {})
  BY HeldFacts DEF Hears, Grows
<1>9. ~Ready(u) /\ Ready(v)
  BY DEF Ready
<1>10. \A id \in Elements(ids) : id[1] = r /\ id[2] = v.round
  BY <1>2 DEF Elements, RoundCalls
<1> QED
  BY <1>7, <1>8, <1>9, <1>10 DEF Quiet, elevation

LEMMA WantsQuiet ==
    ASSUME Limited, Shape, NEW r \in Runs, NEW n \in 1..2,
           WantsToolsCodex(r, n) \/ WantsToolsAnthropic(r, n) \/ WantsToolsOpenRouter(r, n)
    PROVE  \E u : Quiet(r, u)
<1> DEFINE v == runs[r]
           ids == NextCalls(r, n)
<1>1. PICK c \in {Call(ids), Call(<<Head(ids)>>)} : runs' = [runs EXCEPT ![r] = Collect(Working(r, ids), c)]
  BY DEF WantsToolsCodex, WantsToolsAnthropic, WantsToolsOpenRouter
<1>2. v.phase = "request" /\ UNCHANGED <<history, entry, elevation, compacting>>
  BY DEF WantsToolsCodex, WantsToolsAnthropic, WantsToolsOpenRouter, Wants
<1>3. c \in Items /\ Plain(c) /\ ids \in Seq(Ids)
  BY <1>1, NextCallsFacts
<1> HIDE DEF ids
<1>4. v \in Run(v.sent) /\ v.items \in Seq(Items)
  BY RunFacts
<1> DEFINE t == Append(v.items, c)
           x == Append(v.sent, c)
           u == [v EXCEPT !.phase = "tool", !.todo = ids, !.items = t, !.sent = x]
<1>5. t \in Seq(Items) /\ Grows(v.items, t)
  BY <1>3, <1>4, AppendGrows DEF Grows
<1>6. Collect(Working(r, ids), c) = u
  BY <1>4 DEF Collect, Working, Run
<1>7. runs' = [q \in Runs |-> IF q = r THEN u ELSE runs[q]]
  BY <1>1, <1>6 DEF Shape
<1> HIDE DEF t, x
<1>8. /\ u.phase = "tool" /\ u.items = t /\ u.round = v.round /\ u.todo = ids /\ u.late = v.late
      /\ u.sent = x /\ u \in Run(x)
  BY <1>3, <1>4, <1>5 DEF Run, Phases, Waiting
<1> HIDE DEF u
<1>9. Quiet(r, u)
  BY <1>2, <1>5, <1>7, <1>8, CallsQuiet DEF ids
<1> QED
  BY <1>9

LEMMA PausesQuiet ==
    ASSUME Limited, Shape, NEW r \in Runs, Pauses(r)
    PROVE  \E u : Quiet(r, u)
<1> DEFINE v == runs[r]
           ids == NextCalls(r, 1)
           x == Append(v.sent, Call(ids))
           u == [v EXCEPT !.phase = "tool", !.todo = ids, !.paused = TRUE, !.sent = x]
<1>1. v.phase = "request" /\ UNCHANGED <<history, entry, elevation, compacting>>
  BY DEF Pauses, Wants
<1>2. ids \in Seq(Ids)
  <2>1. 1 \in 1..2
    OBVIOUS
  <2> QED
    BY <2>1, NextCallsFacts
<1>3. v \in Run(v.sent)
  BY RunFacts
<1> HIDE DEF ids
<1>4. [Working(r, ids) EXCEPT !.paused = TRUE, !.sent = Append(@, Call(ids))] = u
  BY <1>3 DEF Working, Run
<1>5. runs' = [q \in Runs |-> IF q = r THEN u ELSE runs[q]]
  BY <1>4 DEF Shape, Pauses, ids
<1> HIDE DEF x
<1>6. /\ u.phase = "tool" /\ u.items = v.items /\ u.round = v.round /\ u.todo = ids /\ u.late = v.late
      /\ u.sent = x /\ u \in Run(x)
  BY <1>2, <1>3 DEF Run, Phases, Waiting
<1> HIDE DEF u
<1>7. Quiet(r, u)
  BY <1>1, <1>5, <1>6, CallsQuiet DEF ids
<1> QED
  BY <1>7

----------------------------------------------------------------------------
(* A tool has been executed, or is not.                                    *)

\* What the model is told of the current call, and the items with it.
Told(r, how) == Out(Current(r), how)
Got(r, how) == Append(runs[r].items, Told(r, how))

\* Run r has done with the current call.
Turn(r, u, how) ==
    /\ Moves(r, u) /\ Hears(u, {Told(r, how)})
    /\ Ready(u) => runs[r].round < u.round
    /\ Threaded(u) => \A id \in Elements(u.todo) : id \in Elements(runs[r].todo) /\ id # Current(r)

LEMMA CurrentFacts ==
    ASSUME Shape, NEW r \in Runs, Threaded(runs[r])
    PROVE  /\ runs[r].todo \in Seq(Ids) /\ runs[r].todo # <<>>
           /\ Current(r) \in Ids /\ Current(r) \in Elements(runs[r].todo)
           /\ Tail(runs[r].todo) \in Seq(Ids) /\ Apart(Tail(runs[r].todo))
           /\ \A id \in Elements(Tail(runs[r].todo)) : id \in Elements(runs[r].todo) /\ id # Current(r)
<1> DEFINE s == runs[r].todo
           t == Tail(s)
<1>1. s \in Seq(Ids) /\ s # <<>> /\ Apart(s)
  BY DEF Shape, RunShape, Run
<1> HIDE DEF s
<1>2. /\ Len(s) \in Nat /\ Len(s) >= 1 /\ 1 \in 1..Len(s) /\ Head(s) = s[1] /\ s[1] \in Ids
      /\ t \in Seq(Ids) /\ Len(t) = Len(s) - 1 /\ \A k \in 1..Len(t) : t[k] = s[k + 1]
  BY <1>1
<1>3. DOMAIN s = 1..Len(s) /\ DOMAIN t = 1..Len(t)
  BY <1>1, <1>2
<1> HIDE DEF t
<1>4. \A k \in 1..Len(t) : k + 1 \in 1..Len(s) /\ k + 1 # 1
  BY <1>2
<1>5. Apart(t)
  <2> SUFFICES ASSUME NEW j \in 1..Len(t), NEW k \in 1..Len(t), t[j] = t[k] PROVE j = k
    BY <1>3 DEF Apart
  <2>1. s[j + 1] = s[k + 1] /\ j + 1 \in DOMAIN s /\ k + 1 \in DOMAIN s
    BY <1>2, <1>3, <1>4
  <2>2. j + 1 = k + 1
    BY <1>1, <2>1 DEF Apart
  <2> QED
    BY <2>2
<1>6. \A id \in Elements(t) : id \in Elements(s) /\ id # Head(s)
  <2> SUFFICES ASSUME NEW k \in 1..Len(t) PROVE t[k] \in Elements(s) /\ t[k] # Head(s)
    BY <1>3 DEF Elements
  <2>1. t[k] = s[k + 1] /\ k + 1 \in DOMAIN s /\ 1 \in DOMAIN s /\ k + 1 # 1
    BY <1>2, <1>3, <1>4
  <2> QED
    BY <1>1, <1>2, <2>1 DEF Apart, Elements
<1>7. Head(s) \in Elements(s)
  BY <1>2, <1>3 DEF Elements
<1> QED
  BY <1>1, <1>2, <1>5, <1>6, <1>7 DEF Current, s, t

LEMMA GotFacts ==
    ASSUME Shape, NEW r \in Runs, Threaded(runs[r]), NEW how \in Hows
    PROVE  /\ Got(r, how) \in Seq(Items) /\ Follows(runs[r].items, Got(r, how))
           /\ \A i \in Elements(Got(r, how)) : Held(i) \/ i = Told(r, how)
<1>1. Told(r, how) \in Items
  BY CurrentFacts DEF Told, Out, Items
<1>2. runs[r].items \in Seq(Items)
  BY RunFacts
<1> QED
  BY <1>1, <1>2, AppendElements, HeldFacts DEF Got

\* The run goes on: with its next call, or with its next round.
LEMMA GoesOn ==
    ASSUME Limited, Shape, NEW r \in Runs, runs[r].phase \in {"tool", "asking", "again"},
           NEW how \in Hows, NEW u, u \in Run(u.sent), u.late = runs[r].late,
           runs' = [q \in Runs |-> IF q = r THEN u ELSE runs[q]],
           Grows(Got(r, how), u.items), history' = history \/ history' = u.items,
           u.todo = Tail(runs[r].todo),
           \/ u.phase = "tool" /\ u.todo # <<>> /\ u.round = runs[r].round
           \/ u.phase = "request" /\ u.round = runs[r].round + 1 /\ u.round < RoundLimit,
           UNCHANGED <<entry, compacting, granted>>
    PROVE  Turn(r, u, how)
<1> DEFINE v == runs[r]
<1>1. /\ RunShape(r, v) /\ v.items \in Seq(Items) /\ history \in Seq(Items)
      /\ v.round \in Nat /\ Threaded(v)
  BY RunFacts DEF Threaded
<1>2. /\ v.todo \in Seq(Ids) /\ u.todo \in Seq(Ids) /\ Apart(u.todo)
      /\ \A id \in Elements(u.todo) : id \in Elements(v.todo) /\ id # Current(r)
  BY <1>1, CurrentFacts
<1>3. v.late = ""
  BY <1>1 DEF RunShape
<1>4. \A k \in DOMAIN u.todo : u.todo[k][1] = r /\ u.todo[k][2] = v.round
  <2>1. \A id \in Elements(v.todo) : id[1] = r /\ id[2] = v.round
    BY <1>1 DEF RunShape, Elements
  <2> QED
    BY <1>2, <2>1 DEF Elements
<1>5. RunShape(r, u)
  <2>1. u.round < RoundLimit
    BY <1>1 DEF RunShape
  <2> QED
    BY <1>2, <1>3, <1>4, <2>1 DEF RunShape, Threaded
<1>6. Becomes(r, u)
  BY <1>5 DEF Becomes
<1>7. Follows(v.items, u.items) /\ u.items \in Seq(Items)
  BY <1>1, GotFacts DEF Grows, Follows
<1>8. v.round <= u.round /\ (u.phase = "request" => v.round < u.round)
  BY <1>1
<1>9. v.phase \in Loading /\ v.phase \in Waiting
  BY DEF Loading, Waiting
<1>10. history' \in Seq(Items) /\ (history' = history \/ Follows(v.items, history'))
  BY <1>1, <1>7
<1>11. Moves(r, u)
  BY <1>6, <1>7, <1>8, <1>9, <1>10 DEF Moves
<1>12. \A i \in Elements(u.items) : Held(i) \/ Plain(i) \/ i = Told(r, how)
  BY <1>1, GotFacts DEF Grows
<1>13. Hears(u, {Told(r, how)})
  BY <1>12, HeldFacts DEF Hears
<1> QED
  BY <1>2, <1>8, <1>11, <1>13 DEF Turn, Ready

LEMMA TurnOver ==
    ASSUME Limited, Shape, NEW r \in Runs, runs[r].phase \in {"tool", "asking", "again"},
           NEW how \in Hows, NEW t, Grows(Got(r, how), t), Saves(r, t) \/ Stops(r, t),
           UNCHANGED <<compacting, granted>>
    PROVE  \E u : Turn(r, u, how)
<1>1. runs[r].phase \in Loading /\ runs[r].phase \in Waiting /\ Threaded(runs[r])
  BY DEF Loading, Waiting, Threaded
<1>2. Follows(runs[r].items, t) /\ t \in Seq(Items)
  BY <1>1, GotFacts DEF Grows, Follows
<1>3. \A i \in Elements(t) : Held(i) \/ Plain(i) \/ i = Told(r, how)
  BY <1>1, GotFacts DEF Grows
<1>4. Over(r)
  BY <1>1, <1>2, SavesOver, StopsOver
<1>5. PICK u : /\ Moves(r, u) /\ ~Ready(u) /\ ~Threaded(u)
               /\ u.items = runs[r].items \/ u.items = history'
  BY <1>4 DEF Over
<1>6. history' = t
  BY DEF Saves, Stops
<1>7. Hears(u, {Told(r, how)})
  BY <1>3, <1>5, <1>6, HeldFacts DEF Hears
<1> QED
  BY <1>5, <1>7 DEF Turn

LEMMA DoneFacts ==
    ASSUME Shape, NEW r \in Runs, runs[r].phase \in {"tool", "asking", "again"},
           NEW how \in Hows, NEW d, d = Done(r, how)
    PROVE  /\ d \in Run(d.sent) /\ d.items = Got(r, how) /\ d.todo = Tail(runs[r].todo)
           /\ d.phase = "tool" /\ d.round = runs[r].round /\ d.late = runs[r].late
<1> DEFINE v == runs[r]
           x == Append(v.sent, Told(r, how))
           g == Got(r, how)
           w == Tail(v.todo)
           u == [v EXCEPT !.items = g, !.sent = x, !.todo = w, !.phase = "tool"]
<1>1. v \in Run(v.sent) /\ Threaded(v)
  BY RunFacts DEF Threaded
<1>2. g \in Seq(Items) /\ w \in Seq(Ids)
  BY <1>1, GotFacts, CurrentFacts
<1>3. d = u
  BY <1>1 DEF Done, Collect, Run, Got, Told, Current
<1> HIDE DEF g, x, w
<1>4. u \in Run(x) /\ u.items = g /\ u.todo = w /\ u.phase = "tool" /\ u.round = v.round /\ u.late = v.late
      /\ u.sent = x
  BY <1>1, <1>2 DEF Run, Phases, Waiting
<1> HIDE DEF u
<1> QED
  BY <1>3, <1>4 DEF g, w

LEMMA NextRoundFacts ==
    ASSUME NEW d, d \in Run(d.sent), d.round + 1 \in Nat, NEW u, u = NextRound(d)
    PROVE  /\ u \in Run(u.sent) /\ u.phase = "request" /\ u.round = d.round + 1
           /\ u.items = d.items /\ u.todo = d.todo /\ u.late = d.late
<1> DEFINE n == d.round + 1
<1>1. n \in Nat /\ u = [d EXCEPT !.phase = "request", !.round = n, !.paused = FALSE]
  BY DEF NextRound
<1> HIDE DEF n
<1>2. /\ u \in Run(d.sent) /\ u.sent = d.sent /\ u.phase = "request" /\ u.round = n
      /\ u.items = d.items /\ u.todo = d.todo /\ u.late = d.late
  BY <1>1 DEF Run, Phases, Waiting
<1> QED
  BY <1>2 DEF n

LEMMA CodexTurns ==
    ASSUME Limited, Shape, NEW r \in Runs, runs[r].phase \in {"tool", "asking", "again"},
           NEW how \in Hows, CollectsCodex(r, how), UNCHANGED <<compacting, granted>>
    PROVE  \E u : Turn(r, u, how)
<1> DEFINE v == runs[r]
           d == Done(r, how)
           next == NextRound(d)
           small == [next EXCEPT !.items = CompactMessages(@), !.sent = CompactMessages(@)]
<1>0. Threaded(v) /\ v.round + 1 \in Nat /\ v.round \in Nat /\ v.round < RoundLimit /\ RoundLimit \in Nat
  BY RunFacts DEF Threaded, RunShape, Limited
<1>1. /\ d \in Run(d.sent) /\ d.items = Got(r, how) /\ d.todo = Tail(v.todo)
      /\ d.phase = "tool" /\ d.round = v.round /\ d.late = v.late
  BY DoneFacts
<1>2. /\ provider = "codex"
      /\ IF d.todo # <<>>
         THEN /\ runs' = [runs EXCEPT ![r] = Collect(d, Call(<<Head(d.todo)>>))]
              /\ UNCHANGED <<history, entry>>
         ELSE \E to \in {next, small} :
                IF next.round = RoundLimit THEN OutOfRounds(r, to.items)
                ELSE runs' = [runs EXCEPT ![r] = to] /\ UNCHANGED <<history, entry>>
  BY DEF CollectsCodex
<1>3. Got(r, how) \in Seq(Items) /\ d.todo \in Seq(Ids) /\ Grows(Got(r, how), Got(r, how))
  BY <1>0, <1>1, GotFacts, CurrentFacts, GrowsItself
<1>4. CASE d.todo # <<>>
  <2> DEFINE c == Call(<<Head(d.todo)>>)
             t == Append(d.items, c)
             x == Append(d.sent, c)
             u == [d EXCEPT !.items = t, !.sent = x]
  <2>1. <<Head(d.todo)>> \in Seq(Ids) \ {<<>>}
    BY <1>3, <1>4
  <2>2. c \in Items /\ Plain(c)
    BY <2>1 DEF Call, Items, Plain
  <2> HIDE DEF c
  <2>3. Grows(Got(r, how), t) /\ t \in Seq(Items)
    BY <1>1, <1>3, <2>2, AppendGrows DEF Grows
  <2> HIDE DEF d
  <2>4. runs' = [runs EXCEPT ![r] = u] /\ UNCHANGED <<history, entry>>
    BY <1>1, <1>2, <1>4 DEF Collect, Run, c
  <2>5. runs' = [q \in Runs |-> IF q = r THEN u ELSE runs[q]]
    BY <2>4 DEF Shape
  <2> HIDE DEF t, x
  <2>6. /\ u \in Run(x) /\ u.sent = x /\ u.items = t /\ u.todo = d.todo /\ u.phase = "tool"
        /\ u.round = d.round /\ u.late = d.late
    BY <1>1, <2>3 DEF Run
  <2> HIDE DEF u
  <2>7. Turn(r, u, how)
    BY <1>1, <1>4, <2>3, <2>4, <2>5, <2>6, GoesOn
  <2> QED
    BY <2>7
<1>5. CASE ~(d.todo # <<>>)
  <2>1. PICK to \in {next, small} :
          IF next.round = RoundLimit THEN OutOfRounds(r, to.items)
          ELSE runs' = [runs EXCEPT ![r] = to] /\ UNCHANGED <<history, entry>>
    BY <1>2, <1>5
  <2> HIDE DEF d
  <2>2. /\ next \in Run(next.sent) /\ next.phase = "request" /\ next.round = v.round + 1
        /\ next.items = Got(r, how) /\ next.todo = Tail(v.todo) /\ next.late = v.late
    BY <1>0, <1>1, NextRoundFacts
  <2> HIDE DEF next
  <2>3. CompactMessages(Got(r, how)) \in Seq(Items) /\ Grows(Got(r, how), CompactMessages(Got(r, how)))
    BY <1>3, CompactGrows DEF Grows
  <2>4. /\ to \in Run(to.sent) /\ to.phase = "request" /\ to.round = v.round + 1
        /\ to.todo = Tail(v.todo) /\ to.late = v.late
        /\ to.items \in {Got(r, how), CompactMessages(Got(r, how))}
    <3> DEFINE t == CompactMessages(Got(r, how))
               x == CompactMessages(next.sent)
               u == [next EXCEPT !.items = t, !.sent = x]
    <3>1. small = u
      BY <2>2
    <3>2. t \in Seq(Items)
      BY <2>3
    <3> HIDE DEF t, x
    <3>3. /\ u \in Run(x) /\ u.sent = x /\ u.items = t /\ u.phase = next.phase /\ u.round = next.round
          /\ u.todo = next.todo /\ u.late = next.late
      BY <2>2, <3>2 DEF Run
    <3> HIDE DEF u
    <3>4. to = next \/ to = u
      BY <3>1
    <3> QED
      BY <2>2, <3>3, <3>4 DEF t
  <2> HIDE DEF small
  <2>5. Grows(Got(r, how), to.items)
    BY <1>3, <2>3, <2>4
  <2>6. CASE next.round = RoundLimit
    <3>1. Saves(r, to.items)
      BY <1>2, <2>1, <2>6 DEF OutOfRounds
    <3> QED
      BY <2>5, <3>1, TurnOver
  <2>7. CASE next.round # RoundLimit
    <3>1. runs' = [q \in Runs |-> IF q = r THEN to ELSE runs[q]] /\ UNCHANGED <<history, entry>>
      BY <2>1, <2>7 DEF Shape
    <3>2. v.round + 1 < RoundLimit
      BY <1>0, <2>2, <2>7
    <3>3. to.round < RoundLimit
      BY <2>4, <3>2
    <3>4. Turn(r, to, how)
      BY <2>4, <2>5, <3>1, <3>3, GoesOn
    <3> QED
      BY <3>4
  <2> QED
    BY <2>6, <2>7
<1> QED
  BY <1>4, <1>5

\* Anthropic and OpenRouter, which save after a round.
LEMMA OthersTurn ==
    ASSUME Limited, Shape, NEW r \in Runs, runs[r].phase \in {"tool", "asking", "again"},
           NEW how \in Hows, CollectsAnthropic(r, how) \/ CollectsOpenRouter(r, how),
           UNCHANGED <<compacting, granted>>
    PROVE  \E u : Turn(r, u, how)
<1> DEFINE v == runs[r]
           d == Done(r, how)
           next == NextRound(d)
<1>0. Threaded(v) /\ v.round + 1 \in Nat /\ v.round \in Nat /\ v.round < RoundLimit /\ RoundLimit \in Nat
  BY RunFacts DEF Threaded, RunShape, Limited
<1>1. /\ d \in Run(d.sent) /\ d.items = Got(r, how) /\ d.todo = Tail(v.todo)
      /\ d.phase = "tool" /\ d.round = v.round /\ d.late = v.late
  BY DoneFacts
<1>2. /\ provider \in {"anthropic", "openrouter"}
      /\ IF d.todo = <<>> /\ d.round + 1 = RoundLimit THEN OutOfRounds(r, d.items)
         ELSE /\ runs' = [runs EXCEPT ![r] = IF d.todo = <<>> THEN next ELSE d]
              /\ history' \in {history, IF d.todo = <<>> THEN d.items ELSE history}
              /\ UNCHANGED entry
  BY DEF CollectsAnthropic, CollectsOpenRouter
<1>3. Got(r, how) \in Seq(Items) /\ Grows(Got(r, how), Got(r, how))
      /\ Grows(Got(r, how), Append(Got(r, how), Text(r)))
  BY <1>0, GotFacts, GrowsItself, SpokenGrows
<1> HIDE DEF d
<1>4. /\ next \in Run(next.sent) /\ next.phase = "request" /\ next.round = v.round + 1
      /\ next.items = Got(r, how) /\ next.todo = Tail(v.todo) /\ next.late = v.late
  BY <1>0, <1>1, NextRoundFacts
<1> HIDE DEF next
<1>5. CASE d.todo = <<>> /\ d.round + 1 = RoundLimit
  <2>1. PICK t \in {Got(r, how), Append(Got(r, how), Text(r))} : Stops(r, t)
    BY <1>1, <1>2, <1>5 DEF OutOfRounds
  <2>2. Grows(Got(r, how), t)
    BY <1>3, <2>1
  <2> QED
    BY <2>1, <2>2, TurnOver
<1>6. CASE d.todo = <<>> /\ d.round + 1 # RoundLimit
  <2>1. /\ runs' = [q \in Runs |-> IF q = r THEN next ELSE runs[q]]
        /\ history' = history \/ history' = next.items
        /\ UNCHANGED entry
    BY <1>1, <1>2, <1>4, <1>6 DEF Shape
  <2>2. v.round + 1 < RoundLimit
    BY <1>0, <1>1, <1>6
  <2>3. next.round < RoundLimit
    BY <1>4, <2>2
  <2>4. Turn(r, next, how)
    BY <1>3, <1>4, <2>1, <2>3, GoesOn
  <2> QED
    BY <2>4
<1>7. CASE d.todo # <<>>
  <2>1. /\ runs' = [q \in Runs |-> IF q = r THEN d ELSE runs[q]]
        /\ history' = history /\ UNCHANGED entry
    BY <1>2, <1>7 DEF Shape
  <2>2. Turn(r, d, how)
    BY <1>1, <1>3, <1>7, <2>1, GoesOn
  <2> QED
    BY <2>2
<1> QED
  BY <1>5, <1>6, <1>7

\* The thread of a cancelled run.
LEMMA LateTurns ==
    ASSUME Limited, Shape, NEW r \in Runs, runs[r].late # "", NEW how \in Hows,
           runs' = [runs EXCEPT ![r].late = ""],
           UNCHANGED <<history, entry, compacting, granted>>
    PROVE  \E u : Turn(r, u, how)
<1> DEFINE v == runs[r]
           u == [v EXCEPT !.late = ""]
<1>1. RunShape(r, v) /\ v \in Run(v.sent) /\ history \in Seq(Items) /\ v.round \in Nat
  BY RunFacts
<1>2. v.phase \in {"stopped", "ended"}
  BY <1>1 DEF RunShape
<1>3. runs' = [q \in Runs |-> IF q = r THEN u ELSE runs[q]]
  BY <1>1 DEF Shape
<1>4. /\ u \in Run(v.sent) /\ u.sent = v.sent /\ u.late = "" /\ u.phase = v.phase
      /\ u.round = v.round /\ u.items = v.items /\ u.todo = v.todo
  BY <1>1 DEF Run
<1> HIDE DEF u
<1>5. RunShape(r, u) /\ ~Threaded(u) /\ ~Ready(u)
  BY <1>1, <1>2, <1>4 DEF RunShape, Threaded, Ready
<1>6. Becomes(r, u)
  BY <1>3, <1>5 DEF Becomes
<1>7. Moves(r, u)
  <2>1. u.phase \notin Waiting /\ u.phase \notin Loading
    BY <1>2, <1>4 DEF Waiting, Loading
  <2>2. u.phase \in {"marked", "stopped"} => Live(r)
    BY <1>4 DEF Live
  <2>3. v.round <= u.round
    BY <1>1, <1>4, SameRound, Zenon
  <2> QED
    BY <1>1, <1>6, <2>1, <2>2, <2>3 DEF Moves
<1>8. Hears(u, {Told(r, how)})
  BY <1>4, HeldFacts DEF Hears
<1>9. Turn(r, u, how)
  BY <1>5, <1>7, <1>8 DEF Turn
<1> QED
  BY <1>9

LEMMA Returning ==
    ASSUME Limited, Shape, NEW r \in Runs, Threaded(runs[r]), NEW how \in Hows,
           \/ Returns(r, how)
           \/ runs[r].phase = "asking" /\ Continues(r, how),
           UNCHANGED <<compacting, granted>>
    PROVE  \E u : Turn(r, u, how)
<1>1. CASE runs[r].late # ""
  <2>1. runs[r].phase # "asking"
    BY <1>1 DEF Shape, RunShape
  <2>2. runs' = [runs EXCEPT ![r].late = ""] /\ UNCHANGED <<history, entry>>
    BY <1>1, <2>1 DEF Returns
  <2> QED
    BY <1>1, <2>2, LateTurns
<1>2. CASE ~(runs[r].late # "")
  <2>1. Continues(r, how)
    BY <1>2 DEF Returns
  <2>2. runs[r].phase \in {"tool", "asking", "again"}
    BY <1>2 DEF Threaded
  <2> QED
    BY <2>1, <2>2, CodexTurns, OthersTurn DEF Continues
<1> QED
  BY <1>1, <1>2

\* The call is settled: it took effect exactly when the model is told so.
Settles(r, u, how) ==
    /\ Threaded(runs[r]) /\ how \in Hows \ {"lost"} /\ Turn(r, u, how)
    /\ performed' = IF how = "done" THEN Append(performed, Current(r)) ELSE performed
    /\ refused' = refused
    /\ \/ asked' = asked /\ approved' = approved
       \/ asked' = asked \cup {Current(r)} /\ approved' = approved /\ runs[r].phase \notin {"asking", "again"}
          /\ runs[r].late # "again"
       \/ asked' = asked \ {Current(r)} /\ approved' = approved \ {Current(r)}
    /\ how = "done" => Current(r) \notin refused

LEMMA ToolSettles ==
    ASSUME Limited, Shape, Truth, NEW r \in Runs,
           \/ Execute(r) \/ PollDenied(r) \/ ExecuteApproved(r)
           \/ RequestElevation(r) /\ (runs[r].late # "" \/ runs[r].paused)
    PROVE  \E u, how : Settles(r, u, how)
<1>0. /\ runs[r].late # "" => runs[r].phase \in {"stopped", "ended"}
      /\ approved \subseteq asked /\ asked \cap refused = {}
  BY DEF Shape, RunShape, Truth
<1>1. CASE Execute(r)
  <2>1. Thread(r, "tool") /\ Threaded(runs[r])
    BY <1>1 DEF Execute, Thread, Threaded
  <2>2. PICK u : Turn(r, u, "done")
    <3>1. "done" \in Hows /\ Returns(r, "done") /\ UNCHANGED <<compacting, granted>>
      BY <1>1 DEF Execute, Hows
    <3> QED
      BY <2>1, <3>1, Returning
  <2>3. Current(r) \notin refused
    <3>1. Met(Current(r)) => AtCurrent(r, Current(r))
      BY <2>1, CurrentFacts DEF Truth
    <3>2. ~AtCurrent(r, Current(r))
      BY <1>0, <2>1 DEF AtCurrent, Thread
    <3> QED
      BY <3>1, <3>2 DEF Met
  <2>4. Settles(r, u, "done")
    BY <1>1, <2>1, <2>2, <2>3 DEF Settles, Execute, Hows
  <2> QED
    BY <2>4
<1>2. CASE PollDenied(r)
  <2>1. Threaded(runs[r]) /\ "denied" \in Hows
    BY <1>2 DEF PollDenied, Threaded, Hows
  <2>2. runs[r].phase = "asking" /\ Continues(r, "denied") /\ UNCHANGED <<elevation, compacting>>
    BY <1>2 DEF PollDenied
  <2>3. PICK u : Turn(r, u, "denied")
    BY <2>1, <2>2, Returning DEF elevation
  <2>4. Settles(r, u, "denied")
    BY <2>1, <2>2, <2>3 DEF Settles, elevation
  <2> QED
    BY <2>4
<1>3. CASE ExecuteApproved(r)
  <2> DEFINE id == Current(r)
             how == IF Consume(id) THEN "done" ELSE "blocked"
  <2>1. Threaded(runs[r]) /\ how \in Hows /\ how # "lost"
    BY <1>3 DEF ExecuteApproved, Thread, Threaded, Hows
  <2>2. Returns(r, how) /\ UNCHANGED <<compacting, granted>>
    BY <1>3 DEF ExecuteApproved
  <2>3. PICK u : Turn(r, u, how)
    <3> HIDE DEF how
    <3> QED
      BY <2>1, <2>2, Returning
  <2>4. how = "done" <=> id \in approved
    BY DEF Consume
  <2>5. /\ performed' = IF id \in approved THEN Append(performed, id) ELSE performed
        /\ asked' = IF id \in approved THEN asked \ {id} ELSE asked
        /\ approved' = approved \ {id} /\ refused' = refused
    BY <1>3 DEF ExecuteApproved, Consume
  <2> HIDE DEF how
  <2>6. \/ asked' = asked /\ approved' = approved
        \/ asked' = asked \ {id} /\ approved' = approved \ {id}
    BY <2>5
  <2>7. Settles(r, u, how)
    BY <1>0, <2>1, <2>3, <2>4, <2>5, <2>6 DEF Settles
  <2> QED
    BY <2>7
<1>4. CASE RequestElevation(r) /\ (runs[r].late # "" \/ runs[r].paused)
  <2>1. /\ Thread(r, "tool") /\ Threaded(runs[r]) /\ "asked" \in Hows
        /\ Returns(r, "asked") /\ UNCHANGED <<compacting, granted, performed, refused, approved>>
        /\ asked' = asked \cup {Current(r)}
    BY <1>4 DEF RequestElevation, Thread, Threaded, Hows
  <2>2. PICK u : Turn(r, u, "asked")
    BY <2>1, Returning
  <2>3. runs[r].phase \notin {"asking", "again"} /\ runs[r].late # "again"
    BY <1>0, <2>1 DEF Thread
  <2>4. Settles(r, u, "asked")
    BY <2>1, <2>2, <2>3 DEF Settles
  <2> QED
    BY <2>4
<1> QED
  BY <1>1, <1>2, <1>3, <1>4

----------------------------------------------------------------------------
(* Waiting for the user, and the end.                                      *)

\* Run r is u, with the items and the calls it had.
Stays(r, u) ==
    /\ u \in Run(u.sent) /\ u.round = runs[r].round
    /\ u.items = runs[r].items /\ u.todo = runs[r].todo
    /\ runs' = [q \in Runs |-> IF q = r THEN u ELSE runs[q]]
    /\ u.late # "" => u.phase \in {"stopped", "ended"}
    /\ Threaded(u) => Threaded(runs[r])
    /\ u.phase \in Loading => runs[r].phase \in Loading
    /\ u.phase \in Waiting => runs[r].phase \in Waiting
    /\ u.phase \in {"marked", "stopped"} => Live(r)
    /\ history' = history /\ compacting' = compacting /\ granted' = granted

LEMMA StaysMoves ==
    ASSUME Shape, Kept, NEW r \in Runs, NEW u, Stays(r, u),
           \/ entry' = entry
           \/ /\ \/ entry' = [entry EXCEPT !.status = "done"]
                 \/ entry' = [entry EXCEPT !.status = "cancelled"]
              /\ Live(r) /\ u.phase \notin Waiting
    PROVE  Moves(r, u) /\ Hears(u, {})
<1>1. RunShape(r, runs[r]) /\ runs[r].round \in Nat /\ runs[r].items \in Seq(Items) /\ history \in Seq(Items)
  BY RunFacts
<1>2. RunShape(r, u)
  BY <1>1 DEF Stays, RunShape
<1>3. Becomes(r, u)
  BY <1>2 DEF Becomes, Stays
<1>4. runs[r].round <= u.round
  BY <1>1, SameRound DEF Stays
<1>5. Follows(runs[r].items, u.items)
  BY <1>1, GrowsItself DEF Stays, Grows
<1>6. Moves(r, u)
  BY <1>1, <1>3, <1>4, <1>5 DEF Moves, Stays
<1>7. Hears(u, {})
  BY HeldFacts DEF Hears, Stays
<1> QED
  BY <1>6, <1>7

LEMMA AsksQuiet ==
    ASSUME Limited, Shape, Kept, NEW r \in Runs,
           RequestElevation(r), ~(runs[r].late # "" \/ runs[r].paused)
    PROVE  \E u : Quiet(r, u)
<1> DEFINE u == [runs[r] EXCEPT !.phase = "asking", !.late = ""]
<1>1. /\ runs' = [runs EXCEPT ![r].phase = "asking"] /\ UNCHANGED <<history, entry>>
      /\ asked' = asked \cup {Current(r)} /\ UNCHANGED <<approved, granted, performed, refused, compacting>>
      /\ runs[r].phase = "tool" /\ runs[r].late = ""
  BY DEF RequestElevation, Thread
<1>2. /\ u \in Run(u.sent) /\ u.phase = "asking" /\ u.late = "" /\ u.round = runs[r].round
      /\ u.items = runs[r].items /\ u.todo = runs[r].todo
  <2>1. runs[r] \in Run(runs[r].sent)
    BY RunFacts
  <2> QED
    BY <2>1 DEF Run, Phases, Waiting
<1>3. runs' = [q \in Runs |-> IF q = r THEN u ELSE runs[q]]
  <2>1. runs[r] \in Run(runs[r].sent)
    BY RunFacts
  <2>2. [runs[r] EXCEPT !.phase = "asking"] = u
    BY <1>1, <2>1 DEF Run
  <2> HIDE DEF u
  <2> QED
    BY <1>1, <2>2 DEF Shape
<1> HIDE DEF u
<1>4. Threaded(runs[r])
  BY <1>1 DEF Threaded
<1>5. Stays(r, u)
  BY <1>1, <1>2, <1>3, <1>4 DEF Stays, Loading, Waiting
<1>6. Current(r) \in Ids
  BY <1>4, CurrentFacts
<1>7. Moves(r, u) /\ Hears(u, {})
  BY <1>1, <1>5, StaysMoves
<1>8. Quiet(r, u)
  BY <1>1, <1>2, <1>4, <1>6, <1>7 DEF Quiet, Ready
<1> QED
  BY <1>8

LEMMA ApprovedQuiet ==
    ASSUME Limited, Shape, Kept, NEW r \in Runs, PollApproved(r)
    PROVE  \E u : Quiet(r, u)
<1> DEFINE u == [runs[r] EXCEPT !.phase = "again", !.late = ""]
<1>1. /\ runs' = [runs EXCEPT ![r].phase = "again"] /\ runs[r].phase = "asking"
      /\ UNCHANGED <<history, entry, asked, granted, performed, refused, compacting>>
      /\ \/ approved' = approved
         \/ approved' = approved \cup {Current(r)} /\ Current(r) \in asked
  BY DEF PollApproved
<1>2. /\ u \in Run(u.sent) /\ u.phase = "again" /\ u.late = "" /\ u.round = runs[r].round
      /\ u.items = runs[r].items /\ u.todo = runs[r].todo
  <2>1. runs[r] \in Run(runs[r].sent)
    BY RunFacts
  <2> QED
    BY <2>1 DEF Run, Phases, Waiting
<1>3. runs' = [q \in Runs |-> IF q = r THEN u ELSE runs[q]]
  <2>1. runs[r] \in Run(runs[r].sent) /\ runs[r].late = ""
    BY <1>1, RunFacts DEF RunShape
  <2>2. [runs[r] EXCEPT !.phase = "again"] = u
    BY <2>1 DEF Run
  <2> HIDE DEF u
  <2> QED
    BY <1>1, <2>2 DEF Shape
<1> HIDE DEF u
<1>4. Threaded(runs[r])
  BY <1>1 DEF Threaded
<1>5. Stays(r, u)
  BY <1>1, <1>2, <1>3, <1>4 DEF Stays, Loading, Waiting
<1>7. Moves(r, u) /\ Hears(u, {})
  BY <1>1, <1>5, StaysMoves
<1>8. Quiet(r, u)
  BY <1>1, <1>2, <1>4, <1>7 DEF Quiet, Ready
<1> QED
  BY <1>8

LEMMA CloseQuiet ==
    ASSUME Limited, Shape, Kept, NEW r \in Runs, Finally(r) \/ Cancel(r)
    PROVE  \E u : Quiet(r, u)
<1> DEFINE v == runs[r]
<1>1. RunShape(r, v) /\ v \in Run(v.sent)
  BY RunFacts
<1>2. CASE Finally(r)
  <2> DEFINE u == [v EXCEPT !.phase = "ended", !.late = v.late]
  <2>1. /\ runs' = [runs EXCEPT ![r].phase = "ended"] /\ v.phase \in {"marked", "stopped"}
        /\ entry' = [entry EXCEPT !.status = "done"]
        /\ UNCHANGED <<history, elevation, compacting>>
    BY <1>2 DEF Finally
  <2>2. v.late \in {"", "tool", "again"}
    BY <1>1 DEF Run
  <2>3. /\ u \in Run(u.sent) /\ u.phase = "ended" /\ u.late = v.late /\ u.round = v.round
        /\ u.items = v.items /\ u.todo = v.todo
    BY <1>1, <2>2 DEF Run, Phases
  <2>4. runs' = [q \in Runs |-> IF q = r THEN u ELSE runs[q]]
    <3>1. [v EXCEPT !.phase = "ended"] = u
      BY <1>1 DEF Run
    <3> HIDE DEF u
    <3> QED
      BY <2>1, <3>1 DEF Shape
  <2> HIDE DEF u
  <2>5. Live(r) /\ (Threaded(u) => Threaded(v)) /\ u.phase \notin Waiting
    BY <2>1, <2>3 DEF Live, Threaded, Waiting
  <2>6. Stays(r, u)
    BY <2>1, <2>3, <2>4, <2>5 DEF Stays, Loading, elevation
  <2>7. Moves(r, u) /\ Hears(u, {})
    BY <2>1, <2>5, <2>6, StaysMoves
  <2>8. Quiet(r, u)
    BY <2>1, <2>3, <2>5, <2>7 DEF Quiet, Ready, elevation, AtCurrent
  <2> QED
    BY <2>8
<1>3. CASE Cancel(r)
  <2> DEFINE l == IF v.phase \in {"tool", "again"} THEN v.phase ELSE ""
             u == [v EXCEPT !.phase = "stopped", !.late = l]
  <2>1. /\ runs' = [runs EXCEPT ![r].phase = "stopped", ![r].late = l] /\ v.phase \in Waiting
        /\ entry' = [entry EXCEPT !.status = "cancelled"]
        /\ UNCHANGED <<history, elevation, compacting>>
    BY <1>3 DEF Cancel
  <2>2. l \in {"", "tool", "again"}
    OBVIOUS
  <2>a. l # "" => v.phase = l /\ l \in {"tool", "again"}
    OBVIOUS
  <2> HIDE DEF l
  <2>3. /\ u \in Run(u.sent) /\ u.phase = "stopped" /\ u.late = l /\ u.round = v.round
        /\ u.items = v.items /\ u.todo = v.todo
    BY <1>1, <2>2 DEF Run, Phases
  <2>4. runs' = [q \in Runs |-> IF q = r THEN u ELSE runs[q]]
    BY <2>1 DEF Shape
  <2> HIDE DEF u
  <2>5. Live(r) /\ (Threaded(u) => Threaded(v)) /\ u.phase \notin Waiting
    BY <2>1, <2>a, <2>3 DEF Live, Threaded, Waiting
  <2>6. Stays(r, u)
    BY <2>1, <2>3, <2>4, <2>5 DEF Stays, Loading, elevation
  <2>7. Moves(r, u) /\ Hears(u, {})
    BY <2>1, <2>5, <2>6, StaysMoves
  <2>8. Threaded(u) => \A id : AtCurrent(r, id) => u.late = "again"
    BY <1>1, <2>a, <2>3 DEF Threaded, AtCurrent, RunShape
  <2>9. Quiet(r, u)
    BY <2>1, <2>3, <2>5, <2>7, <2>8 DEF Quiet, Ready, elevation
  <2> QED
    BY <2>9
<1> QED
  BY <1>2, <1>3

\* Whatever a run does is quiet or settles a call.
LEMMA RunSteps ==
    ASSUME Limited, Facts, NEW r \in Runs, RunStep(r)
    PROVE  (\E u : Quiet(r, u)) \/ (\E u, how : Settles(r, u, how))
<1> USE DEF Facts
<1>1. CASE LoadCodex(r) \/ LoadAnthropic(r) \/ LoadOpenRouter(r)
  BY <1>1, LoadQuiet
<1>2. CASE \/ NoKey(r) \/ Answer(r) \/ RequestFailsCodex(r) \/ RequestFailsAnthropic(r)
           \/ RequestFailsOpenRouter(r) \/ Raises(r)
  BY <1>2, EndsQuiet
<1>3. CASE TriesAgain(r)
  BY <1>3, TriesAgainQuiet
<1>4. CASE \E n \in 1..2 : WantsToolsCodex(r, n) \/ WantsToolsAnthropic(r, n) \/ WantsToolsOpenRouter(r, n)
  BY <1>4, WantsQuiet
<1>5. CASE Pauses(r)
  BY <1>5, PausesQuiet
<1>6. CASE \/ Execute(r) \/ PollDenied(r) \/ ExecuteApproved(r)
           \/ RequestElevation(r) /\ (runs[r].late # "" \/ runs[r].paused)
  BY <1>6, ToolSettles
<1>7. CASE RequestElevation(r) /\ ~(runs[r].late # "" \/ runs[r].paused)
  BY <1>7, AsksQuiet
<1>8. CASE PollApproved(r)
  BY <1>8, ApprovedQuiet
<1>9. CASE Finally(r) \/ Cancel(r)
  BY <1>9, CloseQuiet
<1> QED
  BY <1>1, <1>2, <1>3, <1>4, <1>5, <1>6, <1>7, <1>8, <1>9 DEF RunStep

----------------------------------------------------------------------------
(* A run's step keeps the invariant.                                       *)

LEMMA BecomesRuns ==
    ASSUME NEW r \in Runs, NEW u, Becomes(r, u)
    PROVE  runs'[r] = u /\ \A q \in Runs : q # r => runs'[q] = runs[q]
BY DEF Becomes

LEMMA MovesShape ==
    ASSUME Shape, NEW r \in Runs, NEW u, Moves(r, u), performed' \in Seq(Ids), asked' \subseteq Ids,
           refused' \subseteq Ids, approved' \subseteq asked'
    PROVE  Shape'
<1>1. runs' = [q \in Runs |-> runs'[q]]
  BY DEF Moves, Becomes
<1>2. \A q \in Runs : RunShape(q, runs'[q])
  BY DEF Moves, Becomes, Shape
<1>3. entry' = [status |-> entry'.status, run |-> entry'.run]
  <2>1. PICK st, n : entry = [status |-> st, run |-> n]
    BY DEF Shape
  <2>2. [[status |-> st, run |-> n] EXCEPT !.status = "done"] = [status |-> "done", run |-> n]
    OBVIOUS
  <2>3. [[status |-> st, run |-> n] EXCEPT !.status = "cancelled"] = [status |-> "cancelled", run |-> n]
    OBVIOUS
  <2>4. PICK w : entry' = [status |-> w, run |-> n]
    BY <2>1, <2>2, <2>3 DEF Moves
  <2> QED
    BY <2>4
<1> QED
  BY <1>1, <1>2, <1>3 DEF Shape, Moves, RunShape

LEMMA MovesAlone ==
    ASSUME Shape, Alone, NEW r \in Runs, NEW u, Moves(r, u), UNCHANGED features
    PROVE  Alone'
<1>1. runs'[r] = u /\ \A q \in Runs : q # r => runs'[q] = runs[q]
  BY BecomesRuns DEF Moves
<1>2. \A q \in Runs : Live(q)' => Live(q)
  BY <1>1 DEF Live, Moves, Waiting
<1>3. ASSUME features \cap {"early", "reap"} = {}, NEW q \in Runs, runs'[q].phase \in Waiting
      PROVE  entry' = [status |-> "running", run |-> q]
  <2>1. runs[q].phase \in Waiting
    BY <1>1, <1>3 DEF Moves
  <2>2. entry = [status |-> "running", run |-> q] /\ Live(q)
    BY <1>3, <2>1 DEF Alone, Live
  <2>3. CASE entry' = entry
    BY <2>2, <2>3
  <2>4. CASE entry' # entry
    <3>1. Live(r) /\ u.phase \notin Waiting
      BY <2>4 DEF Moves
    <3>2. q = r
      BY <1>3, <2>2, <3>1 DEF Alone
    <3> QED
      BY <1>1, <1>3, <3>1, <3>2
  <2> QED
    BY <2>3, <2>4
<1> QED
  BY <1>2, <1>3 DEF Alone

LEMMA MovesKept ==
    ASSUME Shape, Alone, Kept, NEW r \in Runs, NEW u, Moves(r, u), UNCHANGED features
    PROVE  /\ Kept'
           /\ features \cap {"early", "reap", "beside"} = {} => Follows(history, history')
<1> SUFFICES ASSUME features \cap {"early", "reap", "beside"} = {}
             PROVE  /\ compacting' # <<>> => \A q \in Runs : ~Live(q)'
                    /\ \A q \in Runs : runs'[q].phase \in Loading => Follows(history', runs'[q].items)
                    /\ Follows(history, history')
  BY DEF Kept, Loading
<1>1. runs'[r] = u /\ \A q \in Runs : q # r => runs'[q] = runs[q]
  BY BecomesRuns DEF Moves
<1>2. \A q \in Runs : Live(q)' => Live(q)
  BY <1>1 DEF Live, Moves, Waiting
<1>3. history \in Seq(Items) /\ Follows(history, history)
  BY GrowsItself DEF Shape, Grows
<1>4. \A q \in Runs : runs[q].phase \in Loading => Follows(history, runs[q].items) /\ Live(q)
  BY DEF Kept, Loading, Live
<1>5. Follows(history, history')
  <2>1. CASE runs[r].phase \in Loading /\ Follows(runs[r].items, history')
    BY <1>4, <2>1 DEF Follows
  <2> QED
    BY <1>3, <2>1 DEF Moves
<1>6. ASSUME NEW q \in Runs, runs'[q].phase \in Loading
      PROVE  Follows(history', runs'[q].items)
  <2>1. CASE q # r
    <3>1. Live(q) /\ Follows(history, runs[q].items) /\ runs'[q] = runs[q]
      BY <1>1, <1>4, <1>6, <2>1
    <3>2. ~Live(r)
      BY <2>1, <3>1 DEF Alone
    <3>3. history' = history
      BY <3>2 DEF Moves, Loading, Live
    <3> QED
      BY <3>1, <3>3
  <2>2. CASE q = r
    <3>1. \/ history' = history /\ Follows(history, u.items)
          \/ /\ runs[r].phase \in Loading /\ Follows(runs[r].items, u.items)
             /\ history' = history \/ history' = u.items
      BY <1>1, <1>6, <2>2 DEF Moves
    <3>2. u.items \in Seq(Items)
      BY DEF Moves, Becomes, RunShape, Run
    <3>3. Follows(u.items, u.items)
      BY <3>2, GrowsItself DEF Grows
    <3>4. runs[r].phase \in Loading /\ Follows(runs[r].items, u.items) => Follows(history, u.items)
      BY <1>4 DEF Follows
    <3> QED
      BY <1>1, <2>2, <3>1, <3>3, <3>4
  <2> QED
    BY <2>1, <2>2
<1>7. compacting' # <<>> => \A q \in Runs : ~Live(q)'
  BY <1>2 DEF Kept, Moves
<1> QED
  BY <1>5, <1>6, <1>7

\* Rounds go on, so that what was begun stays in the past.
LEMMA PastStays ==
    ASSUME Limited, Shape, NEW r \in Runs, NEW u, Moves(r, u),
           Ready(u) => Ready(runs[r]) \/ runs[r].round < u.round, NEW id, Past(id)
    PROVE  Past(id)'
<1>1. runs'[r] = u /\ \A q \in Runs : q # r => runs'[q] = runs[q]
  BY BecomesRuns DEF Moves
<1>2. CASE id[1] # r
  <2>1. id[1] \in Runs
    BY DEF Past, Ids
  <2> QED
    BY <1>1, <1>2, <2>1 DEF Past
<1>3. CASE id[1] = r
  <2>1. runs[r].round \in Nat /\ u.round \in Nat /\ id[2] \in Nat /\ runs[r].round <= u.round
    BY RunFacts DEF Moves, Becomes, RunShape, Run, Past, Ids
  <2>2. id[2] <= u.round
    BY <1>3, <2>1 DEF Past
  <2>3. Ready(u) => id[2] < u.round
    BY <1>3, <2>1 DEF Past
  <2> QED
    BY <1>1, <1>3, <2>2, <2>3 DEF Past
<1> QED
  BY <1>2, <1>3

LEMMA HeldAfter ==
    ASSUME NEW r \in Runs, NEW u, NEW got, Moves(r, u), Hears(u, got)
    PROVE  \A i : Held(i)' => Held(i) \/ Plain(i) \/ i \in got
<1>1. runs'[r] = u /\ \A q \in Runs : q # r => runs'[q] = runs[q]
  BY BecomesRuns DEF Moves
<1>2. compacting' = compacting
  BY DEF Moves
<1> QED
  BY <1>1, <1>2 DEF Hears, Held

LEMMA CallOwner ==
    ASSUME Shape, NEW r \in Runs, Threaded(runs[r]), NEW id \in Elements(runs[r].todo)
    PROVE  id \in Ids /\ id[1] = r /\ id[2] = runs[r].round
<1>1. RunShape(r, runs[r]) /\ runs[r].todo \in Seq(Ids)
  BY CurrentFacts, RunFacts
<1>2. PICK k \in DOMAIN runs[r].todo : id = runs[r].todo[k]
  BY DEF Elements
<1>3. id \in Ids
  BY <1>1, <1>2
<1> QED
  BY <1>1, <1>2, <1>3 DEF RunShape

LEMMA QuietTruth ==
    ASSUME Limited, Shape, Truth, NEW r \in Runs, NEW u, Quiet(r, u)
    PROVE  Truth'
<1>0. PICK c : c = Current(r)
  OBVIOUS
<1>1. runs'[r] = u /\ \A q \in Runs : q # r => runs'[q] = runs[q]
  BY BecomesRuns DEF Quiet, Moves
<1>2. \A i : Held(i)' => Held(i) \/ Plain(i)
  BY HeldAfter DEF Quiet
<1>3. \A id : (Did(id)' <=> Did(id)) /\ (Reported(id)' => Reported(id))
  BY <1>2 DEF Quiet, Did, Reported, Plain
<1>4. asked' # asked => /\ asked' = asked \cup {c} /\ Threaded(u) /\ u.phase = "asking"
                        /\ c \in Elements(runs[r].todo) /\ Threaded(runs[r])
                        /\ u.todo = runs[r].todo /\ runs[r].phase = "tool"
  <2> SUFFICES ASSUME asked' # asked
               PROVE  /\ asked' = asked \cup {c} /\ Threaded(u) /\ u.phase = "asking"
                      /\ c \in Elements(runs[r].todo) /\ Threaded(runs[r])
                      /\ u.todo = runs[r].todo /\ runs[r].phase = "tool"
    OBVIOUS
  <2>1. asked' = asked \cup {c} /\ u.phase = "asking"
    BY <1>0 DEF Quiet
  <2>2. Threaded(u)
    BY <2>1 DEF Threaded
  <2>3. u.todo \in Seq(Ids) /\ u.todo # <<>>
    BY <2>2 DEF Quiet, Moves, Becomes, RunShape, Run
  <2>4. Head(u.todo) \in Elements(u.todo)
    BY <2>3 DEF Elements
  <2>5. Threaded(runs[r]) /\ u.todo = runs[r].todo /\ runs[r].phase = "tool"
    BY <2>2, <2>4 DEF Quiet
  <2> QED
    BY <1>0, <2>1, <2>2, <2>4, <2>5 DEF Current
<1>5. \A id : Met(id)' => Met(id) \/ (asked' # asked /\ id = c)
  <2>1. asked' # asked => asked' = asked \cup {c}
    BY <1>4
  <2>2. refused' = refused
    BY DEF Quiet
  <2> QED
    BY <2>1, <2>2 DEF Met
<1>6. \A id : Past(id) => Past(id)'
  BY PastStays DEF Quiet
<1>7. asked' # asked => Past(c)'
  <2> SUFFICES ASSUME asked' # asked PROVE Past(c)'
    OBVIOUS
  <2>1. c \in Ids /\ c[1] = r /\ c[2] = runs[r].round
    BY <1>4, CallOwner
  <2>2. ~Ready(u)
    BY <1>4 DEF Ready
  <2>3. runs[r].round <= u.round
    BY DEF Quiet, Moves
  <2> QED
    BY <1>1, <2>1, <2>2, <2>3 DEF Past
<1>8. \A id : Did(id)' \/ Met(id)' \/ Reported(id)' => Past(id)'
  BY <1>3, <1>5, <1>6, <1>7 DEF Truth
<1>9. ASSUME NEW q \in Runs, Threaded(runs'[q]), NEW id \in Elements(runs'[q].todo)
      PROVE  ~Did(id)' /\ ~Reported(id)' /\ (Met(id)' => AtCurrent(q, id)')
  <2>1. CASE q # r
    <3>1. runs'[q] = runs[q] /\ Threaded(runs[q]) /\ id \in Elements(runs[q].todo)
      BY <1>1, <1>9, <2>1
    <3>2. ~Did(id) /\ ~Reported(id) /\ (Met(id) => AtCurrent(q, id))
      BY <3>1 DEF Truth
    <3>3. ~(asked' # asked /\ id = c)
      BY <1>4, <2>1, <3>1, CallOwner
    <3>4. AtCurrent(q, id) => AtCurrent(q, id)'
      BY <3>1 DEF AtCurrent
    <3> QED
      BY <1>3, <1>5, <3>2, <3>3, <3>4
  <2>2. CASE q = r
    <3>1. Threaded(u) /\ id \in Elements(u.todo)
      BY <1>1, <1>9, <2>2
    <3>2. CASE Threaded(runs[r]) /\ u.todo = runs[r].todo
               /\ (AtCurrent(r, id) => u.phase \in {"asking", "again"} \/ u.late = "again")
      <4>1. ~Did(id) /\ ~Reported(id) /\ (Met(id) => AtCurrent(r, id))
        BY <3>1, <3>2 DEF Truth
      <4>2. AtCurrent(r, id) => AtCurrent(r, id)'
        BY <1>1, <3>2 DEF AtCurrent
      <4>3. asked' # asked /\ id = c => AtCurrent(r, id)'
        BY <1>0, <1>1, <1>4, <3>2 DEF AtCurrent, Current
      <4> QED
        BY <1>3, <1>5, <2>2, <4>1, <4>2, <4>3
    <3>3. CASE Ready(runs[r]) /\ id[1] = r /\ id[2] = runs[r].round /\ asked' = asked
      <4>1. runs[r].round \in Nat
        BY RunFacts
      <4>2. ~Past(id)
        BY <3>3, <4>1 DEF Past
      <4>3. ~Did(id) /\ ~Met(id) /\ ~Reported(id)
        BY <4>2 DEF Truth
      <4> QED
        BY <1>3, <1>5, <3>3, <4>3
    <3> QED
      BY <3>1, <3>2, <3>3 DEF Quiet
  <2> QED
    BY <2>1, <2>2
<1>10. \A i : Held(i)' /\ ~Plain(i) => (Did(i.id)' <=> i.how = "done")
  BY <1>2, <1>3 DEF Truth
<1>11. asked' \cap refused' = {}
  <2>1. asked' # asked => c \notin refused
    <3> SUFFICES ASSUME asked' # asked PROVE ~Met(c)
      BY DEF Met
    <3>1. runs[r].late = ""
      BY <1>4, RunFacts DEF RunShape
    <3>2. ~AtCurrent(r, c)
      BY <1>4, <3>1 DEF AtCurrent
    <3> QED
      BY <1>4, <3>2 DEF Truth
  <2> QED
    BY <1>4, <2>1 DEF Quiet, Truth
<1>12. Apart(performed)'
  BY DEF Truth, Quiet, Apart
<1> QED
  BY <1>8, <1>9, <1>10, <1>11, <1>12 DEF Truth

LEMMA PerformedOnce ==
    ASSUME NEW s \in Seq(Ids), NEW c \in Ids, Apart(s), c \notin Elements(s), NEW t, t = Append(s, c)
    PROVE  /\ t \in Seq(Ids) /\ Apart(t)
           /\ \A id : id \in Elements(t) <=> id \in Elements(s) \/ id = c
<1>1. /\ t \in Seq(Ids) /\ Len(t) = Len(s) + 1 /\ Len(s) \in Nat
      /\ \A k \in 1..(Len(s) + 1) : t[k] = IF k = Len(s) + 1 THEN c ELSE s[k]
  OBVIOUS
<1>2. DOMAIN t = 1..(Len(s) + 1) /\ DOMAIN s = 1..Len(s)
  BY <1>1
<1>3. \A k \in 1..(Len(s) + 1) : k = Len(s) + 1 \/ k \in 1..Len(s)
  BY <1>1
<1>4. \A k \in 1..Len(s) : k \in 1..(Len(s) + 1) /\ k # Len(s) + 1
  BY <1>1
<1>5. Apart(t)
  BY <1>1, <1>2, <1>3, <1>4 DEF Apart, Elements
<1>6. \A id : id \in Elements(t) <=> id \in Elements(s) \/ id = c
  <2>1. Len(s) + 1 \in 1..(Len(s) + 1)
    BY <1>1
  <2> QED
    BY <1>1, <1>2, <1>3, <1>4, <2>1 DEF Elements
<1> QED
  BY <1>1, <1>5, <1>6

LEMMA SettlesTruth ==
    ASSUME Limited, Shape, Truth, NEW r \in Runs, NEW u, NEW how, Settles(r, u, how)
    PROVE  Truth' /\ performed' \in Seq(Ids)
<1>c. PICK c : c = Current(r)
  OBVIOUS
<1>0. /\ Threaded(runs[r]) /\ Turn(r, u, how) /\ how \in Hows \ {"lost"} /\ refused' = refused
      /\ Moves(r, u)
  BY DEF Settles, Turn
<1>1. runs'[r] = u /\ \A q \in Runs : q # r => runs'[q] = runs[q]
  BY <1>0, BecomesRuns DEF Moves
<1>2. \A i : Held(i)' => Held(i) \/ Plain(i) \/ i = Told(r, how)
  BY <1>0, HeldAfter DEF Turn
<1>3. c \in Ids /\ c \in Elements(runs[r].todo) /\ c[1] = r /\ c[2] = runs[r].round
  BY <1>0, <1>c, CurrentFacts, CallOwner
<1>4. ~Did(c) /\ ~Reported(c) /\ (Met(c) => AtCurrent(r, c))
  BY <1>0, <1>3 DEF Truth
<1>5. /\ performed' \in Seq(Ids) /\ Apart(performed')
      /\ \A id : Did(id)' <=> Did(id) \/ (how = "done" /\ id = c)
  <2>1. performed \in Seq(Ids) /\ Apart(performed) /\ c \notin Elements(performed)
    BY <1>4 DEF Shape, Truth, Did
  <2>2. CASE how = "done"
    <3>1. performed' = Append(performed, c)
      BY <1>c, <2>2 DEF Settles
    <3>2. /\ performed' \in Seq(Ids) /\ Apart(performed')
          /\ \A id : id \in Elements(performed') <=> id \in Elements(performed) \/ id = c
      BY <1>3, <2>1, <3>1, PerformedOnce
    <3> QED
      BY <2>2, <3>2 DEF Did
  <2>3. CASE how # "done"
    <3>1. performed' = performed
      BY <2>3 DEF Settles
    <3> QED
      BY <2>1, <2>3, <3>1 DEF Did
  <2> QED
    BY <2>2, <2>3
<1>6. \A id : Met(id)' => Met(id) \/ id = c
  BY <1>c DEF Settles, Met
<1>7. \A id : Reported(id)' => Reported(id) \/ id = c
  <2>1. Told(r, how).id = c
    BY <1>c DEF Told, Out
  <2> QED
    BY <1>2, <2>1 DEF Reported, Plain
<1>8. Ready(u) => runs[r].round < u.round
  BY <1>0 DEF Turn
<1>9. Past(c)'
  <2>1. runs[r].round <= u.round
    BY <1>0 DEF Moves
  <2> QED
    BY <1>1, <1>3, <1>8, <2>1 DEF Past
<1>10. \A id : Past(id) => Past(id)'
  BY <1>0, <1>8, PastStays
<1>11. \A id : Did(id)' \/ Met(id)' \/ Reported(id)' => Past(id)'
  BY <1>5, <1>6, <1>7, <1>9, <1>10 DEF Truth
<1>12. ASSUME NEW q \in Runs, Threaded(runs'[q]), NEW id \in Elements(runs'[q].todo)
       PROVE  ~Did(id)' /\ ~Reported(id)' /\ (Met(id)' => AtCurrent(q, id)')
  <2>1. CASE q # r
    <3>1. runs'[q] = runs[q] /\ Threaded(runs[q]) /\ id \in Elements(runs[q].todo)
      BY <1>1, <1>12, <2>1
    <3>2. ~Did(id) /\ ~Reported(id) /\ (Met(id) => AtCurrent(q, id))
      BY <3>1 DEF Truth
    <3>3. id # c
      BY <1>3, <2>1, <3>1, CallOwner
    <3>4. AtCurrent(q, id) => AtCurrent(q, id)'
      BY <3>1 DEF AtCurrent
    <3> QED
      BY <1>5, <1>6, <1>7, <3>2, <3>3, <3>4
  <2>2. CASE q = r
    <3>1. id \in Elements(runs[r].todo) /\ id # c
      BY <1>0, <1>c, <1>1, <1>12, <2>2 DEF Turn
    <3>2. ~Did(id) /\ ~Reported(id) /\ (Met(id) => AtCurrent(r, id))
      BY <1>0, <3>1 DEF Truth
    <3>3. ~AtCurrent(r, id)
      BY <1>c, <3>1 DEF AtCurrent, Current
    <3> QED
      BY <1>5, <1>6, <1>7, <3>1, <3>2, <3>3
  <2> QED
    BY <2>1, <2>2
<1>13. ASSUME NEW i, Held(i)', ~Plain(i)
       PROVE  Did(i.id)' <=> i.how = "done"
  <2>1. CASE Held(i)
    <3>1. Reported(i.id)
      BY <1>13, <2>1 DEF Reported
    <3>2. i.id # c
      BY <1>4, <3>1
    <3> QED
      BY <1>5, <1>13, <2>1, <3>2 DEF Truth
  <2>2. CASE i = Told(r, how)
    <3>1. i.id = c /\ i.how = how
      BY <1>c, <2>2 DEF Told, Out
    <3> QED
      BY <1>4, <1>5, <3>1
  <2> QED
    BY <1>2, <1>13, <2>1, <2>2
<1>14. asked' \cap refused' = {}
  <2>1. CASE asked' = asked \cup {c}
             /\ runs[r].phase \notin {"asking", "again"} /\ runs[r].late # "again"
    <3>1. c \notin refused
      BY <1>4, <2>1 DEF Met, AtCurrent
    <3> QED
      BY <1>0, <2>1, <3>1 DEF Truth
  <2>2. CASE asked' \subseteq asked
    BY <1>0, <2>2 DEF Truth
  <2> QED
    BY <1>c, <2>1, <2>2 DEF Settles
<1> QED
  BY <1>5, <1>11, <1>12, <1>13, <1>14 DEF Truth

----------------------------------------------------------------------------
(* What else may happen.                                                   *)

\* No run changes: the user, the reaper, a compaction.
LEMMA StillTruth ==
    ASSUME Truth, UNCHANGED <<runs, performed>>,
           \A i : Held(i)' => Held(i) \/ Plain(i),
           \A id : Met(id)' => Met(id), asked' \cap refused' = {}
    PROVE  Truth'
<1>1. \A id : (Did(id)' <=> Did(id)) /\ (Reported(id)' => Reported(id)) /\ (Past(id)' <=> Past(id))
  BY DEF Did, Reported, Past
<1>2. \A r \in Runs : \A id : AtCurrent(r, id) <=> AtCurrent(r, id)'
  BY DEF AtCurrent
<1>3. \A id : Did(id)' \/ Met(id)' \/ Reported(id)' => Past(id)'
  BY <1>1 DEF Truth
<1>4. ASSUME NEW r \in Runs, Threaded(runs'[r]), NEW id \in Elements(runs'[r].todo)
      PROVE  ~Did(id)' /\ ~Reported(id)' /\ (Met(id)' => AtCurrent(r, id)')
  <2>1. Threaded(runs[r]) /\ id \in Elements(runs[r].todo)
    BY <1>4
  <2> QED
    BY <1>1, <1>2, <2>1 DEF Truth
<1>5. \A i : Held(i)' /\ ~Plain(i) => (Did(i.id)' <=> i.how = "done")
  BY <1>1 DEF Truth
<1>6. Apart(performed)'
  BY DEF Truth, Apart
<1> QED
  BY <1>3, <1>4, <1>5, <1>6 DEF Truth

LEMMA UserKeeps ==
    ASSUME Facts, UNCHANGED <<history, compacting, runs, performed, entry, features>>,
           asked' \subseteq asked, approved' \subseteq asked', granted' \subseteq {"all", "elevated"},
           asked' \cap refused' = {}, refused' \subseteq refused \cup asked
    PROVE  Facts'
<1>1. Shape'
  BY DEF Facts, Shape, RunShape
<1>2. Alone'
  BY DEF Facts, Alone, Live
<1>3. Kept'
  BY DEF Facts, Kept, Live
<1>4. \A i : Held(i)' => Held(i)
  BY DEF Held
<1>5. \A id : Met(id)' => Met(id)
  BY DEF Met
<1>6. Truth'
  BY <1>4, <1>5, StillTruth DEF Facts
<1> QED
  BY <1>1, <1>2, <1>3, <1>6 DEF Facts

LEMMA UserSteps ==
    ASSUME Facts, UNCHANGED features,
           \/ \E id \in asked : Approve(id) \/ Deny(id)
           \/ ClearSession \/ Expire \/ Grant
    PROVE  Facts'
<1>1. approved \subseteq asked /\ granted \subseteq {"all", "elevated"} /\ asked \cap refused = {}
  BY DEF Facts, Shape, Truth
<1>2. UNCHANGED <<history, compacting, runs, performed, entry>>
  BY DEF Approve, Deny, ClearSession, Expire, Grant
<1>3. /\ asked' \subseteq asked /\ approved' \subseteq asked' /\ asked' \cap refused' = {}
      /\ refused' \subseteq refused \cup asked
  BY <1>1 DEF Approve, Deny, ClearSession, Expire, Grant, Dropped
<1>4. granted' \subseteq {"all", "elevated"}
  BY <1>1 DEF Approve, Deny, ClearSession, Expire, Grant
<1> QED
  BY <1>2, <1>3, <1>4, UserKeeps

LEMMA ReapKeeps ==
    ASSUME Facts, UNCHANGED features, ReapEntry
    PROVE  Facts'
<1>1. Shape'
  BY DEF Facts, Shape, RunShape, ReapEntry, elevation
<1>2. "reap" \in features
  BY DEF ReapEntry, May
<1>3. Alone' /\ Kept'
  BY <1>2 DEF Alone, Kept
<1>4. /\ \A i : Held(i)' => Held(i)
      /\ \A id : Met(id)' => Met(id)
      /\ UNCHANGED <<runs, performed, asked, refused>>
  BY DEF Held, Met, ReapEntry, elevation
<1>5. Truth'
  BY <1>4, StillTruth DEF Facts, Truth
<1> QED
  BY <1>1, <1>3, <1>5 DEF Facts

LEMMA CompactKeeps ==
    ASSUME Limited, Facts, UNCHANGED features, CompactStarts \/ CompactEnds
    PROVE  Facts' /\ Follows(history, history')
<1>0. UNCHANGED <<entry, runs, elevation>>
  BY DEF CompactStarts, CompactEnds
<1>1. history \in Seq(Items) /\ compacting \in Seq(Items) /\ Follows(history, history)
  BY GrowsItself DEF Facts, Shape, Grows
<1>2. /\ history' \in Seq(Items) /\ compacting' \in Seq(Items)
      /\ compacting' # <<>> => Len(compacting') > Keep
      /\ Follows(history, history')
      /\ \A i : Held(i)' => Held(i) \/ Plain(i)
      /\ compacting' # <<>> => "beside" \in features \/ \A r \in Runs : ~Live(r)
      /\ history' = history \/ compacting # <<>>
  <2>1. CASE CompactStarts
    <3>1. compacting' = history /\ history' = history /\ Len(history) > Keep
          /\ ("beside" \in features \/ \A r \in Runs : ~Live(r))
      BY <2>1 DEF CompactStarts
    <3> QED
      BY <1>0, <1>1, <3>1 DEF Held
  <2>2. CASE CompactEnds
    <3>1. history' = CompactMessages(compacting) /\ compacting' = <<>> /\ compacting # <<>>
      BY <2>2 DEF CompactEnds
    <3>2. Len(compacting) > Keep
      BY <3>1 DEF Facts, Shape
    <3>3. Grows(compacting, history') /\ Headed(history')
      BY <1>1, <3>1, <3>2, CompactGrows
    <3>4. \A i \in Elements(compacting') : FALSE
      BY <3>1 DEF Elements
    <3> QED
      BY <1>0, <1>1, <3>1, <3>3, <3>4 DEF Grows, Follows, Held
  <2> QED
    BY <2>1, <2>2
<1>3. Shape'
  BY <1>0, <1>2 DEF Facts, Shape, RunShape, elevation
<1>4. Alone'
  BY <1>0 DEF Facts, Alone, Live
<1>5. Kept'
  <2> SUFFICES ASSUME features \cap {"early", "reap", "beside"} = {}
               PROVE  /\ compacting' # <<>> => \A r \in Runs : ~Live(r)
                      /\ \A r \in Runs : runs[r].phase \in Loading => Follows(history', runs[r].items)
    BY <1>0 DEF Kept, Live, Loading
  <2>1. compacting # <<>> => \A r \in Runs : runs[r].phase \notin Loading
    BY DEF Facts, Kept, Live, Loading
  <2>2. \A r \in Runs : runs[r].phase \in Loading => Follows(history, runs[r].items)
    BY DEF Facts, Kept, Loading
  <2> QED
    BY <1>2, <2>1, <2>2
<1>6. (\A id : Met(id)' => Met(id)) /\ asked' \cap refused' = {} /\ UNCHANGED performed
  BY <1>0 DEF Facts, Truth, Met, elevation
<1>7. Truth'
  BY <1>0, <1>2, <1>6, StillTruth DEF Facts
<1> QED
  BY <1>2, <1>3, <1>4, <1>5, <1>7 DEF Facts

LEMMA RestartKeeps ==
    ASSUME Facts, UNCHANGED features, Restart
    PROVE  Facts'
<1>1. /\ entry' = [status |-> "none", run |-> 0]
      /\ asked' = {} /\ approved' = {} /\ granted' = {} /\ compacting' = <<>>
      /\ refused' = refused \cup asked /\ UNCHANGED <<history, performed>>
      /\ runs' = [r \in Runs |-> IF runs[r].phase = "new" THEN runs[r]
                                 ELSE [runs[r] EXCEPT !.phase = "ended", !.late = ""]]
  BY DEF Restart
<1>2. ASSUME NEW r \in Runs
      PROVE  /\ RunShape(r, runs'[r]) /\ ~Threaded(runs'[r]) /\ runs'[r].items = runs[r].items
             /\ runs'[r].round = runs[r].round /\ runs'[r].phase \in {"new", "ended"}
             /\ Ready(runs'[r]) => Ready(runs[r])
  <2>1. RunShape(r, runs[r]) /\ runs[r] \in Run(runs[r].sent)
    BY RunFacts DEF Facts
  <2>2. CASE runs[r].phase = "new"
    <3>1. runs'[r] = runs[r]
      BY <1>1, <2>2
    <3> QED
      BY <2>1, <2>2, <3>1 DEF Threaded, RunShape
  <2>3. CASE runs[r].phase # "new"
    <3> DEFINE u == [runs[r] EXCEPT !.phase = "ended", !.late = ""]
    <3>1. runs'[r] = u
      BY <1>1, <2>3
    <3>2. /\ u \in Run(runs[r].sent) /\ u.sent = runs[r].sent /\ u.phase = "ended" /\ u.late = ""
          /\ u.items = runs[r].items /\ u.round = runs[r].round /\ u.todo = runs[r].todo
      BY <2>1 DEF Run, Phases
    <3> HIDE DEF u
    <3>3. ~Threaded(u) /\ ~Ready(u)
      BY <3>2 DEF Threaded, Ready
    <3>4. RunShape(r, u)
      BY <2>1, <3>2, <3>3 DEF RunShape
    <3> QED
      BY <3>1, <3>2, <3>3, <3>4
  <2> QED
    BY <2>2, <2>3
<1>3. runs' = [r \in Runs |-> runs'[r]]
  BY <1>1
<1>4. Shape'
  <2>1. <<>> \in Seq(Items)
    OBVIOUS
  <2> QED
    BY <1>1, <1>2, <1>3, <2>1 DEF Facts, Shape
<1>5. \A r \in Runs : ~Live(r)' /\ runs'[r].phase \notin Waiting
  BY <1>2 DEF Live, Waiting
<1>6. Alone' /\ Kept'
  BY <1>1, <1>5 DEF Alone, Kept
<1>7. \A i : Held(i)' => Held(i)
  <2>1. compacting' = <<>>
    BY <1>1
  <2>2. \A i : i \notin Elements(compacting')
    BY <2>1, NothingElements
  <2>3. history' = history /\ \A r \in Runs : runs'[r].items = runs[r].items
    BY <1>1, <1>2
  <2> QED
    BY <2>2, <2>3 DEF Held
<1>8. \A id : /\ (Did(id)' <=> Did(id)) /\ (Met(id)' <=> Met(id)) /\ (Reported(id)' => Reported(id))
              /\ (Past(id) => Past(id)')
  <2>1. \A id : Past(id) => Past(id)'
    <3> SUFFICES ASSUME NEW id, Past(id) PROVE Past(id)'
      OBVIOUS
    <3>1. id[1] \in Runs
      BY DEF Past, Ids
    <3>2. runs'[id[1]].round = runs[id[1]].round /\ (Ready(runs'[id[1]]) => Ready(runs[id[1]]))
      BY <1>2, <3>1
    <3> QED
      BY <3>2 DEF Past
  <2> QED
    BY <1>1, <1>7, <2>1 DEF Did, Met, Reported
<1>9. Truth'
  <2>1. Apart(performed)' /\ asked' \cap refused' = {}
    BY <1>1 DEF Facts, Truth, Apart
  <2>2. \A id : Did(id)' \/ Met(id)' \/ Reported(id)' => Past(id)'
    BY <1>8 DEF Facts, Truth
  <2>3. \A i : Held(i)' /\ ~Plain(i) => (Did(i.id)' <=> i.how = "done")
    BY <1>7, <1>8 DEF Facts, Truth
  <2> QED
    BY <1>2, <2>1, <2>2, <2>3 DEF Truth
<1> QED
  BY <1>4, <1>6, <1>9 DEF Facts

----------------------------------------------------------------------------
(* The invariant.                                                          *)

\* A message without which no other run is there, unless runs may overlap.
LEMMA MessageKeeps ==
    ASSUME Facts, UNCHANGED features, NEW r \in Runs, Message(r),
           "beside" \in features \/ compacting = <<>>
    PROVE  Facts'
<1> DEFINE u == [runs[r] EXCEPT !.phase = "load"]
<1>1. /\ runs[r].phase = "new" /\ entry.status # "running"
      /\ "early" \in features \/ \A q \in Runs : runs[q].phase \notin {"marked", "stopped"}
      /\ entry' = [status |-> "running", run |-> r] /\ runs' = [runs EXCEPT ![r] = u]
      /\ UNCHANGED <<history, asked, approved, granted, performed, refused, compacting>>
  BY DEF Message, elevation
<1>2. RunShape(r, runs[r]) /\ runs[r] \in Run(runs[r].sent) /\ runs = [q \in Runs |-> runs[q]]
  BY RunFacts DEF Facts, Shape
<1>3. /\ u \in Run(runs[r].sent) /\ u.sent = runs[r].sent /\ u.phase = "load"
      /\ u.late = runs[r].late /\ u.items = runs[r].items /\ u.round = runs[r].round
      /\ u.todo = runs[r].todo
  BY <1>2 DEF Run, Phases, Waiting
<1> HIDE DEF u
<1>4. runs' = [q \in Runs |-> IF q = r THEN u ELSE runs[q]]
  BY <1>1, <1>2
<1>5. runs'[r] = u /\ \A q \in Runs : q # r => runs'[q] = runs[q]
  BY <1>4
<1>6. ~Threaded(u) /\ Ready(u) /\ Ready(runs[r]) /\ u.late = "" /\ ~Live(r)
  BY <1>1, <1>2, <1>3 DEF Threaded, Ready, RunShape, Live, Waiting
<1>7. RunShape(r, u)
  BY <1>2, <1>3, <1>6 DEF RunShape
<1>8. Shape'
  <2>1. runs' = [q \in Runs |-> runs'[q]]
    BY <1>4
  <2>2. \A q \in Runs : RunShape(q, runs'[q])
    BY <1>5, <1>7 DEF Facts, Shape
  <2>3. entry' = [status |-> entry'.status, run |-> entry'.run]
    BY <1>1
  <2> QED
    BY <1>1, <2>1, <2>2, <2>3 DEF Facts, Shape
<1>9. Alone'
  <2> SUFFICES ASSUME features \cap {"early", "reap"} = {}
               PROVE  /\ \A q \in Runs : runs'[q].phase \in Waiting
                            => entry' = [status |-> "running", run |-> q]
                      /\ \A p, q \in Runs : Live(p)' /\ Live(q)' => p = q
    BY DEF Alone
  <2>1. \A q \in Runs : runs[q].phase \notin Waiting
    BY <1>1 DEF Facts, Alone
  <2>2. \A q \in Runs : ~Live(q)
    BY <1>1, <2>1 DEF Live
  <2>3. \A q \in Runs : q # r => ~Live(q)' /\ runs'[q].phase \notin Waiting
    BY <1>5, <2>1, <2>2 DEF Live
  <2> QED
    BY <1>1, <2>3
<1>10. Kept'
  <2> SUFFICES ASSUME features \cap {"early", "reap", "beside"} = {}
               PROVE  /\ compacting' # <<>> => \A q \in Runs : ~Live(q)'
                      /\ \A q \in Runs : runs'[q].phase \in Loading => Follows(history', runs'[q].items)
    BY DEF Kept, Loading
  <2>1. compacting' = <<>>
    BY <1>1
  <2>2. \A q \in Runs : runs[q].phase \in Loading => Follows(history, runs[q].items)
    BY DEF Facts, Kept, Loading
  <2>3. u.phase \notin Loading
    BY <1>3 DEF Loading
  <2> QED
    BY <1>1, <1>5, <2>1, <2>2, <2>3
<1>11. \A i : Held(i)' <=> Held(i)
  <2>1. \A q \in Runs : runs'[q].items = runs[q].items
    BY <1>3, <1>5
  <2> QED
    BY <1>1, <2>1 DEF Held
<1>12. \A id : /\ (Did(id)' <=> Did(id)) /\ (Met(id)' <=> Met(id)) /\ (Reported(id)' <=> Reported(id))
               /\ (Past(id) => Past(id)')
  <2>1. \A id : Past(id) => Past(id)'
    <3> SUFFICES ASSUME NEW id, Past(id) PROVE Past(id)'
      OBVIOUS
    <3>1. id[1] \in Runs
      BY DEF Past, Ids
    <3>2. /\ runs'[id[1]].round = runs[id[1]].round
          /\ Ready(runs'[id[1]]) => Ready(runs[id[1]])
      BY <1>3, <1>5, <1>6, <3>1
    <3> QED
      BY <3>2 DEF Past
  <2> QED
    BY <1>1, <1>11, <2>1 DEF Did, Met, Reported
<1>13. Truth'
  <2>1. Apart(performed)' /\ asked' \cap refused' = {}
    BY <1>1 DEF Facts, Truth, Apart
  <2>2. \A id : Did(id)' \/ Met(id)' \/ Reported(id)' => Past(id)'
    BY <1>12 DEF Facts, Truth
  <2>3. \A i : Held(i)' /\ ~Plain(i) => (Did(i.id)' <=> i.how = "done")
    BY <1>11, <1>12 DEF Facts, Truth
  <2>4. ASSUME NEW q \in Runs, Threaded(runs'[q]), NEW id \in Elements(runs'[q].todo)
        PROVE  ~Did(id)' /\ ~Reported(id)' /\ (Met(id)' => AtCurrent(q, id)')
    <3>1. q # r /\ runs'[q] = runs[q]
      BY <1>5, <1>6, <2>4
    <3>2. Threaded(runs[q]) /\ id \in Elements(runs[q].todo)
      BY <2>4, <3>1
    <3>3. ~Did(id) /\ ~Reported(id) /\ (Met(id) => AtCurrent(q, id))
      BY <3>2 DEF Facts, Truth
    <3>4. AtCurrent(q, id) => AtCurrent(q, id)'
      BY <3>1 DEF AtCurrent
    <3> QED
      BY <1>12, <3>3, <3>4
  <2> QED
    BY <2>1, <2>2, <2>3, <2>4 DEF Truth
<1> QED
  BY <1>8, <1>9, <1>10, <1>13 DEF Facts

\* In the beginning nothing was said and nothing done.
LEMMA InitFacts == Limited /\ Init => Facts
<1> SUFFICES ASSUME Limited, Init PROVE Facts
  OBVIOUS
<1>1. /\ history = <<>> /\ entry = [status |-> "none", run |-> 0] /\ runs = [r \in Runs |-> NewRun]
      /\ asked = {} /\ approved = {} /\ granted = {} /\ performed = <<>> /\ refused = {}
      /\ compacting = <<>>
  BY DEF Init
<1>2. NewRun \in Run(NewRun.sent) /\ NewRun.round = 0 /\ NewRun.phase = "new" /\ NewRun.late = ""
      /\ NewRun.items = <<>> /\ NewRun.todo = <<>>
  <2>1. <<>> \in Seq(Items) /\ <<>> \in Seq(Ids)
    OBVIOUS
  <2> QED
    BY <2>1 DEF NewRun, Run, Phases
<1>3. ~Threaded(NewRun) /\ Apart(NewRun.todo)
  <2>1. ~Threaded(NewRun)
    BY <1>2 DEF Threaded
  <2>2. \A t : t = <<>> => Apart(t)
    BY DEF Apart
  <2> QED
    BY <1>2, <2>1, <2>2
<1>4. NewRun.round < RoundLimit
  <2>1. \A n \in Nat \ {0} : \A z : z = 0 => z < n
    OBVIOUS
  <2> QED
    BY <1>2, <2>1 DEF Limited
<1>5. \A r \in Runs : runs[r] = NewRun
  BY <1>1
<1>6. \A r \in Runs : RunShape(r, runs[r])
  BY <1>2, <1>3, <1>4, <1>5 DEF RunShape
<1>7. Shape
  <2>1. <<>> \in Seq(Items) /\ <<>> \in Seq(Ids)
    OBVIOUS
  <2>2. runs = [r \in Runs |-> runs[r]]
    BY <1>1
  <2>3. entry = [status |-> entry.status, run |-> entry.run]
    BY <1>1
  <2> QED
    BY <1>1, <1>6, <2>1, <2>2, <2>3 DEF Shape
<1>8. \A r \in Runs : ~Live(r) /\ runs[r].phase \notin Waiting /\ ~Threaded(runs[r])
  BY <1>2, <1>3, <1>5 DEF Live, Waiting
<1>9. Alone /\ Kept
  BY <1>1, <1>8 DEF Alone, Kept
<1>10. \A i : ~Held(i)
  <2>1. \A r \in Runs : runs[r].items = <<>>
    BY <1>2, <1>5
  <2> QED
    BY <1>1, <2>1, NothingElements DEF Held
<1>11. \A id : ~Did(id) /\ ~Met(id) /\ ~Reported(id)
  BY <1>1, <1>10, NothingElements DEF Did, Met, Reported
<1>12. Apart(performed)
  BY <1>1 DEF Apart
<1>13. Truth
  BY <1>1, <1>8, <1>10, <1>11, <1>12 DEF Truth
<1> QED
  BY <1>7, <1>9, <1>13 DEF Facts

LEMMA QuietKeeps ==
    ASSUME Limited, Facts, UNCHANGED features, NEW r \in Runs, NEW u, Quiet(r, u)
    PROVE  /\ Facts' /\ performed' = performed
           /\ features \cap {"early", "reap", "beside"} = {} => Follows(history, history')
<1>1. Moves(r, u) /\ UNCHANGED <<performed, refused>>
  BY DEF Quiet
<1>2. asked' \subseteq Ids /\ approved' \subseteq asked'
  <2>1. PICK c : c = Current(r)
    OBVIOUS
  <2>2. asked \subseteq Ids /\ approved \subseteq asked
    BY DEF Facts, Shape
  <2> QED
    BY <2>1, <2>2 DEF Quiet
<1>3. performed' \in Seq(Ids) /\ refused' \subseteq Ids
  BY <1>1 DEF Facts, Shape
<1>4. Shape'
  BY <1>1, <1>2, <1>3, MovesShape DEF Facts
<1>5. Alone'
  BY <1>1, MovesAlone DEF Facts
<1>6. Truth'
  BY QuietTruth DEF Facts
<1> QED
  BY <1>1, <1>4, <1>5, <1>6, MovesKept DEF Facts

LEMMA SettlesKeeps ==
    ASSUME Limited, Facts, UNCHANGED features, NEW r \in Runs, NEW u, NEW how, Settles(r, u, how)
    PROVE  /\ Facts' /\ NoneRefused
           /\ features \cap {"early", "reap", "beside"} = {} => Follows(history, history')
<1>c. PICK c : c = Current(r)
  OBVIOUS
<1>1. Moves(r, u) /\ Threaded(runs[r]) /\ refused' = refused
  BY DEF Settles, Turn
<1>2. c \in Ids
  BY <1>1, <1>c, CurrentFacts, CallOwner DEF Facts
<1>3. asked' \subseteq Ids /\ approved' \subseteq asked' /\ refused' \subseteq Ids
  <2>1. asked \subseteq Ids /\ approved \subseteq asked /\ refused \subseteq Ids
    BY DEF Facts, Shape
  <2>2. \/ asked' = asked /\ approved' = approved
        \/ asked' = asked \cup {c} /\ approved' = approved
        \/ asked' = asked \ {c} /\ approved' = approved \ {c}
    BY <1>c DEF Settles
  <2> QED
    BY <1>1, <1>2, <2>1, <2>2
<1>4. Truth' /\ performed' \in Seq(Ids)
  BY SettlesTruth DEF Facts
<1>5. Shape'
  BY <1>1, <1>3, <1>4, MovesShape DEF Facts
<1>6. Alone'
  BY <1>1, MovesAlone DEF Facts
<1>7. NoneRefused
  <2> SUFFICES ASSUME NEW n \in DOMAIN performed' \ DOMAIN performed
               PROVE  performed'[n] \notin refused
    BY DEF NoneRefused
  <2>1. how = "done" /\ performed' = Append(performed, c) /\ c \notin refused
    BY <1>c DEF Settles
  <2>2. performed \in Seq(Ids)
    BY DEF Facts, Shape
  <2>3. performed'[n] = c
    BY <1>2, <2>1, <2>2
  <2> QED
    BY <2>1, <2>3
<1> QED
  BY <1>1, <1>4, <1>5, <1>6, <1>7, MovesKept DEF Facts

\* A step keeps the invariant, lets nothing that was refused happen, and keeps the history.
LEMMA NextFacts ==
    ASSUME Limited, Facts, [Next]_vars
    PROVE  /\ Facts' /\ NoneRefused
           /\ features \cap {"early", "reap", "beside"} = {} => Follows(history, history')
<1>1. history \in Seq(Items) /\ Follows(history, history)
  BY GrowsItself DEF Facts, Shape, Grows
<1>2. performed' = performed => NoneRefused
  BY DEF NoneRefused
<1>3. CASE UNCHANGED vars
  <2>1. UNCHANGED <<history, entry, runs, asked, approved, granted, performed, refused, compacting,
                    features>>
    BY <1>3 DEF vars, elevation
  <2>2. asked \cap refused = {} /\ approved \subseteq asked /\ granted \subseteq {"all", "elevated"}
    BY DEF Facts, Shape, Truth
  <2>3. Facts'
    BY <2>1, <2>2, UserKeeps
  <2> QED
    BY <1>1, <1>2, <2>1, <2>3
<1>4. CASE Next /\ \E r \in Runs : RunStep(r)
  <2>1. UNCHANGED features
    BY <1>4 DEF Next
  <2>2. PICK r \in Runs : RunStep(r)
    BY <1>4
  <2>3. CASE \E u : Quiet(r, u)
    BY <1>2, <2>1, <2>3, QuietKeeps
  <2>4. CASE \E u, how : Settles(r, u, how)
    BY <2>1, <2>4, SettlesKeeps
  <2> QED
    BY <2>2, <2>3, <2>4, RunSteps
<1>5. CASE Next /\ \E r \in Runs : Message(r) /\ ("beside" \in features \/ compacting = <<>>)
  <2>1. UNCHANGED features
    BY <1>5 DEF Next
  <2>2. Facts'
    BY <1>5, <2>1, MessageKeeps
  <2>3. UNCHANGED <<history, performed>>
    BY <1>5 DEF Message, elevation
  <2> QED
    BY <1>1, <1>2, <2>2, <2>3
<1>6. CASE Next /\ (\/ \E id \in asked : Approve(id) \/ Deny(id)
                    \/ ClearSession \/ Expire \/ Grant)
  <2>1. UNCHANGED features
    BY <1>6 DEF Next
  <2>2. Facts'
    BY <1>6, <2>1, UserSteps
  <2>3. UNCHANGED <<history, performed>>
    BY <1>6 DEF Approve, Deny, ClearSession, Expire, Grant
  <2> QED
    BY <1>1, <1>2, <2>2, <2>3
<1>7. CASE Next /\ (ReapEntry \/ Restart)
  <2>1. UNCHANGED features
    BY <1>7 DEF Next
  <2>2. Facts'
    BY <1>7, <2>1, ReapKeeps, RestartKeeps
  <2>3. UNCHANGED <<history, performed>>
    BY <1>7 DEF ReapEntry, Restart, elevation
  <2> QED
    BY <1>1, <1>2, <2>2, <2>3
<1>8. CASE Next /\ (CompactStarts \/ CompactEnds)
  <2>1. UNCHANGED features
    BY <1>8 DEF Next
  <2>2. Facts' /\ Follows(history, history')
    BY <1>8, <2>1, CompactKeeps
  <2>3. UNCHANGED performed
    BY <1>8 DEF CompactStarts, CompactEnds, elevation
  <2> QED
    BY <1>2, <2>2, <2>3
<1> QED
  BY <1>3, <1>4, <1>5, <1>6, <1>7, <1>8 DEF Next

LEMMA AlwaysFacts ==
    ASSUME Limited
    PROVE  Spec => []Facts
<1>1. Init => Facts
  BY InitFacts
<1>2. Facts /\ [Next]_vars => Facts'
  BY NextFacts
<1> QED
  BY <1>1, <1>2, PTL DEF Spec

----------------------------------------------------------------------------
(* What a request has to be: Codex.                                        *)

\* Every output follows its call, as Codex adds them one by one; the call may lack it.
Chained(s) ==
    \A k \in 1..Len(s) :
        /\ s[k].kind = "call" => Len(s[k].ids) = 1
        /\ s[k].kind = "out" =>
              k > 1 /\ s[k - 1].kind = "call" /\ s[k].id = s[k - 1].ids[1]
\* None of the first n items is a call without its output.
Closed(s, n) ==
    \A k \in 1..n : s[k].kind = "call" =>
        k < Len(s) /\ s[k + 1].kind = "out" /\ s[k + 1].id = s[k].ids[1]

LEMMA AppendFacts ==
    ASSUME NEW s \in Seq(Items), NEW i \in Items, NEW t, t = Append(s, i)
    PROVE  /\ t \in Seq(Items) /\ Len(s) \in Nat /\ Len(t) = Len(s) + 1 /\ t[Len(s) + 1] = i
           /\ \A k \in 1..Len(s) : t[k] = s[k]
           /\ \A k \in 1..Len(t) : k \in 1..Len(s) \/ k = Len(s) + 1
OBVIOUS

LEMMA ItemFacts ==
    /\ \A i \in Items : /\ i.kind = "call" => i.ids \in Seq(Ids) /\ i.ids # <<>>
                        /\ i.kind = "out" => i.id \in Ids
    /\ \A r \in Runs : /\ User(r) \in Items /\ User(r).kind = "user"
                       /\ Text(r) \in Items /\ Text(r).kind = "text"
    /\ Summary \in Items /\ Summary.kind = "summary"
    /\ \A ids \in Seq(Ids) \ {<<>>} :
          Call(ids) \in Items /\ Call(ids).kind = "call" /\ Call(ids).ids = ids
    /\ \A id \in Ids, how \in Hows :
          Out(id, how) \in Items /\ Out(id, how).kind = "out" /\ Out(id, how).id = id
BY DEF Items, User, Text, Summary, Call, Out

LEMMA ChainPlain ==
    ASSUME NEW s \in Seq(Items), NEW i \in Items, i.kind \notin {"call", "out"}, Chained(s)
    PROVE  /\ Chained(Append(s, i))
           /\ Closed(s, Len(s)) => Closed(Append(s, i), Len(Append(s, i)))
<1> DEFINE t == Append(s, i)
<1>1. /\ Len(s) \in Nat /\ Len(t) = Len(s) + 1 /\ t[Len(s) + 1] = i
      /\ \A k \in 1..Len(s) : t[k] = s[k]
      /\ \A k \in 1..Len(t) : k \in 1..Len(s) \/ k = Len(s) + 1
  BY AppendFacts
<1> HIDE DEF t
<1>2. \A k \in 1..Len(s) : k > 1 => k - 1 \in 1..Len(s)
  BY <1>1
<1>3. \A k \in 1..Len(s) : k < Len(s) => k + 1 \in 1..Len(s) /\ k < Len(t)
  BY <1>1
<1>4. Chained(t)
  BY <1>1, <1>2 DEF Chained
<1>5. Closed(s, Len(s)) => Closed(t, Len(t))
  BY <1>1, <1>3 DEF Closed
<1> QED
  BY <1>4, <1>5 DEF t

LEMMA ChainCall ==
    ASSUME NEW s \in Seq(Items), NEW c \in Items, c.kind = "call", Len(c.ids) = 1, Chained(s),
           NEW t, t = Append(s, c)
    PROVE  /\ t \in Seq(Items) /\ Chained(t)
           /\ t # <<>> /\ t[Len(t)] = c
           /\ Closed(s, Len(s)) => Closed(t, Len(t) - 1)
<1>1. /\ Len(s) \in Nat /\ Len(t) = Len(s) + 1 /\ t[Len(s) + 1] = c /\ t \in Seq(Items)
      /\ \A k \in 1..Len(s) : t[k] = s[k]
      /\ \A k \in 1..Len(t) : k \in 1..Len(s) \/ k = Len(s) + 1
  BY AppendFacts
<1>2. \A k \in 1..Len(s) : k > 1 => k - 1 \in 1..Len(s)
  BY <1>1
<1>3. \A k \in 1..Len(s) : k < Len(s) => k + 1 \in 1..Len(s) /\ k < Len(t)
  BY <1>1
<1>4. Chained(t)
  BY <1>1, <1>2 DEF Chained
<1>5. Len(t) - 1 = Len(s) /\ t # <<>>
  BY <1>1
<1>6. Closed(s, Len(s)) => Closed(t, Len(s))
  BY <1>1, <1>3 DEF Closed
<1> QED
  BY <1>1, <1>4, <1>5, <1>6

LEMMA ChainOut ==
    ASSUME NEW s \in Seq(Items), NEW o \in Items, o.kind = "out", Chained(s), s # <<>>,
           s[Len(s)].kind = "call", s[Len(s)].ids[1] = o.id, Closed(s, Len(s) - 1),
           NEW t, t = Append(s, o)
    PROVE  t \in Seq(Items) /\ Chained(t) /\ Closed(t, Len(t))
<1> DEFINE n == Len(s)
<1>1. /\ n \in Nat /\ Len(t) = n + 1 /\ t[n + 1] = o /\ t \in Seq(Items)
      /\ \A k \in 1..n : t[k] = s[k]
      /\ \A k \in 1..Len(t) : k \in 1..n \/ k = n + 1
  BY AppendFacts
<1>2. n >= 1 /\ n \in 1..n /\ n + 1 > 1 /\ (n + 1) - 1 = n /\ n < n + 1
  BY <1>1
<1>3. \A k \in 1..n : /\ k > 1 => k - 1 \in 1..n
                      /\ k = n \/ k \in 1..(n - 1)
                      /\ k < n => k + 1 \in 1..n /\ k < n + 1
  BY <1>1
<1> HIDE DEF n
<1>4. Chained(t)
  <2> SUFFICES ASSUME NEW k \in 1..(n + 1)
               PROVE  /\ t[k].kind = "call" => Len(t[k].ids) = 1
                      /\ t[k].kind = "out" =>
                            k > 1 /\ t[k - 1].kind = "call" /\ t[k].id = t[k - 1].ids[1]
    BY <1>1 DEF Chained
  <2>1. CASE k = n + 1
    <3>1. t[k - 1] = s[n] /\ t[k] = o /\ k > 1
      BY <1>1, <1>2, <2>1
    <3> QED
      BY <3>1 DEF n
  <2>2. CASE k # n + 1
    <3>1. k \in 1..n
      BY <1>1, <2>2
    <3>2. k > 1 => t[k - 1] = s[k - 1]
      BY <1>1, <1>3, <3>1
    <3> QED
      BY <1>1, <3>1, <3>2 DEF Chained, n
  <2> QED
    BY <2>1, <2>2
<1>5. Closed(t, n + 1)
  <2> SUFFICES ASSUME NEW k \in 1..(n + 1), t[k].kind = "call"
               PROVE  k < Len(t) /\ t[k + 1].kind = "out" /\ t[k + 1].id = t[k].ids[1]
    BY DEF Closed
  <2>1. k \in 1..n
    BY <1>1
  <2>2. CASE k = n
    BY <1>1, <1>2, <2>1, <2>2 DEF n
  <2>3. CASE k # n
    <3>1. k < n /\ s[k + 1].kind = "out" /\ s[k + 1].id = s[k].ids[1]
      BY <1>1, <1>3, <2>1, <2>3 DEF Closed, n
    <3> QED
      BY <1>1, <1>3, <2>1, <3>1
  <2> QED
    BY <2>2, <2>3
<1> QED
  BY <1>1, <1>4, <1>5

LEMMA ChainPaired ==
    ASSUME NEW s \in Seq(Items), Chained(s), Closed(s, Len(s))
    PROVE  Paired(s)
<1>1. DOMAIN s = 1..Len(s) /\ Len(s) \in Nat
  OBVIOUS
<1>2. ASSUME NEW k \in 1..Len(s), s[k].kind = "call"
      PROVE  /\ k + Len(s[k].ids) <= Len(s)
             /\ \A j \in (k + 1)..(k + Len(s[k].ids)) :
                  /\ j - k \in 1..Len(s[k].ids) /\ s[j].kind = "out"
                  /\ s[j].id = s[k].ids[j - k]
  <2>1. /\ Len(s[k].ids) = 1 /\ k < Len(s)
        /\ s[k + 1].kind = "out" /\ s[k + 1].id = s[k].ids[1]
    BY <1>2 DEF Chained, Closed
  <2>2. k + 1 <= Len(s) /\ (k + 1) - k = 1
    BY <1>1, <2>1
  <2>3. \A j \in (k + 1)..(k + 1) : j = k + 1
    OBVIOUS
  <2> QED
    BY <2>1, <2>2, <2>3
<1>3. ASSUME NEW k \in 1..Len(s), s[k].kind = "out"
      PROVE  \E j \in 1..(k - 1) :
                  /\ s[j].kind = "call" /\ k - j \in 1..Len(s[j].ids)
                  /\ s[k].id = s[j].ids[k - j]
  <2>1. k > 1 /\ s[k - 1].kind = "call" /\ s[k].id = s[k - 1].ids[1]
    BY <1>3 DEF Chained
  <2>2. k - 1 \in 1..(k - 1) /\ k - (k - 1) = 1 /\ k - 1 \in 1..Len(s)
    BY <1>1, <2>1
  <2>3. Len(s[k - 1].ids) = 1
    BY <2>1, <2>2 DEF Chained
  <2> QED
    BY <2>1, <2>2, <2>3
<1> QED
  BY <1>1, <1>2, <1>3 DEF Paired

\* repair_tool_items makes a request of Codex of what is saved.
LEMMA StrayChained ==
    ASSUME NEW s \in Seq(Items), Chained(s)
    PROVE  WithoutStray(s) \in Seq(Items) /\ Chained(WithoutStray(s))
<1> DEFINE gone == {k \in DOMAIN s : Stray(s, k)}
<1>0. \A k \in 1..Len(s) : k \in gone <=> Stray(s, k)
  OBVIOUS
<1> HIDE DEF gone
<1>1. PICK f : /\ f = [k \in 0..Len(s) |->
                        IF k = 0 THEN <<>>
                        ELSE IF k \in gone THEN f[k - 1] ELSE Append(f[k - 1], s[k])]
               /\ \A k \in 0..Len(s) : f[k] \in Seq(Items)
               /\ WithoutStray(s) = f[Len(s)]
  BY WithoutSteps DEF WithoutStray, gone
<1> DEFINE Same(k) == Len(f[k]) = k /\ \A j \in 1..k : f[k][j] = s[j]
           G == {k \in Nat : k <= Len(s) => Same(k)}
<1>2. 0 \in G
  <2>1. f[0] = <<>>
    BY <1>1
  <2> QED
    BY <2>1
<1>3. ASSUME NEW k \in Nat, k \in G PROVE k + 1 \in G
  <2> SUFFICES ASSUME k + 1 <= Len(s) PROVE Same(k + 1)
    OBVIOUS
  <2>1. /\ k + 1 \in 0..Len(s) /\ k + 1 \in 1..Len(s) /\ k + 1 # 0 /\ (k + 1) - 1 = k /\ k <= Len(s)
        /\ s[k + 1] \in Items /\ k \in 0..Len(s)
    OBVIOUS
  <2>2. ~Stray(s, k + 1)
    <3> SUFFICES ASSUME s[k + 1].kind = "out"
                 PROVE  \E j \in 1..((k + 1) - 1) : s[k + 1].id \in IdsOf(s[j])
      BY DEF Stray
    <3>1. k \in 1..Len(s) /\ k \in 1..((k + 1) - 1) /\ s[k].kind = "call" /\ s[k + 1].id = s[k].ids[1]
      BY <2>1 DEF Chained
    <3>2. s[k].ids \in Seq(Ids) /\ s[k].ids # <<>>
      BY <3>1, ItemFacts
    <3>3. 1 \in DOMAIN s[k].ids
      BY <3>2
    <3>4. s[k + 1].id \in IdsOf(s[k])
      BY <3>1, <3>3 DEF IdsOf
    <3> QED
      BY <3>1, <3>4
  <2>3. f[k + 1] = Append(f[k], s[k + 1]) /\ f[k] \in Seq(Items)
    BY <1>0, <1>1, <2>1, <2>2
  <2>4. Same(k)
    BY <1>3, <2>1
  <2> HIDE DEF G
  <2>5. /\ Len(f[k + 1]) = k + 1 /\ f[k + 1][k + 1] = s[k + 1]
        /\ \A j \in 1..k : f[k + 1][j] = f[k][j]
    BY <2>1, <2>3, <2>4, AppendFacts
  <2>6. \A j \in 1..(k + 1) : j = k + 1 \/ j \in 1..k
    OBVIOUS
  <2> QED
    BY <2>4, <2>5, <2>6
<1>4. Same(Len(s)) /\ Len(s) \in Nat
  <2>1. Nat \subseteq G
    <3> HIDE DEF G
    <3> QED
      BY <1>2, <1>3, Induction
  <2> QED
    BY <2>1
<1> DEFINE t == f[Len(s)]
<1>5. Len(t) = Len(s) /\ \A j \in 1..Len(s) : t[j] = s[j]
  BY <1>4
<1> HIDE DEF t
<1>6. \A k \in 1..Len(s) : k > 1 => k - 1 \in 1..Len(s)
  BY <1>4
<1>7. Chained(t)
  BY <1>5, <1>6 DEF Chained
<1>8. t \in Seq(Items)
  BY <1>1, <1>4 DEF t
<1> QED
  BY <1>1, <1>7, <1>8 DEF t

\* The first k items of s, with what their calls lack, as t.
Mended(s, k, t) ==
    /\ t \in Seq(Items) /\ Chained(t)
    /\ IF k > 0 /\ s[k].kind = "call" /\ ~Unanswered(s, k)
       THEN t # <<>> /\ t[Len(t)] = s[k] /\ Closed(t, Len(t) - 1)
       ELSE Closed(t, Len(t))

LEMMA AnsweredMends ==
    ASSUME NEW s \in Seq(Items), Chained(s), NEW k \in Nat, k + 1 <= Len(s),
           NEW t, Mended(s, k, t)
    PROVE  Mended(s, k + 1, Answered(s, k + 1, t))
<1> DEFINE i == s[k + 1]
           u == Append(t, i)
           a == Answered(s, k + 1, t)
<1>1. k + 1 \in 1..Len(s) /\ k + 1 > 0 /\ (k + 1) - 1 = k /\ i \in Items /\ t \in Seq(Items) /\ Chained(t)
  BY DEF Mended
<1>2. u \in Seq(Items)
  BY <1>1
<1>3. ~Unanswered(s, k + 1) => a = u
  BY <1>2 DEF Answered
<1>4. i.kind # "out" => Closed(t, Len(t))
  BY <1>1 DEF Mended, Unanswered
<1> HIDE DEF u, a
<1>5. CASE i.kind = "out"
  <2>1. k > 0 /\ s[k].kind = "call" /\ i.id = s[k].ids[1]
    BY <1>1, <1>5 DEF Chained
  <2>2. ~Unanswered(s, k)
    BY <1>1, <1>5, <2>1 DEF Unanswered
  <2>3. t # <<>> /\ t[Len(t)] = s[k] /\ Closed(t, Len(t) - 1)
    BY <2>1, <2>2 DEF Mended
  <2>4. Chained(u) /\ Closed(u, Len(u))
    <3> HIDE DEF i
    <3> QED
      BY <1>1, <1>5, <2>1, <2>3, ChainOut DEF u
  <2>5. ~Unanswered(s, k + 1) /\ s[k + 1].kind # "call"
    BY <1>5 DEF Unanswered
  <2> QED
    BY <1>2, <1>3, <2>4, <2>5 DEF Mended, a
<1>6. CASE i.kind \notin {"call", "out"}
  <2>1. Chained(u) /\ Closed(u, Len(u))
    <3> HIDE DEF i
    <3> QED
      BY <1>1, <1>4, <1>6, ChainPlain DEF u
  <2>2. ~Unanswered(s, k + 1) /\ s[k + 1].kind # "call"
    BY <1>6 DEF Unanswered
  <2> QED
    BY <1>2, <1>3, <2>1, <2>2 DEF Mended, a
<1>7. CASE i.kind = "call"
  <2>1. Len(i.ids) = 1 /\ i.ids \in Seq(Ids) /\ i.ids[1] \in Ids
    <3>1. Len(i.ids) = 1
      BY <1>1, <1>7 DEF Chained
    <3>2. i.ids \in Seq(Ids)
      BY <1>1, <1>7, ItemFacts
    <3> HIDE DEF i
    <3> QED
      BY <3>1, <3>2
  <2>2. Chained(u) /\ u # <<>> /\ u[Len(u)] = i /\ Closed(u, Len(u) - 1)
    <3> HIDE DEF i
    <3> QED
      BY <1>1, <1>4, <1>7, <2>1, ChainCall DEF u
  <2>3. CASE ~Unanswered(s, k + 1)
    BY <1>1, <1>2, <1>3, <1>7, <2>2, <2>3 DEF Mended, a
  <2>4. CASE Unanswered(s, k + 1)
    <3> DEFINE o == Out(i.ids[1], "lost")
    <3>1. o \in Items /\ o.kind = "out" /\ o.id = i.ids[1]
      BY <2>1, ItemFacts DEF Hows
    <3>2. a = u \o <<o>>
      BY <2>4 DEF a, u, Answered
    <3> HIDE DEF i, o
    <3>3. a = Append(u, o)
      BY <1>2, <3>1, <3>2
    <3>4. a \in Seq(Items) /\ Chained(a) /\ Closed(a, Len(a))
      BY <1>2, <1>7, <2>2, <3>1, <3>3, ChainOut
    <3> QED
      BY <2>4, <3>4 DEF Mended, a
  <2> QED
    BY <2>3, <2>4
<1> QED
  BY <1>5, <1>6, <1>7

LEMMA RepairCloses ==
    ASSUME NEW s \in Seq(Items), Chained(s), NEW t, t = RepairTools(s)
    PROVE  t \in Seq(Items) /\ Chained(t) /\ Closed(t, Len(t))
<1> DEFINE w == WithoutStray(s)
<1>1. w \in Seq(Items) /\ Chained(w) /\ t = WithLost(w)
  BY StrayChained DEF RepairTools
<1> HIDE DEF w
<1>2. PICK f : /\ f = [k \in 0..Len(w) |-> IF k = 0 THEN <<>> ELSE Answered(w, k, f[k - 1])]
               /\ WithLost(w) = f[Len(w)]
  BY <1>1, LostSteps
<1> DEFINE G == {k \in Nat : k <= Len(w) => Mended(w, k, f[k])}
<1>3. 0 \in G
  <2>1. f[0] = <<>>
    BY <1>1, <1>2
  <2>2. Mended(w, 0, <<>>)
    BY DEF Mended, Chained, Closed
  <2> QED
    BY <2>1, <2>2
<1>4. ASSUME NEW k \in Nat, k \in G PROVE k + 1 \in G
  <2> SUFFICES ASSUME k + 1 <= Len(w) PROVE Mended(w, k + 1, f[k + 1])
    OBVIOUS
  <2>1. k + 1 \in 0..Len(w) /\ k + 1 # 0 /\ (k + 1) - 1 = k /\ k <= Len(w)
    BY <1>1
  <2>2. f[k + 1] = Answered(w, k + 1, f[k]) /\ Mended(w, k, f[k])
    BY <1>2, <1>4, <2>1
  <2> QED
    BY <1>1, <2>2, AnsweredMends
<1>5. Mended(w, Len(w), t) /\ Len(w) \in Nat
  <2>1. Nat \subseteq G
    <3> HIDE DEF G
    <3> QED
      BY <1>3, <1>4, Induction
  <2>2. Len(w) \in Nat
    BY <1>1
  <2> QED
    BY <1>1, <1>2, <2>1, <2>2
<1>6. ~(Len(w) > 0 /\ w[Len(w)].kind = "call" /\ ~Unanswered(w, Len(w)))
  BY <1>5 DEF Unanswered
<1> QED
  BY <1>5, <1>6 DEF Mended

LEMMA ShortenedChain ==
    ASSUME NEW s \in Seq(Items), Chained(s), provider = "codex", NEW k, NEW t, Shortened(s, k, t)
    PROVE  Chained(t) /\ (Closed(s, Len(s)) => Closed(t, Len(t)))
<1>1. /\ k \in 0..Len(s) /\ k \in Nat /\ Len(s) \in Nat /\ Len(t) = (Len(s) - k) + 1 /\ Len(t) \in Nat
      /\ t[1] = Summary /\ \A j \in 2..Len(t) : t[j] = s[k + (j - 1)] /\ k + (j - 1) \in 1..Len(s)
      /\ k = 0 \/ s[k + 1].kind # "out"
  BY DEF Shortened
<1>2. Summary.kind = "summary"
  BY DEF Summary
<1>3. Chained(t)
  <2> SUFFICES ASSUME NEW j \in 1..Len(t)
               PROVE  /\ t[j].kind = "call" => Len(t[j].ids) = 1
                      /\ t[j].kind = "out" =>
                            j > 1 /\ t[j - 1].kind = "call" /\ t[j].id = t[j - 1].ids[1]
    BY DEF Chained
  <2>1. CASE j = 1
    BY <1>1, <1>2, <2>1
  <2>2. CASE j # 1
    <3>1. j \in 2..Len(t) /\ j > 1
      BY <1>1, <2>2
    <3> DEFINE m == k + (j - 1)
    <3>2. m \in 1..Len(s) /\ t[j] = s[m]
      BY <1>1, <3>1
    <3>3. m > 1 => m - 1 = k + ((j - 1) - 1)
      BY <1>1
    <3>4. j = 2 => m = k + 1
      BY <1>1
    <3>5. j # 2 => j - 1 \in 2..Len(t)
      BY <1>1, <3>1
    <3> HIDE DEF m
    <3>6. SUFFICES ASSUME s[m].kind = "out"
                   PROVE  t[j - 1].kind = "call" /\ t[j].id = t[j - 1].ids[1]
      BY <3>1, <3>2 DEF Chained
    <3>7. m > 1 /\ s[m - 1].kind = "call" /\ s[m].id = s[m - 1].ids[1]
      BY <3>2, <3>6 DEF Chained
    <3>8. j # 2
      BY <1>1, <3>4, <3>6, <3>7
    <3>9. t[j - 1] = s[m - 1]
      BY <1>1, <3>3, <3>5, <3>7, <3>8
    <3> QED
      BY <3>2, <3>7, <3>9
  <2> QED
    BY <2>1, <2>2
<1>4. ASSUME Closed(s, Len(s)) PROVE Closed(t, Len(t))
  <2> SUFFICES ASSUME NEW j \in 1..Len(t), t[j].kind = "call"
               PROVE  j < Len(t) /\ t[j + 1].kind = "out" /\ t[j + 1].id = t[j].ids[1]
    BY DEF Closed
  <2>1. j \in 2..Len(t)
    <3>1. j # 1
      BY <1>1, <1>2
    <3> QED
      BY <1>1, <3>1
  <2> DEFINE m == k + (j - 1)
  <2>2. m \in 1..Len(s) /\ t[j] = s[m]
    BY <1>1, <2>1
  <2>3. (m < Len(s) => j < Len(t) /\ j + 1 \in 2..Len(t)) /\ m + 1 = k + ((j + 1) - 1)
    <3>1. \A l, n \in Nat : \A i \in 2..((l - n) + 1) : n + (i - 1) < l =>
              i < (l - n) + 1 /\ i + 1 \in 2..((l - n) + 1)
      OBVIOUS
    <3>2. m + 1 = k + ((j + 1) - 1)
      BY <1>1, <2>1
    <3> QED
      BY <1>1, <2>1, <3>1, <3>2
  <2> HIDE DEF m
  <2>4. m < Len(s) /\ s[m + 1].kind = "out" /\ s[m + 1].id = s[m].ids[1]
    BY <1>4, <2>2 DEF Closed
  <2>5. t[j + 1] = s[m + 1]
    BY <1>1, <2>3, <2>4
  <2> QED
    BY <2>2, <2>3, <2>4, <2>5
<1> QED
  BY <1>3, <1>4

LEMMA CompactChain ==
    ASSUME Limited, NEW s \in Seq(Items), Chained(s), provider = "codex", NEW t, t = CompactMessages(s)
    PROVE  t \in Seq(Items) /\ Chained(t) /\ (Closed(s, Len(s)) => Closed(t, Len(t)))
<1>1. CASE Len(s) <= Keep
  BY <1>1, CompactFacts
<1>2. CASE Len(s) > Keep
  <2>1. PICK k : Shortened(s, k, t)
    BY <1>2, CompactFacts
  <2> QED
    BY <2>1, ShortenedChain DEF Shortened
<1>3. Len(s) \in Nat
  OBVIOUS
<1> QED
  BY <1>1, <1>2, <1>3 DEF Limited

----------------------------------------------------------------------------
(* What a request has to be: Anthropic and OpenRouter.                     *)

\* Item j is an output of the call item k, in its place.
Block(s, k, j) ==
    /\ s[k].kind = "call" /\ j - k \in 1..Len(s[k].ids)
    /\ s[j].kind = "out" /\ s[j].id = s[k].ids[j - k]
\* Every call has its outputs.  An output without its call may be there for the calls in X.
Fit(s, X) ==
    \A k \in 1..Len(s) :
        /\ s[k].kind = "call" =>
              /\ k + Len(s[k].ids) <= Len(s)
              /\ \A j \in (k + 1)..(k + Len(s[k].ids)) : Block(s, k, j)
        /\ s[k].kind = "out" =>
              (\E j \in 1..(k - 1) : Block(s, j, k)) \/ s[k].id \in X \ Calls(s)
\* No call is there twice.
Once(s) == \A j, k \in 1..Len(s) : (\E id \in IdsOf(s[j]) : id \in IdsOf(s[k])) => j = k

\* The items with outputs for the calls that are still to be executed.
Full(s, todo) == s \o [k \in 1..Len(todo) |-> Out(todo[k], "lost")]

LEMMA CallsOf ==
    ASSUME NEW s \in Seq(Items)
    PROVE  \A id : id \in Calls(s) <=> \E k \in 1..Len(s) : id \in IdsOf(s[k])
<1>1. DOMAIN s = 1..Len(s)
  OBVIOUS
<1> QED
  BY <1>1 DEF Calls

\* u has the items of s, and then the outputs for t.
Filled(s, t, u) ==
    /\ u \in Seq(Items) /\ Len(s) \in Nat /\ Len(t) \in Nat /\ Len(u) = Len(s) + Len(t)
    /\ \A k \in 1..Len(s) : k \in 1..Len(u) /\ u[k] = s[k]
    /\ \A k \in 1..Len(t) : Len(s) + k \in 1..Len(u) /\ u[Len(s) + k] = Out(t[k], "lost")
    /\ \A k \in 1..Len(u) : k \in 1..Len(s) \/ \E j \in 1..Len(t) : k = Len(s) + j

LEMMA FullFacts ==
    ASSUME NEW s \in Seq(Items), NEW t \in Seq(Ids), NEW u, u = Full(s, t)
    PROVE  Filled(s, t, u)
<1> DEFINE w == [k \in 1..Len(t) |-> Out(t[k], "lost")]
<1>1. \A k \in 1..Len(t) : t[k] \in Ids /\ Out(t[k], "lost") \in Items
  BY ItemFacts DEF Hows
<1>2. w \in Seq(Items) /\ Len(w) = Len(t) /\ \A k \in 1..Len(t) : w[k] = Out(t[k], "lost")
  BY <1>1
<1> HIDE DEF w
<1>3. u = s \o w
  BY DEF Full, w
<1>4. /\ u \in Seq(Items) /\ Len(u) = Len(s) + Len(w)
      /\ \A k \in 1..Len(s) : u[k] = s[k]
      /\ \A k \in 1..Len(w) : u[Len(s) + k] = w[k]
  BY <1>2, <1>3
<1>5. Len(s) \in Nat /\ Len(t) \in Nat
  OBVIOUS
<1>6. \A m, n \in Nat : /\ \A k \in 1..m : k \in 1..(m + n)
                        /\ \A k \in 1..n : m + k \in 1..(m + n)
  OBVIOUS
<1>7. \A m, n \in Nat : \A k \in 1..(m + n) : k \in 1..m \/ \E j \in 1..n : k = m + j
  <2> SUFFICES ASSUME NEW m \in Nat, NEW n \in Nat, NEW k \in 1..(m + n), k \notin 1..m
               PROVE  \E j \in 1..n : k = m + j
    OBVIOUS
  <2>1. k - m \in 1..n /\ k = m + (k - m)
    OBVIOUS
  <2> QED
    BY <2>1
<1>8. Len(u) = Len(s) + Len(t)
  BY <1>2, <1>4
<1>9. \A k \in 1..Len(s) : k \in 1..Len(u) /\ u[k] = s[k]
  BY <1>4, <1>5, <1>6, <1>8
<1>10. \A k \in 1..Len(t) : Len(s) + k \in 1..Len(u) /\ u[Len(s) + k] = Out(t[k], "lost")
  BY <1>2, <1>4, <1>5, <1>6, <1>8
<1>11. \A k \in 1..Len(u) : k \in 1..Len(s) \/ \E j \in 1..Len(t) : k = Len(s) + j
  <2>1. \A k \in 1..(Len(s) + Len(t)) : k \in 1..Len(s) \/ \E j \in 1..Len(t) : k = Len(s) + j
    BY <1>5, <1>7, Zenon
  <2> QED
    BY <1>8, <2>1, Zenon
<1> QED
  BY <1>4, <1>5, <1>8, <1>9, <1>10, <1>11 DEF Filled

LEMMA FullNothing ==
    ASSUME NEW s \in Seq(Items)
    PROVE  Full(s, <<>>) = s
<1>1. [k \in 1..Len(<<>>) |-> Out(<<>>[k], "lost")] = <<>>
  OBVIOUS
<1> QED
  BY <1>1 DEF Full

LEMMA FitPaired ==
    ASSUME NEW s \in Seq(Items), Fit(s, {})
    PROVE  Paired(s)
<1>1. DOMAIN s = 1..Len(s)
  OBVIOUS
<1> QED
  BY <1>1 DEF Fit, Paired, Block

\* Two histories that differ in what they say of the calls.
Alike(s, t) ==
    /\ Len(s) = Len(t)
    /\ \A k \in 1..Len(s) : /\ t[k].kind = s[k].kind
                            /\ s[k].kind = "call" => t[k].ids = s[k].ids
                            /\ s[k].kind = "out" => t[k].id = s[k].id

LEMMA AlikeFit ==
    ASSUME NEW s \in Seq(Items), NEW t \in Seq(Items), Alike(s, t), NEW X
    PROVE  (Fit(s, X) => Fit(t, X)) /\ (Once(s) => Once(t))
<1>1. Len(s) \in Nat /\ Len(t) = Len(s)
  BY DEF Alike
<1>2. \A k \in 1..Len(s) : IdsOf(t[k]) = IdsOf(s[k])
  BY DEF Alike, IdsOf
<1>3. \A id : id \in Calls(t) <=> id \in Calls(s)
  BY <1>1, <1>2, CallsOf
<1>4. \A j, k \in 1..Len(s) : Block(s, j, k) => Block(t, j, k)
  BY <1>1 DEF Alike, Block
<1>5. ASSUME Fit(s, X) PROVE Fit(t, X)
  <2> SUFFICES ASSUME NEW k \in 1..Len(s)
               PROVE  /\ t[k].kind = "call" =>
                            /\ k + Len(t[k].ids) <= Len(t)
                            /\ \A j \in (k + 1)..(k + Len(t[k].ids)) : Block(t, k, j)
                      /\ t[k].kind = "out" =>
                            (\E j \in 1..(k - 1) : Block(t, j, k)) \/ t[k].id \in X \ Calls(t)
    BY <1>1 DEF Fit
  <2>1. ASSUME t[k].kind = "call"
        PROVE  /\ k + Len(t[k].ids) <= Len(t)
               /\ \A j \in (k + 1)..(k + Len(t[k].ids)) : Block(t, k, j)
    <3>1. s[k].kind = "call" /\ t[k].ids = s[k].ids
      BY <2>1 DEF Alike
    <3>2. /\ k + Len(s[k].ids) <= Len(s)
          /\ \A j \in (k + 1)..(k + Len(s[k].ids)) : Block(s, k, j)
      BY <1>5, <3>1 DEF Fit
    <3>3. Len(s[k].ids) \in Nat
      BY <3>1, ItemFacts
    <3>4. \A j \in (k + 1)..(k + Len(s[k].ids)) : j \in 1..Len(s)
      BY <1>1, <3>2, <3>3
    <3> QED
      BY <1>1, <1>4, <3>1, <3>2, <3>4
  <2>2. ASSUME t[k].kind = "out"
        PROVE  (\E j \in 1..(k - 1) : Block(t, j, k)) \/ t[k].id \in X \ Calls(t)
    <3>1. s[k].kind = "out" /\ t[k].id = s[k].id
      BY <2>2 DEF Alike
    <3>2. (\E j \in 1..(k - 1) : Block(s, j, k)) \/ s[k].id \in X \ Calls(s)
      BY <1>5, <3>1 DEF Fit
    <3>3. \A j \in 1..(k - 1) : j \in 1..Len(s)
      BY <1>1
    <3> QED
      BY <1>3, <1>4, <3>1, <3>2, <3>3
  <2> QED
    BY <2>1, <2>2
<1>6. Once(s) => Once(t)
  BY <1>1, <1>2 DEF Once
<1> QED
  BY <1>5, <1>6

\* t is s with more items, of which none but the ones at new is a call.
LEMMA FitOn ==
    ASSUME NEW s \in Seq(Items), NEW t \in Seq(Items), NEW X, Fit(s, X), Len(s) <= Len(t),
           \A k \in 1..Len(s) : t[k] = s[k],
           \A k \in 1..Len(s) : s[k].kind = "out" /\ s[k].id \in X =>
              s[k].id \in Calls(s) \/ s[k].id \notin Calls(t),
           \A k \in (Len(s) + 1)..Len(t) :
              /\ t[k].kind = "call" =>
                    /\ k + Len(t[k].ids) <= Len(t)
                    /\ \A j \in (k + 1)..(k + Len(t[k].ids)) : Block(t, k, j)
              /\ t[k].kind = "out" =>
                    (\E j \in 1..(k - 1) : Block(t, j, k)) \/ t[k].id \in X \ Calls(t)
    PROVE  Fit(t, X)
<1>1. Len(s) \in Nat /\ Len(t) \in Nat
  OBVIOUS
<1>4. \A j, k \in 1..Len(s) : Block(s, j, k) => Block(t, j, k)
  BY <1>1 DEF Block
<1> SUFFICES ASSUME NEW k \in 1..Len(s)
             PROVE  /\ t[k].kind = "call" =>
                          /\ k + Len(t[k].ids) <= Len(t)
                          /\ \A j \in (k + 1)..(k + Len(t[k].ids)) : Block(t, k, j)
                    /\ t[k].kind = "out" =>
                          (\E j \in 1..(k - 1) : Block(t, j, k)) \/ t[k].id \in X \ Calls(t)
  <2>1. \A k \in 1..Len(t) : k \in 1..Len(s) \/ k \in (Len(s) + 1)..Len(t)
    BY <1>1
  <2> QED
    BY <2>1 DEF Fit
<1>5. ASSUME s[k].kind = "call"
      PROVE  /\ k + Len(s[k].ids) <= Len(t)
             /\ \A j \in (k + 1)..(k + Len(s[k].ids)) : Block(t, k, j)
  <2>2. /\ k + Len(s[k].ids) <= Len(s)
        /\ \A j \in (k + 1)..(k + Len(s[k].ids)) : Block(s, k, j)
    BY <1>5 DEF Fit
  <2>3. Len(s[k].ids) \in Nat
    BY <1>5, ItemFacts
  <2>4. \A j \in (k + 1)..(k + Len(s[k].ids)) : j \in 1..Len(s)
    BY <1>1, <2>2, <2>3
  <2> QED
    BY <1>1, <1>4, <2>2, <2>3, <2>4
<1>6. ASSUME s[k].kind = "out"
      PROVE  (\E j \in 1..(k - 1) : Block(t, j, k)) \/ s[k].id \in X \ Calls(t)
  <2>2. (\E j \in 1..(k - 1) : Block(s, j, k)) \/ s[k].id \in X \ Calls(s)
    BY <1>6 DEF Fit
  <2>3. \A j \in 1..(k - 1) : j \in 1..Len(s)
    BY <1>1
  <2> QED
    BY <1>4, <1>6, <2>2, <2>3
<1> QED
  BY <1>5, <1>6

\* An item that is neither a call nor an output in place.
LEMMA FitItem ==
    ASSUME NEW s \in Seq(Items), NEW i \in Items, NEW X, Fit(s, X), i.kind # "call",
           i.kind = "out" => i.id \in X \ Calls(s), NEW t, t = Append(s, i)
    PROVE  t \in Seq(Items) /\ Fit(t, X) /\ (Once(s) => Once(t))
<1>1. /\ t \in Seq(Items) /\ Len(s) \in Nat /\ Len(t) = Len(s) + 1 /\ t[Len(s) + 1] = i
      /\ \A k \in 1..Len(s) : t[k] = s[k]
      /\ \A k \in 1..Len(t) : k \in 1..Len(s) \/ k = Len(s) + 1
  BY AppendFacts
<1>2. \A id : id \notin IdsOf(i)
  BY DEF IdsOf
<1>3. \A id : id \in Calls(t) => id \in Calls(s)
  <2>1. \A id : id \in Calls(t) <=> \E k \in 1..Len(t) : id \in IdsOf(t[k])
    BY <1>1, CallsOf
  <2>2. \A id : id \in Calls(s) <=> \E k \in 1..Len(s) : id \in IdsOf(s[k])
    BY CallsOf
  <2> QED
    BY <1>1, <1>2, <2>1, <2>2
<1>4. \A k \in (Len(s) + 1)..Len(t) : k = Len(s) + 1
  BY <1>1
<1>5. Len(s) <= Len(t)
  BY <1>1
<1>6. Fit(t, X)
  BY <1>1, <1>3, <1>4, <1>5, FitOn
<1>7. ASSUME Once(s) PROVE Once(t)
  <2>1. \A k \in 1..Len(t) : \A id \in IdsOf(t[k]) : k \in 1..Len(s) /\ id \in IdsOf(s[k])
    BY <1>1, <1>2
  <2> QED
    BY <1>7, <2>1 DEF Once
<1> QED
  BY <1>1, <1>6, <1>7

LEMMA OnceWhen ==
    ASSUME NEW s, \A j, k \in 1..Len(s) : \A id : id \in IdsOf(s[j]) /\ id \in IdsOf(s[k]) => j = k
    PROVE  Once(s)
BY DEF Once

\* A call that was not there, with the outputs it will have.
LEMMA FitCall ==
    ASSUME NEW s \in Seq(Items), NEW c \in Items, NEW ids \in Seq(Ids), NEW X, Fit(s, X),
           c.kind = "call", c.ids = ids,
           \A k \in 1..Len(s) : s[k].kind = "out" /\ s[k].id \in X => s[k].id \notin IdsOf(c),
           NEW t, t = Full(Append(s, c), ids)
    PROVE  /\ t \in Seq(Items) /\ Fit(t, X)
           /\ Once(s) /\ (\A id \in IdsOf(c) : id \notin Calls(s)) => Once(t)
<1> DEFINE w == Append(s, c)
           n == Len(s)
           m == Len(ids)
<1>1. /\ w \in Seq(Items) /\ n \in Nat /\ Len(w) = n + 1 /\ w[n + 1] = c
      /\ \A k \in 1..n : w[k] = s[k]
      /\ \A k \in 1..Len(w) : k \in 1..n \/ k = n + 1
  BY AppendFacts
<1>2. m \in Nat
  OBVIOUS
<1> HIDE DEF w
<1>3. t = Full(w, ids)
  BY DEF w
<1>4. /\ t \in Seq(Items) /\ Len(t) = Len(w) + m
      /\ \A k \in 1..Len(w) : k \in 1..Len(t) /\ t[k] = w[k]
      /\ \A k \in 1..m : Len(w) + k \in 1..Len(t) /\ t[Len(w) + k] = Out(ids[k], "lost")
      /\ \A k \in 1..Len(t) : k \in 1..Len(w) \/ \E j \in 1..m : k = Len(w) + j
  <2>1. Filled(w, ids, t)
    BY <1>1, <1>3, FullFacts
  <2> QED
    BY <2>1 DEF Filled
<1> HIDE DEF n, m
<1>5. /\ Len(t) = (n + 1) + m /\ n <= Len(t)
      /\ \A k \in 1..n : t[k] = s[k] /\ k \in 1..Len(w)
      /\ t[n + 1] = c
      /\ \A j \in 1..m : t[(n + 1) + j].kind = "out" /\ t[(n + 1) + j].id = ids[j]
  <2>1. \A k \in 1..n : k \in 1..(n + 1)
    BY <1>1
  <2>2. n + 1 \in 1..(n + 1)
    BY <1>1
  <2>3. \A j \in 1..m : Out(ids[j], "lost").kind = "out" /\ Out(ids[j], "lost").id = ids[j]
    BY DEF Out
  <2>4. n <= (n + 1) + m
    BY <1>1, <1>4
  <2> QED
    BY <1>1, <1>4, <2>1, <2>2, <2>3, <2>4
<1>6. \A j \in 1..m : Block(t, n + 1, (n + 1) + j)
  <2>1. \A j \in 1..m : ((n + 1) + j) - (n + 1) = j
    BY <1>1
  <2> QED
    BY <1>5, <2>1 DEF Block, m
<1>7. \A id : id \in Calls(t) <=> id \in Calls(s) \/ id \in IdsOf(c)
  <2>1. \A j \in 1..m : \A id : id \notin IdsOf(t[(n + 1) + j])
    BY <1>5 DEF IdsOf
  <2>2. \A k \in 1..Len(t) : k \in 1..n \/ k = n + 1 \/ \E j \in 1..m : k = (n + 1) + j
    BY <1>1, <1>4
  <2>3. n + 1 \in 1..Len(t) /\ \A k \in 1..n : k \in 1..Len(t)
    BY <1>1, <1>4, <1>5
  <2>4. \A id : id \in Calls(t) <=> \E k \in 1..Len(t) : id \in IdsOf(t[k])
    BY <1>4, CallsOf
  <2>5. \A id : id \in Calls(s) <=> \E k \in 1..n : id \in IdsOf(s[k])
    BY CallsOf DEF n
  <2>6. \A k \in 1..n : IdsOf(t[k]) = IdsOf(s[k])
    BY <1>5
  <2>7. IdsOf(t[n + 1]) = IdsOf(c)
    BY <1>5
  <2> SUFFICES ASSUME NEW id PROVE id \in Calls(t) <=> id \in Calls(s) \/ id \in IdsOf(c)
    OBVIOUS
  <2>8. ASSUME NEW k \in 1..Len(t), id \in IdsOf(t[k]) PROVE id \in Calls(s) \/ id \in IdsOf(c)
    <3>1. k \in 1..n \/ k = n + 1
      BY <2>1, <2>2, <2>8
    <3> QED
      BY <2>5, <2>6, <2>7, <2>8, <3>1
  <2>9. ASSUME NEW k \in 1..n, id \in IdsOf(s[k]) PROVE id \in Calls(t)
    BY <2>3, <2>4, <2>6, <2>9
  <2>10. id \in IdsOf(c) => id \in Calls(t)
    BY <2>3, <2>4, <2>7
  <2> QED
    BY <2>4, <2>5, <2>8, <2>9, <2>10
<1>8. \A k \in (n + 1)..Len(t) : k = n + 1 \/ (k - (n + 1) \in 1..m /\ k = (n + 1) + (k - (n + 1)))
  <2>1. \A a, b \in Nat : \A k \in (a + 1)..((a + 1) + b) :
            k = a + 1 \/ (k - (a + 1) \in 1..b /\ k = (a + 1) + (k - (a + 1)))
    OBVIOUS
  <2> QED
    BY <1>1, <1>4, <1>5, <2>1
<1>9. ASSUME NEW k \in (n + 1)..Len(t)
      PROVE  /\ t[k].kind = "call" =>
                    /\ k + Len(t[k].ids) <= Len(t)
                    /\ \A j \in (k + 1)..(k + Len(t[k].ids)) : Block(t, k, j)
             /\ t[k].kind = "out" =>
                    (\E j \in 1..(k - 1) : Block(t, j, k)) \/ t[k].id \in X \ Calls(t)
  <2>1. CASE k = n + 1
    <3>1. t[k] = c /\ Len(t[k].ids) = m /\ k + m = Len(t)
      BY <1>5, <2>1 DEF m
    <3>2. \A j \in (k + 1)..(k + m) : j - (n + 1) \in 1..m /\ j = (n + 1) + (j - (n + 1))
      BY <1>1, <1>4, <2>1
    <3>3. k + m <= Len(t)
      BY <1>1, <1>4, <1>5, <3>1
    <3> QED
      BY <1>6, <2>1, <3>1, <3>2, <3>3
  <2>2. CASE k # n + 1
    <3>1. k - (n + 1) \in 1..m /\ k = (n + 1) + (k - (n + 1))
      BY <1>8, <2>2
    <3>2. t[k].kind = "out" /\ Block(t, n + 1, k)
      BY <1>5, <1>6, <3>1
    <3>3. n + 1 \in 1..(k - 1)
      BY <1>1, <1>4, <3>1
    <3> QED
      BY <3>2, <3>3
  <2> QED
    BY <2>1, <2>2
<1>10. Fit(t, X)
  BY <1>4, <1>5, <1>7, <1>9, FitOn DEF n
<1>11. ASSUME Once(s), \A id \in IdsOf(c) : id \notin Calls(s)
       PROVE  Once(t)
  <2>1. \A k \in 1..Len(t) : \A id \in IdsOf(t[k]) : k \in 1..n \/ k = n + 1
    <3>1. \A j \in 1..m : \A id : id \notin IdsOf(t[(n + 1) + j])
      BY <1>5 DEF IdsOf
    <3>2. \A k \in 1..Len(t) : k \in 1..n \/ k = n + 1 \/ \E j \in 1..m : k = (n + 1) + j
      BY <1>1, <1>4
    <3> QED
      BY <3>1, <3>2
  <2>2. \A k \in 1..n : \A id \in IdsOf(t[k]) : id \in IdsOf(s[k]) /\ id \notin IdsOf(c)
    <3>1. \A id : id \in Calls(s) <=> \E k \in 1..n : id \in IdsOf(s[k])
      BY CallsOf DEF n
    <3>2. \A k \in 1..n : IdsOf(t[k]) = IdsOf(s[k])
      BY <1>5
    <3> QED
      BY <1>11, <3>1, <3>2
  <2>3. \A j, k \in 1..n : (\E id \in IdsOf(s[j]) : id \in IdsOf(s[k])) => j = k
    BY <1>11 DEF Once, n
  <2> SUFFICES ASSUME NEW j \in 1..Len(t), NEW k \in 1..Len(t), NEW id, id \in IdsOf(t[j]), id \in IdsOf(t[k])
               PROVE  j = k
    BY OnceWhen
  <2>4. IdsOf(t[n + 1]) = IdsOf(c)
    BY <1>5
  <2>5. CASE j \in 1..n /\ k \in 1..n
    <3>1. id \in IdsOf(s[j]) /\ id \in IdsOf(s[k])
      BY <2>2, <2>5
    <3> QED
      BY <2>3, <2>5, <3>1
  <2>6. CASE j = n + 1 /\ k = n + 1
    BY <2>6
  <2>7. CASE j = n + 1 /\ k \in 1..n
    BY <2>2, <2>4, <2>7
  <2>8. CASE j \in 1..n /\ k = n + 1
    BY <2>2, <2>4, <2>8
  <2> QED
    BY <2>1, <2>5, <2>6, <2>7, <2>8
<1> QED
  BY <1>4, <1>10, <1>11

\* The first call left is executed.
LEMMA FitOut ==
    ASSUME NEW s \in Seq(Items), NEW t \in Seq(Ids), t # <<>>, NEW o \in Items, o.kind = "out",
           o.id = Head(t), NEW X, NEW u, u = Full(Append(s, o), Tail(t))
    PROVE  /\ u \in Seq(Items)
           /\ Fit(Full(s, t), X) => Fit(u, X)
           /\ Once(Full(s, t)) => Once(u)
<1> DEFINE w == Append(s, o)
           b == Tail(t)
           a == Full(s, t)
           n == Len(s)
<1>1. /\ w \in Seq(Items) /\ n \in Nat /\ Len(w) = n + 1 /\ w[n + 1] = o
      /\ \A k \in 1..n : w[k] = s[k]
  BY AppendFacts
<1>2. /\ b \in Seq(Ids) /\ Len(b) \in Nat /\ Len(t) = Len(b) + 1 /\ t[1] = o.id
      /\ \A k \in 1..Len(b) : b[k] = t[k + 1]
  OBVIOUS
<1>3. /\ a \in Seq(Items) /\ Len(a) = n + Len(t)
      /\ \A k \in 1..n : a[k] = s[k]
      /\ \A k \in 1..Len(t) : a[n + k] = Out(t[k], "lost")
  <2>1. Filled(s, t, a)
    BY FullFacts
  <2> QED
    BY <2>1 DEF Filled
<1>d. u = Full(w, b)
  OBVIOUS
<1> HIDE DEF w, b, a, n
<1>4. /\ u \in Seq(Items) /\ Len(u) = Len(w) + Len(b)
      /\ \A k \in 1..Len(w) : u[k] = w[k]
      /\ \A k \in 1..Len(b) : u[Len(w) + k] = Out(b[k], "lost")
  <2>1. Filled(w, b, u)
    BY <1>1, <1>2, <1>d, FullFacts
  <2> QED
    BY <2>1 DEF Filled
<1>5. Len(u) = Len(a)
  BY <1>1, <1>2, <1>3, <1>4
<1>6. \A k \in 1..n : u[k] = a[k]
  <2>1. \A k \in 1..n : k \in 1..(n + 1)
    BY <1>1
  <2> QED
    BY <1>1, <1>3, <1>4, <2>1
<1>7. u[n + 1] = o /\ a[n + 1] = Out(o.id, "lost")
  <2>1. n + 1 \in 1..(n + 1) /\ 1 \in 1..Len(t)
    BY <1>1, <1>2
  <2> QED
    BY <1>1, <1>2, <1>3, <1>4, <2>1
<1>8. \A k \in 1..Len(b) : u[(n + 1) + k] = a[(n + 1) + k]
  <2> SUFFICES ASSUME NEW k \in 1..Len(b) PROVE u[(n + 1) + k] = a[(n + 1) + k]
    OBVIOUS
  <2>1. k + 1 \in 1..Len(t) /\ n + (k + 1) = (n + 1) + k
    BY <1>1, <1>2
  <2>2. u[(n + 1) + k] = Out(b[k], "lost") /\ a[n + (k + 1)] = Out(t[k + 1], "lost")
    BY <1>1, <1>3, <1>4, <2>1
  <2> QED
    BY <1>2, <2>1, <2>2
<1>9. \A k \in 1..Len(a) : \/ k \in 1..n \/ k = n + 1
                           \/ k - (n + 1) \in 1..Len(b) /\ k = (n + 1) + (k - (n + 1))
  <2>1. \A x, y \in Nat : \A k \in 1..(x + (y + 1)) :
            k \in 1..x \/ k = x + 1 \/ (k - (x + 1) \in 1..y /\ k = (x + 1) + (k - (x + 1)))
    OBVIOUS
  <2> QED
    BY <1>1, <1>2, <1>3, <2>1
<1>10. Alike(a, u)
  <2>1. Out(o.id, "lost").kind = "out" /\ Out(o.id, "lost").id = o.id
    BY DEF Out
  <2> QED
    BY <1>5, <1>6, <1>7, <1>8, <1>9, <2>1 DEF Alike
<1>11. (Fit(a, X) => Fit(u, X)) /\ (Once(a) => Once(u))
  BY <1>3, <1>4, <1>10, AlikeFit
<1> QED
  BY <1>4, <1>11 DEF a

\* compact_messages may cut a call from its outputs, which are then without a call.
LEMMA ShortenedFit ==
    ASSUME NEW s \in Seq(Items), Fit(s, Ids), Once(s), NEW k, NEW t, Shortened(s, k, t)
    PROVE  Fit(t, Ids) /\ Once(t)
<1>1. /\ k \in 0..Len(s) /\ k \in Nat /\ Len(s) \in Nat /\ Len(t) = (Len(s) - k) + 1 /\ Len(t) \in Nat
      /\ t \in Seq(Items)
      /\ t[1] = Summary /\ \A j \in 2..Len(t) : t[j] = s[k + (j - 1)] /\ k + (j - 1) \in 1..Len(s)
  BY DEF Shortened
<1> DEFINE at(j) == k + (j - 1)
<1>2. \A j \in 1..Len(t) : t[j].kind \in {"call", "out"} \/ IdsOf(t[j]) # {} => j \in 2..Len(t)
  <2>1. Summary.kind = "summary" /\ IdsOf(Summary) = {}
    BY DEF Summary, IdsOf
  <2> QED
    BY <1>1, <2>1
<1>3. \A j \in 2..Len(t) : at(j) \in 1..Len(s) /\ t[j] = s[at(j)]
  BY <1>1
<1>4. \A i, j \in 2..Len(t) : at(i) = at(j) => i = j
  BY <1>1
<1>5. \A j \in 2..Len(t) : \A m \in 1..(at(j) - 1) : m > k =>
          /\ (m - k) + 1 \in 1..(j - 1) /\ (m - k) + 1 \in 2..Len(t) /\ at((m - k) + 1) = m
          /\ j - ((m - k) + 1) = at(j) - m
  BY <1>1
<1>6. \A j \in 2..Len(t) : \A n \in Nat : at(j) + n <= Len(s) =>
          /\ j + n <= Len(t)
          /\ \A i \in (j + 1)..(j + n) : i \in 2..Len(t) /\ at(i) \in (at(j) + 1)..(at(j) + n)
                                         /\ at(i) - at(j) = i - j
  BY <1>1
<1> HIDE DEF at
<1>7. Once(t)
  <2> SUFFICES ASSUME NEW i \in 1..Len(t), NEW j \in 1..Len(t), NEW id \in IdsOf(t[i]), id \in IdsOf(t[j])
               PROVE  i = j
    BY DEF Once
  <2>1. i \in 2..Len(t) /\ j \in 2..Len(t)
    BY <1>2
  <2>2. at(i) = at(j)
    BY <1>3, <2>1 DEF Once
  <2> QED
    BY <1>4, <2>1, <2>2
<1>8. ASSUME NEW j \in 1..Len(t), t[j].kind = "call"
      PROVE  /\ j + Len(t[j].ids) <= Len(t)
             /\ \A i \in (j + 1)..(j + Len(t[j].ids)) : Block(t, j, i)
  <2>1. j \in 2..Len(t) /\ at(j) \in 1..Len(s) /\ t[j] = s[at(j)]
    BY <1>2, <1>3, <1>8
  <2> DEFINE n == Len(t[j].ids)
  <2>2. n \in Nat
    BY <1>1, <1>8, ItemFacts
  <2>3. at(j) + n <= Len(s) /\ \A m \in (at(j) + 1)..(at(j) + n) : Block(s, at(j), m)
    BY <1>8, <2>1 DEF Fit
  <2> HIDE DEF n
  <2>4. /\ j + n <= Len(t)
        /\ \A i \in (j + 1)..(j + n) : i \in 2..Len(t) /\ at(i) \in (at(j) + 1)..(at(j) + n)
                                       /\ at(i) - at(j) = i - j
    BY <1>6, <2>1, <2>2, <2>3
  <2>5. ASSUME NEW i \in (j + 1)..(j + n) PROVE Block(t, j, i)
    <3>1. Block(s, at(j), at(i)) /\ t[i] = s[at(i)] /\ at(i) - at(j) = i - j
      BY <1>3, <2>3, <2>4
    <3> QED
      BY <2>1, <3>1 DEF Block
  <2> QED
    BY <2>4, <2>5 DEF n
<1>9. ASSUME NEW j \in 1..Len(t), t[j].kind = "out"
      PROVE  (\E i \in 1..(j - 1) : Block(t, i, j)) \/ t[j].id \in Ids \ Calls(t)
  <2>1. j \in 2..Len(t) /\ at(j) \in 1..Len(s) /\ t[j] = s[at(j)]
    BY <1>2, <1>3, <1>9
  <2>2. t[j].id \in Ids
    BY <1>1, <1>9, ItemFacts
  <2>3. (\E m \in 1..(at(j) - 1) : Block(s, m, at(j))) \/ t[j].id \notin Calls(s)
    BY <1>9, <2>1 DEF Fit
  <2>4. \A id : id \in Calls(t) => \E i \in 2..Len(t) : id \in IdsOf(s[at(i)])
    <3>1. \A id : id \in Calls(t) <=> \E i \in 1..Len(t) : id \in IdsOf(t[i])
      BY <1>1, CallsOf
    <3> QED
      BY <1>2, <1>3, <3>1
  <2>5. CASE t[j].id \notin Calls(s)
    <3>1. \A id : id \in Calls(s) <=> \E m \in 1..Len(s) : id \in IdsOf(s[m])
      BY CallsOf
    <3>2. t[j].id \notin Calls(t)
      BY <1>3, <2>4, <2>5, <3>1
    <3> QED
      BY <2>2, <3>2
  <2>6. ASSUME NEW m \in 1..(at(j) - 1), Block(s, m, at(j))
        PROVE  (\E i \in 1..(j - 1) : Block(t, i, j)) \/ t[j].id \in Ids \ Calls(t)
    <3>1. /\ s[m].kind = "call" /\ at(j) - m \in 1..Len(s[m].ids) /\ t[j].id = s[m].ids[at(j) - m]
          /\ m \in 1..Len(s)
      BY <1>1, <2>1, <2>6 DEF Block, at
    <3>2. CASE m > k
      <4>1. /\ (m - k) + 1 \in 1..(j - 1) /\ (m - k) + 1 \in 2..Len(t) /\ at((m - k) + 1) = m
            /\ j - ((m - k) + 1) = at(j) - m
        BY <1>5, <2>1, <3>2
      <4>2. t[(m - k) + 1] = s[m]
        BY <1>3, <4>1
      <4>3. Block(t, (m - k) + 1, j)
        BY <1>9, <3>1, <4>1, <4>2 DEF Block
      <4> QED
        BY <4>1, <4>3
    <3>3. CASE ~(m > k)
      <4>1. t[j].id \in IdsOf(s[m])
        <5>1. s[m].ids \in Seq(Ids)
          BY <3>1, ItemFacts
        <5>2. at(j) - m \in DOMAIN s[m].ids
          BY <3>1, <5>1
        <5> QED
          BY <3>1, <5>2 DEF IdsOf
      <4>2. ASSUME NEW i \in 2..Len(t), t[j].id \in IdsOf(s[at(i)]) PROVE FALSE
        <5>1. at(i) = m
          BY <1>3, <3>1, <4>1, <4>2 DEF Once
        <5>2. at(i) > k
          BY <1>1 DEF at
        <5> QED
          BY <3>3, <5>1, <5>2
      <4> QED
        BY <2>2, <2>4, <4>2
    <3> QED
      BY <3>2, <3>3
  <2> QED
    BY <2>3, <2>5, <2>6
<1> QED
  BY <1>7, <1>8, <1>9 DEF Fit

\* A compaction adds nothing but the summary.
LEMMA CompactSpoken ==
    ASSUME Limited, NEW s \in Seq(Items), NEW t, t = CompactMessages(s)
    PROVE  \A i \in Elements(t) : i \in Elements(s) \/ i = Summary
<1>1. CASE Len(s) <= Keep
  BY <1>1, CompactFacts
<1>2. CASE Len(s) > Keep
  <2>1. PICK k : Shortened(s, k, t)
    BY <1>2, CompactFacts
  <2>2. t \in Seq(Items) /\ t[1] = Summary /\ Len(t) \in Nat
        /\ \A j \in 2..Len(t) : t[j] = s[k + (j - 1)] /\ k + (j - 1) \in 1..Len(s)
    BY <2>1 DEF Shortened
  <2>3. \A j \in 1..Len(t) : j = 1 \/ j \in 2..Len(t)
    BY <2>2
  <2>4. \A i : i \in Elements(t) <=> \E j \in 1..Len(t) : t[j] = i
    BY <2>2, ElementsIn
  <2>5. \A i : i \in Elements(s) <=> \E j \in 1..Len(s) : s[j] = i
    BY ElementsIn
  <2> QED
    BY <2>2, <2>3, <2>4, <2>5
<1>3. Len(s) \in Nat
  OBVIOUS
<1> QED
  BY <1>1, <1>2, <1>3 DEF Limited

LEMMA CompactFit ==
    ASSUME Limited, NEW s \in Seq(Items), Fit(s, Ids), Once(s), NEW t, t = CompactMessages(s)
    PROVE  t \in Seq(Items) /\ Fit(t, Ids) /\ Once(t)
<1>1. CASE Len(s) <= Keep
  BY <1>1, CompactFacts
<1>2. CASE Len(s) > Keep
  <2>1. PICK k : Shortened(s, k, t)
    BY <1>2, CompactFacts
  <2>2. t \in Seq(Items)
    BY <2>1 DEF Shortened
  <2> QED
    BY <2>1, <2>2, ShortenedFit
<1>3. Len(s) \in Nat
  OBVIOUS
<1> QED
  BY <1>1, <1>2, <1>3 DEF Limited

\* The outputs that follow the first k items of s belong to a call among these.
Owed(s, k, rest) ==
    /\ rest \in Seq(Ids) /\ k + Len(rest) <= Len(s)
    /\ \A n \in 1..Len(rest) :
          s[k + n].kind = "out" /\ s[k + n].id = rest[n] /\ rest[n] \in Calls(s)
    /\ \A c \in 1..k : s[c].kind = "call" => c + Len(s[c].ids) <= k + Len(rest)
\* The first k items of s as convert_history_to_anthropic leaves them.
Converted(s, k, t) == t \in Seq(Items) /\ \E rest : Owed(s, k, rest) /\ Fit(Full(t, rest), {})

\* What follows a call, an output and any other item.
LEMMA OwedNext ==
    ASSUME NEW s \in Seq(Items), Fit(s, Ids), NEW k \in Nat, k + 1 <= Len(s),
           NEW rest, Owed(s, k, rest)
    PROVE  /\ rest # <<>> => /\ s[k + 1].kind = "out" /\ s[k + 1].id = Head(rest)
                             /\ Head(rest) \in Calls(s) /\ Owed(s, k + 1, Tail(rest))
           /\ rest = <<>> /\ s[k + 1].kind = "call" => Owed(s, k + 1, s[k + 1].ids)
           /\ rest = <<>> /\ s[k + 1].kind # "call" => Owed(s, k + 1, <<>>)
           /\ rest = <<>> /\ s[k + 1].kind = "out" => s[k + 1].id \notin Calls(s)
<1>1. /\ rest \in Seq(Ids) /\ Len(rest) \in Nat /\ Len(s) \in Nat /\ k + Len(rest) <= Len(s)
      /\ \A n \in 1..Len(rest) :
            s[k + n].kind = "out" /\ s[k + n].id = rest[n] /\ rest[n] \in Calls(s)
      /\ \A c \in 1..k : s[c].kind = "call" => c + Len(s[c].ids) <= k + Len(rest)
  BY DEF Owed
<1>2. k + 1 \in 1..Len(s) /\ \A c \in 1..(k + 1) : c \in 1..k \/ c = k + 1
  BY <1>1
<1>3. ASSUME rest # <<>>
      PROVE  /\ s[k + 1].kind = "out" /\ s[k + 1].id = Head(rest)
             /\ Head(rest) \in Calls(s) /\ Owed(s, k + 1, Tail(rest))
  <2> DEFINE b == Tail(rest)
  <2>1. /\ b \in Seq(Ids) /\ Len(b) \in Nat /\ Len(rest) = Len(b) + 1 /\ rest[1] = Head(rest)
        /\ \A n \in 1..Len(b) : b[n] = rest[n + 1]
    BY <1>1, <1>3
  <2> HIDE DEF b
  <2>2. 1 \in 1..Len(rest) /\ \A n \in 1..Len(b) : n + 1 \in 1..Len(rest) /\ k + (n + 1) = (k + 1) + n
    BY <2>1
  <2>3. s[k + 1].kind = "out" /\ s[k + 1].id = Head(rest) /\ Head(rest) \in Calls(s)
    BY <1>1, <2>1, <2>2
  <2>4. k + Len(rest) = (k + 1) + Len(b)
    BY <2>1
  <2>5. \A n \in 1..Len(b) :
            s[(k + 1) + n].kind = "out" /\ s[(k + 1) + n].id = b[n] /\ b[n] \in Calls(s)
    BY <1>1, <2>1, <2>2
  <2>6. \A c \in 1..(k + 1) : s[c].kind = "call" => c + Len(s[c].ids) <= (k + 1) + Len(b)
    BY <1>1, <1>2, <2>3, <2>4
  <2>7. Owed(s, k + 1, b)
    BY <1>1, <2>1, <2>4, <2>5, <2>6 DEF Owed
  <2> QED
    BY <2>3, <2>7 DEF b
<1>4. ASSUME rest = <<>> PROVE \A c \in 1..k : s[c].kind = "call" => c + Len(s[c].ids) <= k
  <2>1. Len(rest) = 0 /\ k + 0 = k
    BY <1>4
  <2> QED
    BY <1>1, <2>1
<1>5. ASSUME rest = <<>>, s[k + 1].kind = "call" PROVE Owed(s, k + 1, s[k + 1].ids)
  <2>1. PICK ids : ids = s[k + 1].ids
    OBVIOUS
  <2>2. ids \in Seq(Ids) /\ s[k + 1] \in Items
    BY <1>2, <1>5, <2>1, ItemFacts
  <2>3. /\ (k + 1) + Len(ids) <= Len(s)
        /\ \A j \in ((k + 1) + 1)..((k + 1) + Len(ids)) : Block(s, k + 1, j)
    BY <1>2, <1>5, <2>1 DEF Fit
  <2>4. Len(ids) \in Nat /\ DOMAIN ids = 1..Len(ids)
    BY <2>2
  <2>5. \A n \in 1..Len(ids) : /\ (k + 1) + n \in ((k + 1) + 1)..((k + 1) + Len(ids))
                               /\ ((k + 1) + n) - (k + 1) = n
    BY <2>4
  <2>6. \A n \in 1..Len(ids) : s[(k + 1) + n].kind = "out" /\ s[(k + 1) + n].id = ids[n]
    BY <2>1, <2>3, <2>5 DEF Block
  <2>7. \A n \in 1..Len(ids) : ids[n] \in Calls(s)
    <3>1. \A n \in 1..Len(ids) : ids[n] \in IdsOf(s[k + 1])
      BY <1>5, <2>1, <2>4 DEF IdsOf
    <3>2. \A id : id \in Calls(s) <=> \E j \in 1..Len(s) : id \in IdsOf(s[j])
      BY CallsOf
    <3> QED
      BY <1>2, <3>1, <3>2
  <2>8. \A c \in 1..(k + 1) : s[c].kind = "call" => c + Len(s[c].ids) <= (k + 1) + Len(ids)
    <3>1. ASSUME NEW c \in 1..k, s[c].kind = "call" PROVE c + Len(s[c].ids) <= (k + 1) + Len(ids)
      <4>1. c \in 1..Len(s) /\ c + Len(s[c].ids) <= k
        BY <1>1, <1>4, <1>5, <3>1
      <4>2. Len(s[c].ids) \in Nat
        BY <3>1, <4>1, ItemFacts
      <4> QED
        BY <2>4, <4>1, <4>2
    <3>2. (k + 1) + Len(s[k + 1].ids) <= (k + 1) + Len(ids)
      BY <2>1, <2>4
    <3> QED
      BY <1>2, <3>1, <3>2
  <2>9. Owed(s, k + 1, ids)
    BY <2>2, <2>3, <2>6, <2>7, <2>8 DEF Owed
  <2> QED
    BY <2>1, <2>9
<1>6. ASSUME rest = <<>>, s[k + 1].kind # "call" PROVE Owed(s, k + 1, <<>>)
  <2>1. \A c \in 1..(k + 1) : s[c].kind = "call" => c + Len(s[c].ids) <= (k + 1) + 0
    <3> SUFFICES ASSUME NEW c \in 1..k, s[c].kind = "call" PROVE c + Len(s[c].ids) <= (k + 1) + 0
      BY <1>2, <1>6
    <3>1. c \in 1..Len(s) /\ c + Len(s[c].ids) <= k
      BY <1>1, <1>4, <1>6
    <3>2. Len(s[c].ids) \in Nat
      BY <3>1, ItemFacts
    <3> QED
      BY <3>1, <3>2
  <2>2. <<>> \in Seq(Ids) /\ Len(<<>>) = 0 /\ (k + 1) + 0 <= Len(s)
    BY <1>1
  <2> QED
    BY <2>1, <2>2 DEF Owed
<1>7. ASSUME rest = <<>>, s[k + 1].kind = "out" PROVE s[k + 1].id \notin Calls(s)
  <2>1. ASSUME NEW c \in 1..((k + 1) - 1), Block(s, c, k + 1) PROVE FALSE
    <3>1. c \in 1..k /\ c \in 1..Len(s) /\ s[c].kind = "call" /\ (k + 1) - c \in 1..Len(s[c].ids)
      BY <1>1, <2>1 DEF Block
    <3>2. c + Len(s[c].ids) <= k /\ Len(s[c].ids) \in Nat
      BY <1>4, <1>7, <3>1, ItemFacts
    <3> QED
      BY <3>1, <3>2
  <2> QED
    BY <1>2, <1>7, <2>1 DEF Fit
<1> QED
  BY <1>3, <1>5, <1>6, <1>7

LEMMA ConvertsOn ==
    ASSUME NEW s \in Seq(Items), Fit(s, Ids), NEW k \in Nat, k + 1 <= Len(s),
           NEW t, Converted(s, k, t), NEW u,
           u = IF s[k + 1].kind = "out" /\ s[k + 1].id \notin Calls(s) THEN t ELSE Append(t, s[k + 1])
    PROVE  Converted(s, k + 1, u)
<1>1. PICK rest : Owed(s, k, rest) /\ Fit(Full(t, rest), {})
  BY DEF Converted
<1>2. PICK i : i = s[k + 1]
  OBVIOUS
<1>3. i \in Items /\ t \in Seq(Items) /\ rest \in Seq(Ids)
  BY <1>1, <1>2 DEF Converted, Owed
<1>4. rest = <<>> => Fit(t, {})
  BY <1>1, <1>3, FullNothing
<1>5. CASE rest # <<>>
  <2>1. i.kind = "out" /\ i.id = Head(rest) /\ Head(rest) \in Calls(s) /\ Owed(s, k + 1, Tail(rest))
    BY <1>1, <1>2, <1>5, OwedNext
  <2>2. u = Append(t, i)
    BY <1>2, <2>1
  <2>3. u \in Seq(Items)
    BY <1>3, <2>2
  <2>4. Fit(Full(u, Tail(rest)), {})
    BY <1>1, <1>3, <1>5, <2>1, <2>2, FitOut
  <2> QED
    BY <2>1, <2>3, <2>4 DEF Converted
<1>6. CASE rest = <<>> /\ i.kind = "call"
  <2>1. Owed(s, k + 1, i.ids)
    BY <1>1, <1>2, <1>6, OwedNext
  <2>2. u = Append(t, i) /\ u \in Seq(Items)
    BY <1>2, <1>3, <1>6
  <2>3. PICK ids : ids = i.ids
    OBVIOUS
  <2>4. ids \in Seq(Ids)
    BY <1>3, <1>6, <2>3, ItemFacts
  <2>5. Fit(Full(u, ids), {})
    BY <1>3, <1>4, <1>6, <2>2, <2>3, <2>4, FitCall
  <2> QED
    BY <2>1, <2>2, <2>3, <2>5 DEF Converted
<1>7. CASE rest = <<>> /\ i.kind # "call"
  <2>1. Owed(s, k + 1, <<>>) /\ (i.kind = "out" => u = t) /\ (i.kind # "out" => u = Append(t, i))
    BY <1>1, <1>2, <1>7, OwedNext
  <2>2. u \in Seq(Items) /\ Fit(u, {})
    <3>1. CASE i.kind = "out"
      BY <1>3, <1>4, <1>7, <2>1, <3>1
    <3>2. CASE i.kind # "out"
      BY <1>3, <1>4, <1>7, <2>1, <3>2, FitItem
    <3> QED
      BY <3>1, <3>2
  <2>3. Fit(Full(u, <<>>), {})
    BY <2>2, FullNothing
  <2> QED
    BY <2>1, <2>2, <2>3 DEF Converted
<1> QED
  BY <1>5, <1>6, <1>7

LEMMA ConvertFits ==
    ASSUME NEW s \in Seq(Items), Fit(s, Ids), NEW t, t = ConvertAnthropic(s)
    PROVE  t \in Seq(Items) /\ Fit(t, {})
<1> DEFINE gone == {k \in DOMAIN s : s[k].kind = "out" /\ s[k].id \notin Calls(s)}
<1>0. \A k \in 1..Len(s) : k \in gone <=> s[k].kind = "out" /\ s[k].id \notin Calls(s)
  OBVIOUS
<1>1. t = Without(s, gone)
  BY DEF ConvertAnthropic
<1> HIDE DEF gone
<1>2. PICK f : /\ f = [k \in 0..Len(s) |->
                        IF k = 0 THEN <<>>
                        ELSE IF k \in gone THEN f[k - 1] ELSE Append(f[k - 1], s[k])]
               /\ Without(s, gone) = f[Len(s)]
  BY WithoutSteps
<1> DEFINE G == {k \in Nat : k <= Len(s) => Converted(s, k, f[k])}
<1>3. 0 \in G
  <2>1. f[0] = <<>>
    BY <1>2
  <2>2. Owed(s, 0, <<>>)
    BY DEF Owed
  <2>3. \A w : w = <<>> => Fit(w, {})
    BY DEF Fit
  <2>4. \A w \in Seq(Items) : w = <<>> => Full(w, <<>>) = w
    BY FullNothing
  <2>5. PICK w : w = <<>> /\ w \in Seq(Items)
    <3>1. <<>> \in Seq(Items)
      OBVIOUS
    <3>2. <<>> = <<>> /\ <<>> \in Seq(Items)
      BY <3>1
    <3> QED
      BY <3>2, Zenon
  <2>6. Converted(s, 0, w)
    BY <2>2, <2>3, <2>4, <2>5 DEF Converted
  <2> QED
    BY <2>1, <2>5, <2>6
<1>4. ASSUME NEW k \in Nat, k \in G PROVE k + 1 \in G
  <2> SUFFICES ASSUME k + 1 <= Len(s) PROVE Converted(s, k + 1, f[k + 1])
    OBVIOUS
  <2>1. k + 1 \in 0..Len(s) /\ k + 1 \in 1..Len(s) /\ k + 1 # 0 /\ (k + 1) - 1 = k /\ k <= Len(s)
    OBVIOUS
  <2>2. f[k + 1] = IF s[k + 1].kind = "out" /\ s[k + 1].id \notin Calls(s)
                   THEN f[k] ELSE Append(f[k], s[k + 1])
    BY <1>0, <1>2, <2>1
  <2>3. Converted(s, k, f[k])
    BY <1>4, <2>1
  <2> HIDE DEF G
  <2> QED
    BY <2>2, <2>3, ConvertsOn
<1>5. Converted(s, Len(s), t)
  <2>1. Nat \subseteq G
    <3> HIDE DEF G
    <3> QED
      BY <1>3, <1>4, Induction
  <2>2. Len(s) \in G
    BY <2>1
  <2>3. Converted(s, Len(s), f[Len(s)])
    BY <2>2
  <2> QED
    BY <1>1, <1>2, <2>3
<1>6. PICK rest : Owed(s, Len(s), rest) /\ Fit(Full(t, rest), {})
  BY <1>5 DEF Converted
<1>7. rest = <<>>
  <2>1. rest \in Seq(Ids) /\ Len(rest) \in Nat /\ Len(s) \in Nat /\ Len(s) + Len(rest) <= Len(s)
    BY <1>6 DEF Owed
  <2>2. Len(rest) = 0
    BY <2>1
  <2> QED
    BY <2>1, <2>2
<1>8. t \in Seq(Items)
  BY <1>5 DEF Converted
<1> QED
  BY <1>6, <1>7, <1>8, FullNothing

----------------------------------------------------------------------------
(* What a run of Anthropic or OpenRouter has, and what it sends.           *)

\* The outputs without a call that a history may have: Anthropic's conversion drops them.
Loose(p) == IF p = "openrouter" THEN {} ELSE Ids
\* A history that provider p may save.
Sane(p, s) == IF p = "codex" THEN Chained(s) ELSE Fit(s, Loose(p)) /\ Once(s)

\* The items s of a run that sends x and has the calls rest left, in a paused turn or not.
Serves(p, s, x, rest, paused) ==
    /\ x \in Seq(Items)
    /\ paused => p = "anthropic" /\ \A id \in Elements(rest) : id \notin Calls(s)
    /\ Sane(p, Full(s, IF paused THEN <<>> ELSE rest))
    /\ IF p = "openrouter" THEN x = s \/ Len(x) < Len(s) ELSE Fit(Full(x, rest), {})

\* An item that is neither a call nor an output.
Spoken(i) == i.kind \notin {"call", "out"}

LEMMA SaneOn ==
    ASSUME NEW p, NEW s \in Seq(Items), Sane(p, s), NEW i \in Items, Spoken(i),
           NEW t, t = Append(s, i)
    PROVE  t \in Seq(Items) /\ Sane(p, t)
<1>1. CASE p = "codex"
  <2>1. Chained(s) /\ i.kind \notin {"call", "out"}
    BY <1>1 DEF Sane, Spoken
  <2>2. Chained(t) /\ t \in Seq(Items)
    BY <2>1, ChainPlain
  <2> QED
    BY <1>1, <2>2 DEF Sane
<1>2. CASE p # "codex"
  <2>1. PICK X : X = Loose(p)
    OBVIOUS
  <2>2. Fit(s, X) /\ Once(s) /\ i.kind # "call" /\ i.kind # "out"
    BY <1>2, <2>1 DEF Sane, Spoken
  <2>3. t \in Seq(Items) /\ Fit(t, X) /\ Once(t)
    BY <2>2, FitItem
  <2> QED
    BY <1>2, <2>1, <2>3 DEF Sane
<1> QED
  BY <1>1, <1>2

LEMMA ConvertServes ==
    ASSUME NEW p, p \notin {"codex", "openrouter"}, NEW s \in Seq(Items), Sane(p, s),
           NEW i \in Items, Spoken(i), NEW rest, rest = <<>>
    PROVE  Serves(p, Append(s, i), Append(ConvertAnthropic(s), i), rest, FALSE)
<1>1. PICK t : t = Append(s, i)
  OBVIOUS
<1>2. PICK c : c = ConvertAnthropic(s)
  OBVIOUS
<1>3. PICK x : x = Append(c, i)
  OBVIOUS
<1>4. t \in Seq(Items) /\ Sane(p, t)
  BY <1>1, SaneOn
<1>5. Fit(s, Ids)
  BY DEF Sane, Loose
<1>6. c \in Seq(Items) /\ Fit(c, {})
  BY <1>2, <1>5, ConvertFits
<1>7. x \in Seq(Items) /\ Fit(x, {})
  BY <1>3, <1>6, FitItem DEF Spoken
<1>8. Full(t, rest) = t /\ Full(x, rest) = x
  BY <1>4, <1>7, FullNothing
<1>9. Serves(p, t, x, rest, FALSE)
  BY <1>4, <1>7, <1>8 DEF Serves
<1> QED
  BY <1>1, <1>2, <1>3, <1>9

LEMMA LastServes ==
    ASSUME Window \in Nat, NEW s \in Seq(Items), Sane("openrouter", s),
           NEW i \in Items, Spoken(i), NEW rest, rest = <<>>
    PROVE  Serves("openrouter", Append(s, i), Append(LastItems(s), i), rest, FALSE)
<1>1. PICK t : t = Append(s, i)
  OBVIOUS
<1>2. PICK c : c = LastItems(s)
  OBVIOUS
<1>3. PICK x : x = Append(c, i)
  OBVIOUS
<1>4. t \in Seq(Items) /\ Sane("openrouter", t) /\ Len(t) = Len(s) + 1 /\ Len(s) \in Nat
  <2>1. Len(t) = Len(s) + 1 /\ Len(s) \in Nat
    BY <1>1
  <2>2. t \in Seq(Items) /\ Sane("openrouter", t)
    BY <1>1, SaneOn
  <2> QED
    BY <2>1, <2>2
<1>5. c \in Seq(Items) /\ (c = s \/ Len(c) < Len(s))
  <2>1. CASE Len(s) > Window
    <3>1. c = SubSeq(s, Len(s) - Window + 1, Len(s))
      BY <1>2, <2>1 DEF LastItems
    <3>2. c \in Seq(Items) /\ Len(c) = Window
      BY <1>4, <2>1, <3>1
    <3> QED
      BY <2>1, <3>2
  <2>2. CASE ~(Len(s) > Window)
    <3>1. c = SubSeq(s, 1, Len(s))
      BY <1>2, <2>2 DEF LastItems
    <3>2. c = s
      BY <3>1
    <3> QED
      BY <3>2
  <2> QED
    BY <2>1, <2>2
<1>6. x \in Seq(Items) /\ (x = t \/ Len(x) < Len(t))
  <2>1. x \in Seq(Items) /\ Len(x) = Len(c) + 1 /\ Len(c) \in Nat
    BY <1>3, <1>5
  <2> QED
    BY <1>1, <1>3, <1>4, <1>5, <2>1
<1>7. Full(t, rest) = t
  BY <1>4, FullNothing
<1>8. Serves("openrouter", t, x, rest, FALSE)
  BY <1>4, <1>6, <1>7 DEF Serves
<1> QED
  BY <1>1, <1>2, <1>3, <1>8

\* Between two rounds.
LEMMA ServesIdle ==
    ASSUME NEW p, NEW s \in Seq(Items), NEW x, NEW rest, rest = <<>>, NEW paused \in BOOLEAN,
           Serves(p, s, x, rest, paused)
    PROVE  /\ Sane(p, s) /\ Serves(p, s, x, rest, FALSE) /\ x \in Seq(Items)
           /\ p # "openrouter" => Fit(x, {})
<1>1. x \in Seq(Items)
  BY DEF Serves
<1>2. Full(s, rest) = s /\ Full(x, rest) = x /\ (IF paused THEN <<>> ELSE rest) = rest
  BY <1>1, FullNothing
<1>3. Sane(p, s) /\ (p # "openrouter" => Fit(x, {}))
  BY <1>2 DEF Serves
<1> QED
  BY <1>1, <1>2, <1>3 DEF Serves

LEMMA ServesPaired ==
    ASSUME NEW p, p # "codex", NEW s \in Seq(Items), NEW x, NEW rest, rest = <<>>,
           Serves(p, s, x, rest, FALSE)
    PROVE  Paired(x) \/ (p = "openrouter" /\ Len(x) < Len(s))
<1>1. Sane(p, s) /\ x \in Seq(Items) /\ (p # "openrouter" => Fit(x, {}))
  BY ServesIdle
<1>2. CASE p # "openrouter"
  BY <1>1, <1>2, FitPaired
<1>3. CASE p = "openrouter" /\ x = s
  <2>1. Fit(s, {})
    BY <1>1, <1>3 DEF Sane, Loose
  <2> QED
    BY <1>3, <2>1, FitPaired
<1> QED
  BY <1>2, <1>3 DEF Serves

\* The model wants calls that are new.
LEMMA ServesCall ==
    ASSUME NEW p, p # "codex", NEW s \in Seq(Items), NEW x, NEW none, none = <<>>,
           Serves(p, s, x, none, FALSE), NEW ids \in Seq(Ids), NEW c \in Items,
           c.kind = "call", c.ids = ids,
           \A id \in IdsOf(c) : id \notin Calls(s),
           \A k \in 1..Len(s) : s[k].kind = "out" => s[k].id \notin IdsOf(c)
    PROVE  /\ Serves(p, Append(s, c), Append(x, c), ids, FALSE)
           /\ p = "anthropic" => Serves(p, s, Append(x, c), ids, TRUE)
<1>1. x \in Seq(Items) /\ Sane(p, s) /\ (p # "openrouter" => Fit(x, {}))
  BY ServesIdle
<1>2. PICK X : X = Loose(p)
  OBVIOUS
<1>3. Fit(s, X) /\ Once(s)
  BY <1>1, <1>2 DEF Sane
<1>4. PICK t : t = Append(s, c)
  OBVIOUS
<1>5. PICK y : y = Append(x, c)
  OBVIOUS
<1>6. t \in Seq(Items) /\ y \in Seq(Items)
  BY <1>1, <1>4, <1>5
<1>7. Len(t) = Len(s) + 1 /\ Len(y) = Len(x) + 1 /\ Len(s) \in Nat /\ Len(x) \in Nat
  BY <1>1, <1>4, <1>5
<1>8. Sane(p, Full(t, ids))
  <2>1. PICK u : u = Full(Append(s, c), ids)
    OBVIOUS
  <2>2. Fit(u, X) /\ Once(u)
    BY <1>3, <2>1, FitCall
  <2> QED
    BY <1>2, <1>4, <2>1, <2>2 DEF Sane
<1>9. p # "openrouter" => Fit(Full(y, ids), {})
  <2> SUFFICES ASSUME p # "openrouter" PROVE Fit(Full(y, ids), {})
    OBVIOUS
  <2>1. PICK u : u = Full(Append(x, c), ids)
    OBVIOUS
  <2>2. PICK Z : Z = {}
    OBVIOUS
  <2>3. Fit(x, Z) /\ \A k \in 1..Len(x) : x[k].kind = "out" /\ x[k].id \in Z => x[k].id \notin IdsOf(c)
    BY <1>1, <2>2
  <2>4. Fit(u, Z)
    BY <1>1, <2>1, <2>3, FitCall
  <2> QED
    BY <1>5, <2>1, <2>2, <2>4
<1>10. p = "openrouter" => y = t \/ Len(y) < Len(t)
  BY <1>4, <1>5, <1>7 DEF Serves
<1>11. Serves(p, t, y, ids, FALSE)
  BY <1>6, <1>8, <1>9, <1>10 DEF Serves
<1>12. ASSUME p = "anthropic" PROVE Serves(p, s, y, ids, TRUE)
  <2>1. Full(s, <<>>) = s
    BY FullNothing
  <2>2. \A id \in Elements(ids) : id \notin Calls(s)
    BY DEF Elements, IdsOf
  <2> QED
    BY <1>1, <1>6, <1>9, <1>12, <2>1, <2>2 DEF Serves
<1> QED
  BY <1>4, <1>5, <1>11, <1>12

\* The first call left has its output.
LEMMA ServesOut ==
    ASSUME NEW p, p # "codex", NEW s \in Seq(Items), NEW x, NEW rest \in Seq(Ids), rest # <<>>,
           NEW paused \in BOOLEAN, Serves(p, s, x, rest, paused),
           NEW o \in Items, o.kind = "out", o.id = Head(rest)
    PROVE  Serves(p, Append(s, o), Append(x, o), Tail(rest), paused)
<1>1. x \in Seq(Items)
  BY DEF Serves
<1>2. PICK X : X = Loose(p)
  OBVIOUS
<1>4. PICK t : t = Append(s, o)
  OBVIOUS
<1>5. PICK y : y = Append(x, o)
  OBVIOUS
<1>6. t \in Seq(Items) /\ y \in Seq(Items)
  BY <1>1, <1>4, <1>5
<1>7. Len(t) = Len(s) + 1 /\ Len(y) = Len(x) + 1 /\ Len(s) \in Nat /\ Len(x) \in Nat
  BY <1>1, <1>4, <1>5
<1>8. PICK less : less = Tail(rest)
  OBVIOUS
<1>9. /\ less \in Seq(Ids) /\ Head(rest) \in Elements(rest)
      /\ \A id \in Elements(less) : id \in Elements(rest)
  BY <1>8 DEF Elements
<1>10. p # "openrouter" => Fit(Full(y, less), {})
  <2>1. p # "openrouter" => Fit(Full(x, rest), {})
    BY DEF Serves
  <2>2. PICK Z : Z = {}
    OBVIOUS
  <2>3. PICK u : u = Full(Append(x, o), Tail(rest))
    OBVIOUS
  <2>4. Fit(Full(x, rest), Z) => Fit(u, Z)
    BY <1>1, <2>3, FitOut
  <2> QED
    BY <1>5, <1>8, <2>1, <2>2, <2>3, <2>4
<1>11. p = "openrouter" => y = t \/ Len(y) < Len(t)
  BY <1>4, <1>5, <1>7 DEF Serves
<1>12. CASE paused = FALSE
  <2>1. Fit(Full(s, rest), X) /\ Once(Full(s, rest))
    BY <1>2, <1>12 DEF Serves, Sane
  <2>2. PICK u : u = Full(Append(s, o), Tail(rest))
    OBVIOUS
  <2>3. Fit(u, X) /\ Once(u)
    BY <2>1, <2>2, FitOut
  <2>4. Sane(p, Full(t, less))
    BY <1>2, <1>4, <1>8, <2>2, <2>3 DEF Sane
  <2>5. Serves(p, t, y, less, FALSE)
    BY <1>6, <1>10, <1>11, <2>4 DEF Serves
  <2> QED
    BY <1>4, <1>5, <1>8, <1>12, <2>5
<1>13. CASE paused = TRUE
  <2>1. p = "anthropic" /\ \A id \in Elements(rest) : id \notin Calls(s)
    BY <1>13 DEF Serves
  <2>2. Full(s, <<>>) = s
    BY FullNothing
  <2>3. Fit(s, X) /\ Once(s)
    BY <1>2, <1>13, <2>2 DEF Serves, Sane
  <2>4. Head(rest) \in X \ Calls(s)
    BY <1>2, <1>9, <2>1 DEF Loose
  <2>5. o.kind # "call" /\ (o.kind = "out" => o.id \in X \ Calls(s))
    BY <2>4
  <2>6. Fit(t, X) /\ Once(t)
    BY <1>4, <2>3, <2>5, FitItem
  <2>7. Full(t, <<>>) = t
    BY <1>6, FullNothing
  <2>8. \A id : id \in Calls(t) => id \in Calls(s)
    <3>1. \A id : id \in Calls(t) <=> \E k \in 1..Len(t) : id \in IdsOf(t[k])
      BY <1>6, CallsOf
    <3>2. \A id : id \in Calls(s) <=> \E k \in 1..Len(s) : id \in IdsOf(s[k])
      BY CallsOf
    <3>3. \A k \in 1..Len(t) : (k \in 1..Len(s) /\ t[k] = s[k]) \/ t[k] = o
      BY <1>4, AppendFacts
    <3>4. \A id : id \notin IdsOf(o)
      BY DEF IdsOf
    <3> QED
      BY <3>1, <3>2, <3>3, <3>4
  <2>9. Serves(p, t, y, less, TRUE)
    BY <1>2, <1>6, <1>9, <1>10, <1>11, <2>1, <2>6, <2>7, <2>8 DEF Serves, Sane
  <2> QED
    BY <1>4, <1>5, <1>8, <1>13, <2>9
<1> QED
  BY <1>12, <1>13

----------------------------------------------------------------------------
(* What the runs of a session send.                                        *)

Busy == {"tool", "asking", "again"}
Rest(u) == IF u.phase \in Busy THEN u.todo ELSE <<>>

\* Codex sends what it has; while it works the last item is the current call.
SoundCodex(u) ==
    /\ u.sent = u.items /\ Chained(u.items)
    /\ u.phase = "request" => Closed(u.items, Len(u.items))
    /\ u.phase \in Busy => /\ u.items # <<>> /\ u.items[Len(u.items)] = Call(<<Head(u.todo)>>)
                           /\ Closed(u.items, Len(u.items) - 1)
Sound(p, u) ==
    /\ Ready(u) => ~u.paused
    /\ u.phase \in Busy \cup {"request"} =>
          IF p = "codex" THEN SoundCodex(u) ELSE Serves(p, u.items, u.sent, Rest(u), u.paused)

\* A round that raised saves calls without outputs, which only Codex repairs, and a
\* compaction may leave OpenRouter outputs without a call.
Excused == \/ provider # "codex" /\ "raises" \in features
           \/ provider = "openrouter" /\ "compact" \in features
SoundRuns ==
    ~Excused => /\ Sane(provider, history) /\ Sane(provider, compacting)
                /\ provider = "openrouter" => compacting = <<>>
                /\ \A r \in Runs : Sound(provider, runs[r])

\* No item is about a call that is still to come.
Known(i) == /\ \A id \in IdsOf(i) : Past(id)
            /\ i.kind = "out" => Past(i.id)
Numbered == provider # "codex" => \A i : Held(i) => Known(i)

\* The calls of item i are those of the round in which run r is.
OwnCall(r, id) == id \in Ids /\ id[1] = r /\ id[2] = runs[r].round
Own(r, i) == /\ \A id \in IdsOf(i) : OwnCall(r, id)
             /\ i.kind = "out" => OwnCall(r, i.id)

\* What is new in the histories after a step of run r, which is u now.
Adds(r, u) ==
    \A i : i \in Elements(history') \/ i \in Elements(u.items) =>
        Held(i) \/ Spoken(i) \/ (Own(r, i) /\ (Ready(u) => runs[r].round < u.round))
Sends(r, u) ==
    /\ ~Excused => Sane(provider, history') /\ Sound(provider, u)
    /\ provider # "codex" => Adds(r, u)

LEMMA SendsKeeps ==
    ASSUME Limited, Facts, SoundRuns, Numbered, UNCHANGED <<provider, features>>,
           NEW r \in Runs, RunStep(r), Sends(r, runs'[r])
    PROVE  SoundRuns' /\ Numbered'
<1>1. PICK u : Moves(r, u) /\ (Ready(u) => Ready(runs[r]) \/ runs[r].round < u.round)
  BY RunSteps DEF Quiet, Settles, Turn
<1>2. runs'[r] = u /\ \A q \in Runs : q # r => runs'[q] = runs[q]
  BY <1>1, BecomesRuns DEF Moves
<1>3. compacting' = compacting
  BY <1>1 DEF Moves
<1>4. SoundRuns'
  <2> SUFFICES ASSUME ~Excused
               PROVE  /\ Sane(provider, history') /\ Sane(provider, compacting)
                      /\ provider = "openrouter" => compacting = <<>>
                      /\ \A q \in Runs : Sound(provider, runs'[q])
    BY <1>3 DEF SoundRuns, Excused
  <2> QED
    BY <1>2 DEF SoundRuns, Sends
<1>5. ASSUME NEW id, Past(id) PROVE Past(id)'
  BY <1>1, <1>5, PastStays DEF Facts
<1>6. ASSUME NEW id, OwnCall(r, id), Ready(u) => runs[r].round < u.round PROVE Past(id)'
  <2>1. runs[r].round \in Nat /\ u.round \in Nat /\ runs[r].round <= u.round
    BY <1>1, RunFacts DEF Facts, Moves, Becomes, RunShape, Run
  <2>2. id \in Ids /\ id[1] = r /\ id[2] = runs[r].round
    BY <1>6 DEF OwnCall
  <2> QED
    BY <1>2, <1>6, <2>1, <2>2 DEF Past
<1>7. ASSUME provider # "codex", NEW i, Held(i)' PROVE Known(i)'
  <2>1. Held(i) \/ i \in Elements(history') \/ i \in Elements(u.items)
    BY <1>2, <1>3, <1>7 DEF Held
  <2>2. \/ Held(i) \/ Spoken(i)
        \/ Own(r, i) /\ (Ready(u) => runs[r].round < u.round)
    BY <1>2, <1>7, <2>1 DEF Sends, Adds
  <2>3. CASE Held(i)
    <3>1. (\A id \in IdsOf(i) : Past(id)) /\ (i.kind = "out" => Past(i.id))
      BY <1>7, <2>3 DEF Numbered, Known
    <3> QED
      BY <1>5, <3>1 DEF Known
  <2>4. CASE Spoken(i)
    BY <2>4 DEF Known, Spoken, IdsOf
  <2>5. CASE Own(r, i) /\ (Ready(u) => runs[r].round < u.round)
    <3>1. (\A id \in IdsOf(i) : OwnCall(r, id)) /\ (i.kind = "out" => OwnCall(r, i.id))
      BY <2>5 DEF Own
    <3> QED
      BY <1>6, <2>5, <3>1 DEF Known
  <2> QED
    BY <2>2, <2>3, <2>4, <2>5
<1>8. Numbered'
  BY <1>7 DEF Numbered
<1> QED
  BY <1>4, <1>8

\* A history that run r may save.
Worthy(r, t) ==
    /\ t \in Seq(Items)
    /\ ~Excused => Sane(provider, t)
    /\ provider # "codex" => \A i \in Elements(t) : Held(i) \/ Spoken(i) \/ Own(r, i)

LEMMA WorthyOn ==
    ASSUME NEW r \in Runs, NEW t, Worthy(r, t), NEW i \in Items, Spoken(i)
    PROVE  Worthy(r, Append(t, i))
<1>1. PICK x : x = Append(t, i)
  OBVIOUS
<1>2. t \in Seq(Items)
  BY DEF Worthy
<1>3. x \in Seq(Items) /\ (\A j : j \in Elements(x) <=> j \in Elements(t) \/ j = i)
  BY <1>1, <1>2, AppendElements
<1>4. ~Excused => Sane(provider, x)
  BY <1>1, <1>2, SaneOn DEF Worthy
<1>5. Worthy(r, x)
  BY <1>3, <1>4 DEF Worthy
<1> QED
  BY <1>1, <1>5

LEMMA WorthyHistory ==
    ASSUME Facts, SoundRuns, NEW r \in Runs
    PROVE  Worthy(r, history)
BY HeldFacts, RunFacts DEF Facts, Worthy, SoundRuns

\* Between two rounds, and for Codex always, a run may save what it has.
LEMMA WorthyItems ==
    ASSUME Facts, SoundRuns, NEW r \in Runs,
           \/ runs[r].phase = "request"
           \/ runs[r].phase \in Busy /\ (provider = "codex" \/ Excused)
    PROVE  Worthy(r, runs[r].items)
<1> DEFINE v == runs[r]
<1>1. v.items \in Seq(Items) /\ v \in Run(v.sent)
  BY RunFacts DEF Facts
<1>2. ASSUME ~Excused PROVE Sane(provider, v.items)
  <2>1. Sound(provider, v) /\ v.phase \in Busy \cup {"request"}
    BY <1>2 DEF SoundRuns
  <2>2. CASE provider = "codex"
    BY <2>1, <2>2 DEF Sound, SoundCodex, Sane
  <2>3. CASE provider # "codex"
    <3>1. v.phase = "request" /\ Serves(provider, v.items, v.sent, Rest(v), v.paused)
      BY <1>2, <2>1, <2>3 DEF Sound
    <3>2. Rest(v) = <<>> /\ v.paused \in BOOLEAN
      BY <1>1, <3>1 DEF Rest, Busy, Run
    <3> QED
      BY <1>1, <3>1, <3>2, ServesIdle
  <2> QED
    BY <2>2, <2>3
<1> QED
  BY <1>1, <1>2, HeldFacts DEF Worthy

LEMMA EndedSends ==
    ASSUME NEW r \in Runs, NEW u, u.phase \in {"marked", "stopped", "ended"},
           u.items = runs[r].items \/ u.items = history', Worthy(r, history')
    PROVE  Sends(r, u)
<1>1. ~Ready(u) /\ u.phase \notin Busy \cup {"request"}
  BY DEF Ready, Busy
<1>2. Sound(provider, u)
  BY <1>1 DEF Sound
<1>3. provider # "codex" => Adds(r, u)
  BY <1>1, HeldFacts DEF Adds, Worthy
<1> QED
  BY <1>2, <1>3 DEF Sends, Worthy

LEMMA SavedSends ==
    ASSUME Facts, NEW r \in Runs, NEW t, Worthy(r, t), Saves(r, t) \/ Stops(r, t)
    PROVE  Sends(r, runs'[r])
<1>1. runs[r] \in Run(runs[r].sent) /\ runs = [q \in Runs |-> runs[q]]
  BY RunFacts DEF Facts, Shape
<1>2. history' = t
  BY DEF Saves, Stops
<1>3. CASE Saves(r, t)
  <2>1. runs'[r] = [runs[r] EXCEPT !.phase = "marked", !.items = t]
    BY <1>1, <1>3 DEF Saves
  <2>2. runs'[r].phase = "marked" /\ runs'[r].items = t
    BY <1>1, <2>1 DEF Run
  <2> QED
    BY <1>2, <2>2, EndedSends
<1>4. CASE Stops(r, t)
  <2>1. runs'[r] = [runs[r] EXCEPT !.phase = "stopped"]
    BY <1>1, <1>4 DEF Stops
  <2>2. runs'[r].phase = "stopped" /\ runs'[r].items = runs[r].items
    BY <1>1, <2>1 DEF Run
  <2> QED
    BY <1>2, <2>2, EndedSends
<1> QED
  BY <1>3, <1>4

LEMMA TextFacts ==
    ASSUME NEW r \in Runs
    PROVE  User(r) \in Items /\ Spoken(User(r)) /\ Text(r) \in Items /\ Spoken(Text(r))
BY ItemFacts DEF Spoken

LEMMA OutSends ==
    ASSUME Facts, NEW r \in Runs, NEW t, Worthy(r, t), OutOfRounds(r, t)
    PROVE  Sends(r, runs'[r])
<1>1. PICK i : i = Text(r) /\ i \in Items /\ Spoken(i)
  BY TextFacts
<1>2. Worthy(r, Append(t, i))
  BY <1>1, WorthyOn
<1>3. PICK w : (w = t \/ w = Append(t, i)) /\ (Saves(r, w) \/ Stops(r, w))
  BY <1>1 DEF OutOfRounds
<1> QED
  BY <1>2, <1>3, SavedSends

LEMMA FailsSends ==
    ASSUME Facts, SoundRuns, NEW r \in Runs,
           \/ Answer(r) \/ RequestFailsCodex(r) \/ RequestFailsAnthropic(r)
           \/ RequestFailsOpenRouter(r) \/ Raises(r)
    PROVE  Sends(r, runs'[r])
<1>1. PICK i : i = Text(r) /\ i \in Items /\ Spoken(i)
  BY TextFacts
<1>2. Worthy(r, history)
  BY WorthyHistory
<1>3. CASE Answer(r) \/ RequestFailsCodex(r) \/ RequestFailsAnthropic(r) \/ RequestFailsOpenRouter(r)
  <2>1. runs[r].phase = "request"
    BY <1>3 DEF Answer, RequestFailsCodex, RequestFailsAnthropic, RequestFailsOpenRouter, Failing
  <2>2. Worthy(r, runs[r].items)
    BY <2>1, WorthyItems
  <2>3. Worthy(r, Append(runs[r].items, i))
    BY <1>1, <2>2, WorthyOn
  <2>4. PICK w \in {history, runs[r].items, Append(runs[r].items, i)} : Saves(r, w) \/ Stops(r, w)
    BY <1>1, <1>3 DEF Answer, RequestFailsCodex, RequestFailsAnthropic, RequestFailsOpenRouter
  <2> QED
    BY <1>2, <2>2, <2>3, <2>4, SavedSends
<1>4. CASE Raises(r)
  <2>1. runs[r].phase = "tool" /\ "raises" \in features
    BY <1>4 DEF Raises, May
  <2>2. Worthy(r, runs[r].items)
    BY <2>1, WorthyItems DEF Busy, Excused
  <2>3. Saves(r, runs[r].items) \/ Stops(r, runs[r].items)
    BY <1>4 DEF Raises
  <2> QED
    BY <2>2, <2>3, SavedSends
<1> QED
  BY <1>3, <1>4

\* A thread returns whose run was cancelled.
ReturnsLate(r) == /\ runs[r].late # "" /\ runs' = [runs EXCEPT ![r].late = ""]
                  /\ UNCHANGED history

\* No key, the finally, a cancellation, and a thread that returns too late.
LEMMA CloseSends ==
    ASSUME Facts, SoundRuns, NEW r \in Runs,
           NoKey(r) \/ Finally(r) \/ Cancel(r) \/ ReturnsLate(r)
    PROVE  Sends(r, runs'[r])
<1>1. runs[r] \in Run(runs[r].sent) /\ runs = [q \in Runs |-> runs[q]] /\ RunShape(r, runs[r])
  BY RunFacts DEF Facts, Shape
<1>2. PICK i : i = Text(r) /\ i \in Items /\ Spoken(i)
  BY TextFacts
<1>3. Worthy(r, history) /\ Worthy(r, Append(history, i))
  BY <1>2, WorthyHistory, WorthyOn
<1>4. CASE NoKey(r)
  <2>1. history' = history \/ history' = Append(history, i)
    BY <1>2, <1>4 DEF NoKey
  <2>2. runs'[r] = [runs[r] EXCEPT !.phase = "stopped"]
    BY <1>1, <1>4 DEF NoKey
  <2>3. runs'[r].phase = "stopped" /\ runs'[r].items = runs[r].items
    BY <1>1, <2>2 DEF Run
  <2>4. Worthy(r, history')
    BY <1>3, <2>1
  <2> QED
    BY <2>3, <2>4, EndedSends
<1>5. CASE Finally(r)
  <2>1. history' = history
    BY <1>5 DEF Finally
  <2>2. runs'[r] = [runs[r] EXCEPT !.phase = "ended"]
    BY <1>1, <1>5 DEF Finally
  <2>3. runs'[r].phase = "ended" /\ runs'[r].items = runs[r].items
    BY <1>1, <2>2 DEF Run
  <2>4. Worthy(r, history')
    BY <1>3, <2>1
  <2> QED
    BY <2>3, <2>4, EndedSends
<1>6. CASE Cancel(r)
  <2>1. history' = history
    BY <1>6 DEF Cancel
  <2>2. PICK l : runs'[r] = [runs[r] EXCEPT !.phase = "stopped", !.late = l]
    BY <1>1, <1>6 DEF Cancel
  <2>3. runs'[r].phase = "stopped" /\ runs'[r].items = runs[r].items
    BY <1>1, <2>2 DEF Run
  <2>4. Worthy(r, history')
    BY <1>3, <2>1
  <2> QED
    BY <2>3, <2>4, EndedSends
<1>7. CASE ReturnsLate(r)
  <2>1. runs'[r] = [runs[r] EXCEPT !.late = ""]
    BY <1>1, <1>7 DEF ReturnsLate
  <2>2. runs'[r].phase = runs[r].phase /\ runs'[r].items = runs[r].items
    BY <1>1, <2>1 DEF Run
  <2>3. runs[r].phase \in {"stopped", "ended"}
    BY <1>1, <1>7 DEF RunShape, ReturnsLate
  <2>4. Worthy(r, history')
    BY <1>3, <1>7 DEF ReturnsLate
  <2> QED
    BY <2>2, <2>3, <2>4, EndedSends
<1> QED
  BY <1>4, <1>5, <1>6, <1>7

LEMMA LoadedSends ==
    ASSUME Facts, SoundRuns, NEW r \in Runs, runs[r].phase = "load", NEW t, NEW x, Loaded(r, t, x),
           NEW none, none = <<>>,
           ~Excused => IF provider = "codex" THEN x = t /\ Chained(t) /\ Closed(t, Len(t))
                       ELSE Serves(provider, t, x, none, FALSE),
           provider # "codex" => \A i \in Elements(t) : Held(i) \/ Spoken(i)
    PROVE  Sends(r, runs'[r])
<1>1. runs[r] \in Run(runs[r].sent) /\ runs = [q \in Runs |-> runs[q]]
  BY RunFacts DEF Facts, Shape
<1>2. history' = history
  BY DEF Loaded
<1>3. PICK u : u = runs'[r]
  OBVIOUS
<1>4. u = [runs[r] EXCEPT !.items = t, !.sent = x, !.phase = "request"]
  BY <1>1, <1>3 DEF Loaded
<1>5. u.items = t /\ u.sent = x /\ u.phase = "request" /\ u.paused = runs[r].paused
  BY <1>1, <1>4 DEF Run
<1>6. ASSUME ~Excused PROVE Sane(provider, history) /\ Sound(provider, u)
  <2>1. Sane(provider, history) /\ Sound(provider, runs[r])
    BY <1>6 DEF SoundRuns
  <2>2. runs[r].paused \in BOOLEAN /\ ~runs[r].paused
    BY <1>1, <2>1 DEF Sound, Ready, Run
  <2>3. CASE provider = "codex"
    BY <1>5, <1>6, <2>1, <2>2, <2>3 DEF Sound, SoundCodex, Busy
  <2>4. CASE provider # "codex"
    <3>1. Rest(u) = none /\ u.paused = FALSE
      BY <1>5, <2>2 DEF Rest, Busy
    <3>2. Serves(provider, u.items, u.sent, Rest(u), u.paused)
      BY <1>5, <1>6, <2>4, <3>1
    <3> QED
      BY <2>1, <2>4, <3>1, <3>2 DEF Sound
  <2> QED
    BY <2>3, <2>4
<1>7. provider # "codex" => Adds(r, u)
  BY <1>2, <1>5, HeldFacts DEF Adds
<1> QED
  BY <1>2, <1>3, <1>6, <1>7 DEF Sends

LEMMA LoadSends ==
    ASSUME Limited, Window \in Nat, Facts, SoundRuns, NEW r \in Runs,
           LoadCodex(r) \/ LoadAnthropic(r) \/ LoadOpenRouter(r)
    PROVE  Sends(r, runs'[r])
<1>1. runs[r].phase = "load" /\ history \in Seq(Items)
  BY RunFacts DEF Facts, LoadCodex, LoadAnthropic, LoadOpenRouter
<1>2. PICK i : i = User(r) /\ i \in Items /\ Spoken(i)
  BY TextFacts
<1>3. PICK s : s = Append(history, i)
  OBVIOUS
<1>4. s \in Seq(Items) /\ \A j \in Elements(s) : Held(j) \/ Spoken(j)
  BY <1>1, <1>2, <1>3, AppendElements, HeldFacts
<1>5. ~Excused => Sane(provider, history)
  BY DEF SoundRuns
<1>6. PICK none : none = <<>>
  OBVIOUS
<1>7. CASE LoadCodex(r)
  <2>1. provider = "codex"
    BY <1>7 DEF LoadCodex
  <2>2. PICK t : (t = s \/ t = CompactMessages(s)) /\ Loaded(r, RepairTools(t), RepairTools(t))
    BY <1>2, <1>3, <1>7 DEF LoadCodex
  <2>3. PICK x : x = RepairTools(t)
    OBVIOUS
  <2>4. ASSUME ~Excused PROVE Chained(x) /\ Closed(x, Len(x))
    <3>1. Sane(provider, s)
      BY <1>1, <1>2, <1>3, <1>5, <2>4, SaneOn
    <3>2. Chained(s)
      BY <2>1, <3>1 DEF Sane
    <3>3. t \in Seq(Items) /\ Chained(t)
      BY <1>4, <2>1, <2>2, <3>2, CompactChain
    <3> QED
      BY <2>3, <3>3, RepairCloses
  <2>5. Loaded(r, x, x)
    BY <2>2, <2>3
  <2> QED
    BY <1>1, <1>6, <2>1, <2>4, <2>5, LoadedSends
<1>8. CASE LoadAnthropic(r)
  <2>1. PICK x : x = Append(ConvertAnthropic(history), i)
    OBVIOUS
  <2>2. provider = "anthropic" /\ Loaded(r, s, x)
    BY <1>2, <1>3, <1>8, <2>1 DEF LoadAnthropic
  <2>3. ~Excused => Serves(provider, s, x, none, FALSE)
    BY <1>1, <1>2, <1>3, <1>5, <1>6, <2>1, <2>2, ConvertServes
  <2> QED
    BY <1>1, <1>4, <1>6, <2>2, <2>3, LoadedSends
<1>9. CASE LoadOpenRouter(r)
  <2>1. PICK x : x = Append(LastItems(history), i)
    OBVIOUS
  <2>2. provider = "openrouter" /\ Loaded(r, s, x)
    BY <1>2, <1>3, <1>9, <2>1 DEF LoadOpenRouter
  <2>3. ~Excused => Serves(provider, s, x, none, FALSE)
    BY <1>1, <1>2, <1>3, <1>5, <1>6, <2>1, <2>2, LastServes
  <2> QED
    BY <1>1, <1>4, <1>6, <2>2, <2>3, LoadedSends
<1> QED
  BY <1>7, <1>8, <1>9

LEMMA AgainSends ==
    ASSUME Limited, Facts, SoundRuns, NEW r \in Runs, TriesAgain(r)
    PROVE  Sends(r, runs'[r])
<1>1. runs[r] \in Run(runs[r].sent) /\ runs = [q \in Runs |-> runs[q]]
  BY RunFacts DEF Facts, Shape
<1>2. runs[r].phase = "request"
  BY DEF TriesAgain, Failing
<1>3. CASE runs[r].round + 1 < RoundLimit
  <2>1. runs' = [runs EXCEPT ![r].round = @ + 1] /\ history' = history
    BY <1>3 DEF TriesAgain
  <2>2. PICK u : u = runs'[r]
    OBVIOUS
  <2>3. PICK n : n = runs[r].round + 1
    OBVIOUS
  <2>4. u = [runs[r] EXCEPT !.round = n]
    BY <1>1, <2>1, <2>2, <2>3
  <2>5. /\ u.items = runs[r].items /\ u.sent = runs[r].sent /\ u.phase = "request"
        /\ u.paused = runs[r].paused
    BY <1>1, <1>2, <2>4 DEF Run
  <2>6. ASSUME ~Excused PROVE Sane(provider, history) /\ Sound(provider, u)
    <3>1. Sane(provider, history) /\ Sound(provider, runs[r])
      BY <2>6 DEF SoundRuns
    <3>2. Rest(u) = Rest(runs[r]) /\ Ready(runs[r])
      BY <1>2, <2>5 DEF Rest, Busy, Ready
    <3> QED
      BY <1>2, <2>5, <3>1, <3>2 DEF Sound, SoundCodex, Busy
  <2>7. provider # "codex" => Adds(r, u)
    BY <2>1, <2>5, HeldFacts DEF Adds
  <2> QED
    BY <2>1, <2>2, <2>6, <2>7 DEF Sends
<1>4. CASE ~(runs[r].round + 1 < RoundLimit)
  <2>1. OutOfRounds(r, runs[r].items)
    BY <1>4 DEF TriesAgain
  <2>2. Worthy(r, runs[r].items)
    BY <1>2, WorthyItems
  <2> QED
    BY <2>1, <2>2, OutSends
<1> QED
  BY <1>3, <1>4

\* A call of the round that begins is new to the run.
LEMMA NewCalls ==
    ASSUME Facts, Numbered, provider # "codex", NEW r \in Runs, runs[r].phase = "request",
           NEW id, OwnCall(r, id)
    PROVE  /\ id \notin Calls(runs[r].items)
           /\ \A k \in 1..Len(runs[r].items) :
                 runs[r].items[k].kind = "out" => runs[r].items[k].id # id
<1>1. ~Past(id)
  <2>1. runs[r].round \in Nat /\ \A n \in Nat : ~(n < n)
    BY RunFacts DEF Facts
  <2> QED
    BY <2>1 DEF Past, OwnCall, Ready
<1>2. PICK s : s = runs[r].items /\ s \in Seq(Items)
  BY RunFacts DEF Facts
<1>3. \A k \in 1..Len(s) : Known(s[k])
  <2>1. \A k \in 1..Len(s) : s[k] \in Elements(s)
    BY <1>2, ElementsIn
  <2> QED
    BY <1>2, <2>1, HeldFacts DEF Numbered
<1>4. id \notin Calls(s)
  <2>1. \A d : d \in Calls(s) <=> \E k \in 1..Len(s) : d \in IdsOf(s[k])
    BY <1>2, CallsOf
  <2> QED
    BY <1>1, <1>3, <2>1 DEF Known
<1>5. \A k \in 1..Len(s) : s[k].kind = "out" => s[k].id # id
  BY <1>1, <1>3 DEF Known
<1> QED
  BY <1>2, <1>4, <1>5

\* The calls of a round, as items.
LEMMA CallFacts ==
    ASSUME Limited, Facts, NEW r \in Runs, NEW n \in 1..2, NEW ids, ids = NextCalls(r, n),
           NEW all, all = Call(ids), NEW one, one = Call(<<Head(ids)>>)
    PROVE  /\ ids \in Seq(Ids) /\ all \in Items /\ one \in Items
           /\ all.kind = "call" /\ one.kind = "call" /\ all.ids = ids /\ Len(one.ids) = 1
           /\ Own(r, all)
<1>1. ids \in Seq(Ids) /\ RoundCalls(r, ids, runs[r].round) /\ all \in Items /\ one \in Items
  BY NextCallsFacts DEF Facts
<1>2. all.kind = "call" /\ one.kind = "call" /\ all.ids = ids /\ one.ids = <<Head(ids)>>
  BY DEF Call
<1>3. Len(<<Head(ids)>>) = 1
  OBVIOUS
<1>4. \A id \in IdsOf(all) : OwnCall(r, id)
  <2> SUFFICES ASSUME NEW k \in DOMAIN ids PROVE OwnCall(r, ids[k])
    BY <1>2 DEF IdsOf
  <2>1. ids[k] \in Ids
    BY <1>1
  <2> QED
    BY <1>1, <2>1 DEF OwnCall, RoundCalls
<1> QED
  BY <1>1, <1>2, <1>3, <1>4 DEF Own

LEMMA WantsSends ==
    ASSUME Limited, Facts, SoundRuns, Numbered, NEW r \in Runs, NEW n \in 1..2,
           WantsToolsCodex(r, n) \/ WantsToolsAnthropic(r, n) \/ WantsToolsOpenRouter(r, n)
    PROVE  Sends(r, runs'[r])
<1>1. PICK ids : ids = NextCalls(r, n)
  OBVIOUS
<1>2. PICK all : all = Call(ids)
  OBVIOUS
<1>3. PICK one : one = Call(<<Head(ids)>>)
  OBVIOUS
<1>4. /\ ids \in Seq(Ids) /\ all \in Items /\ one \in Items
      /\ all.kind = "call" /\ one.kind = "call" /\ all.ids = ids /\ Len(one.ids) = 1
      /\ Own(r, all)
  BY <1>1, <1>2, <1>3, CallFacts
<1>5. PICK c : /\ c = IF provider = "codex" THEN one ELSE all
               /\ runs' = [runs EXCEPT ![r] = Collect(Working(r, ids), c)]
  BY <1>1, <1>2, <1>3 DEF WantsToolsCodex, WantsToolsAnthropic, WantsToolsOpenRouter, Wants
<1>6. runs[r].phase = "request" /\ history' = history
  BY DEF WantsToolsCodex, WantsToolsAnthropic, WantsToolsOpenRouter, Wants
<1>7. /\ runs[r] \in Run(runs[r].sent) /\ runs = [q \in Runs |-> runs[q]]
      /\ runs[r].items \in Seq(Items)
  BY RunFacts DEF Facts, Shape
<1>8. PICK t : t = Append(runs[r].items, c)
  OBVIOUS
<1>9. PICK x : x = Append(runs[r].sent, c)
  OBVIOUS
<1>10. PICK u : u = runs'[r]
  OBVIOUS
<1>11. u = [runs[r] EXCEPT !.phase = "tool", !.todo = ids, !.items = t, !.sent = x]
  BY <1>5, <1>7, <1>8, <1>9, <1>10 DEF Collect, Working, Run
<1>12. /\ u.items = t /\ u.sent = x /\ u.phase = "tool" /\ u.todo = ids
       /\ u.paused = runs[r].paused
  BY <1>7, <1>11 DEF Run
<1>13. ~Ready(u) /\ Rest(u) = ids /\ Ready(runs[r]) /\ Rest(runs[r]) = <<>>
  BY <1>6, <1>12 DEF Ready, Rest, Busy
<1>14. ASSUME ~Excused PROVE Sane(provider, history) /\ Sound(provider, u)
  <2>1. Sane(provider, history) /\ Sound(provider, runs[r])
    BY <1>14 DEF SoundRuns
  <2>2. runs[r].paused = FALSE
    BY <1>7, <1>13, <2>1 DEF Sound, Run
  <2>3. CASE provider = "codex"
    <3>1. /\ runs[r].sent = runs[r].items /\ Chained(runs[r].items)
          /\ Closed(runs[r].items, Len(runs[r].items))
      BY <1>6, <2>1, <2>3 DEF Sound, SoundCodex
    <3>2. x = t /\ c = one
      BY <1>5, <1>8, <1>9, <2>3, <3>1
    <3>3. Chained(t) /\ t # <<>> /\ t[Len(t)] = c /\ Closed(t, Len(t) - 1)
      BY <1>4, <1>7, <1>8, <3>1, <3>2, ChainCall
    <3>4. SoundCodex(u)
      BY <1>3, <1>12, <3>2, <3>3 DEF SoundCodex
    <3> QED
      BY <1>13, <2>1, <2>3, <3>4 DEF Sound
  <2>4. CASE provider # "codex"
    <3>1. PICK none : none = <<>>
      OBVIOUS
    <3>2. Serves(provider, runs[r].items, runs[r].sent, none, FALSE)
      BY <1>6, <1>13, <2>1, <2>2, <2>4, <3>1 DEF Sound
    <3>3. c = all
      BY <1>5, <2>4
    <3>4. \A id \in IdsOf(c) : OwnCall(r, id)
      BY <1>4, <3>3 DEF Own
    <3>5. /\ \A id \in IdsOf(c) : id \notin Calls(runs[r].items)
          /\ \A k \in 1..Len(runs[r].items) :
                runs[r].items[k].kind = "out" => runs[r].items[k].id \notin IdsOf(c)
      BY <1>6, <2>4, <3>4, NewCalls
    <3>6. Serves(provider, t, x, ids, FALSE)
      BY <1>4, <1>7, <1>8, <1>9, <2>4, <3>1, <3>2, <3>3, <3>5, ServesCall
    <3> QED
      BY <1>12, <1>13, <2>1, <2>2, <2>4, <3>6 DEF Sound
  <2> QED
    BY <2>3, <2>4
<1>15. ASSUME provider # "codex" PROVE Adds(r, u)
  <2>1. \A i \in Elements(t) : i \in Elements(runs[r].items) \/ i = all
    BY <1>4, <1>5, <1>7, <1>8, <1>15, AppendElements
  <2> QED
    BY <1>4, <1>6, <1>12, <1>13, <2>1, HeldFacts DEF Adds
<1> QED
  BY <1>6, <1>10, <1>14, <1>15 DEF Sends

LEMMA PausesSends ==
    ASSUME Limited, Facts, SoundRuns, Numbered, NEW r \in Runs, Pauses(r)
    PROVE  Sends(r, runs'[r])
<1>1. PICK ids : ids = NextCalls(r, 1)
  OBVIOUS
<1>2. PICK all : all = Call(ids)
  OBVIOUS
<1>3. PICK one : one = Call(<<Head(ids)>>)
  OBVIOUS
<1>4. /\ ids \in Seq(Ids) /\ all \in Items /\ all.kind = "call" /\ all.ids = ids /\ Own(r, all)
  <2>1. 1 \in 1..2
    OBVIOUS
  <2> QED
    BY <1>1, <1>2, <1>3, <2>1, CallFacts
<1>5. provider = "anthropic" /\ runs[r].phase = "request" /\ history' = history
  BY DEF Pauses, Wants
<1>6. /\ runs[r] \in Run(runs[r].sent) /\ runs = [q \in Runs |-> runs[q]]
      /\ runs[r].items \in Seq(Items)
  BY RunFacts DEF Facts, Shape
<1>7. PICK x : x = Append(runs[r].sent, all)
  OBVIOUS
<1>8. PICK u : u = runs'[r]
  OBVIOUS
<1>9. u = [runs[r] EXCEPT !.phase = "tool", !.todo = ids, !.paused = TRUE, !.sent = x]
  BY <1>1, <1>2, <1>6, <1>7, <1>8 DEF Pauses, Working, Run
<1>10. /\ u.items = runs[r].items /\ u.sent = x /\ u.phase = "tool" /\ u.todo = ids
       /\ u.paused = TRUE
  BY <1>6, <1>9 DEF Run
<1>11. ~Ready(u) /\ Rest(u) = ids /\ Ready(runs[r]) /\ Rest(runs[r]) = <<>>
  BY <1>5, <1>10 DEF Ready, Rest, Busy
<1>12. ASSUME ~Excused PROVE Sane(provider, history) /\ Sound(provider, u)
  <2>1. Sane(provider, history) /\ Sound(provider, runs[r])
    BY <1>12 DEF SoundRuns
  <2>2. runs[r].paused = FALSE
    BY <1>6, <1>11, <2>1 DEF Sound, Run
  <2>3. PICK none : none = <<>>
    OBVIOUS
  <2>4. Serves(provider, runs[r].items, runs[r].sent, none, FALSE)
    BY <1>5, <1>11, <2>1, <2>2, <2>3 DEF Sound
  <2>5. \A id \in IdsOf(all) : OwnCall(r, id)
    BY <1>4 DEF Own
  <2>6. /\ \A id \in IdsOf(all) : id \notin Calls(runs[r].items)
        /\ \A k \in 1..Len(runs[r].items) :
              runs[r].items[k].kind = "out" => runs[r].items[k].id \notin IdsOf(all)
    BY <1>5, <2>5, NewCalls
  <2>7. Serves(provider, runs[r].items, x, ids, TRUE)
    BY <1>4, <1>5, <1>6, <1>7, <2>3, <2>4, <2>6, ServesCall
  <2> QED
    BY <1>5, <1>10, <1>11, <2>1, <2>7 DEF Sound
<1>13. Adds(r, u)
  BY <1>5, <1>10, HeldFacts DEF Adds
<1> QED
  BY <1>5, <1>8, <1>12, <1>13 DEF Sends

\* The run begins to ask, or has been told that it may.
LEMMA AsksSends ==
    ASSUME Facts, SoundRuns, NEW r \in Runs,
           \/ RequestElevation(r) /\ ~(runs[r].late # "" \/ runs[r].paused)
           \/ PollApproved(r)
    PROVE  Sends(r, runs'[r])
<1>1. runs[r] \in Run(runs[r].sent) /\ runs = [q \in Runs |-> runs[q]]
  BY RunFacts DEF Facts, Shape
<1>2. PICK u : u = runs'[r]
  OBVIOUS
<1>3. PICK mode \in {"asking", "again"} : runs' = [runs EXCEPT ![r].phase = mode] /\ history' = history
  BY DEF RequestElevation, PollApproved
<1>4. runs[r].phase \in Busy
  BY DEF RequestElevation, PollApproved, Thread, Busy
<1>5. u = [runs[r] EXCEPT !.phase = mode]
  BY <1>1, <1>2, <1>3
<1>6. /\ u.items = runs[r].items /\ u.sent = runs[r].sent /\ u.phase \in {"asking", "again"}
      /\ u.todo = runs[r].todo /\ u.paused = runs[r].paused
  BY <1>1, <1>3, <1>5 DEF Run
<1>7. ASSUME ~Excused PROVE Sane(provider, history) /\ Sound(provider, u)
  <2>1. Sane(provider, history) /\ Sound(provider, runs[r])
    BY <1>7 DEF SoundRuns
  <2>2. Rest(u) = Rest(runs[r]) /\ ~Ready(u) /\ u.phase \in Busy
    BY <1>4, <1>6 DEF Rest, Busy, Ready
  <2> QED
    BY <1>4, <1>6, <2>1, <2>2 DEF Sound, SoundCodex, Busy
<1>8. provider # "codex" => Adds(r, u)
  BY <1>3, <1>6, HeldFacts DEF Adds
<1> QED
  BY <1>2, <1>3, <1>7, <1>8 DEF Sends

\* What the model is told of the current call.
LEMMA ToldFacts ==
    ASSUME Facts, NEW r \in Runs, runs[r].phase \in Busy, NEW how \in Hows, NEW o, o = Told(r, how)
    PROVE  /\ o \in Items /\ o.kind = "out" /\ o.id = Head(runs[r].todo) /\ Own(r, o)
           /\ runs[r].todo \in Seq(Ids) /\ runs[r].todo # <<>>
<1>1. Threaded(runs[r])
  BY DEF Threaded, Busy
<1>2. PICK c : c = Current(r)
  OBVIOUS
<1>3. /\ runs[r].todo \in Seq(Ids) /\ runs[r].todo # <<>>
      /\ c \in Ids /\ c \in Elements(runs[r].todo)
  BY <1>1, <1>2, CurrentFacts DEF Facts
<1>4. OwnCall(r, c)
  BY <1>1, <1>3, CallOwner DEF Facts, OwnCall
<1>5. o \in Items /\ o.kind = "out" /\ o.id = c
  BY <1>2, <1>3, ItemFacts DEF Told
<1> QED
  BY <1>2, <1>3, <1>4, <1>5 DEF Own, IdsOf, Current

LEMMA DoneSent ==
    ASSUME Facts, NEW r \in Runs, runs[r].phase \in Busy, NEW how \in Hows, NEW d, d = Done(r, how),
           NEW o, o = Told(r, how)
    PROVE  /\ d \in Run(d.sent) /\ d.phase = "tool" /\ d.round = runs[r].round
           /\ d.items = Append(runs[r].items, o) /\ d.sent = Append(runs[r].sent, o)
           /\ d.todo = Tail(runs[r].todo) /\ d.paused = runs[r].paused
<1>1. /\ d \in Run(d.sent) /\ d.items = Got(r, how) /\ d.todo = Tail(runs[r].todo)
      /\ d.phase = "tool" /\ d.round = runs[r].round
  BY DoneFacts DEF Facts, Busy
<1>2. runs[r] \in Run(runs[r].sent)
  BY RunFacts DEF Facts
<1>3. PICK g : g = Append(runs[r].items, o)
  OBVIOUS
<1>4. PICK x : x = Append(runs[r].sent, o)
  OBVIOUS
<1>5. PICK w : w = Tail(runs[r].todo)
  OBVIOUS
<1>6. d = [runs[r] EXCEPT !.items = g, !.sent = x, !.todo = w, !.phase = "tool"]
  BY <1>2, <1>3, <1>4, <1>5 DEF Done, Collect, Run, Told, Current
<1>7. d.sent = x /\ d.paused = runs[r].paused
  BY <1>2, <1>6 DEF Run
<1> QED
  BY <1>1, <1>4, <1>7 DEF Got

LEMMA NextSent ==
    ASSUME NEW d, d \in Run(d.sent), NEW u, u = NextRound(d)
    PROVE  /\ u.phase = "request" /\ u.round = d.round + 1 /\ u.items = d.items /\ u.sent = d.sent
           /\ u.paused = FALSE
<1>1. PICK n : n = d.round + 1
  OBVIOUS
<1>2. u = [d EXCEPT !.phase = "request", !.round = n, !.paused = FALSE]
  BY <1>1 DEF NextRound
<1> QED
  BY <1>1, <1>2 DEF Run

LEMMA OthersSends ==
    ASSUME Limited, Facts, SoundRuns, NEW r \in Runs, runs[r].phase \in Busy, NEW how \in Hows,
           CollectsAnthropic(r, how) \/ CollectsOpenRouter(r, how)
    PROVE  Sends(r, runs'[r])
<1>1. PICK o : o = Told(r, how)
  OBVIOUS
<1>2. PICK d : d = Done(r, how)
  OBVIOUS
<1>3. PICK next : next = NextRound(d)
  OBVIOUS
<1>4. PICK t : t = Append(runs[r].items, o)
  OBVIOUS
<1>5. PICK y : y = Append(runs[r].sent, o)
  OBVIOUS
<1>6. PICK todo : todo = runs[r].todo
  OBVIOUS
<1>7. PICK rest : rest = Tail(todo)
  OBVIOUS
<1>8. /\ o \in Items /\ o.kind = "out" /\ o.id = Head(todo) /\ Own(r, o)
      /\ todo \in Seq(Ids) /\ todo # <<>>
  BY <1>1, <1>6, ToldFacts
<1>9. /\ d \in Run(d.sent) /\ d.phase = "tool" /\ d.round = runs[r].round
      /\ d.items = t /\ d.sent = y /\ d.todo = rest /\ d.paused = runs[r].paused
  BY <1>1, <1>2, <1>4, <1>5, <1>6, <1>7, DoneSent
<1>10. /\ next.phase = "request" /\ next.round = d.round + 1 /\ next.items = t /\ next.sent = y
       /\ next.paused = FALSE
  BY <1>3, <1>9, NextSent
<1>11. /\ runs[r] \in Run(runs[r].sent) /\ runs = [q \in Runs |-> runs[q]]
       /\ runs[r].items \in Seq(Items) /\ runs[r].round \in Nat
  BY RunFacts DEF Facts, Shape
<1>12. /\ provider \in {"anthropic", "openrouter"}
       /\ IF d.todo = <<>> /\ d.round + 1 = RoundLimit THEN OutOfRounds(r, d.items)
          ELSE /\ runs' = [runs EXCEPT ![r] = IF d.todo = <<>> THEN next ELSE d]
               /\ history' \in {history, IF d.todo = <<>> THEN d.items ELSE history}
  BY <1>2, <1>3 DEF CollectsAnthropic, CollectsOpenRouter
<1>13. t \in Seq(Items) /\ \A i \in Elements(t) : Held(i) \/ i = o
  BY <1>4, <1>8, <1>11, AppendElements, HeldFacts
<1>14. ASSUME ~Excused
       PROVE  Sane(provider, history) /\ Serves(provider, t, y, rest, runs[r].paused)
  <2>1. Sane(provider, history) /\ Sound(provider, runs[r])
    BY <1>14 DEF SoundRuns
  <2>2. Rest(runs[r]) = todo /\ runs[r].paused \in BOOLEAN
    BY <1>6, <1>11 DEF Rest, Run
  <2>3. Serves(provider, runs[r].items, runs[r].sent, todo, runs[r].paused)
    BY <1>12, <2>1, <2>2 DEF Sound
  <2>4. Serves(provider, t, y, rest, runs[r].paused)
    BY <1>4, <1>5, <1>7, <1>8, <1>11, <1>12, <2>2, <2>3, ServesOut
  <2> QED
    BY <2>1, <2>4
<1>15. CASE d.todo = <<>>
  <2>1. rest = <<>> /\ runs[r].paused \in BOOLEAN
    BY <1>9, <1>11, <1>15 DEF Run
  <2>2. ~Excused => Sane(provider, t) /\ Serves(provider, t, y, rest, FALSE)
    BY <1>13, <1>14, <2>1, ServesIdle
  <2>3. CASE d.round + 1 = RoundLimit
    <3>1. OutOfRounds(r, t)
      BY <1>9, <1>12, <1>15, <2>3
    <3>2. Worthy(r, t)
      BY <1>8, <1>13, <2>2 DEF Worthy
    <3> QED
      BY <3>1, <3>2, OutSends
  <2>4. CASE d.round + 1 # RoundLimit
    <3>1. runs'[r] = next /\ history' \in {history, t}
      BY <1>9, <1>11, <1>12, <1>15, <2>4
    <3>2. Rest(next) = rest
      BY <1>10, <2>1 DEF Rest, Busy
    <3>3. ~Excused => Sane(provider, history') /\ Sound(provider, next)
      BY <1>10, <1>12, <1>14, <2>2, <3>1, <3>2 DEF Sound
    <3>4. runs[r].round < next.round
      BY <1>9, <1>10, <1>11
    <3>5. Adds(r, next)
      BY <1>8, <1>10, <1>13, <3>1, <3>4, HeldFacts DEF Adds
    <3> QED
      BY <3>1, <3>3, <3>5 DEF Sends
  <2> QED
    BY <2>3, <2>4
<1>16. CASE d.todo # <<>>
  <2>1. runs'[r] = d /\ history' = history
    BY <1>11, <1>12, <1>16
  <2>2. Rest(d) = rest /\ ~Ready(d)
    BY <1>9 DEF Rest, Busy, Ready
  <2>3. ~Excused => Sane(provider, history) /\ Sound(provider, d)
    BY <1>9, <1>12, <1>14, <2>2 DEF Sound
  <2>4. Adds(r, d)
    BY <1>8, <1>9, <1>13, <2>1, <2>2, HeldFacts DEF Adds
  <2> QED
    BY <2>1, <2>3, <2>4 DEF Sends
<1> QED
  BY <1>15, <1>16

LEMMA CodexSends ==
    ASSUME Limited, Facts, SoundRuns, NEW r \in Runs, runs[r].phase \in Busy, NEW how \in Hows,
           CollectsCodex(r, how)
    PROVE  Sends(r, runs'[r])
<1>1. PICK o : o = Told(r, how)
  OBVIOUS
<1>2. PICK d : d = Done(r, how)
  OBVIOUS
<1>3. PICK next : next = NextRound(d)
  OBVIOUS
<1>4. PICK t : t = Append(runs[r].items, o)
  OBVIOUS
<1>5. PICK rest : rest = Tail(runs[r].todo)
  OBVIOUS
<1>6. PICK w : w = CompactMessages(t)
  OBVIOUS
<1>7. /\ runs[r] \in Run(runs[r].sent) /\ runs = [q \in Runs |-> runs[q]]
      /\ runs[r].items \in Seq(Items)
  BY RunFacts DEF Facts, Shape
<1>8. /\ o \in Items /\ o.kind = "out" /\ o.id = Head(runs[r].todo)
      /\ runs[r].todo \in Seq(Ids) /\ runs[r].todo # <<>>
  BY <1>1, ToldFacts
<1>9. /\ provider = "codex" /\ ~Excused
      /\ Sane(provider, history) /\ SoundCodex(runs[r])
  <2>1. provider = "codex"
    BY DEF CollectsCodex
  <2>2. ~Excused
    BY <2>1 DEF Excused
  <2> QED
    BY <2>1, <2>2 DEF SoundRuns, Sound
<1>10. /\ d \in Run(d.sent) /\ d.phase = "tool" /\ d.items = t /\ d.sent = t /\ d.todo = rest
  <2>1. runs[r].sent = runs[r].items
    BY <1>9 DEF SoundCodex
  <2> QED
    BY <1>1, <1>2, <1>4, <1>5, <2>1, DoneSent
<1>11. /\ next.phase = "request" /\ next.items = t /\ next.sent = t /\ next.paused = FALSE
  BY <1>3, <1>10, NextSent
<1>12. IF rest # <<>>
       THEN runs' = [runs EXCEPT ![r] = Collect(d, Call(<<Head(rest)>>))] /\ history' = history
       ELSE \E to \in {next, [next EXCEPT !.items = CompactMessages(@), !.sent = CompactMessages(@)]} :
              IF next.round = RoundLimit THEN OutOfRounds(r, to.items)
              ELSE runs' = [runs EXCEPT ![r] = to] /\ history' = history
  BY <1>2, <1>3, <1>10 DEF CollectsCodex
<1>13. t \in Seq(Items) /\ Chained(t) /\ Closed(t, Len(t))
  <2>1. PICK s : s = runs[r].items
    OBVIOUS
  <2>2. PICK ids : ids = <<Head(runs[r].todo)>>
    OBVIOUS
  <2>3. ids \in Seq(Ids) \ {<<>>} /\ ids[1] = Head(runs[r].todo)
    BY <1>8, <2>2
  <2>4. s \in Seq(Items) /\ Chained(s) /\ s # <<>> /\ s[Len(s)] = Call(ids) /\ Closed(s, Len(s) - 1)
    BY <1>7, <1>9, <2>1, <2>2 DEF SoundCodex
  <2>5. s[Len(s)].kind = "call" /\ s[Len(s)].ids[1] = o.id
    BY <1>8, <2>3, <2>4, ItemFacts
  <2> QED
    BY <1>4, <1>8, <2>1, <2>4, <2>5, ChainOut
<1>14. CASE rest # <<>>
  <2>1. PICK ids : ids = <<Head(rest)>>
    OBVIOUS
  <2>2. PICK c : c = Call(ids)
    OBVIOUS
  <2>3. PICK x : x = Append(t, c)
    OBVIOUS
  <2>4. rest \in Seq(Ids) /\ Head(rest) \in Ids
    BY <1>5, <1>8, <1>14
  <2>5. ids \in Seq(Ids) \ {<<>>} /\ Len(ids) = 1
    BY <2>1, <2>4
  <2>6. c \in Items /\ c.kind = "call" /\ Len(c.ids) = 1
    BY <2>2, <2>5, ItemFacts
  <2>7. Chained(x) /\ x # <<>> /\ x[Len(x)] = c /\ Closed(x, Len(x) - 1)
    BY <1>13, <2>3, <2>6, ChainCall
  <2>8. PICK u : u = runs'[r]
    OBVIOUS
  <2>9. runs' = [runs EXCEPT ![r] = Collect(d, c)] /\ history' = history
    BY <1>12, <1>14, <2>1, <2>2
  <2>10. u = [d EXCEPT !.items = x, !.sent = x]
    BY <1>7, <1>10, <2>3, <2>8, <2>9 DEF Collect, Run
  <2>11. u.items = x /\ u.sent = x /\ u.phase = "tool" /\ u.todo = rest
    BY <1>10, <2>10 DEF Run
  <2>12. SoundCodex(u)
    BY <2>1, <2>2, <2>7, <2>11 DEF SoundCodex
  <2>13. Sound(provider, u)
    BY <1>9, <2>11, <2>12 DEF Sound, Ready
  <2> QED
    BY <1>9, <2>8, <2>9, <2>13 DEF Sends
<1>15. CASE rest = <<>>
  <2>1. PICK to : /\ to \in {next, [next EXCEPT !.items = CompactMessages(@), !.sent = CompactMessages(@)]}
                  /\ IF next.round = RoundLimit THEN OutOfRounds(r, to.items)
                     ELSE runs' = [runs EXCEPT ![r] = to] /\ history' = history
    BY <1>12, <1>15
  <2>2. w \in Seq(Items) /\ Chained(w) /\ Closed(w, Len(w))
    BY <1>6, <1>9, <1>13, CompactChain
  <2>3. PICK z : /\ z \in Seq(Items) /\ Chained(z) /\ Closed(z, Len(z))
                 /\ to.items = z /\ to.sent = z /\ to.phase = "request" /\ to.paused = FALSE
    <3>1. CASE to = next
      BY <1>11, <1>13, <3>1
    <3>2. CASE to # next
      <4>1. to = [next EXCEPT !.items = w, !.sent = w]
        BY <1>6, <1>11, <2>1, <3>2
      <4>2. next = [d EXCEPT !.phase = "request", !.round = d.round + 1, !.paused = FALSE]
        BY <1>3 DEF NextRound
      <4>3. /\ to.items = w /\ to.sent = w /\ to.phase = "request" /\ to.paused = FALSE
        BY <1>10, <4>1, <4>2 DEF Run
      <4> QED
        BY <2>2, <4>3
    <3> QED
      BY <3>1, <3>2
  <2>4. CASE next.round = RoundLimit
    <3>1. OutOfRounds(r, z)
      BY <2>1, <2>3, <2>4
    <3>2. Worthy(r, z)
      BY <1>9, <2>3 DEF Worthy, Sane
    <3> QED
      BY <3>1, <3>2, OutSends
  <2>5. CASE next.round # RoundLimit
    <3>1. runs'[r] = to /\ history' = history
      BY <1>7, <2>1, <2>5
    <3>2. SoundCodex(to)
      BY <2>3 DEF SoundCodex, Busy
    <3>3. Sound(provider, to)
      BY <1>9, <2>3, <3>2 DEF Sound
    <3> QED
      BY <1>9, <3>1, <3>3 DEF Sends
  <2> QED
    BY <2>4, <2>5
<1> QED
  BY <1>14, <1>15

LEMMA ReturnSends ==
    ASSUME Limited, Facts, SoundRuns, NEW r \in Runs, NEW how \in Hows, Threaded(runs[r]),
           Returns(r, how) \/ (runs[r].phase = "asking" /\ Continues(r, how))
    PROVE  Sends(r, runs'[r])
<1>1. CASE runs[r].late # ""
  <2>1. runs[r].phase # "asking"
    BY <1>1 DEF Facts, Shape, RunShape
  <2>2. ReturnsLate(r)
    BY <1>1, <2>1 DEF Returns, ReturnsLate
  <2> QED
    BY <2>2, CloseSends
<1>2. CASE ~(runs[r].late # "")
  <2>1. Continues(r, how)
    BY <1>2 DEF Returns
  <2>2. runs[r].phase \in Busy
    BY <1>2 DEF Threaded, Busy
  <2> QED
    BY <2>1, <2>2, CodexSends, OthersSends DEF Continues
<1> QED
  BY <1>1, <1>2

LEMMA ToolSends ==
    ASSUME Limited, Facts, SoundRuns, NEW r \in Runs,
           \/ Execute(r) \/ PollDenied(r) \/ ExecuteApproved(r)
           \/ RequestElevation(r) /\ (runs[r].late # "" \/ runs[r].paused)
    PROVE  Sends(r, runs'[r])
<1>1. CASE Execute(r)
  <2>1. Threaded(runs[r]) /\ "done" \in Hows /\ Returns(r, "done")
    BY <1>1 DEF Execute, Thread, Threaded, Hows
  <2> QED
    BY <2>1, ReturnSends
<1>2. CASE PollDenied(r)
  <2>1. Threaded(runs[r]) /\ "denied" \in Hows /\ runs[r].phase = "asking" /\ Continues(r, "denied")
    BY <1>2 DEF PollDenied, Threaded, Hows
  <2> QED
    BY <2>1, ReturnSends
<1>3. CASE ExecuteApproved(r)
  <2>1. PICK how : how = IF Consume(Current(r)) THEN "done" ELSE "blocked"
    OBVIOUS
  <2>2. Threaded(runs[r]) /\ how \in Hows
    BY <1>3, <2>1 DEF ExecuteApproved, Thread, Threaded, Hows
  <2>3. Returns(r, how)
    BY <1>3, <2>1 DEF ExecuteApproved
  <2> QED
    BY <2>2, <2>3, ReturnSends
<1>4. CASE RequestElevation(r) /\ (runs[r].late # "" \/ runs[r].paused)
  <2>1. Threaded(runs[r]) /\ "asked" \in Hows /\ Returns(r, "asked")
    BY <1>4 DEF RequestElevation, Thread, Threaded, Hows
  <2> QED
    BY <2>1, ReturnSends
<1> QED
  BY <1>1, <1>2, <1>3, <1>4

LEMMA RunSends ==
    ASSUME Limited, Window \in Nat, Facts, SoundRuns, Numbered, NEW r \in Runs, RunStep(r)
    PROVE  Sends(r, runs'[r])
<1>1. CASE LoadCodex(r) \/ LoadAnthropic(r) \/ LoadOpenRouter(r)
  BY <1>1, LoadSends
<1>2. CASE \/ Answer(r) \/ RequestFailsCodex(r) \/ RequestFailsAnthropic(r)
           \/ RequestFailsOpenRouter(r) \/ Raises(r)
  BY <1>2, FailsSends
<1>3. CASE TriesAgain(r)
  BY <1>3, AgainSends
<1>4. CASE \E n \in 1..2 : WantsToolsCodex(r, n) \/ WantsToolsAnthropic(r, n) \/ WantsToolsOpenRouter(r, n)
  BY <1>4, WantsSends
<1>5. CASE Pauses(r)
  BY <1>5, PausesSends
<1>6. CASE \/ Execute(r) \/ PollDenied(r) \/ ExecuteApproved(r)
           \/ RequestElevation(r) /\ (runs[r].late # "" \/ runs[r].paused)
  BY <1>6, ToolSends
<1>7. CASE RequestElevation(r) /\ ~(runs[r].late # "" \/ runs[r].paused)
  BY <1>7, AsksSends
<1>8. CASE PollApproved(r)
  BY <1>8, AsksSends
<1>9. CASE NoKey(r) \/ Finally(r) \/ Cancel(r)
  BY <1>9, CloseSends
<1> QED
  BY <1>1, <1>2, <1>3, <1>4, <1>5, <1>6, <1>7, <1>8, <1>9 DEF RunStep

LEMMA NothingSane ==
    ASSUME NEW p, NEW s, s = <<>>
    PROVE  Sane(p, s)
<1>1. \A k \in 1..Len(s) : FALSE
  OBVIOUS
<1> QED
  BY <1>1 DEF Sane, Chained, Fit, Once

\* No run goes back or begins a round, and nothing but spoken items is new.
LEMMA StillNumbered ==
    ASSUME Numbered, UNCHANGED provider,
           \A r \in Runs : runs'[r].round = runs[r].round /\ (Ready(runs'[r]) => Ready(runs[r])),
           \A i : Held(i)' => Held(i) \/ Spoken(i)
    PROVE  Numbered'
<1>1. ASSUME NEW id, Past(id) PROVE Past(id)'
  <2>1. id[1] \in Runs
    BY <1>1 DEF Past, Ids
  <2> QED
    BY <1>1, <2>1 DEF Past
<1>2. ASSUME provider # "codex", NEW i, Held(i)' PROVE Known(i)'
  <2>1. CASE Held(i)
    <3>1. (\A id \in IdsOf(i) : Past(id)) /\ (i.kind = "out" => Past(i.id))
      BY <1>2, <2>1 DEF Numbered, Known
    <3> QED
      BY <1>1, <3>1 DEF Known
  <2>2. CASE Spoken(i)
    BY <2>2 DEF Known, Spoken, IdsOf
  <2> QED
    BY <1>2, <2>1, <2>2
<1> QED
  BY <1>2 DEF Numbered

LEMMA StillSends ==
    ASSUME SoundRuns, Numbered, UNCHANGED <<history, compacting, runs, provider, features>>
    PROVE  SoundRuns' /\ Numbered'
<1>1. SoundRuns'
  BY DEF SoundRuns, Excused
<1>2. \A i : Held(i)' => Held(i)
  BY DEF Held
<1>3. Numbered'
  BY <1>2, StillNumbered
<1> QED
  BY <1>1, <1>3

LEMMA MessageSends ==
    ASSUME Facts, SoundRuns, Numbered, UNCHANGED <<provider, features>>, NEW r \in Runs, Message(r)
    PROVE  SoundRuns' /\ Numbered'
<1>1. runs[r] \in Run(runs[r].sent) /\ runs = [q \in Runs |-> runs[q]] /\ runs[r].phase = "new"
  BY RunFacts DEF Facts, Shape, Message
<1>2. UNCHANGED <<history, compacting>> /\ runs' = [runs EXCEPT ![r].phase = "load"]
  BY DEF Message
<1>3. PICK u : u = [runs[r] EXCEPT !.phase = "load"]
  OBVIOUS
<1>4. runs'[r] = u /\ \A q \in Runs : q # r => runs'[q] = runs[q]
  BY <1>1, <1>2, <1>3
<1>5. /\ u.phase = "load" /\ u.items = runs[r].items /\ u.round = runs[r].round
      /\ u.paused = runs[r].paused
  BY <1>1, <1>3 DEF Run
<1>6. Ready(u) /\ Ready(runs[r])
  BY <1>1, <1>5 DEF Ready
<1>7. SoundRuns'
  <2> SUFFICES ASSUME ~Excused
               PROVE  /\ Sane(provider, history) /\ Sane(provider, compacting)
                      /\ provider = "openrouter" => compacting = <<>>
                      /\ \A q \in Runs : Sound(provider, runs'[q])
    BY <1>2 DEF SoundRuns, Excused
  <2>1. /\ Sane(provider, history) /\ Sane(provider, compacting)
        /\ provider = "openrouter" => compacting = <<>>
        /\ \A q \in Runs : Sound(provider, runs[q])
    BY DEF SoundRuns
  <2>2. Sound(provider, u)
    BY <1>5, <1>6, <2>1 DEF Sound, Busy
  <2> QED
    BY <1>4, <2>1, <2>2
<1>8. \A i : Held(i)' => Held(i)
  BY <1>2, <1>4, <1>5 DEF Held
<1>9. \A q \in Runs : runs'[q].round = runs[q].round /\ (Ready(runs'[q]) => Ready(runs[q]))
  BY <1>4, <1>5, <1>6
<1>10. Numbered'
  BY <1>8, <1>9, StillNumbered
<1> QED
  BY <1>7, <1>10

LEMMA RestartSends ==
    ASSUME Facts, SoundRuns, Numbered, UNCHANGED <<provider, features>>, Restart
    PROVE  SoundRuns' /\ Numbered'
<1>1. history' = history /\ compacting' = <<>>
  BY DEF Restart
<1>2. ASSUME NEW q \in Runs
      PROVE  /\ runs'[q].items = runs[q].items /\ runs'[q].round = runs[q].round
             /\ runs'[q] = runs[q] \/ runs'[q].phase = "ended"
  <2>1. runs[q] \in Run(runs[q].sent)
    BY RunFacts DEF Facts
  <2>2. runs'[q] = IF runs[q].phase = "new" THEN runs[q]
                   ELSE [runs[q] EXCEPT !.phase = "ended", !.late = ""]
    BY DEF Restart
  <2> QED
    BY <2>1, <2>2 DEF Run
<1>3. \A q \in Runs : Ready(runs'[q]) => runs'[q] = runs[q]
  BY <1>2 DEF Ready
<1>4. SoundRuns'
  <2> SUFFICES ASSUME ~Excused
               PROVE  /\ Sane(provider, history) /\ Sane(provider, compacting')
                      /\ \A q \in Runs : Sound(provider, runs'[q])
    BY <1>1 DEF SoundRuns, Excused
  <2>1. Sane(provider, compacting')
    BY <1>1, NothingSane
  <2>2. ASSUME NEW q \in Runs PROVE Sound(provider, runs'[q])
    <3>1. CASE runs'[q] = runs[q]
      BY <3>1 DEF SoundRuns
    <3>2. CASE runs'[q].phase = "ended"
      BY <3>2 DEF Sound, Ready, Busy
    <3> QED
      BY <1>2, <3>1, <3>2
  <2> QED
    BY <2>1, <2>2 DEF SoundRuns
<1>5. \A i : Held(i)' => Held(i)
  <2>1. \A i : i \notin Elements(compacting')
    BY <1>1, NothingElements
  <2> QED
    BY <1>1, <1>2, <2>1 DEF Held
<1>6. Numbered'
  BY <1>2, <1>3, <1>5, StillNumbered
<1> QED
  BY <1>4, <1>6

LEMMA CompactSends ==
    ASSUME Limited, Facts, SoundRuns, Numbered, UNCHANGED <<provider, features>>,
           CompactStarts \/ CompactEnds
    PROVE  SoundRuns' /\ Numbered'
<1>1. UNCHANGED runs
  BY DEF CompactStarts, CompactEnds
<1>2. CASE CompactStarts
  <2>1. history' = history /\ compacting' = history /\ "compact" \in features
    BY <1>2 DEF CompactStarts, May
  <2>2. SoundRuns'
    BY <1>1, <2>1 DEF SoundRuns, Excused
  <2>3. \A i : Held(i)' => Held(i)
    BY <1>1, <2>1 DEF Held
  <2>4. Numbered'
    BY <1>1, <2>3, StillNumbered
  <2> QED
    BY <2>2, <2>4
<1>3. CASE CompactEnds
  <2>1. PICK s : s = compacting
    OBVIOUS
  <2>2. PICK t : t = CompactMessages(s)
    OBVIOUS
  <2>3. s # <<>> /\ history' = t /\ compacting' = <<>> /\ s \in Seq(Items)
    BY <1>3, <2>1, <2>2 DEF CompactEnds, Facts, Shape
  <2>4. ASSUME ~Excused PROVE Sane(provider, t)
    <3>1. Sane(provider, s) /\ provider # "openrouter"
      BY <2>1, <2>3, <2>4 DEF SoundRuns
    <3>2. CASE provider = "codex"
      BY <2>2, <2>3, <3>1, <3>2, CompactChain DEF Sane
    <3>3. CASE provider # "codex"
      <4>1. Fit(s, Ids) /\ Once(s)
        BY <3>1, <3>3 DEF Sane, Loose
      <4>2. Fit(t, Ids) /\ Once(t)
        BY <2>2, <2>3, <4>1, CompactFit
      <4> QED
        BY <3>1, <3>3, <4>2 DEF Sane, Loose
    <3> QED
      BY <3>2, <3>3
  <2>5. SoundRuns'
    <3>1. Sane(provider, compacting')
      BY <2>3, NothingSane
    <3> QED
      BY <1>1, <2>3, <2>4, <3>1 DEF SoundRuns, Excused
  <2>6. \A i \in Elements(t) : i \in Elements(s) \/ Spoken(i)
    <3>1. \A i \in Elements(t) : i \in Elements(s) \/ i = Summary
      BY <2>2, <2>3, CompactSpoken
    <3> QED
      BY <3>1, ItemFacts DEF Spoken
  <2>7. \A i : Held(i)' => Held(i) \/ Spoken(i)
    <3>1. \A i : i \notin Elements(compacting')
      BY <2>3, NothingElements
    <3> QED
      BY <1>1, <2>1, <2>3, <2>6, <3>1 DEF Held
  <2>8. Numbered'
    BY <1>1, <2>7, StillNumbered
  <2> QED
    BY <2>5, <2>8
<1> QED
  BY <1>2, <1>3

LEMMA InitSends == Init => SoundRuns /\ Numbered
<1> SUFFICES ASSUME Init PROVE SoundRuns /\ Numbered
  OBVIOUS
<1>1. history = <<>> /\ compacting = <<>>
  BY DEF Init
<1>2. \A r \in Runs : runs[r].phase = "new" /\ runs[r].items = <<>> /\ ~runs[r].paused
  BY DEF Init, NewRun
<1>3. SoundRuns
  <2>1. Sane(provider, history) /\ Sane(provider, compacting)
    BY <1>1, NothingSane
  <2>2. \A r \in Runs : Sound(provider, runs[r])
    BY <1>2 DEF Sound, Busy
  <2> QED
    BY <1>1, <2>1, <2>2 DEF SoundRuns
<1>4. \A i : ~Held(i)
  <2>1. \A i : i \notin Elements(history) /\ i \notin Elements(compacting)
    BY <1>1, NothingElements
  <2>2. \A r \in Runs : \A i : i \notin Elements(runs[r].items)
    BY <1>2, NothingElements
  <2> QED
    BY <2>1, <2>2 DEF Held
<1> QED
  BY <1>3, <1>4 DEF Numbered

LEMMA NextSends ==
    ASSUME Limited, Window \in Nat, Facts, SoundRuns, Numbered, [Next]_vars
    PROVE  SoundRuns' /\ Numbered'
<1>1. CASE UNCHANGED vars
  <2>1. UNCHANGED <<history, compacting, runs, provider, features>>
    BY <1>1 DEF vars
  <2> QED
    BY <2>1, StillSends
<1>2. CASE Next /\ \E r \in Runs : RunStep(r)
  <2>1. UNCHANGED <<provider, features>>
    BY <1>2 DEF Next
  <2>2. PICK r \in Runs : RunStep(r)
    BY <1>2
  <2>3. Sends(r, runs'[r])
    BY <2>2, RunSends
  <2> QED
    BY <2>1, <2>2, <2>3, SendsKeeps
<1>3. CASE Next /\ \E r \in Runs : Message(r)
  <2>1. UNCHANGED <<provider, features>>
    BY <1>3 DEF Next
  <2> QED
    BY <1>3, <2>1, MessageSends
<1>4. CASE Next /\ (\/ ReapEntry \/ ClearSession \/ Expire \/ Grant
                    \/ \E id \in asked : Approve(id) \/ Deny(id))
  <2>1. UNCHANGED <<provider, features, history, compacting, runs>>
    BY <1>4 DEF Next, ReapEntry, ClearSession, Expire, Grant, Approve, Deny
  <2> QED
    BY <2>1, StillSends
<1>5. CASE Next /\ Restart
  <2>1. UNCHANGED <<provider, features>>
    BY <1>5 DEF Next
  <2> QED
    BY <1>5, <2>1, RestartSends
<1>6. CASE Next /\ (CompactStarts \/ CompactEnds)
  <2>1. UNCHANGED <<provider, features>>
    BY <1>6 DEF Next
  <2> QED
    BY <1>6, <2>1, CompactSends
<1> QED
  BY <1>1, <1>2, <1>3, <1>4, <1>5, <1>6 DEF Next

LEMMA SoundPaired ==
    ASSUME Limited, Facts, SoundRuns
    PROVE  RequestPaired
<1> SUFFICES ASSUME NEW r \in Runs, runs[r].phase = "request", ~Excused
             PROVE  \/ provider = "openrouter" /\ Len(runs[r].sent) < Len(runs[r].items)
                    \/ Paired(runs[r].sent)
  BY DEF RequestPaired, Excused
<1>1. runs[r].items \in Seq(Items) /\ runs[r] \in Run(runs[r].sent)
  BY RunFacts DEF Facts
<1>2. Sound(provider, runs[r]) /\ Ready(runs[r])
  BY DEF SoundRuns, Ready
<1>3. CASE provider = "codex"
  <2>1. /\ runs[r].sent = runs[r].items /\ Chained(runs[r].items)
        /\ Closed(runs[r].items, Len(runs[r].items))
    BY <1>2, <1>3 DEF Sound, SoundCodex
  <2>2. Paired(runs[r].items)
    BY <1>1, <2>1, ChainPaired
  <2> QED
    BY <2>1, <2>2
<1>4. CASE provider # "codex"
  <2>1. PICK none : none = <<>>
    OBVIOUS
  <2>2. runs[r].paused = FALSE /\ Rest(runs[r]) = none
    BY <1>1, <1>2, <2>1 DEF Sound, Run, Rest, Busy
  <2>3. Serves(provider, runs[r].items, runs[r].sent, none, FALSE)
    BY <1>2, <1>4, <2>2 DEF Sound
  <2> QED
    BY <1>1, <1>4, <2>1, <2>3, ServesPaired
<1> QED
  BY <1>3, <1>4

----------------------------------------------------------------------------
(* The theorems.                                                           *)

LEMMA FactsTyped ==
    ASSUME Limited, Facts
    PROVE  TypeOK
<1>1. approved \subseteq asked /\ granted \subseteq {"all", "elevated"}
  BY DEF Facts, Shape
<1>2. ASSUME NEW r \in Runs
      PROVE  /\ runs[r].phase \in Phases /\ runs[r].round <= RoundLimit
             /\ runs[r].phase \in {"tool", "asking", "again"} => runs[r].todo # <<>>
  <2>1. runs[r] \in Run(runs[r].sent) /\ runs[r].round < RoundLimit
        /\ (Threaded(runs[r]) => runs[r].todo # <<>>)
    BY RunFacts DEF Facts, RunShape
  <2>2. runs[r].phase \in Phases /\ runs[r].round \in Nat
    BY <2>1 DEF Run
  <2>3. \A j, n \in Nat : j < n => j <= n
    OBVIOUS
  <2>4. runs[r].round <= RoundLimit
    BY <2>1, <2>2, <2>3 DEF Limited
  <2> QED
    BY <2>1, <2>2, <2>4 DEF Threaded
<1>3. features \cap {"early", "reap"} = {} => \A q, r \in Runs : Live(q) /\ Live(r) => q = r
  BY DEF Facts, Alone
<1> QED
  BY <1>1, <1>2, <1>3 DEF TypeOK

\* How often a call took effect.
LEMMA TimesDone ==
    ASSUME NEW s, Apart(s), NEW c
    PROVE  Cardinality({n \in DOMAIN s : s[n] = c}) = IF c \in Elements(s) THEN 1 ELSE 0
<1> DEFINE times == {n \in DOMAIN s : s[n] = c}
<1>1. CASE c \in Elements(s)
  <2>1. PICK k \in DOMAIN s : s[k] = c
    BY <1>1 DEF Elements
  <2>2. times = {k}
    BY <2>1 DEF Apart
  <2> HIDE DEF times
  <2>3. Cardinality(times) = 1
    BY <2>2, FS_Singleton
  <2> QED
    BY <1>1, <2>3 DEF times
<1>2. CASE c \notin Elements(s)
  <2>1. times = {}
    BY <1>2 DEF Elements
  <2> HIDE DEF times
  <2>2. Cardinality(times) = 0
    BY <2>1, FS_EmptySet
  <2> QED
    BY <1>2, <2>2 DEF times
<1> QED
  BY <1>1, <1>2

LEMMA FactsTrue ==
    ASSUME Facts
    PROVE  OutcomeTrue
<1> SUFFICES ASSUME NEW r \in Runs, NEW k \in DOMAIN runs[r].items, NEW i, i = runs[r].items[k],
                    i.kind = "out", i.how # "lost"
             PROVE  Cardinality({n \in DOMAIN performed : performed[n] = i.id})
                        = IF i.how = "done" THEN 1 ELSE 0
  BY DEF OutcomeTrue
<1>1. Held(i) /\ ~Plain(i)
  BY HeldFacts DEF Elements, Plain
<1>2. Did(i.id) <=> i.how = "done"
  BY <1>1 DEF Facts, Truth
<1>3. PICK c : c = i.id
  OBVIOUS
<1>4. Cardinality({n \in DOMAIN performed : performed[n] = c})
          = IF c \in Elements(performed) THEN 1 ELSE 0
  BY TimesDone DEF Facts, Truth
<1> QED
  BY <1>2, <1>3, <1>4 DEF Did

\* A run of an API session waits with a call in hand and under its round limit, only a
\* pending request can be approved, and runs that neither the end of one nor the reaper
\* lets overlap have one live run at a time.
THEOREM RunsTyped == Limited => (Spec => []TypeOK)
<1>1. ASSUME Limited
      PROVE  Spec => []TypeOK
  <2>1. Facts => TypeOK
    BY <1>1, FactsTyped
  <2>2. Spec => []Facts
    BY <1>1, AlwaysFacts
  <2> QED
    BY <2>1, <2>2, PTL
<1> QED
  BY <1>1

\* What a run tells the model of a call is what happened to it, whatever was approved,
\* refused, cancelled, compacted, reaped or restarted meanwhile: a call reported as done
\* took effect exactly once, one reported as denied, blocked or asked about never does.
THEOREM ModelToldTruth == Limited => (Spec => []OutcomeTrue)
<1>1. ASSUME Limited
      PROVE  Spec => []OutcomeTrue
  <2>1. Facts => OutcomeTrue
    BY FactsTrue
  <2>2. Spec => []Facts
    BY <1>1, AlwaysFacts
  <2> QED
    BY <2>1, <2>2, PTL
<1> QED
  BY <1>1

\* A call that the user refused, or whose request was dropped with its session, by its age
\* or by a restart, takes effect no more, neither in its run nor in a thread left over.
THEOREM RefusalsHold == Limited => (Spec => RefusedStays)
<1>1. ASSUME Limited
      PROVE  Spec => RefusedStays
  <2>1. Facts /\ [Next]_vars => [NoneRefused]_vars
    BY <1>1, NextFacts
  <2>2. Spec => []Facts
    BY <1>1, AlwaysFacts
  <2> QED
    BY <2>1, <2>2, PTL DEF Spec, RefusedStays
<1> QED
  BY <1>1

\* A saved history has all that was said in the one before, or is a compaction, as long as
\* neither runs overlap nor a compaction runs beside one.
THEOREM HistoriesKept == Limited => (Spec => HistoryKept)
<1>1. ASSUME Limited
      PROVE  Spec => HistoryKept
  <2>1. Facts /\ [Next]_vars => [KeepsHistory]_vars
    BY <1>1, NextFacts DEF Follows, Headed, KeepsHistory
  <2>2. Spec => []Facts
    BY <1>1, AlwaysFacts
  <2> QED
    BY <2>1, <2>2, PTL DEF Spec, HistoryKept
<1> QED
  BY <1>1

\* What a run sends to its model is what the API demands: every call is followed by its
\* outputs and every output belongs to such a call, whatever was cancelled, restarted,
\* paused or compacted before, for Codex always, for Anthropic as long as no round raised,
\* for OpenRouter as long as moreover nothing is compacted or left out.
THEOREM RequestsPaired == Limited /\ Window \in Nat => (Spec => []RequestPaired)
<1>1. ASSUME Limited, Window \in Nat
      PROVE  Spec => []RequestPaired
  <2>1. Init => SoundRuns /\ Numbered
    BY InitSends
  <2>2. Facts /\ SoundRuns /\ Numbered /\ [Next]_vars => SoundRuns' /\ Numbered'
    BY <1>1, NextSends
  <2>3. Facts /\ SoundRuns => RequestPaired
    BY <1>1, SoundPaired
  <2>4. Spec => []Facts
    BY <1>1, AlwaysFacts
  <2> QED
    BY <2>1, <2>2, <2>3, <2>4, PTL DEF Spec
<1> QED
  BY <1>1

=============================================================================
