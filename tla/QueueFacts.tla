------------------------------ MODULE QueueFacts ------------------------------
(***************************************************************************)
(* What leaving a queue out of turn, taking its head and appending to it    *)
(* keep: the facts about sequences that the proofs about the coordinator    *)
(* and the persistence lane need.  Recursive functions over the natural     *)
(* numbers are reasoned about with well-founded sets (Inductive).           *)
(***************************************************************************)
EXTENDS Queues, FiniteSets, SequencesExt, FiniteSetTheorems, SequenceTheorems, WellFoundedInduction, TLAPS

LEMMA LeastExists ==
    ASSUME NEW S, S \subseteq Nat, S # {}
    PROVE  \E m \in S : \A k \in S : m <= k
<1>. DEFINE Below(m) == {k \in S : k < m}
            Parts == {Below(m) : m \in S}
<1>1. Parts \subseteq FiniteSubsetsOf(S)
  <2>1. ASSUME NEW m \in S PROVE IsFiniteSet(Below(m))
    <3>1. IsFiniteSet(0..m) BY FS_Interval
    <3>2. ASSUME NEW k \in Below(m) PROVE k \in 0..m
      <4>1. k \in Nat /\ m \in Nat /\ k < m OBVIOUS
      <4>. QED BY <4>1
    <3>. QED BY <3>1, <3>2, FS_Subset
  <2>. QED BY <2>1 DEF FiniteSubsetsOf
<1>2. IsWellFoundedOn(StrictSubsetOrdering(S), FiniteSubsetsOf(S))
  BY FS_StrictSubsetOrderingWellFounded
<1>3. PICK part \in Parts : \A other \in Parts :
                ~ (<<other, part>> \in StrictSubsetOrdering(S))
  <2>1. Parts # {} OBVIOUS
  <2>. HIDE DEF Parts
  <2>. QED BY <1>1, <1>2, <2>1, WFMin
<1>4. PICK m \in S : part = Below(m) BY <1>3
<1>5. ASSUME NEW k \in S, ~ (m <= k) PROVE FALSE
  <2>0. k \in Nat /\ m \in Nat /\ k < m BY <1>5
  <2>1. Below(k) \subseteq Below(m) /\ Below(k) # Below(m)
    <3>1. ASSUME NEW j \in Below(k) PROVE j \in Below(m)
      <4>1. j \in S /\ j \in Nat /\ j < k OBVIOUS
      <4>2. j < m BY <2>0, <4>1
      <4>. QED BY <4>1, <4>2
    <3>2. k \in Below(m) /\ k \notin Below(k) BY <2>0
    <3>. QED BY <3>1, <3>2
  <2>2. <<Below(k), part>> \in StrictSubsetOrdering(S)
    BY <1>4, <2>1 DEF StrictSubsetOrdering
  <2>. QED BY <1>3, <2>2
<1>. QED BY <1>5

(* Induction as a fact about a set.                                           *)
LEMMA Inductive ==
    ASSUME NEW S, NEW n \in Nat, 0 \in S, \A m \in 0..n : m \in S /\ m < n => m + 1 \in S
    PROVE  \A m \in 0..n : m \in S
<1>. SUFFICES ASSUME ~ \A m \in 0..n : m \in S PROVE FALSE OBVIOUS
<1>. DEFINE Bad == {m \in 0..n : m \notin S}
<1>1. Bad \subseteq Nat /\ Bad # {} OBVIOUS
<1>2. PICK m \in Bad : \A k \in Bad : m <= k
  <2>. HIDE DEF Bad
  <2>. QED BY <1>1, LeastExists
<1>3. m \in 0..n /\ m \notin S /\ m # 0 OBVIOUS
<1>4. m - 1 \in 0..n /\ m - 1 \notin Bad /\ m - 1 < n BY <1>2, <1>3
<1>5. m - 1 \in S BY <1>4
<1>6. (m - 1) + 1 \in S BY <1>4, <1>5
<1>. QED BY <1>3, <1>6

(* The recursion that filters a queue defines a function.                     *)
Filters(rest, q, C) ==
    /\ rest[0] = << >>
    /\ \A n \in 1..Len(q) :
          rest[n] = IF q[n] \in C THEN rest[n - 1] ELSE Append(rest[n - 1], q[n])
    /\ Without(q, C) = rest[Len(q)]

LEMMA WithoutIsDefined ==
    ASSUME NEW S, NEW q \in Seq(S), NEW C
    PROVE  \E rest \in [0..Len(q) -> Seq(S)] : Filters(rest, q, C)
<1>. DEFINE Body(f, n) == IF n = 0 THEN << >>
                          ELSE IF q[n] \in C THEN f[n - 1] ELSE Append(f[n - 1], q[n])
            Good(n) == \E g \in [0..n -> Seq(S)] : \A i \in 0..n : g[i] = Body(g, i)
            N == Len(q)
<1>0. N \in Nat BY LenProperties
<1>1. Good(0)
  <2>. DEFINE g == [i \in 0..0 |-> << >>]
  <2>1. << >> \in Seq(S) BY EmptySeq
  <2>2. g \in [0..0 -> Seq(S)] /\ g[0] = << >> BY <2>1
  <2>3. \A i \in 0..0 : i = 0 OBVIOUS
  <2>. QED BY <2>2, <2>3
<1>2. ASSUME NEW n \in 0..N, Good(n), n < N PROVE Good(n + 1)
  <2>1. PICK g \in [0..n -> Seq(S)] : \A i \in 0..n : g[i] = Body(g, i) BY <1>2
  <2>. DEFINE e == IF q[n + 1] \in C THEN g[n] ELSE Append(g[n], q[n + 1])
              h == [i \in 0..(n + 1) |-> IF i = n + 1 THEN e ELSE g[i]]
  <2>2. n \in Nat /\ n \in 0..n /\ n + 1 \in 1..N BY <1>0, <1>2
  <2>3. q[n + 1] \in S BY <2>2, ElementOfSeq
  <2>4. g[n] \in Seq(S) BY <2>2
  <2>5. e \in Seq(S) BY <2>3, <2>4, AppendProperties
  <2>. HIDE DEF e
  <2>6. h \in [0..(n + 1) -> Seq(S)]
    <3>1. ASSUME NEW i \in 0..(n + 1), i # n + 1 PROVE i \in 0..n BY <2>2, <3>1
    <3>. QED BY <2>5, <3>1
  <2>7. ASSUME NEW i \in 0..(n + 1) PROVE h[i] = Body(h, i)
    <3>1. CASE i = n + 1
      <4>1. h[i] = e /\ i # 0 /\ i - 1 = n /\ n \in 0..(n + 1) /\ n # n + 1 BY <2>2, <3>1
      <4>2. h[i - 1] = g[n] BY <4>1
      <4>. QED BY <4>1, <4>2, <3>1 DEF e
    <3>2. CASE i # n + 1
      <4>1. i \in 0..n BY <2>2, <3>2
      <4>2. h[i] = g[i] BY <3>2
      <4>3. CASE i = 0 BY <2>1, <4>1, <4>2, <4>3
      <4>4. CASE i # 0
        <5>1. i - 1 \in 0..n /\ i - 1 \in 0..(n + 1) /\ i - 1 # n + 1 BY <2>2, <4>1, <4>4
        <5>2. h[i - 1] = g[i - 1] BY <5>1
        <5>. QED BY <2>1, <4>1, <4>2, <4>4, <5>2
      <4>. QED BY <4>3, <4>4
    <3>. QED BY <3>1, <3>2
  <2>. QED BY <2>6, <2>7
<1>3. Good(N)
  <2>. DEFINE G == {n \in 0..N : Good(n)}
  <2>1. 0 \in G BY <1>0, <1>1
  <2>2. ASSUME NEW m \in 0..N, m \in G, m < N PROVE m + 1 \in G
    <3>. HIDE DEF Good
    <3>1. Good(m) BY <2>2
    <3>2. m + 1 \in 0..N BY <1>0, <2>2
    <3>. QED BY <1>2, <2>2, <3>1, <3>2
  <2>. HIDE DEF G
  <2>3. \A m \in 0..N : m \in G BY <1>0, <2>1, <2>2, Inductive
  <2>4. N \in 0..N BY <1>0
  <2>. QED BY <2>3, <2>4 DEF G
<1>4. PICK g \in [0..N -> Seq(S)] : \A i \in 0..N : g[i] = Body(g, i) BY <1>3
<1>. DEFINE f == CHOOSE f : f = [n \in 0..N |-> Body(f, n)]
<1>5. g = [n \in 0..N |-> Body(g, n)] BY <1>4
<1>6. f = [n \in 0..N |-> Body(f, n)] BY <1>5
<1>7. Without(q, C) = f[N] BY DEF Without
<1>. HIDE DEF f
<1>8. ASSUME NEW n \in 0..N PROVE f[n] = Body(f, n)
  <2>. DEFINE F == [k \in 0..N |-> Body(f, k)]
  <2>1. F[n] = Body(f, n) OBVIOUS
  <2>. HIDE DEF F
  <2>2. f = F BY <1>6 DEF F
  <2>. QED BY <2>1, <2>2
<1>9. \A n \in 0..N : f[n] \in Seq(S)
  <2>. DEFINE T == {n \in 0..N : f[n] \in Seq(S)}
  <2>1. 0 \in T
    <3>1. << >> \in Seq(S) BY EmptySeq
    <3>2. 0 \in 0..N BY <1>0
    <3>3. f[0] = << >> BY <1>8, <3>2
    <3>. QED BY <3>1, <3>2, <3>3
  <2>2. ASSUME NEW m \in 0..N, m \in T, m < N PROVE m + 1 \in T
    <3>1. m + 1 \in 1..N /\ m + 1 \in 0..N /\ (m + 1) - 1 = m /\ m + 1 # 0 BY <1>0, <2>2
    <3>2. q[m + 1] \in S BY <3>1, ElementOfSeq
    <3>3. Append(f[m], q[m + 1]) \in Seq(S) BY <2>2, <3>2, AppendProperties
    <3>4. f[m + 1] = Body(f, m + 1) BY <1>8, <3>1
    <3>. QED BY <2>2, <3>1, <3>3, <3>4
  <2>. HIDE DEF T
  <2>3. \A m \in 0..N : m \in T BY <1>0, <2>1, <2>2, Inductive
  <2>. QED BY <2>3 DEF T
<1>10. f \in [0..N -> Seq(S)] BY <1>6, <1>9
<1>11. f[0] = << >> BY <1>0, <1>8
<1>12. \A n \in 1..N : f[n] = IF q[n] \in C THEN f[n - 1] ELSE Append(f[n - 1], q[n])
  BY <1>0, <1>8
<1>. QED BY <1>7, <1>10, <1>11, <1>12 DEF Filters

(* What stays is a queue of the same members, without those of C.             *)
LEMMA WithoutKeeps ==
    ASSUME NEW S, NEW q \in Seq(S), NEW C
    PROVE  /\ Without(q, C) \in Seq(S)
           /\ \A i \in DOMAIN Without(q, C) :
                Without(q, C)[i] \notin C /\ \E j \in DOMAIN q : q[j] = Without(q, C)[i]
           /\ \A j \in DOMAIN q : q[j] \notin C =>
                \E i \in DOMAIN Without(q, C) : Without(q, C)[i] = q[j]
<1>. DEFINE N == Len(q)
<1>0. N \in Nat /\ DOMAIN q = 1..N BY LenProperties
<1>1. PICK rest \in [0..N -> Seq(S)] : Filters(rest, q, C) BY WithoutIsDefined
<1>. DEFINE Sound(n) == \A i \in DOMAIN rest[n] :
                            rest[n][i] \notin C /\ \E j \in 1..n : q[j] = rest[n][i]
            Whole(n) == \A j \in 1..n : q[j] \notin C =>
                            \E i \in DOMAIN rest[n] : rest[n][i] = q[j]
            T == {n \in 0..N : Sound(n) /\ Whole(n)}
<1>2. 0 \in T BY <1>0, <1>1 DEF Filters
<1>3. ASSUME NEW m \in 0..N, m \in T, m < N PROVE m + 1 \in T
  <2>1. m + 1 \in 1..N /\ m + 1 \in 0..N /\ (m + 1) - 1 = m /\ m \in Nat BY <1>0, <1>3
  <2>2. q[m + 1] \in S /\ rest[m] \in Seq(S) BY <1>1, <2>1, ElementOfSeq
  <2>3. Sound(m) /\ Whole(m) BY <1>3
  <2>4. \A j \in 1..(m + 1) : j \in 1..m \/ j = m + 1 BY <2>1
  <2>5. \A j \in 1..m : j \in 1..(m + 1) BY <2>1
  <2>6. m + 1 \in 1..(m + 1) BY <2>1
  <2>7. CASE q[m + 1] \in C
    <3>1. rest[m + 1] = rest[m] BY <1>1, <2>1, <2>7 DEF Filters
    <3>2. Sound(m + 1) BY <2>3, <2>5, <3>1
    <3>3. Whole(m + 1) BY <2>3, <2>4, <2>7, <3>1
    <3>. QED BY <2>1, <3>2, <3>3
  <2>8. CASE q[m + 1] \notin C
    <3>. DEFINE s == rest[m]
                t == rest[m + 1]
    <3>1. t = Append(s, q[m + 1]) BY <1>1, <2>1, <2>8 DEF Filters
    <3>2. /\ Len(t) = Len(s) + 1 /\ \A i \in 1..Len(s) : t[i] = s[i]
          /\ t[Len(s) + 1] = q[m + 1] /\ t \in Seq(S)
      BY <2>2, <3>1, AppendProperties
    <3>3. DOMAIN s = 1..Len(s) /\ DOMAIN t = 1..Len(t) /\ Len(s) \in Nat
      BY <2>2, <3>2, LenProperties
    <3>4. \A i \in DOMAIN t : i \in DOMAIN s \/ i = Len(s) + 1 BY <3>2, <3>3
    <3>5. \A i \in DOMAIN s : i \in DOMAIN t /\ t[i] = s[i] BY <3>2, <3>3
    <3>6. Len(s) + 1 \in DOMAIN t BY <3>2, <3>3
    <3>. HIDE DEF s, t
    <3>7. Sound(m + 1) BY <2>3, <2>5, <2>6, <2>8, <3>2, <3>4, <3>5 DEF s, t
    <3>8. Whole(m + 1) BY <2>3, <2>4, <3>2, <3>5, <3>6 DEF s, t
    <3>. QED BY <2>1, <3>7, <3>8
  <2>. QED BY <2>7, <2>8
<1>4. N \in T
  <2>. HIDE DEF T
  <2>1. \A m \in 0..N : m \in T BY <1>0, <1>2, <1>3, Inductive
  <2>. QED BY <1>0, <2>1
<1>. QED BY <1>0, <1>1, <1>4 DEF Filters

-----------------------------------------------------------------------------
(* A set put in a queue is there, each member once.                           *)
LEMMA SetToSeqKeeps ==
    ASSUME NEW S, IsFiniteSet(S)
    PROVE  /\ SetToSeq(S) \in Seq(S)
           /\ \A i, j \in DOMAIN SetToSeq(S) : SetToSeq(S)[i] = SetToSeq(S)[j] => i = j
           /\ \A x \in S : \E i \in DOMAIN SetToSeq(S) : SetToSeq(S)[i] = x
<1>. DEFINE n == Cardinality(S)
            s == SetToSeq(S)
            R == {s[i] : i \in 1..n}
<1>1. n \in Nat /\ Bijection(1..n, S) # {} BY FS_CardinalityType DEF ExistsBijection
<1>2. \E f \in [1..n -> S] : IsInjective(f) BY <1>1 DEF Bijection, Injection
<1>3. s \in [1..n -> S] /\ IsInjective(s) BY <1>2 DEF SetToSeq
<1>. HIDE DEF s, n
<1>4. s \in Seq(S) /\ DOMAIN s = 1..n BY <1>1, <1>3
<1>5. s \in Bijection(1..n, R)
  BY <1>3 DEF Bijection, Injection, Surjection
<1>6. IsFiniteSet(1..n) /\ Cardinality(1..n) = n BY <1>1, FS_Interval
<1>7. IsFiniteSet(R) /\ Cardinality(R) = n
  <2>1. ExistsBijection(1..n, R) BY <1>5 DEF ExistsBijection
  <2>. QED BY <1>6, <2>1, FS_Bijection
<1>8. R \subseteq S BY <1>3
<1>9. R = S BY <1>7, <1>8, FS_Subset DEF n
<1>10. \A i, j \in DOMAIN s : s[i] = s[j] => i = j BY <1>3 DEF IsInjective
<1>11. \A x \in S : \E i \in DOMAIN s : s[i] = x BY <1>4, <1>9
<1>. QED BY <1>4, <1>10, <1>11 DEF s

-----------------------------------------------------------------------------
(* What a queue holds, and whether it holds it once.                          *)
Holds(s, m) == \E i \in DOMAIN s : s[i] = m
Once(s, m) == \A i, j \in DOMAIN s : s[i] = m /\ s[j] = m => i = j

(* What is put into a queue stays there beside what it held.                  *)
LEMMA AppendHolds ==
    ASSUME NEW S, NEW s \in Seq(S), NEW e \in S
    PROVE  /\ Append(s, e) \in Seq(S)
           /\ \A m : Holds(Append(s, e), m) <=> Holds(s, m) \/ m = e
           /\ \A m : Once(s, m) /\ m # e => Once(Append(s, e), m)
<1>. DEFINE t == Append(s, e)
<1>1. /\ t \in Seq(S) /\ Len(t) = Len(s) + 1
      /\ \A i \in 1..Len(s) : t[i] = s[i]
      /\ t[Len(s) + 1] = e
  BY AppendProperties
<1>2. DOMAIN s = 1..Len(s) /\ DOMAIN t = 1..Len(t) /\ Len(s) \in Nat
  BY <1>1, LenProperties
<1>. HIDE DEF t
<1>3. \A i \in DOMAIN t : (i \in DOMAIN s /\ t[i] = s[i]) \/ (i = Len(s) + 1 /\ t[i] = e)
  BY <1>1, <1>2
<1>4. Len(s) + 1 \in DOMAIN t /\ \A i \in DOMAIN s : i \in DOMAIN t /\ t[i] = s[i]
  BY <1>1, <1>2
<1>5. \A m : Holds(t, m) <=> Holds(s, m) \/ m = e BY <1>1, <1>3, <1>4 DEF Holds
<1>6. \A m : Once(s, m) /\ m # e => Once(t, m) BY <1>3 DEF Once
<1>. QED BY <1>1, <1>5, <1>6 DEF t

(* What is taken from it is its head, and the rest is still there.            *)
LEMMA TailHolds ==
    ASSUME NEW S, NEW s \in Seq(S), s # << >>
    PROVE  /\ Head(s) \in S /\ Tail(s) \in Seq(S)
           /\ Holds(s, Head(s))
           /\ \A m : Holds(s, m) <=> Holds(Tail(s), m) \/ m = Head(s)
           /\ \A m : Once(s, m) => Once(Tail(s), m)
           /\ Once(s, Head(s)) => ~ Holds(Tail(s), Head(s))
<1>. DEFINE t == Tail(s)
            h == Head(s)
<1>1. /\ h \in S /\ t \in Seq(S) /\ h = s[1]
      /\ Len(t) = Len(s) - 1
      /\ \A i \in 1..Len(t) : t[i] = s[i + 1]
  BY HeadTailProperties
<1>2. DOMAIN s = 1..Len(s) /\ DOMAIN t = 1..Len(t) /\ Len(s) \in Nat /\ Len(s) # 0
  BY <1>1, LenProperties, EmptySeq
<1>. HIDE DEF t, h
<1>3. \A i \in DOMAIN t : i + 1 \in DOMAIN s /\ i + 1 # 1 /\ t[i] = s[i + 1] BY <1>1, <1>2
<1>4. \A i \in DOMAIN s : i # 1 => i - 1 \in DOMAIN t /\ t[i - 1] = s[i]
  BY <1>1, <1>2
<1>5. 1 \in DOMAIN s BY <1>2
<1>6. \A m : Holds(s, m) <=> Holds(t, m) \/ m = h
  BY <1>1, <1>3, <1>4, <1>5 DEF Holds
<1>7. ASSUME NEW m, Once(s, m) PROVE Once(t, m)
  <2>1. ASSUME NEW i \in DOMAIN t, NEW j \in DOMAIN t, t[i] = m, t[j] = m PROVE i = j
    <3>1. i + 1 = j + 1 BY <1>3, <1>7, <2>1 DEF Once
    <3>. QED BY <1>2, <3>1
  <2>. QED BY <2>1 DEF Once
<1>8. Once(s, h) => ~ Holds(t, h) BY <1>1, <1>3, <1>5 DEF Once, Holds
<1>9. Holds(s, h) BY <1>1, <1>5 DEF Holds
<1>. QED BY <1>1, <1>6, <1>7, <1>8, <1>9 DEF t, h

(* One queue behind another.                                                  *)
LEMMA ConcatHolds ==
    ASSUME NEW S, NEW s \in Seq(S), NEW t \in Seq(S)
    PROVE  /\ s \o t \in Seq(S)
           /\ \A m : Holds(s \o t, m) <=> Holds(s, m) \/ Holds(t, m)
           /\ \A m : Once(s, m) /\ Once(t, m) /\ ~ (Holds(s, m) /\ Holds(t, m))
                        => Once(s \o t, m)
<1>. DEFINE u == s \o t
<1>1. /\ u \in Seq(S) /\ Len(u) = Len(s) + Len(t)
      /\ \A i \in 1..Len(s) + Len(t) : u[i] = IF i <= Len(s) THEN s[i] ELSE t[i - Len(s)]
  BY ConcatProperties
<1>2. /\ DOMAIN s = 1..Len(s) /\ DOMAIN t = 1..Len(t) /\ DOMAIN u = 1..Len(u)
      /\ Len(s) \in Nat /\ Len(t) \in Nat
  BY <1>1, LenProperties
<1>. HIDE DEF u
<1>3. ASSUME NEW i \in DOMAIN u
      PROVE  \/ i \in DOMAIN s /\ u[i] = s[i]
             \/ i - Len(s) \in DOMAIN t /\ u[i] = t[i - Len(s)]
  <2>1. i \in 1..(Len(s) + Len(t)) /\ i \in Int BY <1>1, <1>2
  <2>2. CASE i <= Len(s) BY <1>1, <1>2, <2>1, <2>2
  <2>3. CASE ~ (i <= Len(s)) BY <1>1, <1>2, <2>1, <2>3
  <2>. QED BY <2>2, <2>3
<1>4. \A i \in DOMAIN s : i \in DOMAIN u /\ u[i] = s[i] BY <1>1, <1>2
<1>5. ASSUME NEW i \in DOMAIN t
      PROVE  i + Len(s) \in DOMAIN u /\ u[i + Len(s)] = t[i]
  <2>1. i \in 1..Len(t) BY <1>2
  <2>2. i + Len(s) \in 1..(Len(s) + Len(t)) /\ ~ (i + Len(s) <= Len(s))
        /\ (i + Len(s)) - Len(s) = i
    BY <1>2, <2>1
  <2>. QED BY <1>1, <1>2, <2>2
<1>6. \A m : Holds(u, m) <=> Holds(s, m) \/ Holds(t, m) BY <1>3, <1>4, <1>5 DEF Holds
<1>7. ASSUME NEW m, Once(s, m), Once(t, m), ~ (Holds(s, m) /\ Holds(t, m))
      PROVE  Once(u, m)
  <2>1. ASSUME NEW i \in DOMAIN u, NEW j \in DOMAIN u, u[i] = m, u[j] = m PROVE i = j
    <3>1. i \in Int /\ j \in Int BY <1>2
    <3>2. CASE i \in DOMAIN s /\ j \in DOMAIN s /\ u[i] = s[i] /\ u[j] = s[j]
      BY <1>7, <2>1, <3>2 DEF Once
    <3>3. CASE /\ i - Len(s) \in DOMAIN t /\ j - Len(s) \in DOMAIN t
               /\ u[i] = t[i - Len(s)] /\ u[j] = t[j - Len(s)]
      <4>1. i - Len(s) = j - Len(s) BY <1>7, <2>1, <3>3 DEF Once
      <4>. QED BY <1>2, <3>1, <4>1
    <3>. QED BY <1>3, <1>7, <2>1, <3>2, <3>3 DEF Holds
  <2>. QED BY <2>1 DEF Once
<1>. QED BY <1>1, <1>6, <1>7 DEF u
=============================================================================
