------------------------ MODULE DevicePlacementProofs ------------------------
(***************************************************************************)
(* What every behaviour of DevicePlacement keeps, for any sessions,         *)
(* devices, capacities and workloads: the accounts agree with the           *)
(* reservations, every reservation has one holder, and grants are awaited.  *)
(*                                                                         *)
(* The invariant, PlacementInv, sees the coordinator's and the sessions'    *)
(* parts as one ledger: a pool of reservations, and who has their ids - the *)
(* sessions, the grants, or the queue of finalizers - each id once.  Every  *)
(* action is a few movements of that ledger (Ledger...), and what it says   *)
(* of phases, requests and the round in progress.                           *)
(***************************************************************************)
EXTENDS DevicePlacement, QueueFacts

-----------------------------------------------------------------------------
(* The inductive invariant                                                 *)

\* The accounts of pool p: what is reserved is whole, and each device's totals
\* are those of the reservations on it.
Recorded(p) ==
    /\ DOMAIN p.placements \subseteq Nat /\ IsFiniteSet(DOMAIN p.placements)
    /\ \A id \in DOMAIN p.placements :
          /\ p.placements[id].owner \in Session
          /\ DOMAIN p.placements[id].bytes \subseteq Device
          /\ \A d \in DOMAIN p.placements[id].bytes : p.placements[id].bytes[d] \in Nat
    /\ p.reserved \in [Device -> Nat] /\ p.exclusive \in [Device -> BOOLEAN]
Balanced(p, d) ==
    /\ p.reserved[d] = BytesOn(p, d, On(p, d, {}))
    /\ p.reserved[d] <= CapacityOf[d]
    /\ p.exclusive[d] = ExclusiveOn(p, d, On(p, d, {}))
    /\ p.exclusive[d] => Cardinality(On(p, d, {})) = 1
SoundPool(p) == Recorded(p) /\ \A d \in Device : Balanced(p, d)

\* Who has the ids: the sessions (held), the grants g and the queue of finalizers
\* rel.  No id is at two places, and those of pool p are all somewhere.
Held == [s \in Session |-> Range(calls[s]) \cup kept[s]]
Apart(g, rel, held) ==
    /\ rel \subseteq Nat /\ IsFiniteSet(rel)
    /\ \A s \in Session : held[s] \subseteq Nat /\ IsFiniteSet(held[s])
    /\ \A s, t \in Session : s # t => held[s] \cap held[t] = {}
    /\ \A s \in Session : held[s] \cap rel = {} /\ held[s] \cap Range(g) = {}
    /\ rel \cap Range(g) = {}
    /\ \A k, l \in DOMAIN g : g[k] = g[l] => k = l
Owned(p, g, rel, held, gone) ==
    /\ \A s \in Session : s \notin gone => held[s] \subseteq DOMAIN p.placements
    /\ \A s \in Session : \A id \in held[s] \cap DOMAIN p.placements : p.placements[id].owner = s
    /\ \A k \in DOMAIN g : g[k] \in DOMAIN p.placements /\ p.placements[g[k]].owner = k[1]
    /\ \A id \in DOMAIN p.placements : id \in rel \cup Range(g) \/ \E s \in Session : id \in held[s]
Ledger(p, g, rel, held, gone) == SoundPool(p) /\ Apart(g, rel, held) /\ Owned(p, g, rel, held, gone)

\* Types, apart from the pool's.
Typed ==
    /\ program \in Workload
    /\ calls \in [Session -> Seq(Nat)] /\ kept \in [Session -> SUBSET Nat]
    /\ busy \in SUBSET Resource /\ leaving \in SUBSET Nat
    /\ phase \in [Session -> Phase]
    /\ \A s \in Session : retries[s] \in 0..RetryLimit[s]
    /\ DOMAIN retries = Session
    /\ aborted \in SUBSET Session /\ wake \in BOOLEAN
    /\ pending \in Seq(Session) /\ todo \in Seq(Session) /\ ready \in Seq(Session)
    /\ revoked \in SUBSET Session /\ pc \in {"IDLE", "EVICT", "UNLOAD", "TELL"}

\* Grants are for calls to come of sessions that go on.
GrantsOpen ==
    /\ DOMAIN grants \subseteq Session \X Nat
    /\ \A k \in DOMAIN grants :
          /\ k[2] <= Len(program[k[1]]) /\ k[2] > Len(calls[k[1]])
          /\ k[1] \notin aborted /\ phase[k[1]] \notin Ended

\* What the phase of a session says of it.
Phases ==
    \A s \in Session :
        /\ phase[s] \in {"REFUSED", "PLACEMENT_WAITING"} => IndexOf(s) <= Len(program[s])
        /\ phase[s] = "REFUSED" => ~ Granted(s)
        /\ phase[s] = "PLACEMENT_WAITING" /\ s \notin aborted => s \in Range(pending)
        /\ phase[s] = "PLACEMENT_WAITING" /\ s \notin aborted /\ Granted(s) => s \in Range(ready)
        /\ s \in Range(pending) => phase[s] = "PLACEMENT_WAITING" /\ s \notin aborted
        /\ phase[s] \in Ended => calls[s] = << >>
        /\ phase[s] \notin Ended => kept[s] = {}

\* What a reconciliation has in hand.
Rounds ==
    /\ Range(todo) \subseteq Range(pending) /\ Range(ready) \subseteq Range(pending)
    /\ revoked \subseteq Range(pending)
    /\ pc = "UNLOAD" => todo # << >>
    /\ pc # "TELL" => revoked = {}
    /\ pc = "IDLE" => ready = << >> /\ todo = << >>

PlacementInv == Typed /\ Ledger(pool, grants, released, Held, revoked) /\ GrantsOpen /\ Phases /\ Rounds

-----------------------------------------------------------------------------
(* Sums                                                                    *)

\* t is the sum of f over every part of S, whichever member is taken first.
Totals(t, f, S) ==
    /\ t \in [SUBSET S -> Nat] /\ t[{}] = 0
    /\ \A T \in SUBSET S : \A x \in T : t[T] = f[x] + t[T \ {x}]

LEMMA TotalIsDefined ==
    ASSUME NEW f, NEW S, IsFiniteSet(S), \A x \in S : f[x] \in Nat
    PROVE  \E t : Totals(t, f, S) /\ Total(f, S) = t[S]
<1>. DEFINE Member(T) == CHOOSE x \in T : TRUE
            Body(g, T) == IF T = {} THEN 0 ELSE f[Member(T)] + g[T \ {Member(T)}]
            N == Cardinality(S)
            Good(n) == \E g \in [SUBSET S -> Nat] : \A T \in SUBSET S : Cardinality(T) <= n => g[T] = Body(g, T)
<1>0. N \in Nat /\ \A T \in SUBSET S : IsFiniteSet(T) /\ Cardinality(T) \in 0..N
  BY FS_CardinalityType, FS_Subset
<1>1. \A T \in SUBSET S : T # {} => Member(T) \in T OBVIOUS
<1>2. \A T \in SUBSET S : \A x \in T : T \ {x} \in SUBSET S /\ Cardinality(T \ {x}) = Cardinality(T) - 1
  BY <1>0, FS_RemoveElement
<1>. HIDE DEF Member
<1>3. Good(0)
  <2>. DEFINE g == [T \in SUBSET S |-> 0]
  <2>1. ASSUME NEW T \in SUBSET S, Cardinality(T) <= 0 PROVE g[T] = Body(g, T)
    <3>1. Cardinality(T) = 0 BY <1>0, <2>1
    <3>2. T = {} BY <1>0, <3>1, FS_EmptySet
    <3>. QED BY <3>2
  <2>2. g \in [SUBSET S -> Nat] OBVIOUS
  <2>. QED BY <2>1, <2>2
<1>4. ASSUME NEW n \in 0..N, Good(n), n < N PROVE Good(n + 1)
  <2>1. PICK g \in [SUBSET S -> Nat] : \A T \in SUBSET S : Cardinality(T) <= n => g[T] = Body(g, T) BY <1>4
  <2>. DEFINE h == [T \in SUBSET S |-> IF Cardinality(T) = n + 1 THEN Body(g, T) ELSE g[T]]
  <2>2. n \in Nat BY <1>0
  <2>3. \A T \in SUBSET S : Body(g, T) \in Nat BY <1>1, <1>2
  <2>4. h \in [SUBSET S -> Nat] BY <2>3
  <2>5. ASSUME NEW T \in SUBSET S, Cardinality(T) <= n + 1 PROVE h[T] = Body(h, T)
    <3>1. h[T] = Body(g, T)
      <4>1. CASE Cardinality(T) = n + 1 BY <4>1
      <4>2. CASE Cardinality(T) # n + 1
        <5>1. Cardinality(T) <= n BY <1>0, <2>2, <2>5, <4>2
        <5>2. h[T] = g[T] BY <4>2
        <5>. HIDE DEF h, Body
        <5>. QED BY <2>1, <5>1, <5>2
      <4>. QED BY <4>1, <4>2
    <3>2. CASE T = {} BY <3>1, <3>2
    <3>3. CASE T # {}
      <4>1. Member(T) \in T BY <1>1, <3>3
      <4>2. T \ {Member(T)} \in SUBSET S /\ Cardinality(T \ {Member(T)}) = Cardinality(T) - 1 BY <1>2, <4>1
      <4>3. Cardinality(T \ {Member(T)}) # n + 1 BY <1>0, <2>2, <2>5, <4>2
      <4>4. h[T \ {Member(T)}] = g[T \ {Member(T)}] BY <4>2, <4>3
      <4>. HIDE DEF h
      <4>. QED BY <3>1, <3>3, <4>4
    <3>. QED BY <3>2, <3>3
  <2>. QED BY <2>4, <2>5
<1>5. Good(N)
  <2>. DEFINE G == {n \in 0..N : Good(n)}
  <2>1. 0 \in G BY <1>0, <1>3
  <2>2. ASSUME NEW m \in 0..N, m \in G, m < N PROVE m + 1 \in G
    <3>. HIDE DEF Good
    <3>1. Good(m) BY <2>2
    <3>2. m + 1 \in 0..N BY <1>0, <2>2
    <3>. QED BY <1>4, <2>2, <3>1, <3>2
  <2>. HIDE DEF G
  <2>3. \A m \in 0..N : m \in G BY <1>0, <2>1, <2>2, Inductive
  <2>4. N \in 0..N BY <1>0
  <2>. QED BY <2>3, <2>4 DEF G
<1>6. PICK g \in [SUBSET S -> Nat] : \A T \in SUBSET S : g[T] = Body(g, T)
  <2>. HIDE DEF Body
  <2>1. PICK g \in [SUBSET S -> Nat] : \A T \in SUBSET S : Cardinality(T) <= N => g[T] = Body(g, T) BY <1>5
  <2>2. \A T \in SUBSET S : Cardinality(T) <= N BY <1>0
  <2>. QED BY <2>1, <2>2
<1>. DEFINE t == CHOOSE t : t = [T \in SUBSET S |-> Body(t, T)]
<1>7. g = [T \in SUBSET S |-> Body(g, T)] BY <1>6
<1>8. t = [T \in SUBSET S |-> Body(t, T)] BY <1>7
<1>9. Total(f, S) = t[S] BY DEF Total, FoldFunctionOnSet, MapThenFoldSet, Member
<1>. HIDE DEF t
<1>10. ASSUME NEW T \in SUBSET S PROVE t[T] = Body(t, T)
  <2>. DEFINE h == [U \in SUBSET S |-> Body(t, U)]
  <2>1. h[T] = Body(t, T) OBVIOUS
  <2>. HIDE DEF h
  <2>2. t = h BY <1>8 DEF h
  <2>. QED BY <2>1, <2>2
<1>11. t[{}] = 0 BY <1>10
<1>12. \A T \in SUBSET S : T # {} => t[T] = f[Member(T)] + t[T \ {Member(T)}] BY <1>10
<1>. HIDE DEF Body
\* The order does not matter.
<1>. DEFINE Agrees(T) == t[T] \in Nat /\ \A x \in T : t[T] = f[x] + t[T \ {x}]
            A == {n \in 0..N : \A T \in SUBSET S : Cardinality(T) <= n => Agrees(T)}
<1>13. 0 \in A
  <2>1. ASSUME NEW T \in SUBSET S, Cardinality(T) <= 0 PROVE Agrees(T)
    <3>1. Cardinality(T) = 0 BY <1>0, <2>1
    <3>2. T = {} BY <1>0, <3>1, FS_EmptySet
    <3>. QED BY <1>11, <3>2
  <2>. QED BY <1>0, <2>1
<1>14. ASSUME NEW n \in 0..N, n \in A, n < N PROVE n + 1 \in A
  <2>1. ASSUME NEW T \in SUBSET S, Cardinality(T) <= n + 1 PROVE Agrees(T)
    <3>1. n \in Nat /\ n + 1 \in Nat BY <1>0
    <3>2. CASE T = {} BY <1>11, <3>2
    <3>3. CASE T # {}
      <4>. DEFINE y == Member(T)
      <4>1. y \in T BY <1>1, <3>3
      <4>2. \A x \in T : T \ {x} \in SUBSET S /\ Cardinality(T \ {x}) <= n
        BY <1>0, <1>2, <2>1, <3>1
      <4>3. \A x \in T : Agrees(T \ {x})
        <5>. HIDE DEF Agrees
        <5>. QED BY <1>14, <4>2
      <4>. HIDE DEF y
      <4>4. t[T] = f[y] + t[T \ {y}] BY <1>12, <3>3 DEF y
      <4>5. \A x \in T : f[x] \in Nat /\ t[T \ {x}] \in Nat BY <4>3
      <4>6. t[T] \in Nat BY <4>1, <4>4, <4>5
      <4>7. ASSUME NEW x \in T PROVE t[T] = f[x] + t[T \ {x}]
        <5>1. CASE x = y BY <4>4, <5>1
        <5>2. CASE x # y
          <6>. DEFINE B == (T \ {y}) \ {x}
          <6>1. x \in T \ {y} /\ y \in T \ {x} /\ (T \ {x}) \ {y} = B BY <4>1, <5>2
          <6>2. t[T \ {y}] = f[x] + t[B] BY <4>1, <4>3, <6>1
          <6>3. t[T \ {x}] = f[y] + t[B] BY <4>3, <6>1
          <6>4. Agrees(T \ {y}) BY <4>1, <4>3
          <6>5. T \ {y} \in SUBSET S /\ Cardinality(T \ {y}) <= n BY <4>1, <4>2
          <6>6. Cardinality(B) <= n /\ B \in SUBSET S
            <7>1. T \ {y} \in SUBSET S BY <6>5
            <7>2. Cardinality((T \ {y}) \ {x}) = Cardinality(T \ {y}) - 1 BY <1>2, <6>1, <7>1
            <7>. QED BY <1>0, <3>1, <6>5, <7>2
          <6>7. Agrees(B)
            <7>. HIDE DEF Agrees, B
            <7>. QED BY <1>14, <6>6
          <6>8. t[B] \in Nat BY <6>7
          <6>. HIDE DEF B, Agrees
          <6>. QED BY <4>1, <4>4, <4>5, <6>2, <6>3, <6>8
        <5>. QED BY <5>1, <5>2
      <4>. QED BY <4>6, <4>7
    <3>. QED BY <3>2, <3>3
  <2>2. n + 1 \in 0..N BY <1>0, <1>14
  <2>. QED BY <2>1, <2>2
<1>15. \A T \in SUBSET S : Agrees(T)
  <2>. HIDE DEF A
  <2>1. \A m \in 0..N : m \in A BY <1>0, <1>13, <1>14, Inductive
  <2>2. N \in A BY <1>0, <2>1
  <2>. HIDE DEF Agrees
  <2>3. \A T \in SUBSET S : Cardinality(T) <= N BY <1>0
  <2>. QED BY <2>2, <2>3 DEF A
<1>16. t \in [SUBSET S -> Nat]
  <2>1. t = [T \in SUBSET S |-> t[T]]
    <3>. DEFINE h == [U \in SUBSET S |-> Body(t, U)]
    <3>1. h = [T \in SUBSET S |-> h[T]] OBVIOUS
    <3>. HIDE DEF h
    <3>2. t = h BY <1>8 DEF h
    <3>. QED BY <3>1, <3>2
  <2>2. \A T \in SUBSET S : t[T] \in Nat BY <1>15
  <2>. QED BY <2>1, <2>2
<1>. QED BY <1>9, <1>11, <1>15, <1>16 DEF Totals

\* Two sums of the same are the same.
LEMMA TotalsMeet ==
    ASSUME NEW f, NEW S, NEW t, Totals(t, f, S), NEW g, NEW T, NEW u, Totals(u, g, T),
           NEW U, IsFiniteSet(U), U \subseteq S, U \subseteq T, \A x \in U : f[x] = g[x]
    PROVE  t[U] = u[U]
<1>. DEFINE N == Cardinality(U)
            A == {n \in 0..N : \A V \in SUBSET U : Cardinality(V) <= n => t[V] = u[V]}
<1>0. N \in Nat /\ \A V \in SUBSET U : IsFiniteSet(V) /\ Cardinality(V) \in 0..N
  BY FS_CardinalityType, FS_Subset
<1>1. 0 \in A
  <2>1. ASSUME NEW V \in SUBSET U, Cardinality(V) <= 0 PROVE t[V] = u[V]
    <3>1. Cardinality(V) = 0 BY <1>0, <2>1
    <3>2. V = {} BY <1>0, <3>1, FS_EmptySet
    <3>. QED BY <3>2 DEF Totals
  <2>. QED BY <1>0, <2>1
<1>2. ASSUME NEW n \in 0..N, n \in A, n < N PROVE n + 1 \in A
  <2>1. ASSUME NEW V \in SUBSET U, Cardinality(V) <= n + 1 PROVE t[V] = u[V]
    <3>1. CASE V = {} BY <3>1 DEF Totals
    <3>2. CASE V # {}
      <4>1. PICK x : x \in V BY <3>2
      <4>2. IsFiniteSet(V) /\ Cardinality(V) \in Nat BY <1>0
      <4>3. Cardinality(V \ {x}) = Cardinality(V) - 1 BY <4>1, <4>2, FS_RemoveElement
      <4>4. Cardinality(V \ {x}) <= n /\ V \ {x} \in SUBSET U BY <1>0, <2>1, <4>2, <4>3
      <4>5. t[V \ {x}] = u[V \ {x}] BY <1>2, <4>4
      <4>6. V \in SUBSET S /\ V \in SUBSET T /\ x \in U BY <4>1
      <4>7. t[V] = f[x] + t[V \ {x}] /\ u[V] = g[x] + u[V \ {x}] BY <4>1, <4>6 DEF Totals
      <4>. QED BY <4>5, <4>6, <4>7
    <3>. QED BY <3>1, <3>2
  <2>2. n + 1 \in 0..N BY <1>0, <1>2
  <2>. QED BY <2>1, <2>2
<1>. HIDE DEF A
<1>3. \A m \in 0..N : m \in A BY <1>0, <1>1, <1>2, Inductive
<1>4. N \in A BY <1>0, <1>3
<1>5. U \in SUBSET U /\ N <= N BY <1>0
<1>. QED BY <1>4, <1>5 DEF A

LEMMA TotalSame ==
    ASSUME NEW f, NEW g, NEW S, IsFiniteSet(S), \A x \in S : f[x] \in Nat /\ f[x] = g[x]
    PROVE  Total(f, S) = Total(g, S)
<1>1. PICK t : Totals(t, f, S) /\ Total(f, S) = t[S] BY TotalIsDefined
<1>2. PICK u : Totals(u, g, S) /\ Total(g, S) = u[S] BY TotalIsDefined
<1>3. t[S] = u[S] BY <1>1, <1>2, TotalsMeet
<1>. QED BY <1>1, <1>2, <1>3

\* A sum is that of its parts.
LEMMA TotalParts ==
    ASSUME NEW f, NEW S, IsFiniteSet(S), \A x \in S : f[x] \in Nat, NEW T \in SUBSET S
    PROVE  /\ Total(f, S) \in Nat /\ Total(f, T) \in Nat /\ Total(f, S \ T) \in Nat
           /\ Total(f, S) = Total(f, T) + Total(f, S \ T)
<1>. DEFINE R == S \ T
            N == Cardinality(T)
<1>0. IsFiniteSet(T) /\ IsFiniteSet(R) /\ N \in Nat /\ \A V \in SUBSET T : IsFiniteSet(V) /\ Cardinality(V) \in 0..N
  BY FS_CardinalityType, FS_Subset
<1>1. PICK t : Totals(t, f, S) /\ Total(f, S) = t[S] BY TotalIsDefined
<1>2. PICK u : Totals(u, f, T) /\ Total(f, T) = u[T] BY <1>0, TotalIsDefined
<1>3. PICK v : Totals(v, f, R) /\ Total(f, R) = v[R] BY <1>0, TotalIsDefined
<1>4. t[T] = u[T]
  <2>1. T \subseteq S /\ T \subseteq T OBVIOUS
  <2>. QED BY <1>0, <1>1, <1>2, <2>1, TotalsMeet
<1>5. t[R] = v[R]
  <2>1. R \subseteq S /\ R \subseteq R OBVIOUS
  <2>. QED BY <1>0, <1>1, <1>3, <2>1, TotalsMeet
<1>. DEFINE A == {n \in 0..N : \A V \in SUBSET T : Cardinality(V) <= n => t[R \cup V] = t[V] + t[R]}
<1>6. t \in [SUBSET S -> Nat] /\ t[{}] = 0 BY <1>1 DEF Totals
<1>7. 0 \in A
  <2>1. ASSUME NEW V \in SUBSET T, Cardinality(V) <= 0 PROVE t[R \cup V] = t[V] + t[R]
    <3>1. Cardinality(V) = 0 BY <1>0, <2>1
    <3>2. V = {} BY <1>0, <3>1, FS_EmptySet
    <3>3. R \cup V = R /\ R \in SUBSET S BY <3>2
    <3>. QED BY <1>6, <3>2, <3>3
  <2>2. 0 \in 0..N BY <1>0
  <2>. HIDE DEF R, N
  <2>. QED BY <2>1, <2>2
<1>8. ASSUME NEW n \in 0..N, n \in A, n < N PROVE n + 1 \in A
  <2>1. ASSUME NEW V \in SUBSET T, Cardinality(V) <= n + 1 PROVE t[R \cup V] = t[V] + t[R]
    <3>1. CASE V = {}
      <4>1. R \cup V = R /\ R \in SUBSET S BY <3>1
      <4>. QED BY <1>6, <3>1, <4>1
    <3>2. CASE V # {}
      <4>1. PICK x : x \in V BY <3>2
      <4>. DEFINE W == V \ {x}
      <4>2. IsFiniteSet(V) /\ Cardinality(V) \in Nat BY <1>0
      <4>3. Cardinality(W) = Cardinality(V) - 1 BY <4>1, <4>2, FS_RemoveElement
      <4>4. Cardinality(W) <= n /\ W \in SUBSET T BY <1>0, <2>1, <4>2, <4>3
      <4>5. t[R \cup W] = t[W] + t[R] BY <1>8, <4>4
      <4>6. V \in SUBSET S /\ R \cup V \in SUBSET S /\ x \in R \cup V /\ (R \cup V) \ {x} = R \cup W
            /\ W \in SUBSET S /\ R \in SUBSET S /\ x \in S
        BY <4>1
      <4>7. t[V] = f[x] + t[W] /\ t[R \cup V] = f[x] + t[R \cup W] BY <1>1, <4>1, <4>6 DEF Totals
      <4>8. f[x] \in Nat /\ t[W] \in Nat /\ t[R] \in Nat BY <1>6, <4>6
      <4>. HIDE DEF W, R
      <4>. QED BY <4>5, <4>7, <4>8
    <3>. QED BY <3>1, <3>2
  <2>2. n + 1 \in 0..N BY <1>0, <1>8
  <2>. QED BY <2>1, <2>2
<1>9. t[R \cup T] = t[T] + t[R]
  <2>. HIDE DEF A
  <2>1. \A m \in 0..N : m \in A BY <1>0, <1>7, <1>8, Inductive
  <2>2. N \in A BY <1>0, <2>1
  <2>3. T \in SUBSET T /\ N <= N BY <1>0
  <2>. QED BY <2>2, <2>3 DEF A
<1>10. R \cup T = S /\ R \in SUBSET S /\ S \in SUBSET S OBVIOUS
<1>11. t[S] \in Nat /\ t[T] \in Nat /\ t[R] \in Nat BY <1>6, <1>10
<1>. QED BY <1>1, <1>2, <1>3, <1>4, <1>5, <1>9, <1>10, <1>11

LEMMA TotalFew == \A f, x : f[x] \in Nat => Total(f, {}) = 0 /\ Total(f, {x}) = f[x]
<1>. SUFFICES ASSUME NEW f, NEW x, f[x] \in Nat PROVE Total(f, {}) = 0 /\ Total(f, {x}) = f[x] OBVIOUS
<1>0. IsFiniteSet({x}) /\ IsFiniteSet({}) BY FS_Singleton, FS_EmptySet
<1>1. PICK t : Totals(t, f, {x}) /\ Total(f, {x}) = t[{x}] BY <1>0, TotalIsDefined
<1>2. PICK u : Totals(u, f, {}) /\ Total(f, {}) = u[{}]
  <2>1. \A y \in {} : f[y] \in Nat OBVIOUS
  <2>. QED BY <1>0, <2>1, TotalIsDefined
<1>3. {x} \in SUBSET {x} /\ {x} \ {x} = {} OBVIOUS
<1>4. t[{x}] = f[x] + t[{}] /\ t[{}] = 0 BY <1>1, <1>3 DEF Totals
<1>. QED BY <1>1, <1>2, <1>4 DEF Totals

-----------------------------------------------------------------------------
(* Functions and sets                                                      *)

LEMMA AddedFirst ==
    ASSUME NEW f, NEW k, NEW v
    PROVE  /\ DOMAIN With(f, k, v) = DOMAIN f \cup {k} /\ With(f, k, v)[k] = v
           /\ \A x \in DOMAIN f : x # k => With(f, k, v)[x] = f[x]
BY DEF With

LEMMA Restricted ==
    ASSUME NEW f, NEW S, S \subseteq DOMAIN f
    PROVE  DOMAIN Restrict(f, S) = S /\ \A x \in S : Restrict(f, S)[x] = f[x]
BY DEF Restrict

LEMMA RangeIs == \A f, y : y \in Range(f) <=> \E x \in DOMAIN f : f[x] = y
BY DEF Range

LEMMA RangeOfAppend ==
    ASSUME NEW S, NEW q \in Seq(S), NEW e \in S
    PROVE  Append(q, e) \in Seq(S) /\ Range(Append(q, e)) = Range(q) \cup {e} /\ Len(Append(q, e)) = Len(q) + 1
<1>1. Append(q, e) \in Seq(S) /\ DOMAIN q = 1..Len(q) /\ Len(q) \in Nat
      /\ DOMAIN Append(q, e) = 1..(Len(q) + 1) /\ Len(Append(q, e)) = Len(q) + 1
      /\ \A i \in 1..Len(q) : Append(q, e)[i] = q[i]
      /\ Append(q, e)[Len(q) + 1] = e
  OBVIOUS
<1>. QED BY <1>1 DEF Range

LEMMA RangeOfConcat ==
    ASSUME NEW S, NEW q \in Seq(S), NEW r \in Seq(S)
    PROVE  q \o r \in Seq(S) /\ Range(q \o r) = Range(q) \cup Range(r)
<1>1. q \o r \in Seq(S) /\ DOMAIN q = 1..Len(q) /\ Len(q) \in Nat /\ DOMAIN r = 1..Len(r) /\ Len(r) \in Nat
      /\ DOMAIN (q \o r) = 1..(Len(q) + Len(r))
      /\ \A i \in 1..(Len(q) + Len(r)) : (q \o r)[i] = IF i <= Len(q) THEN q[i] ELSE r[i - Len(q)]
  OBVIOUS
<1>2. ASSUME NEW y \in Range(q \o r) PROVE y \in Range(q) \cup Range(r)
  <2>1. PICK i \in 1..(Len(q) + Len(r)) : (q \o r)[i] = y BY <1>1 DEF Range
  <2>2. CASE i <= Len(q)
    <3>1. i \in DOMAIN q /\ q[i] = y BY <1>1, <2>1, <2>2
    <3>. QED BY <3>1 DEF Range
  <2>3. CASE ~ (i <= Len(q))
    <3>1. i - Len(q) \in DOMAIN r /\ r[i - Len(q)] = y BY <1>1, <2>1, <2>3
    <3>. QED BY <3>1 DEF Range
  <2>. QED BY <2>2, <2>3
<1>3. ASSUME NEW y \in Range(q) PROVE y \in Range(q \o r)
  <2>1. PICK i \in DOMAIN q : q[i] = y BY DEF Range
  <2>2. i \in DOMAIN (q \o r) /\ (q \o r)[i] = y BY <1>1, <2>1
  <2>. QED BY <2>2 DEF Range
<1>4. ASSUME NEW y \in Range(r) PROVE y \in Range(q \o r)
  <2>1. PICK i \in DOMAIN r : r[i] = y BY DEF Range
  <2>2. i + Len(q) \in DOMAIN (q \o r) /\ (q \o r)[i + Len(q)] = y BY <1>1, <2>1
  <2>. QED BY <2>2 DEF Range
<1>. QED BY <1>1, <1>2, <1>3, <1>4

LEMMA RangeOfWithout ==
    ASSUME NEW S, NEW q \in Seq(S), NEW C
    PROVE  Without(q, C) \in Seq(S) /\ Range(Without(q, C)) = Range(q) \ C
<1>1. /\ Without(q, C) \in Seq(S)
      /\ \A i \in DOMAIN Without(q, C) : Without(q, C)[i] \notin C /\ \E j \in DOMAIN q : q[j] = Without(q, C)[i]
      /\ \A j \in DOMAIN q : q[j] \notin C => \E i \in DOMAIN Without(q, C) : Without(q, C)[i] = q[j]
  BY WithoutKeeps
<1>. QED BY <1>1, RangeIs

LEMMA RangeOfTail ==
    ASSUME NEW S, NEW q \in Seq(S), q # << >>
    PROVE  Head(q) \in Range(q) /\ Tail(q) \in Seq(S) /\ Range(Tail(q)) \subseteq Range(q)
<1>1. Tail(q) \in Seq(S) /\ DOMAIN q = 1..Len(q) /\ Len(q) \in Nat /\ Len(q) > 0
      /\ DOMAIN Tail(q) = 1..(Len(q) - 1) /\ \A i \in 1..(Len(q) - 1) : Tail(q)[i] = q[i + 1]
      /\ Head(q) = q[1]
  OBVIOUS
<1>2. \A i \in 1..(Len(q) - 1) : i + 1 \in DOMAIN q BY <1>1
<1>3. 1 \in DOMAIN q BY <1>1
<1>. QED BY <1>1, <1>2, <1>3 DEF Range

LEMMA RangeIsFinite ==
    ASSUME NEW S, NEW q \in Seq(S)
    PROVE  IsFiniteSet(Range(q)) /\ Range(q) \subseteq S
<1>1. DOMAIN q = 1..Len(q) /\ Len(q) \in Nat /\ \A i \in 1..Len(q) : q[i] \in S OBVIOUS
<1>2. IsFiniteSet(1..Len(q)) BY <1>1, FS_Interval
<1>3. q \in [1..Len(q) -> Range(q)] BY <1>1 DEF Range
<1>4. \A y \in Range(q) : \E i \in 1..Len(q) : q[i] = y BY <1>1 DEF Range
<1>5. q \in Surjection(1..Len(q), Range(q)) BY <1>3, <1>4 DEF Surjection
<1>. QED BY <1>1, <1>2, <1>5, FS_Surjection DEF Range

-----------------------------------------------------------------------------
(* The bytes of reservations                                               *)

\* All of ids are in pool p with bytes on d.
Weighed(p, d, ids) ==
    IsFiniteSet(ids) /\ \A id \in ids : id \in DOMAIN p.placements /\ p.placements[id].bytes[d] \in Nat

LEMMA BytesAreCounted ==
    ASSUME NEW p, NEW d, NEW ids, Weighed(p, d, ids), NEW part \in SUBSET ids
    PROVE  /\ BytesOn(p, d, ids) \in Nat /\ BytesOn(p, d, part) \in Nat /\ BytesOn(p, d, ids \ part) \in Nat
           /\ BytesOn(p, d, ids) = BytesOn(p, d, part) + BytesOn(p, d, ids \ part)
<1>. DEFINE f == [id \in ids |-> p.placements[id].bytes[d]]
            g == [id \in part |-> p.placements[id].bytes[d]]
            h == [id \in ids \ part |-> p.placements[id].bytes[d]]
<1>1. IsFiniteSet(ids) /\ IsFiniteSet(part) /\ IsFiniteSet(ids \ part) BY FS_Subset DEF Weighed
<1>2. /\ \A id \in ids : f[id] \in Nat
      /\ \A id \in part : f[id] \in Nat /\ f[id] = g[id]
      /\ \A id \in ids \ part : f[id] \in Nat /\ f[id] = h[id]
  BY DEF Weighed
<1>3. BytesOn(p, d, ids) = Total(f, ids) /\ BytesOn(p, d, part) = Total(g, part)
      /\ BytesOn(p, d, ids \ part) = Total(h, ids \ part)
  BY DEF BytesOn
<1>. HIDE DEF f, g, h
<1>4. Total(f, part) = Total(g, part) BY <1>1, <1>2, TotalSame
<1>5. Total(f, ids \ part) = Total(h, ids \ part) BY <1>1, <1>2, TotalSame
<1>6. /\ Total(f, ids) \in Nat /\ Total(f, part) \in Nat /\ Total(f, ids \ part) \in Nat
      /\ Total(f, ids) = Total(f, part) + Total(f, ids \ part)
  <2>1. \A id \in ids : f[id] \in Nat BY <1>2
  <2>. QED BY <1>1, <2>1, TotalParts
<1>. QED BY <1>3, <1>4, <1>5, <1>6

LEMMA BytesOfFew ==
    ASSUME NEW p, NEW d
    PROVE  /\ BytesOn(p, d, {}) = 0
           /\ \A id : p.placements[id].bytes[d] \in Nat => BytesOn(p, d, {id}) = p.placements[id].bytes[d]
<1>1. BytesOn(p, d, {}) = 0
  <2>. DEFINE e == [id \in {} |-> p.placements[id].bytes[d]]
              z == [x \in {0} |-> 0]
  <2>1. IsFiniteSet({}) BY FS_EmptySet
  <2>2. \A x \in {} : z[x] \in Nat /\ z[x] = e[x] OBVIOUS
  <2>3. BytesOn(p, d, {}) = Total(e, {}) BY DEF BytesOn
  <2>4. z[0] \in Nat OBVIOUS
  <2>. HIDE DEF e, z
  <2>5. Total(z, {}) = Total(e, {}) BY <2>1, <2>2, TotalSame
  <2>6. Total(z, {}) = 0 BY <2>4, TotalFew
  <2>. QED BY <2>3, <2>5, <2>6
<1>2. ASSUME NEW id, p.placements[id].bytes[d] \in Nat
      PROVE  BytesOn(p, d, {id}) = p.placements[id].bytes[d]
  <2>. DEFINE f == [x \in {id} |-> p.placements[x].bytes[d]]
  <2>1. f[id] \in Nat /\ f[id] = p.placements[id].bytes[d] BY <1>2
  <2>2. BytesOn(p, d, {id}) = Total(f, {id}) BY DEF BytesOn
  <2>. HIDE DEF f
  <2>. QED BY <2>1, <2>2, TotalFew
<1>. QED BY <1>1, <1>2

LEMMA BytesSame ==
    ASSUME NEW p, NEW q, NEW d, NEW ids, \A id \in ids : p.placements[id] = q.placements[id]
    PROVE  BytesOn(p, d, ids) = BytesOn(q, d, ids)
<1>1. [id \in ids |-> p.placements[id].bytes[d]] = [id \in ids |-> q.placements[id].bytes[d]] OBVIOUS
<1>. QED BY <1>1 DEF BytesOn

LEMMA OnIsWeighed ==
    ASSUME NEW p, Recorded(p), NEW d \in Device
    PROVE  /\ Weighed(p, d, On(p, d, {}))
           /\ On(p, d, {}) = {id \in DOMAIN p.placements : d \in DOMAIN p.placements[id].bytes}
           /\ BytesOn(p, d, On(p, d, {})) \in Nat
<1>1. On(p, d, {}) = {id \in DOMAIN p.placements : d \in DOMAIN p.placements[id].bytes} BY DEF On
<1>2. IsFiniteSet(On(p, d, {})) BY <1>1, FS_Subset DEF Recorded
<1>3. Weighed(p, d, On(p, d, {})) BY <1>1, <1>2 DEF Weighed, Recorded
<1>4. On(p, d, {}) \in SUBSET On(p, d, {}) OBVIOUS
<1>. QED BY <1>1, <1>3, <1>4, BytesAreCounted

-----------------------------------------------------------------------------
(* Giving back                                                             *)

LEMMA FreedStaysSound ==
    ASSUME NEW p, SoundPool(p), NEW ids
    PROVE  /\ SoundPool(Freed(p, ids))
           /\ DOMAIN Freed(p, ids).placements = DOMAIN p.placements \ ids
           /\ \A id \in DOMAIN p.placements \ ids : Freed(p, ids).placements[id] = p.placements[id]
<1>. DEFINE gone == ids \cap DOMAIN p.placements
            q == Freed(p, ids)
            there(d) == On(p, d, {})
<1>1. q.placements = Restrict(p.placements, DOMAIN p.placements \ gone) BY DEF Freed
<1>2. DOMAIN p.placements \ gone = DOMAIN p.placements \ ids OBVIOUS
<1>3. /\ DOMAIN q.placements = DOMAIN p.placements \ ids
      /\ \A id \in DOMAIN p.placements \ ids : q.placements[id] = p.placements[id]
  <2>1. DOMAIN p.placements \ ids \subseteq DOMAIN p.placements OBVIOUS
  <2>. QED BY <1>1, <1>2, <2>1, Restricted
<1>4. /\ q.reserved = [d \in Device |-> p.reserved[d] - BytesOn(p, d, there(d) \cap gone)]
      /\ q.exclusive = [d \in Device |-> p.exclusive[d] /\ ~ ExclusiveOn(p, d, there(d) \cap gone)]
  BY DEF Freed
<1>5. Recorded(p) /\ \A d \in Device : Balanced(p, d) BY DEF SoundPool
<1>. HIDE DEF q
<1>6. ASSUME NEW d \in Device
      PROVE  Balanced(q, d) /\ q.reserved[d] \in Nat
  <2>. DEFINE T == On(p, d, {})
              R == T \ gone
  <2>0. /\ Weighed(p, d, T) /\ T = {id \in DOMAIN p.placements : d \in DOMAIN p.placements[id].bytes}
    BY <1>5, OnIsWeighed
  <2>1. On(q, d, {}) = R
    <3>1. On(q, d, {}) = {id \in DOMAIN q.placements : d \in DOMAIN q.placements[id].bytes} BY DEF On
    <3>. HIDE DEF T
    <3>. QED BY <1>3, <2>0, <3>1
  <2>2. T \cap gone \in SUBSET T /\ T \ (T \cap gone) = R OBVIOUS
  <2>3. /\ BytesOn(p, d, T) \in Nat /\ BytesOn(p, d, T \cap gone) \in Nat /\ BytesOn(p, d, R) \in Nat
        /\ BytesOn(p, d, T) = BytesOn(p, d, T \cap gone) + BytesOn(p, d, R)
    <3>. DEFINE U == T \cap gone
    <3>. HIDE DEF T, R, U
    <3>0. U \in SUBSET T /\ Weighed(p, d, T) BY <2>0, <2>2 DEF U
    <3>1. /\ BytesOn(p, d, T) \in Nat /\ BytesOn(p, d, U) \in Nat /\ BytesOn(p, d, T \ U) \in Nat
          /\ BytesOn(p, d, T) = BytesOn(p, d, U) + BytesOn(p, d, T \ U)
      BY <3>0, BytesAreCounted
    <3>. QED BY <2>2, <3>1 DEF U
  <2>4. BytesOn(q, d, R) = BytesOn(p, d, R)
    <3>1. \A id \in R : q.placements[id] = p.placements[id] BY <1>3, <2>0
    <3>. HIDE DEF R
    <3>. QED BY <3>1, BytesSame
  <2>5. p.reserved[d] = BytesOn(p, d, T) /\ p.reserved[d] <= CapacityOf[d] BY <1>5 DEF Balanced
  <2>6. CapacityOf[d] \in Nat BY ConstantsAssumption
  <2>7. q.reserved[d] = p.reserved[d] - BytesOn(p, d, T \cap gone) BY <1>4
  <2>8. q.reserved[d] = BytesOn(q, d, R) /\ q.reserved[d] \in Nat /\ q.reserved[d] <= CapacityOf[d]
    <3>. HIDE DEF T, R
    <3>. QED BY <2>3, <2>4, <2>5, <2>6, <2>7
  <2>9. q.exclusive[d] = (p.exclusive[d] /\ ~ ExclusiveOn(p, d, T \cap gone)) BY <1>4
  <2>10. p.exclusive[d] = ExclusiveOn(p, d, T) /\ (p.exclusive[d] => Cardinality(T) = 1) BY <1>5 DEF Balanced
  <2>11. ExclusiveOn(q, d, R) <=> \E id \in R : d \in p.placements[id].exclusive
    <3>1. \A id \in R : q.placements[id] = p.placements[id] BY <1>3, <2>0
    <3>. QED BY <3>1 DEF ExclusiveOn
  <2>12. q.exclusive[d] = ExclusiveOn(q, d, R) /\ (q.exclusive[d] => Cardinality(R) = 1)
    <3>1. CASE ~ ExclusiveOn(p, d, T)
      <4>1. ~ q.exclusive[d] BY <2>9, <2>10, <3>1
      <4>2. ~ ExclusiveOn(q, d, R) BY <2>11, <3>1 DEF ExclusiveOn
      <4>3. q.exclusive[d] \in BOOLEAN /\ ExclusiveOn(q, d, R) \in BOOLEAN BY <2>9 DEF ExclusiveOn
      <4>. QED BY <4>1, <4>2, <4>3
    <3>2. CASE ExclusiveOn(p, d, T)
      <4>1. IsFiniteSet(T) /\ Cardinality(T) = 1 BY <2>0, <2>10, <3>2 DEF Weighed
      <4>2. PICK x : T = {x} BY <4>1, FS_Singleton
      <4>3. d \in p.placements[x].exclusive BY <3>2, <4>2 DEF ExclusiveOn
      <4>4. CASE x \in gone
        <5>1. R = {} /\ T \cap gone = T BY <4>2, <4>4
        <5>2. ~ q.exclusive[d] BY <2>9, <3>2, <5>1
        <5>3. ~ ExclusiveOn(q, d, R) BY <2>11, <5>1
        <5>4. q.exclusive[d] \in BOOLEAN /\ ExclusiveOn(q, d, R) \in BOOLEAN BY <2>9 DEF ExclusiveOn
        <5>. QED BY <5>2, <5>3, <5>4
      <4>5. CASE x \notin gone
        <5>1. R = T /\ T \cap gone = {} BY <4>2, <4>5
        <5>2. ~ ExclusiveOn(p, d, {}) BY DEF ExclusiveOn
        <5>3. q.exclusive[d] BY <2>9, <2>10, <3>2, <5>1, <5>2
        <5>4. ExclusiveOn(q, d, R) BY <2>11, <4>2, <4>3, <5>1
        <5>5. q.exclusive[d] \in BOOLEAN /\ ExclusiveOn(q, d, R) \in BOOLEAN BY <2>9 DEF ExclusiveOn
        <5>. QED BY <4>1, <5>1, <5>3, <5>4, <5>5
      <4>. QED BY <4>4, <4>5
    <3>. QED BY <3>1, <3>2
  <2>. HIDE DEF T, R
  <2>. QED BY <2>1, <2>8, <2>12 DEF Balanced
<1>7. Recorded(q)
  <2>1. q.reserved \in [Device -> Nat]
    <3>1. \A d \in Device : q.reserved[d] \in Nat BY <1>6
    <3>2. q.reserved = [d \in Device |-> q.reserved[d]] BY <1>4
    <3>. QED BY <3>1, <3>2
  <2>2. q.exclusive \in [Device -> BOOLEAN] BY <1>4
  <2>3. IsFiniteSet(DOMAIN p.placements \ ids) BY <1>5, FS_Subset DEF Recorded
  <2>. QED BY <1>3, <1>5, <2>1, <2>2, <2>3 DEF Recorded
<1>. QED BY <1>3, <1>6, <1>7 DEF SoundPool, q

-----------------------------------------------------------------------------
(* Taking                                                                  *)

\* A plan for request r that pool p can meet.
Fits(p, r, plan) ==
    /\ DOMAIN plan \subseteq Device
    /\ \A d \in DOMAIN plan : plan[d] \in Nat /\ Accepts(p, d, r, plan[d], {})

LEMMA AllocatedStaysSound ==
    ASSUME NEW p, SoundPool(p), NEW id \in Nat, id \notin DOMAIN p.placements, NEW owner \in Session,
           NEW r, NEW plan, Fits(p, r, plan)
    PROVE  /\ SoundPool(Allocated(p, id, owner, r, plan))
           /\ DOMAIN Allocated(p, id, owner, r, plan).placements = DOMAIN p.placements \cup {id}
           /\ Allocated(p, id, owner, r, plan).placements[id].owner = owner
           /\ \A x \in DOMAIN p.placements : Allocated(p, id, owner, r, plan).placements[x] = p.placements[x]
<1>. DEFINE alone == {d \in DOMAIN plan : RequiresExclusive(d, r)}
            row == [owner |-> owner, bytes |-> plan, exclusive |-> alone]
            q == Allocated(p, id, owner, r, plan)
<1>1. /\ q.placements = With(p.placements, id, row)
      /\ q.reserved = [d \in Device |-> p.reserved[d] + (IF d \in DOMAIN plan THEN plan[d] ELSE 0)]
      /\ q.exclusive = [d \in Device |-> IF d \in DOMAIN plan THEN d \in alone ELSE p.exclusive[d]]
  BY DEF Allocated
<1>2. row.owner = owner /\ row.bytes = plan /\ row.exclusive = alone OBVIOUS
<1>. HIDE DEF row, q
<1>3. /\ DOMAIN q.placements = DOMAIN p.placements \cup {id} /\ q.placements[id] = row
      /\ \A x \in DOMAIN p.placements : q.placements[x] = p.placements[x]
  <2>1. /\ DOMAIN With(p.placements, id, row) = DOMAIN p.placements \cup {id}
        /\ With(p.placements, id, row)[id] = row
        /\ \A x \in DOMAIN p.placements : x # id => With(p.placements, id, row)[x] = p.placements[x]
    BY DEF With
  <2>. QED BY <1>1, <2>1
<1>4. Recorded(p) /\ \A d \in Device : Balanced(p, d) BY DEF SoundPool
<1>5. ASSUME NEW d \in Device
      PROVE  Balanced(q, d) /\ q.reserved[d] \in Nat /\ q.exclusive[d] \in BOOLEAN
  <2>. DEFINE T == On(p, d, {})
              U == On(q, d, {})
  <2>0. Weighed(p, d, T) /\ T = {x \in DOMAIN p.placements : d \in DOMAIN p.placements[x].bytes}
        /\ BytesOn(p, d, T) \in Nat
    BY <1>4, OnIsWeighed
  <2>1. U = {x \in DOMAIN q.placements : d \in DOMAIN q.placements[x].bytes} BY DEF On
  <2>2. /\ p.reserved[d] = BytesOn(p, d, T) /\ p.reserved[d] <= CapacityOf[d]
        /\ p.exclusive[d] = ExclusiveOn(p, d, T) /\ (p.exclusive[d] => Cardinality(T) = 1)
    BY <1>4 DEF Balanced
  <2>3. CapacityOf[d] \in Nat BY ConstantsAssumption
  <2>4. q.reserved[d] = p.reserved[d] + (IF d \in DOMAIN plan THEN plan[d] ELSE 0)
        /\ q.exclusive[d] = IF d \in DOMAIN plan THEN d \in alone ELSE p.exclusive[d]
    BY <1>1
  <2>5. BytesOn(q, d, T) = BytesOn(p, d, T) /\ (ExclusiveOn(q, d, T) <=> ExclusiveOn(p, d, T))
    <3>1. \A x \in T : q.placements[x] = p.placements[x] BY <1>3, <2>0
    <3>. HIDE DEF T
    <3>2. BytesOn(q, d, T) = BytesOn(p, d, T) BY <3>1, BytesSame
    <3>. QED BY <3>1, <3>2 DEF ExclusiveOn
  <2>6. ExclusiveOn(p, d, T) \in BOOLEAN /\ ExclusiveOn(q, d, T) \in BOOLEAN /\ ExclusiveOn(q, d, U) \in BOOLEAN
        /\ p.exclusive[d] \in BOOLEAN
    BY <1>4 DEF ExclusiveOn, Recorded
  <2>7. CASE d \notin DOMAIN plan
    <3>1. U = T
      <4>. HIDE DEF T, U
      <4>. QED BY <1>2, <1>3, <2>0, <2>1, <2>7
    <3>. HIDE DEF T
    <3>2. q.reserved[d] = p.reserved[d] /\ q.exclusive[d] = p.exclusive[d] BY <2>0, <2>2, <2>4, <2>7
    <3>3. Balanced(q, d) BY <2>2, <2>5, <2>6, <3>1, <3>2 DEF Balanced
    <3>. QED BY <2>0, <2>2, <2>6, <3>2, <3>3
  <2>8. CASE d \in DOMAIN plan
    <3>1. U = T \cup {id} /\ id \notin T
      <4>. HIDE DEF T, U
      <4>. QED BY <1>2, <1>3, <2>0, <2>1, <2>8
    <3>2. plan[d] \in Nat /\ Accepts(p, d, r, plan[d], {}) BY <2>8 DEF Fits
    <3>3. Weighed(q, d, U) /\ BytesOn(q, d, U) = BytesOn(p, d, T) + plan[d]
      <4>. HIDE DEF T, U
      <4>1. IsFiniteSet(U) BY <2>0, <3>1, FS_AddElement DEF Weighed
      <4>2. \A x \in U : x \in DOMAIN q.placements /\ q.placements[x].bytes[d] \in Nat
        BY <1>2, <1>3, <2>0, <3>1, <3>2 DEF Weighed
      <4>3. Weighed(q, d, U) BY <4>1, <4>2 DEF Weighed
      <4>4. T \in SUBSET U /\ U \ T = {id} BY <3>1
      <4>5. /\ BytesOn(q, d, T) \in Nat /\ BytesOn(q, d, U \ T) \in Nat
            /\ BytesOn(q, d, U) = BytesOn(q, d, T) + BytesOn(q, d, U \ T)
        BY <4>3, <4>4, BytesAreCounted
      <4>6. q.placements[id].bytes[d] \in Nat /\ q.placements[id].bytes[d] = plan[d] BY <1>2, <1>3, <3>2
      <4>7. BytesOn(q, d, {id}) = plan[d] BY <4>6, BytesOfFew
      <4>. QED BY <2>5, <4>3, <4>4, <4>5, <4>7
    <3>4. ExclusiveOn(q, d, U) <=> ExclusiveOn(p, d, T) \/ d \in alone
      <4>1. ExclusiveOn(q, d, U) <=> ExclusiveOn(q, d, T) \/ d \in q.placements[id].exclusive
        BY <3>1 DEF ExclusiveOn
      <4>. QED BY <1>2, <1>3, <2>5, <4>1
    <3>5. d \in alone <=> RequiresExclusive(d, r) BY <2>8
    <3>6. /\ CanSatisfy(d, r, plan[d])
          /\ ~ RequiresExclusive(d, r) => ~ p.exclusive[d] /\ plan[d] <= CapacityOf[d] - p.reserved[d]
          /\ RequiresExclusive(d, r) => T = {}
      BY <3>2 DEF Accepts
    <3>. HIDE DEF alone
    <3>7. plan[d] <= CapacityOf[d] BY <3>6 DEF CanSatisfy
    <3>8. CASE RequiresExclusive(d, r)
      <4>1. T = {} /\ U = {id} BY <3>1, <3>6, <3>8
      <4>2. BytesOn(p, d, {}) = 0 BY BytesOfFew
      <4>3. Cardinality(U) = 1 BY <4>1, FS_Singleton
      <4>4. p.reserved[d] = 0 BY <2>2, <4>1, <4>2
      <4>5. q.reserved[d] = plan[d] /\ q.reserved[d] = BytesOn(q, d, U)
        <5>. HIDE DEF U, T
        <5>. QED BY <2>2, <2>4, <2>8, <3>2, <3>3, <4>4
      <4>6. q.exclusive[d] = TRUE /\ ExclusiveOn(q, d, U) = TRUE
        <5>1. d \in alone BY <3>5, <3>8
        <5>. HIDE DEF U, T
        <5>. QED BY <2>4, <2>6, <2>8, <3>4, <5>1
      <4>. HIDE DEF U
      <4>7. Balanced(q, d) BY <3>7, <4>3, <4>5, <4>6 DEF Balanced, U
      <4>. QED BY <3>2, <4>5, <4>6, <4>7
    <3>9. CASE ~ RequiresExclusive(d, r)
      <4>1. d \notin alone /\ ~ p.exclusive[d] /\ ~ ExclusiveOn(p, d, T) BY <2>2, <3>5, <3>6, <3>9
      <4>2. q.exclusive[d] = FALSE /\ ExclusiveOn(q, d, U) = FALSE
        <5>. HIDE DEF U, T
        <5>1. ~ ExclusiveOn(q, d, U) BY <3>4, <4>1
        <5>2. q.exclusive[d] = (d \in alone) BY <2>4, <2>8
        <5>. QED BY <2>6, <4>1, <5>1, <5>2
      <4>3. q.reserved[d] = BytesOn(q, d, U) /\ q.reserved[d] <= CapacityOf[d] /\ q.reserved[d] \in Nat
        <5>. HIDE DEF U, T
        <5>. QED BY <2>0, <2>2, <2>3, <2>4, <2>8, <3>2, <3>3, <3>6, <3>9
      <4>. HIDE DEF U
      <4>4. Balanced(q, d) BY <4>2, <4>3 DEF Balanced, U
      <4>. QED BY <4>2, <4>3, <4>4
    <3>. QED BY <3>8, <3>9
  <2>. QED BY <2>7, <2>8
<1>6. Recorded(q)
  <2>1. q.reserved \in [Device -> Nat] /\ q.exclusive \in [Device -> BOOLEAN]
    <3>1. \A d \in Device : q.reserved[d] \in Nat /\ q.exclusive[d] \in BOOLEAN BY <1>5
    <3>2. q.reserved = [d \in Device |-> q.reserved[d]] /\ q.exclusive = [d \in Device |-> q.exclusive[d]]
      BY <1>1
    <3>. QED BY <3>1, <3>2
  <2>2. IsFiniteSet(DOMAIN p.placements \cup {id}) BY <1>4, FS_AddElement DEF Recorded
  <2>3. DOMAIN plan \subseteq Device /\ \A d \in DOMAIN plan : plan[d] \in Nat BY DEF Fits
  <2>. QED BY <1>2, <1>3, <1>4, <2>1, <2>2, <2>3 DEF Recorded
<1>. QED BY <1>2, <1>3, <1>5, <1>6 DEF SoundPool, q

\* The best of the candidates is one of them.
LEMMA BestFitIsThere ==
    ASSUME NEW p, SoundPool(p), NEW candidates \in SUBSET Device, candidates # {}
    PROVE  BestFit(p, candidates, {}) \in candidates
<1>. DEFINE free(d) == CapacityOf[d] - p.reserved[d]
            room == {free(d) : d \in candidates}
<1>1. \A d \in Device : FreeBytes(p, d, {}) = free(d) BY DEF FreeBytes
<1>2. \A d \in Device : free(d) \in Nat
  <2>1. ASSUME NEW d \in Device PROVE free(d) \in Nat
    <3>1. Balanced(p, d) /\ p.reserved[d] \in Nat BY DEF SoundPool, Recorded
    <3>2. CapacityOf[d] \in Nat BY ConstantsAssumption
    <3>3. p.reserved[d] <= CapacityOf[d] BY <3>1 DEF Balanced
    <3>. QED BY <3>1, <3>2, <3>3
  <2>. QED BY <2>1
<1>. HIDE DEF free
<1>3. room \subseteq Nat /\ room # {} BY <1>2
<1>4. PICK least \in room : \A k \in room : least <= k
  <2>. HIDE DEF room
  <2>. QED BY <1>3, LeastExists
<1>. DEFINE tied == {d \in candidates : free(d) = least}
<1>5. tied \subseteq Nat /\ tied # {} BY ConstantsAssumption
<1>6. PICK best \in tied : \A d \in tied : best <= d
  <2>. HIDE DEF tied
  <2>. QED BY <1>5, LeastExists
<1>7. ASSUME NEW e \in candidates \ {best}
      PROVE  LexLess(<<FreeBytes(p, best, {}), best>>, <<FreeBytes(p, e, {}), e>>)
  <2>1. free(best) = least /\ best \in candidates /\ best \in Nat /\ e \in Nat /\ e # best BY ConstantsAssumption
  <2>2. free(e) \in room BY <1>7
  <2>3. least <= free(e) /\ free(e) \in Nat /\ least \in Nat BY <1>2, <1>4, <2>1, <2>2
  <2>4. free(e) = least => best <= e BY <1>6
  <2>5. free(best) < free(e) \/ (free(best) = free(e) /\ best < e) BY <2>1, <2>3, <2>4
  <2>6. FreeBytes(p, best, {}) = free(best) /\ FreeBytes(p, e, {}) = free(e) BY <1>1, <2>1
  <2>. QED BY <2>5, <2>6 DEF LexLess
<1>8. \E d \in candidates : \A e \in candidates \ {d} :
          LexLess(<<FreeBytes(p, d, {}), d>>, <<FreeBytes(p, e, {}), e>>)
  BY <1>7
<1>. QED BY <1>8 DEF BestFit


-----------------------------------------------------------------------------
(* Plans                                                                   *)

LEMMA CountsArePositive ==
    ASSUME NEW r \in Request, r.least <= r.most
    PROVE  /\ DeviceCounts(r) = [k \in 1..(r.most - r.least + 1) |->
                  IF r.preferMost THEN r.most - k + 1 ELSE r.least + k - 1]
           /\ r.most - r.least + 1 \in Nat
           /\ \A k \in 1..(r.most - r.least + 1) : DeviceCounts(r)[k] \in Nat \ {0}
<1>1. r.least \in Nat \ {0} /\ r.most \in Nat \ {0} BY DEF Request
<1>2. DeviceCounts(r) = [k \in 1..(r.most - r.least + 1) |->
          IF r.preferMost THEN r.most - k + 1 ELSE r.least + k - 1]
  BY DEF DeviceCounts
<1>3. ASSUME NEW k \in 1..(r.most - r.least + 1)
      PROVE  r.most - k + 1 \in Nat \ {0} /\ r.least + k - 1 \in Nat \ {0}
  BY <1>1
<1>. QED BY <1>1, <1>2, <1>3

LEMMA SharesAreBytes ==
    ASSUME NEW r \in Request, NEW n \in Nat \ {0}, NEW k \in 1..n
    PROVE  AllocationBytes(r, n)[k] \in Nat
<1>1. r.group \in Nat /\ r.each \in Nat BY DEF Request
<1>2. r.group \div n \in Nat BY <1>1
<1>. QED BY <1>1, <1>2 DEF AllocationBytes

\* The recursion that fills a plan defines a function.
Fills(f, p, r, n, available, gone) ==
    /\ f[0] = << >>
    /\ \A k \in 1..n :
          f[k] = Assigned(p, f[k - 1],
                     Fitting(p, r, AllocationBytes(r, n)[k], DOMAIN f[k - 1], available, gone),
                     AllocationBytes(r, n)[k], gone)
    /\ Match(p, r, n, available, gone) = Complete(f[n], n)

LEMMA MatchIsDefined ==
    ASSUME NEW p, NEW r, NEW n \in Nat, NEW available, NEW gone
    PROVE  \E f : Fills(f, p, r, n, available, gone)
<1>. DEFINE bytes == AllocationBytes(r, n)
            Step(plan, k) == Assigned(p, plan, Fitting(p, r, bytes[k], DOMAIN plan, available, gone), bytes[k], gone)
            Body(f, k) == IF k = 0 THEN << >> ELSE Step(f[k - 1], k)
            Good(m) == \E f : f = [i \in 0..m |-> Body(f, i)]
<1>. DEFINE f == CHOOSE f : f = [k \in 0..n |-> Body(f, k)]
<1>1. Match(p, r, n, available, gone) = Complete(f[n], n) BY DEF Match
<1>. HIDE DEF Step, f
<1>2. Good(0)
  <2>. DEFINE g == [i \in 0..0 |-> << >>]
  <2>1. \A i \in 0..0 : Body(g, i) = << >> OBVIOUS
  <2>2. g = [i \in 0..0 |-> Body(g, i)] BY <2>1
  <2>. QED BY <2>2
<1>3. ASSUME NEW m \in 0..n, Good(m), m < n PROVE Good(m + 1)
  <2>1. PICK g : g = [i \in 0..m |-> Body(g, i)] BY <1>3
  <2>. DEFINE e == Step(g[m], m + 1)
              h == [i \in 0..(m + 1) |-> IF i = m + 1 THEN e ELSE g[i]]
  <2>. HIDE DEF e
  <2>3. ASSUME NEW i \in 0..(m + 1) PROVE h[i] = Body(h, i)
    <3>1. CASE i = m + 1
      <4>1. i # 0 /\ i - 1 = m /\ m \in 0..(m + 1) /\ m # m + 1 BY <3>1
      <4>2. h[i - 1] = g[m] BY <4>1
      <4>3. h[i] = e BY <3>1
      <4>4. Body(h, i) = Step(h[i - 1], i) BY <4>1
      <4>. HIDE DEF h
      <4>. QED BY <3>1, <4>2, <4>3, <4>4 DEF e
    <3>2. CASE i # m + 1
      <4>1. i \in 0..m /\ h[i] = g[i] BY <3>2
      <4>2. g[i] = Body(g, i)
        <5>. DEFINE x == [j \in 0..m |-> Body(g, j)]
        <5>1. x[i] = Body(g, i) BY <4>1
        <5>. HIDE DEF x
        <5>2. g = x BY <2>1 DEF x
        <5>. QED BY <5>1, <5>2
      <4>3. CASE i = 0 BY <4>1, <4>2, <4>3
      <4>4. CASE i # 0
        <5>1. i - 1 \in 0..(m + 1) /\ i - 1 # m + 1 BY <4>1, <4>4
        <5>2. h[i - 1] = g[i - 1] BY <5>1
        <5>3. Body(g, i) = Step(g[i - 1], i) /\ Body(h, i) = Step(h[i - 1], i) BY <4>4
        <5>. HIDE DEF h
        <5>. QED BY <4>1, <4>2, <5>2, <5>3
      <4>. QED BY <4>3, <4>4
    <3>. QED BY <3>1, <3>2
  <2>4. h = [i \in 0..(m + 1) |-> Body(h, i)] BY <2>3
  <2>. QED BY <2>4
<1>4. Good(n)
  <2>. DEFINE G == {m \in 0..n : Good(m)}
  <2>1. 0 \in G BY <1>2
  <2>2. ASSUME NEW m \in 0..n, m \in G, m < n PROVE m + 1 \in G
    <3>. HIDE DEF Good
    <3>1. Good(m) BY <2>2
    <3>2. m + 1 \in 0..n BY <2>2
    <3>. QED BY <1>3, <2>2, <3>1, <3>2
  <2>. HIDE DEF G
  <2>3. \A m \in 0..n : m \in G BY <2>1, <2>2, Inductive
  <2>4. n \in 0..n OBVIOUS
  <2>. QED BY <2>3, <2>4 DEF G
<1>5. f = [k \in 0..n |-> Body(f, k)] BY <1>4 DEF f
<1>6. ASSUME NEW k \in 0..n PROVE f[k] = Body(f, k)
  <2>. DEFINE x == [j \in 0..n |-> Body(f, j)]
  <2>1. x[k] = Body(f, k) OBVIOUS
  <2>. HIDE DEF x
  <2>2. f = x BY <1>5 DEF x
  <2>. QED BY <2>1, <2>2
<1>7. 0 \in 0..n /\ \A k \in 1..n : k \in 0..n /\ k # 0 OBVIOUS
<1>8. f[0] = << >> BY <1>6, <1>7
<1>9. \A k \in 1..n : f[k] = Step(f[k - 1], k) BY <1>6, <1>7
<1>. QED BY <1>1, <1>8, <1>9 DEF Fills, Step

LEMMA MatchFits ==
    ASSUME NEW p, SoundPool(p), NEW r \in Request, NEW n \in Nat \ {0}
    PROVE  Fits(p, r, Match(p, r, n, TRUE, {}))
<1>1. PICK f : Fills(f, p, r, n, TRUE, {}) BY MatchIsDefined
<1>. DEFINE A == {k \in 0..n : Fits(p, r, f[k])}
<1>2. Fits(p, r, << >>) BY DEF Fits
<1>3. 0 \in A BY <1>1, <1>2 DEF Fills
<1>4. ASSUME NEW k \in 0..n, k \in A, k < n PROVE k + 1 \in A
  <2>. DEFINE bytes == AllocationBytes(r, n)[k + 1]
              C == Fitting(p, r, bytes, DOMAIN f[k], TRUE, {})
  <2>1. k + 1 \in 1..n /\ (k + 1) - 1 = k /\ k + 1 \in 0..n BY <1>4
  <2>2. bytes \in Nat BY <2>1, SharesAreBytes
  <2>3. f[k + 1] = Assigned(p, f[k], C, bytes, {}) BY <1>1, <2>1 DEF Fills
  <2>4. Fits(p, r, f[k]) BY <1>4
  <2>5. \A d \in C : d \in Device /\ Accepts(p, d, r, bytes, {}) BY DEF Fitting
  <2>. HIDE DEF C, bytes
  <2>6. CASE C = {} BY <2>1, <2>3, <2>4, <2>6 DEF Assigned
  <2>7. CASE C # {}
    <3>. DEFINE best == BestFit(p, C, {})
    <3>1. C \in SUBSET Device BY <2>5
    <3>2. best \in C BY <2>7, <3>1, BestFitIsThere
    <3>. HIDE DEF best
    <3>3. f[k + 1] = With(f[k], best, bytes) BY <2>3, <2>7 DEF Assigned, best
    <3>4. Fits(p, r, With(f[k], best, bytes)) BY <2>2, <2>4, <2>5, <3>2 DEF Fits, With
    <3>. QED BY <2>1, <3>3, <3>4
  <2>. QED BY <2>6, <2>7
<1>5. Fits(p, r, f[n])
  <2>. HIDE DEF A
  <2>1. \A k \in 0..n : k \in A BY <1>3, <1>4, Inductive
  <2>2. n \in 0..n OBVIOUS
  <2>. QED BY <2>1, <2>2 DEF A
<1>6. Match(p, r, n, TRUE, {}) \in {f[n], << >>} BY <1>1 DEF Fills, Complete, NoPlan
<1>. QED BY <1>2, <1>5, <1>6

LEMMA FirstPlanFits ==
    ASSUME NEW p, SoundPool(p), NEW r \in Request, r.least <= r.most
    PROVE  Fits(p, r, FirstPlan(p, r, TRUE, {}))
<1>. DEFINE n == r.most - r.least + 1
            plans == [k \in DOMAIN DeviceCounts(r) |-> Match(p, r, DeviceCounts(r)[k], TRUE, {})]
            S == {plan \in Range(plans) : TRUE}
            found == Without(plans, {NoPlan})
<1>1. /\ DOMAIN DeviceCounts(r) = 1..n /\ n \in Nat
      /\ \A k \in 1..n : DeviceCounts(r)[k] \in Nat \ {0}
  BY CountsArePositive
<1>2. \A k \in 1..n : Fits(p, r, Match(p, r, DeviceCounts(r)[k], TRUE, {})) BY <1>1, MatchFits
<1>3. FirstPlan(p, r, TRUE, {}) = FirstOr(NoPlan, found) BY DEF FirstPlan
<1>4. DOMAIN plans = 1..n /\ \A k \in 1..n : Fits(p, r, plans[k]) BY <1>1, <1>2
<1>5. plans = [k \in 1..n |-> plans[k]] BY <1>1
<1>. HIDE DEF plans, n
<1>6. plans \in Seq(S)
  <2>1. \A k \in 1..n : plans[k] \in S BY <1>4 DEF Range
  <2>2. plans \in [1..n -> S] BY <1>5, <2>1
  <2>. QED BY <1>1, <2>2
<1>7. found \in Seq(S) /\ Range(found) = Range(plans) \ {NoPlan} BY <1>6, RangeOfWithout
<1>8. \A plan \in Range(plans) : Fits(p, r, plan) BY <1>4 DEF Range
<1>9. Fits(p, r, NoPlan) BY DEF Fits, NoPlan
<1>10. CASE found = << >> BY <1>3, <1>9, <1>10 DEF FirstOr
<1>11. CASE found # << >>
  <2>1. Head(found) \in Range(found) BY <1>7, <1>11, RangeOfTail
  <2>2. FirstPlan(p, r, TRUE, {}) = Head(found) BY <1>3, <1>11 DEF FirstOr
  <2>. QED BY <1>7, <1>8, <2>1, <2>2
<1>. QED BY <1>10, <1>11

\* A number that nothing refers to.
LEMMA FreshIsFree ==
    ASSUME NEW p, NEW used, used = DOMAIN p.placements \cup Leases \cup released \cup Range(grants),
           IsFiniteSet(used)
    PROVE  FreshId(p) \in Nat /\ FreshId(p) \notin used
<1>. DEFINE N == Cardinality(used)
            free == {n \in 0..N : n \notin used}
<1>1. N \in Nat BY FS_CardinalityType
<1>2. free # {}
  <2>1. SUFFICES ASSUME free = {} PROVE FALSE OBVIOUS
  <2>2. 0..N \in SUBSET used BY <2>1
  <2>3. Cardinality(0..N) = N + 1 BY <1>1, FS_Interval
  <2>4. Cardinality(0..N) <= N BY <2>2, FS_Subset
  <2>. QED BY <1>1, <2>3, <2>4
<1>3. free \subseteq Nat BY <1>1
<1>4. PICK m \in free : \A k \in free : m <= k
  <2>. HIDE DEF free
  <2>. QED BY <1>2, <1>3, LeastExists
<1>5. \A n \in 0..(m - 1) : n \in used
  <2>1. ASSUME NEW n \in 0..(m - 1), n \notin used PROVE FALSE
    <3>1. m \in 0..N BY <1>4
    <3>2. n \in 0..N /\ ~ (m <= n) BY <1>1, <3>1
    <3>. QED BY <1>4, <2>1, <3>2
  <2>. QED BY <2>1
<1>6. \E id \in 0..N : id \notin used /\ \A n \in 0..(id - 1) : n \in used BY <1>4, <1>5
<1>7. FreshId(p) = CHOOSE id \in 0..N : id \notin used /\ \A n \in 0..(id - 1) : n \in used
  BY DEF FreshId
<1>8. FreshId(p) \in 0..N /\ FreshId(p) \notin used
  <2>. HIDE DEF N
  <2>. QED BY <1>6, <1>7
<1>. QED BY <1>1, <1>8

-----------------------------------------------------------------------------
(* A resolution                                                            *)

\* Every id that somebody has.
Taken == Leases \cup released \cup Range(grants)

\* The next call of each session of among is one of its program.
Asking(among) ==
    \A s \in among : s \in Session /\ RequestOf(s) \in Request /\ RequestOf(s).least <= RequestOf(s).most

\* What a resolution for sessions among makes of pool p and grants g: nothing
\* is taken back, and what is new was granted, under a number nobody has.
Resolves(p, g, o, among) ==
    /\ o = [pool |-> o.pool, grants |-> o.grants, ready |-> o.ready]
    /\ SoundPool(o.pool)
    /\ DOMAIN p.placements \subseteq DOMAIN o.pool.placements
    /\ \A id \in DOMAIN p.placements : o.pool.placements[id] = p.placements[id]
    /\ DOMAIN g \subseteq DOMAIN o.grants
    /\ \A k \in DOMAIN g : o.grants[k] = g[k]
    /\ o.ready \in Seq(Session) /\ Range(o.ready) \subseteq among
    /\ \A k \in DOMAIN o.grants \ DOMAIN g :
          /\ k[1] \in Range(o.ready) /\ k = <<k[1], IndexOf(k[1])>>
          /\ o.grants[k] \in DOMAIN o.pool.placements \ DOMAIN p.placements
          /\ o.grants[k] \in Nat \ Taken
          /\ o.pool.placements[o.grants[k]].owner = k[1]
    /\ \A id \in DOMAIN o.pool.placements \ DOMAIN p.placements :
          \E k \in DOMAIN o.grants \ DOMAIN g : o.grants[k] = id
    /\ \A k, l \in DOMAIN o.grants \ DOMAIN g : o.grants[k] = o.grants[l] => k = l

LEMMA NothingResolved ==
    ASSUME NEW p, SoundPool(p), NEW g, NEW among
    PROVE  Resolves(p, g, [pool |-> p, grants |-> g, ready |-> << >>], among)
<1>1. << >> \in Seq(Session) /\ Range(<< >>) = {} BY DEF Range
<1>. QED BY <1>1 DEF Resolves

LEMMA OneMoreResolved ==
    ASSUME NEW p, NEW g, NEW o, NEW among, Resolves(p, g, o, among), Asking(among),
           IsFiniteSet(Taken), NEW s \in among
    PROVE  Resolves(p, g, ResolvedOne(o, s), among)
<1>. DEFINE key == <<s, IndexOf(s)>>
            id == FreshId(o.pool)
            plan == FirstPlan(o.pool, RequestOf(s), TRUE, {})
            q == Allocated(o.pool, id, s, RequestOf(s), plan)
            new == With(o.grants, key, id)
            r == ResolvedOne(o, s)
            A == Append(o.ready, s)
<1>0. o = [pool |-> o.pool, grants |-> o.grants, ready |-> o.ready] BY DEF Resolves
<1>1. /\ s \in Session /\ RequestOf(s) \in Request /\ RequestOf(s).least <= RequestOf(s).most
      /\ key = <<key[1], IndexOf(key[1])>> /\ key[1] = s
  BY DEF Asking
<1>2. A \in Seq(Session) /\ Range(A) = Range(o.ready) \cup {s} /\ Range(A) \subseteq among
  BY <1>1, RangeOfAppend DEF Resolves
<1>. HIDE DEF key, A
<1>3. CASE key \in DOMAIN o.grants
  <2>1. r = [o EXCEPT !.ready = Append(@, s)] BY <1>3 DEF ResolvedOne, key
  <2>2. r = [pool |-> o.pool, grants |-> o.grants, ready |-> A] BY <1>0, <2>1 DEF A
  <2>. HIDE DEF r
  <2>3. r.pool = o.pool /\ r.grants = o.grants /\ r.ready = A BY <2>2
  <2>. QED BY <1>2, <2>2, <2>3 DEF Resolves, r
<1>4. CASE key \notin DOMAIN o.grants /\ Candidates(o.pool, RequestOf(s)) # "SUCCESS"
  <2>1. r = o BY <1>4 DEF ResolvedOne, key
  <2>. QED BY <2>1
<1>5. CASE key \notin DOMAIN o.grants /\ Candidates(o.pool, RequestOf(s)) = "SUCCESS"
  <2>1. r = [pool |-> q, grants |-> new, ready |-> A] BY <1>5 DEF ResolvedOne, Reserved, key, A
  <2>2. SoundPool(o.pool) BY DEF Resolves
  <2>3. Fits(o.pool, RequestOf(s), plan) BY <1>1, <2>2, FirstPlanFits
  <2>4. IsFiniteSet(DOMAIN o.pool.placements) BY <2>2 DEF SoundPool, Recorded
  <2>5. id \in Nat /\ id \notin DOMAIN o.pool.placements /\ id \notin Taken
    <3>. DEFINE used == DOMAIN o.pool.placements \cup Leases \cup released \cup Range(grants)
    <3>1. used = DOMAIN o.pool.placements \cup Taken BY DEF Taken
    <3>2. IsFiniteSet(used) BY <2>4, <3>1, FS_Union
    <3>. HIDE DEF used
    <3>3. id \in Nat /\ id \notin used BY <3>2, FreshIsFree DEF used
    <3>. QED BY <3>1, <3>3
  <2>. HIDE DEF id, plan
  <2>6. /\ SoundPool(q) /\ DOMAIN q.placements = DOMAIN o.pool.placements \cup {id}
        /\ q.placements[id].owner = s
        /\ \A x \in DOMAIN o.pool.placements : q.placements[x] = o.pool.placements[x]
    BY <1>1, <2>2, <2>3, <2>5, AllocatedStaysSound
  <2>7. /\ DOMAIN new = DOMAIN o.grants \cup {key} /\ new[key] = id
        /\ \A x \in DOMAIN o.grants : new[x] = o.grants[x]
    BY <1>5 DEF With
  <2>. HIDE DEF q, new, r
  <2>8. r.pool = q /\ r.grants = new /\ r.ready = A BY <2>1
  <2>9. r = [pool |-> r.pool, grants |-> r.grants, ready |-> r.ready] BY <2>1, <2>8
  <2>10. /\ DOMAIN p.placements \subseteq DOMAIN o.pool.placements
         /\ \A x \in DOMAIN p.placements : o.pool.placements[x] = p.placements[x]
         /\ DOMAIN g \subseteq DOMAIN o.grants
         /\ \A k \in DOMAIN g : o.grants[k] = g[k]
    BY DEF Resolves
  <2>11. /\ DOMAIN p.placements \subseteq DOMAIN r.pool.placements
         /\ \A x \in DOMAIN p.placements : r.pool.placements[x] = p.placements[x]
         /\ DOMAIN g \subseteq DOMAIN r.grants
         /\ \A k \in DOMAIN g : r.grants[k] = g[k]
    BY <2>6, <2>7, <2>8, <2>10
  <2>12. key \notin DOMAIN g /\ id \notin DOMAIN p.placements BY <1>5, <2>5, <2>10
  <2>13. ASSUME NEW k \in DOMAIN r.grants \ DOMAIN g
         PROVE  /\ k[1] \in Range(r.ready) /\ k = <<k[1], IndexOf(k[1])>>
                /\ r.grants[k] \in DOMAIN r.pool.placements \ DOMAIN p.placements
                /\ r.grants[k] \in Nat \ Taken
                /\ r.pool.placements[r.grants[k]].owner = k[1]
    <3>1. CASE k = key BY <1>1, <1>2, <2>5, <2>6, <2>7, <2>8, <2>12, <3>1
    <3>2. CASE k # key
      <4>1. k \in DOMAIN o.grants \ DOMAIN g /\ r.grants[k] = o.grants[k] BY <2>7, <2>8, <3>2
      <4>2. /\ k[1] \in Range(o.ready) /\ k = <<k[1], IndexOf(k[1])>>
            /\ o.grants[k] \in DOMAIN o.pool.placements \ DOMAIN p.placements
            /\ o.grants[k] \in Nat \ Taken
            /\ o.pool.placements[o.grants[k]].owner = k[1]
        BY <4>1 DEF Resolves
      <4>. QED BY <1>2, <2>6, <2>8, <4>1, <4>2
    <3>. QED BY <3>1, <3>2
  <2>14. ASSUME NEW x \in DOMAIN r.pool.placements \ DOMAIN p.placements
         PROVE  \E k \in DOMAIN r.grants \ DOMAIN g : r.grants[k] = x
    <3>1. CASE x = id BY <2>7, <2>8, <2>12, <3>1
    <3>2. CASE x # id
      <4>1. x \in DOMAIN o.pool.placements \ DOMAIN p.placements BY <2>6, <2>8, <3>2
      <4>2. PICK k \in DOMAIN o.grants \ DOMAIN g : o.grants[k] = x BY <4>1 DEF Resolves
      <4>. QED BY <2>7, <2>8, <4>2
    <3>. QED BY <3>1, <3>2
  <2>15. ASSUME NEW k \in DOMAIN r.grants \ DOMAIN g, NEW l \in DOMAIN r.grants \ DOMAIN g,
                r.grants[k] = r.grants[l]
         PROVE  k = l
    <3>1. \A m \in DOMAIN o.grants \ DOMAIN g : o.grants[m] \in DOMAIN o.pool.placements BY DEF Resolves
    <3>2. \A m \in DOMAIN o.grants \ DOMAIN g : o.grants[m] # id BY <2>5, <3>1
    <3>3. CASE k = key \/ l = key BY <2>7, <2>8, <2>15, <3>2, <3>3
    <3>4. CASE k # key /\ l # key
      <4>1. k \in DOMAIN o.grants \ DOMAIN g /\ l \in DOMAIN o.grants \ DOMAIN g /\ o.grants[k] = o.grants[l]
        BY <2>7, <2>8, <2>15, <3>4
      <4>. QED BY <4>1 DEF Resolves
    <3>. QED BY <3>3, <3>4
  <2>16. SoundPool(r.pool) /\ r.ready \in Seq(Session) /\ Range(r.ready) \subseteq among
    BY <1>2, <2>6, <2>8
  <2>17. Resolves(p, g, r, among)
    BY <2>9, <2>11, <2>13, <2>14, <2>15, <2>16 DEF Resolves
  <2>. QED BY <2>17 DEF r
<1>. HIDE DEF r
<1>. QED BY <1>3, <1>4, <1>5 DEF r

\* The recursion over the requests defines a function.
Follows(f, p, g, requests) ==
    /\ f[0] = [pool |-> p, grants |-> g, ready |-> << >>]
    /\ \A n \in 1..Len(requests) : f[n] = ResolvedOne(f[n - 1], requests[n])
    /\ Resolution(p, g, requests) = f[Len(requests)]

LEMMA ResolutionIsDefined ==
    ASSUME NEW p, NEW g, NEW requests \in Seq(Session)
    PROVE  \E f : Follows(f, p, g, requests)
<1>. DEFINE first == [pool |-> p, grants |-> g, ready |-> << >>]
            N == Len(requests)
            Body(f, k) == IF k = 0 THEN first ELSE ResolvedOne(f[k - 1], requests[k])
            Good(m) == \E f : f = [i \in 0..m |-> Body(f, i)]
            f == CHOOSE f : f = [n \in 0..N |-> Body(f, n)]
<1>0. N \in Nat OBVIOUS
<1>1. Resolution(p, g, requests) = f[N] BY DEF Resolution
<1>. HIDE DEF first, f
<1>2. Good(0)
  <2>. DEFINE h == [i \in 0..0 |-> first]
  <2>1. \A i \in 0..0 : Body(h, i) = first OBVIOUS
  <2>2. h = [i \in 0..0 |-> Body(h, i)] BY <2>1
  <2>. QED BY <2>2
<1>3. ASSUME NEW m \in 0..N, Good(m), m < N PROVE Good(m + 1)
  <2>1. PICK e : e = [i \in 0..m |-> Body(e, i)] BY <1>3
  <2>. DEFINE last == ResolvedOne(e[m], requests[m + 1])
              h == [i \in 0..(m + 1) |-> IF i = m + 1 THEN last ELSE e[i]]
  <2>. HIDE DEF last
  <2>2. m \in Nat BY <1>0
  <2>3. ASSUME NEW i \in 0..(m + 1) PROVE h[i] = Body(h, i)
    <3>1. CASE i = m + 1
      <4>1. i # 0 /\ i - 1 = m /\ m \in 0..(m + 1) /\ m # m + 1 BY <2>2, <3>1
      <4>2. h[i - 1] = e[m] BY <4>1
      <4>3. h[i] = last BY <3>1
      <4>4. Body(h, i) = ResolvedOne(h[i - 1], requests[i]) BY <4>1
      <4>. HIDE DEF h
      <4>. QED BY <3>1, <4>2, <4>3, <4>4 DEF last
    <3>2. CASE i # m + 1
      <4>1. i \in 0..m /\ h[i] = e[i] BY <2>2, <3>2
      <4>2. e[i] = Body(e, i)
        <5>. DEFINE x == [j \in 0..m |-> Body(e, j)]
        <5>1. x[i] = Body(e, i) BY <4>1
        <5>. HIDE DEF x
        <5>2. e = x BY <2>1 DEF x
        <5>. QED BY <5>1, <5>2
      <4>3. CASE i = 0 BY <4>1, <4>2, <4>3
      <4>4. CASE i # 0
        <5>1. i - 1 \in 0..(m + 1) /\ i - 1 # m + 1 BY <2>2, <4>1, <4>4
        <5>2. h[i - 1] = e[i - 1] BY <5>1
        <5>3. Body(e, i) = ResolvedOne(e[i - 1], requests[i]) /\ Body(h, i) = ResolvedOne(h[i - 1], requests[i])
          BY <4>4
        <5>. HIDE DEF h
        <5>. QED BY <4>1, <4>2, <5>2, <5>3
      <4>. QED BY <4>3, <4>4
    <3>. QED BY <3>1, <3>2
  <2>4. h = [i \in 0..(m + 1) |-> Body(h, i)] BY <2>3
  <2>. QED BY <2>4
<1>4. Good(N)
  <2>. DEFINE G == {m \in 0..N : Good(m)}
  <2>1. 0 \in G BY <1>0, <1>2
  <2>2. ASSUME NEW m \in 0..N, m \in G, m < N PROVE m + 1 \in G
    <3>. HIDE DEF Good
    <3>1. Good(m) BY <2>2
    <3>2. m + 1 \in 0..N BY <1>0, <2>2
    <3>. QED BY <1>3, <2>2, <3>1, <3>2
  <2>. HIDE DEF G
  <2>3. \A m \in 0..N : m \in G BY <1>0, <2>1, <2>2, Inductive
  <2>4. N \in 0..N BY <1>0
  <2>. QED BY <2>3, <2>4 DEF G
<1>5. f = [k \in 0..N |-> Body(f, k)] BY <1>4 DEF f
<1>6. ASSUME NEW k \in 0..N PROVE f[k] = Body(f, k)
  <2>. DEFINE x == [j \in 0..N |-> Body(f, j)]
  <2>1. x[k] = Body(f, k) OBVIOUS
  <2>. HIDE DEF x
  <2>2. f = x BY <1>5 DEF x
  <2>. QED BY <2>1, <2>2
<1>7. 0 \in 0..N /\ \A k \in 1..N : k \in 0..N /\ k # 0 BY <1>0
<1>8. f[0] = first BY <1>6, <1>7
<1>9. \A k \in 1..N : f[k] = ResolvedOne(f[k - 1], requests[k]) BY <1>6, <1>7
<1>. QED BY <1>1, <1>8, <1>9 DEF Follows, first

LEMMA ResolutionResolves ==
    ASSUME NEW p, SoundPool(p), NEW g, NEW requests \in Seq(Session), NEW among,
           Range(requests) \subseteq among, Asking(among), IsFiniteSet(Taken)
    PROVE  Resolves(p, g, Resolution(p, g, requests), among)
<1>. DEFINE N == Len(requests)
<1>0. N \in Nat /\ DOMAIN requests = 1..N OBVIOUS
<1>1. PICK f : Follows(f, p, g, requests) BY ResolutionIsDefined
<1>. DEFINE A == {n \in 0..N : Resolves(p, g, f[n], among)}
<1>2. 0 \in A BY <1>0, <1>1, NothingResolved DEF Follows
<1>3. ASSUME NEW n \in 0..N, n \in A, n < N PROVE n + 1 \in A
  <2>1. n + 1 \in 1..N /\ (n + 1) - 1 = n /\ n + 1 \in 0..N BY <1>0, <1>3
  <2>2. f[n + 1] = ResolvedOne(f[n], requests[n + 1]) BY <1>1, <2>1 DEF Follows
  <2>3. requests[n + 1] \in among BY <1>0, <2>1 DEF Range
  <2>4. Resolves(p, g, f[n], among) BY <1>3
  <2>5. Resolves(p, g, ResolvedOne(f[n], requests[n + 1]), among) BY <2>3, <2>4, OneMoreResolved
  <2>. QED BY <2>1, <2>2, <2>5
<1>. HIDE DEF A
<1>4. \A n \in 0..N : n \in A BY <1>0, <1>2, <1>3, Inductive
<1>5. Resolves(p, g, f[N], among) BY <1>0, <1>4 DEF A
<1>. QED BY <1>1, <1>5 DEF Follows

-----------------------------------------------------------------------------
(* The ledger                                                              *)

LEMMA LedgerIsFinite ==
    ASSUME NEW p, NEW g, NEW rel, NEW held, NEW gone, Ledger(p, g, rel, held, gone)
    PROVE  IsFiniteSet(rel \cup Range(g) \cup UNION {held[s] : s \in Session})
<1>1. IsFiniteSet(rel) /\ IsFiniteSet(DOMAIN p.placements)
  BY DEF Ledger, Apart, SoundPool, Recorded
<1>2. Range(g) \subseteq DOMAIN p.placements BY DEF Ledger, Owned, Range
<1>3. IsFiniteSet(Range(g)) BY <1>1, <1>2, FS_Subset
<1>4. IsFiniteSet(UNION {held[s] : s \in Session})
  <2>. DEFINE h == [s \in Session |-> held[s]]
              P == {held[s] : s \in Session}
  <2>1. h \in Surjection(Session, P) BY DEF Surjection
  <2>2. IsFiniteSet(Session) BY ConstantsAssumption
  <2>3. IsFiniteSet(P) BY <2>1, <2>2, FS_Surjection
  <2>4. \A T \in P : IsFiniteSet(T) BY DEF Ledger, Apart
  <2>. HIDE DEF P
  <2>5. IsFiniteSet(UNION P) BY <2>3, <2>4, FS_UNION
  <2>. QED BY <2>5 DEF P
<1>5. IsFiniteSet(rel \cup Range(g)) BY <1>1, <1>3, FS_Union
<1>. QED BY <1>4, <1>5, FS_Union

\* What is queued is given back.
LEMMA LedgerCollected ==
    ASSUME NEW p, NEW g, NEW rel, NEW held, NEW gone, Ledger(p, g, rel, held, gone)
    PROVE  Ledger(Freed(p, rel), g, {}, held, gone)
<1>. DEFINE q == Freed(p, rel)
<1>1. SoundPool(p) /\ Apart(g, rel, held) /\ Owned(p, g, rel, held, gone) BY DEF Ledger
<1>2. /\ SoundPool(q) /\ DOMAIN q.placements = DOMAIN p.placements \ rel
      /\ \A id \in DOMAIN p.placements \ rel : q.placements[id] = p.placements[id]
  BY <1>1, FreedStaysSound
<1>. HIDE DEF q
<1>3. Apart(g, {}, held)
  <2>1. IsFiniteSet({}) BY FS_EmptySet
  <2>. QED BY <1>1, <2>1 DEF Apart
<1>4. \A k \in DOMAIN g : g[k] \in Range(g) BY DEF Range
<1>5. Owned(q, g, {}, held, gone)
  <2>1. \A s \in Session : s \notin gone => held[s] \subseteq DOMAIN q.placements
    BY <1>1, <1>2 DEF Apart, Owned
  <2>2. \A s \in Session : \A id \in held[s] \cap DOMAIN q.placements : q.placements[id].owner = s
    BY <1>1, <1>2 DEF Owned
  <2>3. \A k \in DOMAIN g : g[k] \in DOMAIN q.placements /\ q.placements[g[k]].owner = k[1]
    BY <1>1, <1>2, <1>4 DEF Apart, Owned
  <2>4. \A id \in DOMAIN q.placements : id \in {} \cup Range(g) \/ \E s \in Session : id \in held[s]
    BY <1>1, <1>2 DEF Owned
  <2>. QED BY <2>1, <2>2, <2>3, <2>4 DEF Owned
<1>. QED BY <1>2, <1>3, <1>5 DEF Ledger, q

\* The sessions drop ids, which are queued.
LEMMA LedgerDropped ==
    ASSUME NEW p, NEW g, NEW rel, NEW held, NEW gone, Ledger(p, g, rel, held, gone),
           NEW less, \A s \in Session : less[s] \subseteq held[s],
           NEW more, \A id : id \in more <=> id \in rel \/ \E s \in Session : id \in held[s] \ less[s],
           NEW left, \A s \in Session : s \notin left => s \notin gone \/ less[s] = {}
    PROVE  Ledger(p, g, more, less, left)
<1>1. SoundPool(p) /\ Apart(g, rel, held) /\ Owned(p, g, rel, held, gone) BY DEF Ledger
<1>2. more \subseteq rel \cup Range(g) \cup UNION {held[s] : s \in Session} OBVIOUS
<1>3. IsFiniteSet(more)
  <2>. DEFINE S == rel \cup Range(g) \cup UNION {held[s] : s \in Session}
  <2>1. IsFiniteSet(S) BY LedgerIsFinite
  <2>. HIDE DEF S
  <2>2. more \in SUBSET S BY <1>2 DEF S
  <2>. QED BY <2>1, <2>2, FS_Subset
<1>4. \A s \in Session : IsFiniteSet(less[s]) BY <1>1, FS_Subset DEF Apart
<1>5. Apart(g, more, less)
  <2>1. more \subseteq Nat /\ \A s \in Session : less[s] \subseteq Nat BY <1>1 DEF Apart
  <2>2. \A s, t \in Session : s # t => less[s] \cap less[t] = {} BY <1>1 DEF Apart
  <2>3. ASSUME NEW s \in Session PROVE less[s] \cap more = {} /\ less[s] \cap Range(g) = {}
    <3>1. held[s] \cap rel = {} /\ held[s] \cap Range(g) = {} BY <1>1 DEF Apart
    <3>2. ASSUME NEW id \in less[s], id \in more PROVE FALSE
      <4>1. id \in held[s] /\ id \notin rel BY <3>1
      <4>2. PICK t \in Session : id \in held[t] \ less[t] BY <3>2, <4>1
      <4>3. t = s BY <1>1, <4>1, <4>2 DEF Apart
      <4>. QED BY <4>2, <4>3
    <3>. QED BY <3>1, <3>2
  <2>4. more \cap Range(g) = {} BY <1>1 DEF Apart
  <2>5. \A k, l \in DOMAIN g : g[k] = g[l] => k = l BY <1>1 DEF Apart
  <2>. QED BY <1>3, <1>4, <2>1, <2>2, <2>3, <2>4, <2>5 DEF Apart
<1>6. Owned(p, g, more, less, left)
  <2>1. \A s \in Session : s \notin left => less[s] \subseteq DOMAIN p.placements BY <1>1 DEF Owned
  <2>2. \A s \in Session : \A id \in less[s] \cap DOMAIN p.placements : p.placements[id].owner = s
    BY <1>1 DEF Owned
  <2>3. \A k \in DOMAIN g : g[k] \in DOMAIN p.placements /\ p.placements[g[k]].owner = k[1]
    BY <1>1 DEF Owned
  <2>4. \A id \in DOMAIN p.placements : id \in more \cup Range(g) \/ \E s \in Session : id \in less[s]
    BY <1>1 DEF Owned
  <2>. QED BY <2>1, <2>2, <2>3, <2>4 DEF Owned
<1>. QED BY <1>1, <1>5, <1>6 DEF Ledger

\* A session takes its grant.
LEMMA LedgerTaken ==
    ASSUME NEW p, NEW g, NEW rel, NEW held, NEW gone, Ledger(p, g, rel, held, gone),
           NEW k \in DOMAIN g, k[1] \in Session, NEW more, \A s \in Session : more[s] = IF s = k[1] THEN held[s] \cup {g[k]} ELSE held[s]
    PROVE  Ledger(p, Restrict(g, DOMAIN g \ {k}), rel, more, gone)
<1>. DEFINE h == Restrict(g, DOMAIN g \ {k})
<1>1. SoundPool(p) /\ Apart(g, rel, held) /\ Owned(p, g, rel, held, gone) BY DEF Ledger
<1>2. DOMAIN h = DOMAIN g \ {k} /\ \A l \in DOMAIN g \ {k} : h[l] = g[l] BY DEF Restrict
<1>. HIDE DEF h
<1>3. \A l, m \in DOMAIN g : g[l] = g[m] => l = m BY <1>1 DEF Apart
<1>4. Range(h) = Range(g) \ {g[k]} /\ g[k] \in Range(g)
  <2>1. \A y : y \in Range(h) <=> \E l \in DOMAIN h : h[l] = y BY RangeIs
  <2>2. \A y : y \in Range(g) <=> \E l \in DOMAIN g : g[l] = y BY RangeIs
  <2>. QED BY <1>2, <1>3, <2>1, <2>2
<1>5. g[k] \in DOMAIN p.placements /\ p.placements[g[k]].owner = k[1] BY <1>1 DEF Owned
<1>6. g[k] \in Nat BY <1>1, <1>5 DEF SoundPool, Recorded
<1>7. Apart(h, rel, more)
  <2>1. rel \subseteq Nat /\ IsFiniteSet(rel) BY <1>1 DEF Apart
  <2>2. ASSUME NEW s \in Session PROVE more[s] \subseteq Nat /\ IsFiniteSet(more[s])
    <3>1. held[s] \subseteq Nat /\ IsFiniteSet(held[s]) BY <1>1 DEF Apart
    <3>2. IsFiniteSet(held[s] \cup {g[k]}) BY <3>1, FS_AddElement
    <3>. QED BY <1>6, <3>1, <3>2
  <2>3. ASSUME NEW s \in Session, NEW t \in Session, s # t PROVE more[s] \cap more[t] = {}
    <3>1. held[s] \cap held[t] = {} /\ held[s] \cap Range(g) = {} /\ held[t] \cap Range(g) = {}
      BY <1>1, <2>3 DEF Apart
    <3>. QED BY <1>4, <2>3, <3>1
  <2>4. ASSUME NEW s \in Session PROVE more[s] \cap rel = {} /\ more[s] \cap Range(h) = {}
    <3>1. held[s] \cap rel = {} /\ held[s] \cap Range(g) = {} /\ rel \cap Range(g) = {}
      BY <1>1 DEF Apart
    <3>. QED BY <1>4, <3>1
  <2>5. rel \cap Range(h) = {} BY <1>1, <1>4 DEF Apart
  <2>6. \A l, m \in DOMAIN h : h[l] = h[m] => l = m BY <1>2, <1>3
  <2>. QED BY <2>1, <2>2, <2>3, <2>4, <2>5, <2>6 DEF Apart
<1>8. Owned(p, h, rel, more, gone)
  <2>0. \A s \in Session : \A id \in more[s] : id \in held[s] \/ (s = k[1] /\ id = g[k]) OBVIOUS
  <2>1. ASSUME NEW s \in Session, s \notin gone PROVE more[s] \subseteq DOMAIN p.placements
    <3>1. held[s] \subseteq DOMAIN p.placements BY <1>1, <2>1 DEF Owned
    <3>. QED BY <1>5, <2>0, <3>1
  <2>2. ASSUME NEW s \in Session, NEW id \in more[s] \cap DOMAIN p.placements
        PROVE  p.placements[id].owner = s
    <3>1. CASE id \in held[s] BY <1>1, <3>1 DEF Owned
    <3>2. CASE id \notin held[s] BY <1>5, <2>0, <3>2
    <3>. QED BY <3>1, <3>2
  <2>3. \A l \in DOMAIN h : h[l] \in DOMAIN p.placements /\ p.placements[h[l]].owner = l[1]
    BY <1>1, <1>2 DEF Owned
  <2>4. ASSUME NEW id \in DOMAIN p.placements
        PROVE  id \in rel \cup Range(h) \/ \E s \in Session : id \in more[s]
    <3>1. id \in rel \cup Range(g) \/ \E s \in Session : id \in held[s] BY <1>1 DEF Owned
    <3>2. CASE id = g[k] BY <3>2
    <3>3. CASE id # g[k] BY <1>4, <3>1, <3>3
    <3>. QED BY <3>2, <3>3
  <2>. QED BY <2>1, <2>2, <2>3, <2>4 DEF Owned
<1>. QED BY <1>1, <1>7, <1>8 DEF Ledger, h

\* A session reserves at once.
LEMMA LedgerReserved ==
    ASSUME NEW p, NEW g, NEW rel, NEW held, NEW gone, Ledger(p, g, rel, held, gone),
           NEW s \in Session, NEW r, NEW plan, Fits(p, r, plan),
           NEW id \in Nat, id \notin DOMAIN p.placements, id \notin rel, \A t \in Session : id \notin held[t],
           NEW more, \A t \in Session : more[t] = IF t = s THEN held[t] \cup {id} ELSE held[t]
    PROVE  Ledger(Allocated(p, id, s, r, plan), g, rel, more, gone)
<1>. DEFINE q == Allocated(p, id, s, r, plan)
<1>1. SoundPool(p) /\ Apart(g, rel, held) /\ Owned(p, g, rel, held, gone) BY DEF Ledger
<1>2. /\ SoundPool(q) /\ DOMAIN q.placements = DOMAIN p.placements \cup {id}
      /\ q.placements[id].owner = s
      /\ \A x \in DOMAIN p.placements : q.placements[x] = p.placements[x]
  BY <1>1, AllocatedStaysSound
<1>. HIDE DEF q
<1>3. \A k \in DOMAIN g : g[k] \in DOMAIN p.placements /\ p.placements[g[k]].owner = k[1] BY <1>1 DEF Owned
<1>4. id \notin Range(g) BY <1>3, RangeIs
<1>5. \A t \in Session : \A x \in more[t] : x \in held[t] \/ (t = s /\ x = id) OBVIOUS
<1>6. Apart(g, rel, more)
  <2>1. ASSUME NEW t \in Session PROVE more[t] \subseteq Nat /\ IsFiniteSet(more[t])
    <3>1. held[t] \subseteq Nat /\ IsFiniteSet(held[t]) BY <1>1 DEF Apart
    <3>2. IsFiniteSet(held[t] \cup {id}) BY <3>1, FS_AddElement
    <3>. QED BY <3>1, <3>2
  <2>2. ASSUME NEW t \in Session, NEW u \in Session, t # u PROVE more[t] \cap more[u] = {}
    <3>1. held[t] \cap held[u] = {} BY <1>1, <2>2 DEF Apart
    <3>. QED BY <1>5, <2>2, <3>1
  <2>3. ASSUME NEW t \in Session PROVE more[t] \cap rel = {} /\ more[t] \cap Range(g) = {}
    <3>1. held[t] \cap rel = {} /\ held[t] \cap Range(g) = {} BY <1>1 DEF Apart
    <3>. QED BY <1>4, <1>5, <3>1
  <2>. QED BY <1>1, <2>1, <2>2, <2>3 DEF Apart
<1>7. Owned(q, g, rel, more, gone)
  <2>1. ASSUME NEW t \in Session, t \notin gone PROVE more[t] \subseteq DOMAIN q.placements
    <3>1. held[t] \subseteq DOMAIN p.placements BY <1>1, <2>1 DEF Owned
    <3>. QED BY <1>2, <1>5, <3>1
  <2>2. ASSUME NEW t \in Session, NEW x \in more[t] \cap DOMAIN q.placements
        PROVE  q.placements[x].owner = t
    <3>1. CASE x = id BY <1>2, <1>5, <3>1
    <3>2. CASE x # id
      <4>1. x \in held[t] \cap DOMAIN p.placements BY <1>2, <1>5, <3>2
      <4>. QED BY <1>1, <1>2, <4>1 DEF Owned
    <3>. QED BY <3>1, <3>2
  <2>3. \A k \in DOMAIN g : g[k] \in DOMAIN q.placements /\ q.placements[g[k]].owner = k[1] BY <1>2, <1>3
  <2>4. ASSUME NEW x \in DOMAIN q.placements
        PROVE  x \in rel \cup Range(g) \/ \E t \in Session : x \in more[t]
    <3>1. CASE x = id BY <3>1
    <3>2. CASE x # id
      <4>1. x \in DOMAIN p.placements BY <1>2, <3>2
      <4>. QED BY <1>1, <4>1 DEF Owned
    <3>. QED BY <3>1, <3>2
  <2>. QED BY <2>1, <2>2, <2>3, <2>4 DEF Owned
<1>. QED BY <1>2, <1>6, <1>7 DEF Ledger, q

\* The grants of the sessions in of, and what is left of g without them.
IdsFor(g, of) == {g[k] : k \in {l \in DOMAIN g : l[1] \in of}}
Others(g, of) == Restrict(g, {k \in DOMAIN g : k[1] \notin of})

LEMMA GrantsSplit ==
    ASSUME NEW g, \A k, l \in DOMAIN g : g[k] = g[l] => k = l, NEW of
    PROVE  /\ DOMAIN Others(g, of) = {k \in DOMAIN g : k[1] \notin of}
           /\ \A k \in DOMAIN Others(g, of) : Others(g, of)[k] = g[k]
           /\ Range(g) = Range(Others(g, of)) \cup IdsFor(g, of)
           /\ IdsFor(g, of) \cap Range(Others(g, of)) = {}
           /\ \A x \in IdsFor(g, of) : \E k \in DOMAIN g : k[1] \in of /\ g[k] = x
<1>. DEFINE h == Others(g, of)
<1>1. DOMAIN h = {k \in DOMAIN g : k[1] \notin of} /\ \A k \in DOMAIN h : h[k] = g[k]
  BY DEF Others, Restrict
<1>2. \A x : x \in IdsFor(g, of) <=> \E k \in DOMAIN g : k[1] \in of /\ g[k] = x BY DEF IdsFor
<1>. HIDE DEF h
<1>3. \A x : x \in Range(h) <=> \E k \in DOMAIN h : h[k] = x BY RangeIs
<1>4. \A x : x \in Range(g) <=> \E k \in DOMAIN g : g[k] = x BY RangeIs
<1>5. \A x : x \in Range(h) <=> \E k \in DOMAIN g : k[1] \notin of /\ g[k] = x BY <1>1, <1>3
<1>6. Range(g) = Range(h) \cup IdsFor(g, of) BY <1>2, <1>4, <1>5
<1>7. IdsFor(g, of) \cap Range(h) = {} BY <1>2, <1>5
<1>. QED BY <1>1, <1>2, <1>6, <1>7 DEF h

\* The grants of some sessions end; their ids are freed at once and queued as
\* well.  With them may go other ids, of sessions that are told so.
LEMMA LedgerRevoked ==
    ASSUME NEW p, NEW g, NEW rel, NEW held, NEW gone, Ledger(p, g, rel, held, gone),
           NEW of, NEW ids, IdsFor(g, of) \subseteq ids, ids \cap Range(Others(g, of)) = {},
           NEW left, \A s \in Session : s \notin left => s \notin gone /\ held[s] \cap ids = {}
    PROVE  Ledger(Freed(p, ids), Others(g, of), rel \cup IdsFor(g, of), held, left)
<1>. DEFINE q == Freed(p, ids)
            h == Others(g, of)
            end == IdsFor(g, of)
<1>1. SoundPool(p) /\ Apart(g, rel, held) /\ Owned(p, g, rel, held, gone) BY DEF Ledger
<1>2. /\ SoundPool(q) /\ DOMAIN q.placements = DOMAIN p.placements \ ids
      /\ \A id \in DOMAIN p.placements \ ids : q.placements[id] = p.placements[id]
  BY <1>1, FreedStaysSound
<1>3. \A k, l \in DOMAIN g : g[k] = g[l] => k = l BY <1>1 DEF Apart
<1>4. /\ DOMAIN h = {k \in DOMAIN g : k[1] \notin of}
      /\ \A k \in DOMAIN h : h[k] = g[k]
      /\ Range(g) = Range(h) \cup end
      /\ end \cap Range(h) = {}
      /\ \A x \in end : \E k \in DOMAIN g : k[1] \in of /\ g[k] = x
  BY <1>3, GrantsSplit
<1>. HIDE DEF q, h, end
<1>5. end \subseteq DOMAIN p.placements BY <1>1, <1>4 DEF Owned
<1>6. end \subseteq Nat /\ IsFiniteSet(end)
  <2>1. DOMAIN p.placements \subseteq Nat /\ IsFiniteSet(DOMAIN p.placements) BY <1>1 DEF SoundPool, Recorded
  <2>. QED BY <1>5, <2>1, FS_Subset
<1>7. Apart(h, rel \cup end, held)
  <2>1. rel \cup end \subseteq Nat /\ IsFiniteSet(rel \cup end) BY <1>1, <1>6, FS_Union DEF Apart
  <2>2. \A s \in Session : held[s] \cap (rel \cup end) = {} /\ held[s] \cap Range(h) = {}
    BY <1>1, <1>4 DEF Apart
  <2>3. (rel \cup end) \cap Range(h) = {} BY <1>1, <1>4 DEF Apart
  <2>4. \A k, l \in DOMAIN h : h[k] = h[l] => k = l BY <1>3, <1>4
  <2>. QED BY <1>1, <2>1, <2>2, <2>3, <2>4 DEF Apart
<1>8. Owned(q, h, rel \cup end, held, left)
  <2>1. ASSUME NEW s \in Session, s \notin left PROVE held[s] \subseteq DOMAIN q.placements
    <3>1. held[s] \subseteq DOMAIN p.placements /\ held[s] \cap ids = {} BY <1>1, <2>1 DEF Owned
    <3>. QED BY <1>2, <3>1
  <2>2. \A s \in Session : \A id \in held[s] \cap DOMAIN q.placements : q.placements[id].owner = s
    BY <1>1, <1>2 DEF Owned
  <2>3. ASSUME NEW k \in DOMAIN h PROVE h[k] \in DOMAIN q.placements /\ q.placements[h[k]].owner = k[1]
    <3>1. k \in DOMAIN g /\ h[k] = g[k] BY <1>4
    <3>2. h[k] \in Range(h) BY RangeIs
    <3>3. h[k] \notin ids BY <3>2 DEF h
    <3>4. g[k] \in DOMAIN p.placements /\ p.placements[g[k]].owner = k[1] BY <1>1, <3>1 DEF Owned
    <3>. QED BY <1>2, <3>1, <3>3, <3>4
  <2>4. ASSUME NEW id \in DOMAIN q.placements
        PROVE  id \in (rel \cup end) \cup Range(h) \/ \E s \in Session : id \in held[s]
    <3>1. id \in DOMAIN p.placements BY <1>2
    <3>. QED BY <1>1, <1>4, <3>1 DEF Owned
  <2>. QED BY <2>1, <2>2, <2>3, <2>4 DEF Owned
<1>. QED BY <1>2, <1>7, <1>8 DEF Ledger, q, h, end

LEMMA LedgerResolved ==
    ASSUME NEW p, NEW g, NEW rel, NEW held, NEW gone, Ledger(p, g, rel, held, gone),
           rel \subseteq Taken, \A s \in Session : held[s] \subseteq Taken,
           NEW among, Asking(among), NEW o, Resolves(p, g, o, among)
    PROVE  Ledger(o.pool, o.grants, rel, held, gone)
<1>1. SoundPool(p) /\ Apart(g, rel, held) /\ Owned(p, g, rel, held, gone) BY DEF Ledger
<1>. DEFINE q == o.pool
            h == o.grants
<1>2. /\ SoundPool(q) /\ DOMAIN p.placements \subseteq DOMAIN q.placements
      /\ \A id \in DOMAIN p.placements : q.placements[id] = p.placements[id]
      /\ DOMAIN g \subseteq DOMAIN h
      /\ \A k \in DOMAIN g : h[k] = g[k]
      /\ \A k \in DOMAIN h \ DOMAIN g :
            /\ h[k] \in DOMAIN q.placements \ DOMAIN p.placements
            /\ h[k] \in Nat \ Taken
            /\ q.placements[h[k]].owner = k[1]
      /\ \A id \in DOMAIN q.placements \ DOMAIN p.placements : \E k \in DOMAIN h \ DOMAIN g : h[k] = id
      /\ \A k, l \in DOMAIN h \ DOMAIN g : h[k] = h[l] => k = l
  BY DEF Resolves
<1>. HIDE DEF q, h
<1>3. \A k \in DOMAIN g : g[k] \in DOMAIN p.placements /\ p.placements[g[k]].owner = k[1] BY <1>1 DEF Owned
<1>4. \A x : x \in Range(h) <=> \E k \in DOMAIN h : h[k] = x BY RangeIs
<1>5. \A x : x \in Range(g) <=> \E k \in DOMAIN g : g[k] = x BY RangeIs
<1>6. \A x \in Range(h) : x \in Range(g) \/ x \notin Taken BY <1>2, <1>4, <1>5
<1>7. Range(g) \subseteq Range(h) BY <1>2, <1>4, <1>5
<1>8. Apart(h, rel, held)
  <2>1. \A s \in Session : held[s] \cap Range(h) = {} BY <1>1, <1>6 DEF Apart
  <2>2. rel \cap Range(h) = {} BY <1>1, <1>6 DEF Apart
  <2>3. ASSUME NEW k \in DOMAIN h, NEW l \in DOMAIN h, h[k] = h[l] PROVE k = l
    <3>1. CASE k \in DOMAIN g /\ l \in DOMAIN g BY <1>1, <1>2, <2>3, <3>1 DEF Apart
    <3>2. CASE k \notin DOMAIN g /\ l \notin DOMAIN g BY <1>2, <2>3, <3>2
    <3>3. CASE k \in DOMAIN g /\ l \notin DOMAIN g BY <1>2, <1>3, <2>3, <3>3
    <3>4. CASE k \notin DOMAIN g /\ l \in DOMAIN g BY <1>2, <1>3, <2>3, <3>4
    <3>. QED BY <3>1, <3>2, <3>3, <3>4
  <2>. QED BY <1>1, <2>1, <2>2, <2>3 DEF Apart
<1>9. Owned(q, h, rel, held, gone)
  <2>1. \A s \in Session : s \notin gone => held[s] \subseteq DOMAIN q.placements BY <1>1, <1>2 DEF Owned
  <2>2. ASSUME NEW s \in Session, NEW id \in held[s] \cap DOMAIN q.placements PROVE q.placements[id].owner = s
    <3>1. id \in Taken OBVIOUS
    <3>2. id \in DOMAIN p.placements BY <1>2, <3>1
    <3>. QED BY <1>1, <1>2, <3>2 DEF Owned
  <2>3. ASSUME NEW k \in DOMAIN h PROVE h[k] \in DOMAIN q.placements /\ q.placements[h[k]].owner = k[1]
    <3>1. CASE k \in DOMAIN g BY <1>2, <1>3, <3>1
    <3>2. CASE k \notin DOMAIN g BY <1>2, <3>2
    <3>. QED BY <3>1, <3>2
  <2>4. ASSUME NEW id \in DOMAIN q.placements PROVE id \in rel \cup Range(h) \/ \E s \in Session : id \in held[s]
    <3>1. CASE id \in DOMAIN p.placements BY <1>1, <1>7, <3>1 DEF Owned
    <3>2. CASE id \notin DOMAIN p.placements
      <4>1. \E k \in DOMAIN h : h[k] = id BY <1>2, <3>2
      <4>. QED BY <1>4, <4>1
    <3>. QED BY <3>1, <3>2
  <2>. QED BY <2>1, <2>2, <2>3, <2>4 DEF Owned
<1>. QED BY <1>2, <1>8, <1>9 DEF Ledger, q, h

-----------------------------------------------------------------------------
(* The steps                                                               *)

LEMMA NoMoreTaken ==
    ASSUME PlacementInv
    PROVE  /\ IsFiniteSet(Taken) /\ released \subseteq Taken
           /\ \A s \in Session : Held[s] \subseteq Taken /\ Held[s] = Range(calls[s]) \cup kept[s]
           /\ Ledger(Collected, grants, {}, Held, revoked)
<1>1. Ledger(pool, grants, released, Held, revoked) BY DEF PlacementInv
<1>2. \A s \in Session : Held[s] = Range(calls[s]) \cup kept[s] BY DEF Held
<1>3. Taken = released \cup Range(grants) \cup UNION {Held[s] : s \in Session}
  <2>1. {Range(calls[s]) \cup kept[s] : s \in Session} = {Held[s] : s \in Session} BY <1>2
  <2>. QED BY <2>1 DEF Taken, Leases
<1>4. IsFiniteSet(Taken) BY <1>1, <1>3, LedgerIsFinite
<1>5. Ledger(Collected, grants, {}, Held, revoked) BY <1>1, LedgerCollected DEF Collected
<1>. QED BY <1>2, <1>3, <1>4, <1>5

LEMMA RequestsAreTyped ==
    ASSUME PlacementInv, NEW s \in Session, IndexOf(s) <= Len(program[s])
    PROVE  RequestOf(s) \in Request /\ RequestOf(s).least <= RequestOf(s).most
<1>1. program \in [Session -> Seq(Request)] /\ program \in Workload /\ calls[s] \in Seq(Nat)
  BY ConstantsAssumption DEF PlacementInv, Typed
<1>2. IndexOf(s) \in DOMAIN program[s] BY <1>1 DEF IndexOf
<1>3. RequestOf(s) \in Request /\ RequestOf(s) \in Range(program[s]) BY <1>1, <1>2 DEF RequestOf, Range
<1>4. \A r \in Range(program[s]) : r.least <= r.most BY <1>1, ConstantsAssumption
<1>. QED BY <1>3, <1>4

LEMMA PendingAsk ==
    ASSUME PlacementInv
    PROVE  Asking(Range(pending))
<1>1. ASSUME NEW s \in Range(pending)
      PROVE  s \in Session /\ RequestOf(s) \in Request /\ RequestOf(s).least <= RequestOf(s).most
  <2>1. s \in Session BY RangeIsFinite DEF PlacementInv, Typed
  <2>2. IndexOf(s) <= Len(program[s]) BY <2>1 DEF PlacementInv, Phases
  <2>. QED BY <2>1, <2>2, RequestsAreTyped
<1>. QED BY <1>1 DEF Asking

LEMMA InitHolds == Init => PlacementInv
<1>. SUFFICES ASSUME Init PROVE PlacementInv OBVIOUS
<1>0. Range(<< >>) = {} /\ DOMAIN << >> = {} /\ << >> \in Seq(Nat) /\ << >> \in Seq(Session) BY DEF Range
<1>1. SoundPool(pool)
  <2>1. pool.placements = << >> /\ pool.reserved = [d \in Device |-> 0] /\ pool.exclusive = [d \in Device |-> FALSE]
    BY DEF Init
  <2>2. Recorded(pool) BY <1>0, <2>1, FS_EmptySet DEF Recorded
  <2>3. ASSUME NEW d \in Device PROVE Balanced(pool, d)
    <3>1. On(pool, d, {}) = {} BY <1>0, <2>1 DEF On
    <3>2. BytesOn(pool, d, {}) = 0 BY BytesOfFew
    <3>3. ExclusiveOn(pool, d, {}) = FALSE BY DEF ExclusiveOn
    <3>4. pool.reserved[d] = 0 /\ pool.exclusive[d] = FALSE /\ 0 <= CapacityOf[d] BY <2>1, ConstantsAssumption
    <3>. QED BY <3>1, <3>2, <3>3, <3>4 DEF Balanced
  <2>. QED BY <2>2, <2>3 DEF SoundPool
<1>2. \A s \in Session : Held[s] = {} BY <1>0 DEF Held, Init
<1>3. Apart(grants, released, Held) BY <1>0, <1>2, FS_EmptySet DEF Apart, Init
<1>4. Owned(pool, grants, released, Held, revoked) BY <1>0, <1>2 DEF Owned, Init
<1>5. Typed
  <2>1. \A s \in Session : RetryLimit[s] \in Nat BY ConstantsAssumption
  <2>2. \A s \in Session : retries[s] \in 0..RetryLimit[s] BY <2>1 DEF Init
  <2>3. calls \in [Session -> Seq(Nat)] /\ pending \in Seq(Session) /\ todo \in Seq(Session) /\ ready \in Seq(Session)
    BY <1>0 DEF Init
  <2>. QED BY <2>2, <2>3 DEF Typed, Init, Phase
<1>6. GrantsOpen BY <1>0 DEF GrantsOpen, Init
<1>7. Phases BY <1>0 DEF Phases, Init, Ended
<1>8. Rounds BY <1>0 DEF Rounds, Init
<1>. QED BY <1>1, <1>3, <1>4, <1>5, <1>6, <1>7, <1>8 DEF PlacementInv, Ledger

LEMMA StutterKeeps == PlacementInv /\ UNCHANGED vars => PlacementInv'
BY DEF PlacementInv, Typed, GrantsOpen, Phases, Rounds, Granted, IndexOf, Held, vars, sessionVars, round

LEMMA DispatchKeeps ==
    ASSUME PlacementInv, NEW s \in Session, Dispatch(s)
    PROVE  PlacementInv'
<1>1. Ledger(pool, grants, released, Held, revoked)' BY DEF PlacementInv, Dispatch, Held, round
<1>2. Typed' BY DEF PlacementInv, Typed, Dispatch, Phase, round
<1>3. GrantsOpen' BY DEF PlacementInv, Typed, GrantsOpen, Dispatch, Ended, round
<1>4. Phases' BY DEF PlacementInv, Typed, Phases, Granted, IndexOf, Dispatch, Ended, round
<1>5. Rounds' BY DEF PlacementInv, Rounds, Dispatch, round
<1>. QED BY <1>1, <1>2, <1>3, <1>4, <1>5 DEF PlacementInv

LEMMA TakeGrantKeeps ==
    ASSUME PlacementInv, NEW s \in Session, Reserve(s), TakeGrant(s)
    PROVE  PlacementInv'
<1>. DEFINE key == <<s, IndexOf(s)>>
            e == grants[key]
<1>0. /\ phase[s] = "DISPATCHED" /\ key \in DOMAIN grants
      /\ calls' = [calls EXCEPT ![s] = Append(@, e)]
      /\ grants' = Restrict(grants, DOMAIN grants \ {key})
      /\ UNCHANGED <<pool, phase, released, program, kept, busy, retries, aborted, pending, wake, pc, todo, leaving, ready, revoked>>
  BY DEF Reserve, TakeGrant, round
<1>1. Typed /\ GrantsOpen /\ Phases /\ Rounds /\ Ledger(pool, grants, released, Held, revoked)
  BY DEF PlacementInv
<1>2. e \in Nat
  <2>1. e \in DOMAIN pool.placements /\ DOMAIN pool.placements \subseteq Nat
    BY <1>0, <1>1 DEF Ledger, Owned, SoundPool, Recorded
  <2>. QED BY <2>1
<1>. HIDE DEF e
<1>3. calls[s] \in Seq(Nat) /\ calls \in [Session -> Seq(Nat)] BY <1>1 DEF Typed
<1>4. /\ calls'[s] \in Seq(Nat) /\ Range(calls'[s]) = Range(calls[s]) \cup {e}
      /\ Len(calls'[s]) = Len(calls[s]) + 1 /\ Len(calls[s]) \in Nat
      /\ \A t \in Session : t # s => calls'[t] = calls[t]
      /\ calls' \in [Session -> Seq(Nat)]
  <2>1. calls'[s] = Append(calls[s], e) BY <1>0, <1>3
  <2>2. /\ Append(calls[s], e) \in Seq(Nat) /\ Range(Append(calls[s], e)) = Range(calls[s]) \cup {e}
        /\ Len(Append(calls[s], e)) = Len(calls[s]) + 1
    BY <1>2, <1>3, RangeOfAppend
  <2>. QED BY <1>0, <1>3, <2>1, <2>2
<1>5. DOMAIN grants' = DOMAIN grants \ {key} BY <1>0 DEF Restrict
<1>6. Ledger(pool, grants, released, Held, revoked)'
  <2>1. \A t \in Session : Held'[t] = IF t = key[1] THEN Held[t] \cup {e} ELSE Held[t]
    BY <1>0, <1>4 DEF Held
  <2>. HIDE DEF key
  <2>2. key[1] \in Session BY DEF key
  <2>3. Ledger(pool, Restrict(grants, DOMAIN grants \ {key}), released, Held', revoked)
    BY <1>0, <1>1, <2>1, <2>2, LedgerTaken DEF e
  <2>. QED BY <1>0, <2>3
<1>7. Typed' BY <1>0, <1>1, <1>4 DEF Typed
<1>8. GrantsOpen'
  <2>1. DOMAIN grants \subseteq Session \X Nat BY <1>1 DEF GrantsOpen
  <2>2. ASSUME NEW k \in DOMAIN grants \ {key} PROVE k[2] > Len(calls'[k[1]])
    <3>1. k[1] \in Session /\ k[2] \in Nat /\ k = <<k[1], k[2]>> BY <2>1
    <3>2. k[2] > Len(calls[k[1]]) BY <1>1 DEF GrantsOpen
    <3>3. CASE k[1] # s BY <1>4, <3>1, <3>2, <3>3
    <3>4. CASE k[1] = s
      <4>1. k[2] # Len(calls[s]) + 1 BY <2>2, <3>1, <3>4 DEF IndexOf
      <4>. QED BY <1>4, <3>1, <3>2, <3>4, <4>1
    <3>. QED BY <3>3, <3>4
  <2>. QED BY <1>0, <1>1, <1>5, <2>2 DEF GrantsOpen
<1>9. Phases'
  <2>1. ASSUME NEW t \in Session, t # s PROVE Granted(t)' <=> Granted(t)
    <3>1. <<t, IndexOf(t)>> # key /\ IndexOf(t)' = IndexOf(t) BY <1>4, <2>1 DEF IndexOf
    <3>. QED BY <1>5, <3>1 DEF Granted
  <2>2. \A t \in Session : t # s => IndexOf(t)' = IndexOf(t) BY <1>4 DEF IndexOf
  <2>. QED BY <1>0, <1>1, <1>4, <2>1, <2>2 DEF Phases, Ended
<1>10. Rounds' BY <1>0, <1>1 DEF Rounds
<1>. QED BY <1>6, <1>7, <1>8, <1>9, <1>10 DEF PlacementInv

LEMMA ReserveKeeps ==
    ASSUME PlacementInv, NEW s \in Session, Reserve(s), ~ TakeGrant(s)
    PROVE  PlacementInv'
<1>. DEFINE key == <<s, IndexOf(s)>>
            id == FreshId(Collected)
            r == RequestOf(s)
            plan == FirstPlan(Collected, r, TRUE, {})
<1>0. /\ phase[s] = "DISPATCHED" /\ IndexOf(s) <= Len(program[s]) /\ key \notin DOMAIN grants
      /\ released' = {} /\ grants' = grants
      /\ UNCHANGED <<program, kept, busy, retries, aborted, pending, wake, pc, todo, leaving, ready, revoked>>
  BY DEF Reserve, round
<1>1. Typed /\ GrantsOpen /\ Phases /\ Rounds /\ Ledger(pool, grants, released, Held, revoked)
  BY DEF PlacementInv
<1>2. /\ IsFiniteSet(Taken) /\ \A t \in Session : Held[t] \subseteq Taken
      /\ Ledger(Collected, grants, {}, Held, revoked)
  BY NoMoreTaken
<1>3. SoundPool(Collected) BY <1>2 DEF Ledger
<1>4. CASE Candidates(Collected, r) # "SUCCESS"
  <2>1. /\ pool' = Collected /\ calls' = calls
        /\ phase' = [phase EXCEPT ![s] = IF Candidates(Collected, r) = "UNAVAILABLE" THEN "REFUSED" ELSE "FAILED"]
    BY <1>0, <1>4 DEF Reserve, TakeGrant
  <2>2. \E to \in {"REFUSED", "FAILED"} : phase' = [phase EXCEPT ![s] = to] BY <2>1
  <2>3. PICK to \in {"REFUSED", "FAILED"} : phase' = [phase EXCEPT ![s] = to] BY <2>2
  <2>4. phase'[s] = to /\ \A t \in Session : t # s => phase'[t] = phase[t] BY <1>1, <2>3 DEF Typed
  <2>5. Ledger(pool, grants, released, Held, revoked)'
    <3>1. Held' = Held BY <1>0, <2>1 DEF Held
    <3>. QED BY <1>0, <1>2, <2>1, <3>1
  <2>6. Typed' BY <1>0, <1>1, <2>1, <2>3 DEF Typed, Phase
  <2>7. GrantsOpen'
    <3>1. \A k \in DOMAIN grants : k[1] \in Session BY <1>1 DEF GrantsOpen
    <3>. QED BY <1>0, <1>1, <2>1, <2>4, <3>1 DEF GrantsOpen, Ended
  <2>8. Phases'
    <3>1. \A t \in Session : Granted(t)' = Granted(t) /\ IndexOf(t)' = IndexOf(t) BY <1>0, <2>1 DEF Granted, IndexOf
    <3>2. ~ Granted(s) BY <1>0 DEF Granted
    <3>. QED BY <1>0, <1>1, <2>1, <2>4, <3>1, <3>2 DEF Phases, Ended
  <2>9. Rounds' BY <1>0, <1>1 DEF Rounds
  <2>. QED BY <2>5, <2>6, <2>7, <2>8, <2>9 DEF PlacementInv
<1>5. CASE Candidates(Collected, r) = "SUCCESS"
  <2>1. /\ pool' = Allocated(Collected, id, s, r, plan)
        /\ calls' = [calls EXCEPT ![s] = Append(@, id)] /\ phase' = phase
    BY <1>0, <1>5 DEF Reserve, TakeGrant, Reserved
  <2>2. r \in Request /\ r.least <= r.most BY <1>0, RequestsAreTyped
  <2>3. Fits(Collected, r, plan) BY <1>3, <2>2, FirstPlanFits
  <2>4. id \in Nat /\ id \notin DOMAIN Collected.placements /\ id \notin Taken
    <3>. DEFINE used == DOMAIN Collected.placements \cup Leases \cup released \cup Range(grants)
    <3>1. used = DOMAIN Collected.placements \cup Taken BY DEF Taken
    <3>2. IsFiniteSet(used) BY <1>2, <1>3, <3>1, FS_Union DEF SoundPool, Recorded
    <3>. HIDE DEF used
    <3>3. id \in Nat /\ id \notin used BY <3>2, FreshIsFree DEF used
    <3>. QED BY <3>1, <3>3
  <2>. HIDE DEF id, plan, r
  <2>5. calls \in [Session -> Seq(Nat)] /\ calls[s] \in Seq(Nat) BY <1>1 DEF Typed
  <2>6. /\ calls'[s] \in Seq(Nat) /\ Range(calls'[s]) = Range(calls[s]) \cup {id}
        /\ Len(calls'[s]) = Len(calls[s]) + 1 /\ Len(calls[s]) \in Nat
        /\ \A t \in Session : t # s => calls'[t] = calls[t]
        /\ calls' \in [Session -> Seq(Nat)]
    <3>1. calls'[s] = Append(calls[s], id) BY <2>1, <2>5
    <3>2. /\ Append(calls[s], id) \in Seq(Nat) /\ Range(Append(calls[s], id)) = Range(calls[s]) \cup {id}
          /\ Len(Append(calls[s], id)) = Len(calls[s]) + 1
      BY <2>4, <2>5, RangeOfAppend
    <3>. QED BY <2>1, <2>5, <3>1, <3>2
  <2>7. Ledger(pool, grants, released, Held, revoked)'
    <3>1. \A t \in Session : Held'[t] = IF t = s THEN Held[t] \cup {id} ELSE Held[t]
      BY <1>0, <2>6 DEF Held
    <3>2. \A t \in Session : id \notin Held[t] BY <1>2, <2>4
    <3>3. Ledger(Allocated(Collected, id, s, r, plan), grants, {}, Held', revoked)
      BY <1>2, <2>3, <2>4, <3>1, <3>2, LedgerReserved
    <3>. QED BY <1>0, <2>1, <3>3
  <2>8. Typed' BY <1>0, <1>1, <2>1, <2>6 DEF Typed
  <2>9. GrantsOpen'
    <3>1. DOMAIN grants \subseteq Session \X Nat BY <1>1 DEF GrantsOpen
    <3>2. ASSUME NEW k \in DOMAIN grants PROVE k[2] > Len(calls'[k[1]])
      <4>1. k[1] \in Session /\ k[2] \in Nat /\ k = <<k[1], k[2]>> BY <3>1
      <4>2. k[2] > Len(calls[k[1]]) BY <1>1 DEF GrantsOpen
      <4>3. CASE k[1] # s BY <2>6, <4>1, <4>2, <4>3
      <4>4. CASE k[1] = s
        <5>1. k[2] # Len(calls[s]) + 1 BY <1>0, <3>2, <4>1, <4>4 DEF IndexOf
        <5>. QED BY <2>6, <4>1, <4>2, <4>4, <5>1
      <4>. QED BY <4>3, <4>4
    <3>. QED BY <1>0, <1>1, <2>1, <3>2 DEF GrantsOpen
  <2>10. Phases'
    <3>1. \A t \in Session : t # s => (Granted(t)' <=> Granted(t)) /\ IndexOf(t)' = IndexOf(t)
      BY <1>0, <2>6 DEF Granted, IndexOf
    <3>. QED BY <1>0, <1>1, <2>1, <2>6, <3>1 DEF Phases, Ended
  <2>11. Rounds' BY <1>0, <1>1 DEF Rounds
  <2>. QED BY <2>7, <2>8, <2>9, <2>10, <2>11 DEF PlacementInv
<1>. QED BY <1>4, <1>5

\* Calls that are cleared hold nothing.
LEMMA Cleared ==
    ASSUME Typed, NEW s \in Session
    PROVE  /\ Range(<< >>) = {} /\ Len(<< >>) = 0 /\ Len(calls[s]) \in Nat
           /\ << >> \in Seq(Nat) /\ calls[s] \in Seq(Nat)
BY DEF Range, Typed

LEMMA FinishKeeps ==
    ASSUME PlacementInv, NEW s \in Session, Finish(s)
    PROVE  PlacementInv'
<1>0. Typed /\ GrantsOpen /\ Phases /\ Rounds /\ Ledger(pool, grants, released, Held, revoked)
  BY DEF PlacementInv
<1>1. PICK outputs \in SUBSET Range(calls[s]) :
        /\ kept' = [kept EXCEPT ![s] = outputs]
        /\ busy' = IF s \in Resource /\ outputs # {} THEN busy \cup {s} ELSE busy
        /\ released' = released \cup (Range(calls[s]) \ outputs)
        /\ wake' = (wake \/ Range(calls[s]) \ outputs # {})
  BY DEF Finish, Drop
<1>2. PICK end \in Ended : phase' = [phase EXCEPT ![s] = end]
  BY DEF Finish, Ended
<1>3. /\ phase[s] = "DISPATCHED" /\ IndexOf(s) > Len(program[s]) /\ calls' = [calls EXCEPT ![s] = << >>]
      /\ UNCHANGED <<program, pool, grants, retries, aborted, pending, pc, todo, leaving, ready, revoked>>
  BY DEF Finish, round
<1>4. /\ calls'[s] = << >> /\ \A t \in Session : t # s => calls'[t] = calls[t]
      /\ kept'[s] = outputs /\ \A t \in Session : t # s => kept'[t] = kept[t]
      /\ phase'[s] = end /\ \A t \in Session : t # s => phase'[t] = phase[t]
      /\ kept[s] = {}
  BY <1>0, <1>1, <1>2, <1>3 DEF Typed, Phases, Ended
<1>5. outputs \subseteq Range(calls[s]) /\ Range(calls[s]) \subseteq Nat
  <2>1. calls[s] \in Seq(Nat) BY <1>0 DEF Typed
  <2>. QED BY <2>1, RangeIsFinite
<1>6. Ledger(pool, grants, released, Held, revoked)'
  <2>1. Range(<< >>) = {} BY DEF Range
  <2>2. Held'[s] = outputs /\ Held[s] = Range(calls[s]) /\ \A t \in Session : t # s => Held'[t] = Held[t]
    BY <1>4, <2>1 DEF Held
  <2>3. \A t \in Session : Held'[t] \subseteq Held[t] BY <1>5, <2>2
  <2>4. \A x : x \in released' <=> x \in released \/ \E t \in Session : x \in Held[t] \ Held'[t]
    BY <1>1, <2>2
  <2>5. Ledger(pool, grants, released', Held', revoked) BY <1>0, <2>3, <2>4, LedgerDropped
  <2>. QED BY <1>3, <2>5
<1>7. Typed'
  <2>1. calls' \in [Session -> Seq(Nat)] BY <1>0, <1>3, Cleared DEF Typed
  <2>2. kept' \in [Session -> SUBSET Nat] /\ phase' \in [Session -> Phase] /\ wake' \in BOOLEAN
    BY <1>0, <1>1, <1>2, <1>5 DEF Typed, Phase, Ended
  <2>3. busy' \in SUBSET Resource BY <1>0, <1>1 DEF Typed
  <2>. QED BY <1>0, <1>3, <2>1, <2>2, <2>3 DEF Typed
<1>8. GrantsOpen'
  <2>1. ASSUME NEW k \in DOMAIN grants PROVE k[1] # s /\ k[1] \in Session
    <3>1. k[1] \in Session /\ k[2] \in Nat BY <1>0 DEF GrantsOpen
    <3>2. k[2] <= Len(program[k[1]]) /\ k[2] > Len(calls[k[1]]) BY <1>0 DEF GrantsOpen
    <3>3. Len(calls[s]) \in Nat BY <1>0, Cleared
    <3>4. program \in [Session -> Seq(Request)] BY <1>0, ConstantsAssumption DEF Typed
    <3>5. Len(program[s]) \in Nat BY <3>4
    <3>. QED BY <1>3, <3>1, <3>2, <3>3, <3>5 DEF IndexOf
  <2>. QED BY <1>0, <1>3, <1>4, <2>1 DEF GrantsOpen
<1>9. Phases'
  <2>1. \A t \in Session : t # s => (Granted(t)' <=> Granted(t)) /\ IndexOf(t)' = IndexOf(t)
    BY <1>3, <1>4 DEF Granted, IndexOf
  <2>. QED BY <1>0, <1>2, <1>3, <1>4, <2>1 DEF Phases, Ended
<1>10. Rounds' BY <1>0, <1>3 DEF Rounds
<1>. QED BY <1>6, <1>7, <1>8, <1>9, <1>10 DEF PlacementInv

LEMMA RetryKeeps ==
    ASSUME PlacementInv, NEW s \in Session, Retry(s)
    PROVE  PlacementInv'
<1>0. Typed /\ GrantsOpen /\ Phases /\ Rounds /\ Ledger(pool, grants, released, Held, revoked)
  BY DEF PlacementInv
<1>1. /\ phase[s] = "DISPATCHED" /\ retries[s] < RetryLimit[s]
      /\ phase' = [phase EXCEPT ![s] = "IDLE"] /\ calls' = [calls EXCEPT ![s] = << >>]
      /\ retries' = [retries EXCEPT ![s] = @ + 1]
      /\ released' = released \cup Range(calls[s]) /\ wake' = (wake \/ Range(calls[s]) # {})
      /\ UNCHANGED <<program, pool, grants, kept, busy, aborted, pending, pc, todo, leaving, ready, revoked>>
  BY DEF Retry, Drop, round
<1>2. /\ calls'[s] = << >> /\ \A t \in Session : t # s => calls'[t] = calls[t]
      /\ phase'[s] = "IDLE" /\ \A t \in Session : t # s => phase'[t] = phase[t]
      /\ kept[s] = {}
  BY <1>0, <1>1 DEF Typed, Phases, Ended
<1>3. Ledger(pool, grants, released, Held, revoked)'
  <2>1. Range(<< >>) = {} BY DEF Range
  <2>2. Held'[s] = {} /\ Held[s] = Range(calls[s]) /\ \A t \in Session : t # s => Held'[t] = Held[t]
    BY <1>1, <1>2, <2>1 DEF Held
  <2>3. \A t \in Session : Held'[t] \subseteq Held[t] BY <2>2
  <2>4. \A x : x \in released' <=> x \in released \/ \E t \in Session : x \in Held[t] \ Held'[t]
    BY <1>1, <2>2
  <2>5. Ledger(pool, grants, released', Held', revoked) BY <1>0, <2>3, <2>4, LedgerDropped
  <2>. QED BY <1>1, <2>5
<1>4. Typed'
  <2>1. calls' \in [Session -> Seq(Nat)] BY <1>0, <1>1, Cleared DEF Typed
  <2>2. ASSUME NEW t \in Session PROVE retries'[t] \in 0..RetryLimit[t]
    <3>1. retries[t] \in 0..RetryLimit[t] /\ RetryLimit[t] \in Nat BY <1>0, ConstantsAssumption DEF Typed
    <3>2. retries'[t] = IF t = s THEN retries[t] + 1 ELSE retries[t] BY <1>0, <1>1 DEF Typed
    <3>. QED BY <1>1, <3>1, <3>2
  <2>. QED BY <1>0, <1>1, <2>1, <2>2 DEF Typed, Phase
<1>5. GrantsOpen'
  <2>1. ASSUME NEW k \in DOMAIN grants PROVE k[2] > Len(calls'[k[1]]) /\ phase'[k[1]] \notin Ended
    <3>1. k[1] \in Session /\ k[2] \in Nat BY <1>0 DEF GrantsOpen
    <3>2. k[2] > Len(calls[k[1]]) /\ phase[k[1]] \notin Ended BY <1>0 DEF GrantsOpen
    <3>3. Len(calls[s]) \in Nat /\ Len(<< >>) = 0 BY <1>0, Cleared
    <3>4. CASE k[1] = s
      <4>1. Len(calls'[k[1]]) = 0 /\ phase'[k[1]] = "IDLE" BY <1>2, <3>3, <3>4
      <4>2. k[2] > 0 BY <3>1, <3>2, <3>3, <3>4
      <4>. QED BY <4>1, <4>2 DEF Ended
    <3>5. CASE k[1] # s BY <1>2, <3>1, <3>2, <3>5
    <3>. QED BY <3>4, <3>5
  <2>. QED BY <1>0, <1>1, <2>1 DEF GrantsOpen
<1>6. Phases'
  <2>1. \A t \in Session : t # s => (Granted(t)' <=> Granted(t)) /\ IndexOf(t)' = IndexOf(t)
    BY <1>1, <1>2 DEF Granted, IndexOf
  <2>. QED BY <1>0, <1>1, <1>2, <2>1 DEF Phases, Ended
<1>7. Rounds' BY <1>0, <1>1 DEF Rounds
<1>. QED BY <1>3, <1>4, <1>5, <1>6, <1>7 DEF PlacementInv

\* A resource or artifact is let go, the former by the plan that unloads it.
LEMMA LeaseDropped ==
    ASSUME PlacementInv, NEW s \in Session, NEW id \in kept[s],
           kept' = [kept EXCEPT ![s] = @ \ {id}], Drop({id}),
           leaving' \in SUBSET Nat,
           UNCHANGED <<program, pool, grants, calls, busy, phase, retries, aborted, pending, pc, todo, ready, revoked>>
    PROVE  PlacementInv'
<1>0. Typed /\ GrantsOpen /\ Phases /\ Rounds /\ Ledger(pool, grants, released, Held, revoked)
  BY DEF PlacementInv
<1>1. /\ kept' = [kept EXCEPT ![s] = @ \ {id}]
      /\ released' = released \cup {id} /\ wake' = (wake \/ {id} # {})
      /\ leaving' \in SUBSET Nat
      /\ UNCHANGED <<program, pool, grants, calls, busy, phase, retries, aborted, pending, pc, todo, ready, revoked>>
  BY DEF Drop
<1>2. kept'[s] = kept[s] \ {id} /\ \A t \in Session : t # s => kept'[t] = kept[t] BY <1>0, <1>1 DEF Typed
<1>3. phase[s] \in Ended /\ calls[s] = << >> BY <1>0, <1>1 DEF Phases, Ended
<1>4. Ledger(pool, grants, released, Held, revoked)'
  <2>1. Range(<< >>) = {} BY DEF Range
  <2>2. Held'[s] = kept[s] \ {id} /\ Held[s] = kept[s] /\ \A t \in Session : t # s => Held'[t] = Held[t]
    BY <1>1, <1>2, <1>3, <2>1 DEF Held
  <2>3. \A t \in Session : Held'[t] \subseteq Held[t] BY <2>2
  <2>4. \A x : x \in released' <=> x \in released \/ \E t \in Session : x \in Held[t] \ Held'[t]
    BY <1>1, <2>2
  <2>5. Ledger(pool, grants, released', Held', revoked) BY <1>0, <2>3, <2>4, LedgerDropped
  <2>. QED BY <1>1, <2>5
<1>5. Typed' BY <1>0, <1>1 DEF Typed
<1>6. GrantsOpen' BY <1>0, <1>1 DEF GrantsOpen
<1>7. Phases'
  <2>1. \A t \in Session : (Granted(t)' <=> Granted(t)) /\ IndexOf(t)' = IndexOf(t)
    BY <1>1 DEF Granted, IndexOf
  <2>. QED BY <1>0, <1>1, <1>2, <1>3, <2>1 DEF Phases, Ended
<1>8. Rounds' BY <1>0, <1>1 DEF Rounds
<1>. QED BY <1>4, <1>5, <1>6, <1>7, <1>8 DEF PlacementInv

LEMMA ReleaseKeeps ==
    ASSUME PlacementInv, NEW s \in Session, Release(s)
    PROVE  PlacementInv'
<1>1. PICK id \in kept[s] : kept' = [kept EXCEPT ![s] = @ \ {id}] /\ Drop({id}) BY DEF Release
<1>2. UNCHANGED <<program, pool, grants, calls, busy, phase, retries, aborted, pending, pc, todo, leaving, ready, revoked>>
  BY DEF Release, round
<1>3. leaving' \in SUBSET Nat BY <1>2 DEF PlacementInv, Typed
<1>. QED BY <1>1, <1>2, <1>3, LeaseDropped

\* Whether a resource is used says nothing of its lease.
LEMMA PinsKeep ==
    ASSUME PlacementInv, NEW s \in Session, Pin(s) \/ Unpin(s)
    PROVE  PlacementInv'
<1>0. Typed /\ GrantsOpen /\ Phases /\ Rounds /\ Ledger(pool, grants, released, Held, revoked)
  BY DEF PlacementInv
<1>1. /\ busy' \in SUBSET Resource /\ wake' = TRUE
      /\ UNCHANGED <<program, pool, grants, released, calls, kept, phase, retries, aborted, pending, pc, todo, leaving, ready, revoked>>
  BY <1>0 DEF Pin, Unpin, Typed, round
<1>2. Ledger(pool, grants, released, Held, revoked)' BY <1>0, <1>1 DEF Held
<1>3. Typed' BY <1>0, <1>1 DEF Typed
<1>4. GrantsOpen' BY <1>0, <1>1 DEF GrantsOpen
<1>5. Phases' BY <1>0, <1>1 DEF Phases, Granted, IndexOf
<1>6. Rounds' BY <1>0, <1>1 DEF Rounds
<1>. QED BY <1>2, <1>3, <1>4, <1>5, <1>6 DEF PlacementInv

LEMMA CollectKeeps ==
    ASSUME PlacementInv, NEW s \in Session, Collect(s)
    PROVE  PlacementInv'
<1>0. Typed /\ GrantsOpen /\ Phases /\ Rounds /\ Ledger(pool, grants, released, Held, revoked)
  BY DEF PlacementInv
<1>1. /\ pc = "IDLE" /\ phase[s] = "REFUSED" /\ s \notin aborted
      /\ phase' = [phase EXCEPT ![s] = "PLACEMENT_WAITING"] /\ pending' = Append(pending, s) /\ wake' = TRUE
      /\ UNCHANGED <<program, pool, grants, released, calls, kept, busy, retries, aborted, pc, todo, leaving, ready, revoked>>
  BY DEF Collect, round
<1>2. phase'[s] = "PLACEMENT_WAITING" /\ \A t \in Session : t # s => phase'[t] = phase[t]
  BY <1>0, <1>1 DEF Typed
<1>3. pending' \in Seq(Session) /\ Range(pending') = Range(pending) \cup {s}
  BY <1>0, <1>1, RangeOfAppend DEF Typed
<1>4. Ledger(pool, grants, released, Held, revoked)' BY <1>0, <1>1 DEF Held
<1>5. Typed' BY <1>0, <1>1, <1>3 DEF Typed, Phase
<1>6. GrantsOpen'
  <2>1. \A k \in DOMAIN grants : k[1] \in Session BY <1>0 DEF GrantsOpen
  <2>. QED BY <1>0, <1>1, <1>2, <2>1 DEF GrantsOpen, Ended
<1>7. Phases'
  <2>1. \A t \in Session : (Granted(t)' <=> Granted(t)) /\ IndexOf(t)' = IndexOf(t)
    BY <1>1 DEF Granted, IndexOf
  <2>. QED BY <1>0, <1>1, <1>2, <1>3, <2>1 DEF Phases, Ended
<1>8. Rounds' BY <1>0, <1>1, <1>3 DEF Rounds
<1>. QED BY <1>4, <1>5, <1>6, <1>7, <1>8 DEF PlacementInv

LEMMA GrantsByOwner ==
    ASSUME NEW of
    PROVE  /\ OtherGrants(of) = Others(grants, of)
           /\ UNION {GrantsOf(s) : s \in of} = IdsFor(grants, of)
           /\ \A s : GrantsOf(s) = IdsFor(grants, {s})
           /\ DOMAIN OtherGrants(of) = {k \in DOMAIN grants : k[1] \notin of}
BY DEF OtherGrants, Others, GrantsOf, IdsFor, Restrict

\* A context's grants are cancelled.
LEMMA LedgerCancelled ==
    ASSUME PlacementInv, NEW s \in Session
    PROVE  Ledger(Freed(Collected, GrantsOf(s)), OtherGrants({s}), GrantsOf(s), Held, revoked)
<1>. DEFINE ids == IdsFor(grants, {s})
<1>1. Ledger(Collected, grants, {}, Held, revoked) BY NoMoreTaken
<1>2. Apart(grants, {}, Held) BY <1>1 DEF Ledger
<1>3. /\ Range(grants) = Range(Others(grants, {s})) \cup ids
      /\ ids \cap Range(Others(grants, {s})) = {}
  <2>1. \A k, l \in DOMAIN grants : grants[k] = grants[l] => k = l BY <1>2 DEF Apart
  <2>. QED BY <2>1, GrantsSplit
<1>4. \A t \in Session : t \notin revoked => t \notin revoked /\ Held[t] \cap ids = {}
  BY <1>2, <1>3 DEF Apart
<1>5. ids \subseteq ids OBVIOUS
<1>6. Ledger(Freed(Collected, ids), Others(grants, {s}), {} \cup ids, Held, revoked)
  BY <1>1, <1>3, <1>4, <1>5, LedgerRevoked
<1>. QED BY <1>6, GrantsByOwner

LEMMA AbortKeeps ==
    ASSUME PlacementInv, NEW s \in Session, Abort(s)
    PROVE  PlacementInv'
<1>0. Typed /\ GrantsOpen /\ Phases /\ Rounds /\ Ledger(pool, grants, released, Held, revoked)
  BY DEF PlacementInv
<1>1. /\ pc = "IDLE" /\ phase[s] \notin Ended
      /\ aborted' = aborted \cup {s} /\ pending' = Without(pending, {s}) /\ wake' = TRUE
      /\ pool' = Freed(Collected, GrantsOf(s)) /\ grants' = OtherGrants({s}) /\ released' = GrantsOf(s)
      /\ UNCHANGED <<program, calls, kept, busy, phase, retries, pc, todo, leaving, ready, revoked>>
  BY DEF Abort, CancelContext, sessionVars, round
<1>2. pending' \in Seq(Session) /\ Range(pending') = Range(pending) \ {s}
  BY <1>0, <1>1, RangeOfWithout DEF Typed
<1>3. DOMAIN grants' = {k \in DOMAIN grants : k[1] # s}
  <2>1. DOMAIN OtherGrants({s}) = {k \in DOMAIN grants : k[1] \notin {s}} BY GrantsByOwner
  <2>. QED BY <1>1, <2>1
<1>4. ready = << >> /\ todo = << >> /\ revoked = {} BY <1>0, <1>1 DEF Rounds
<1>5. Ledger(pool, grants, released, Held, revoked)'
  <2>1. Held' = Held BY <1>1 DEF Held
  <2>. QED BY <1>1, <2>1, LedgerCancelled
<1>6. Typed' BY <1>0, <1>1, <1>2 DEF Typed
<1>7. GrantsOpen' BY <1>0, <1>1, <1>3 DEF GrantsOpen
<1>8. Phases'
  <2>1. \A t \in Session : IndexOf(t)' = IndexOf(t) BY <1>1 DEF IndexOf
  <2>2. \A t \in Session : t # s => (Granted(t)' <=> Granted(t)) BY <1>3, <2>1 DEF Granted
  <2>3. ~ Granted(s)' BY <1>3 DEF Granted
  <2>. QED BY <1>0, <1>1, <1>2, <2>1, <2>2, <2>3 DEF Phases, Ended
<1>9. Rounds'
  <2>1. Range(<< >>) = {} BY DEF Range
  <2>. QED BY <1>0, <1>1, <1>4, <2>1 DEF Rounds
<1>. QED BY <1>5, <1>6, <1>7, <1>8, <1>9 DEF PlacementInv

LEMMA DrainKeeps ==
    ASSUME PlacementInv, NEW s \in Session, Drain(s)
    PROVE  PlacementInv'
<1>0. Typed /\ GrantsOpen /\ Phases /\ Rounds /\ Ledger(pool, grants, released, Held, revoked)
  BY DEF PlacementInv
<1>1. /\ pc = "IDLE" /\ (s \in aborted \/ phase[s] = "FAILED")
      /\ phase[s] \in {"IDLE", "REFUSED", "PLACEMENT_WAITING", "FAILED"}
      /\ phase' = [phase EXCEPT ![s] = "CANCELLED"] /\ calls' = [calls EXCEPT ![s] = << >>]
      /\ pool' = Freed(Collected, GrantsOf(s)) /\ grants' = OtherGrants({s})
      /\ released' = GrantsOf(s) \cup Range(calls[s]) /\ wake' = TRUE
      /\ UNCHANGED <<program, kept, busy, retries, aborted, pending, pc, todo, leaving, ready, revoked>>
  BY DEF Drain, CancelContext, round
<1>2. /\ calls'[s] = << >> /\ \A t \in Session : t # s => calls'[t] = calls[t]
      /\ phase'[s] = "CANCELLED" /\ \A t \in Session : t # s => phase'[t] = phase[t]
      /\ kept[s] = {} /\ s \notin Range(pending)
  BY <1>0, <1>1 DEF Typed, Phases, Ended
<1>3. DOMAIN grants' = {k \in DOMAIN grants : k[1] # s}
  <2>1. DOMAIN OtherGrants({s}) = {k \in DOMAIN grants : k[1] \notin {s}} BY GrantsByOwner
  <2>. QED BY <1>1, <2>1
<1>4. Ledger(pool, grants, released, Held, revoked)'
  <2>1. Ledger(pool', grants', GrantsOf(s), Held, revoked) BY <1>1, LedgerCancelled
  <2>2. Range(<< >>) = {} BY DEF Range
  <2>3. Held'[s] = {} /\ Held[s] = Range(calls[s]) /\ \A t \in Session : t # s => Held'[t] = Held[t]
    BY <1>1, <1>2, <2>2 DEF Held
  <2>4. \A t \in Session : Held'[t] \subseteq Held[t] BY <2>3
  <2>5. \A x : x \in released' <=> x \in GrantsOf(s) \/ \E t \in Session : x \in Held[t] \ Held'[t]
    BY <1>1, <2>3
  <2>6. Ledger(pool', grants', released', Held', revoked) BY <2>1, <2>4, <2>5, LedgerDropped
  <2>. QED BY <1>1, <2>6
<1>5. Typed'
  <2>1. calls' \in [Session -> Seq(Nat)] BY <1>0, <1>1, Cleared DEF Typed
  <2>. QED BY <1>0, <1>1, <2>1 DEF Typed, Phase
<1>6. GrantsOpen'
  <2>1. \A k \in DOMAIN grants : k[1] \in Session BY <1>0 DEF GrantsOpen
  <2>. QED BY <1>0, <1>1, <1>2, <1>3, <2>1 DEF GrantsOpen
<1>7. Phases'
  <2>1. \A t \in Session : t # s => IndexOf(t)' = IndexOf(t) BY <1>2 DEF IndexOf
  <2>2. \A t \in Session : t # s => (Granted(t)' <=> Granted(t)) BY <1>3, <2>1 DEF Granted
  <2>. QED BY <1>0, <1>1, <1>2, <2>1, <2>2 DEF Phases, Ended
<1>8. Rounds' BY <1>0, <1>1 DEF Rounds
<1>. QED BY <1>4, <1>5, <1>6, <1>7, <1>8 DEF PlacementInv

\* What a resolution grants is awaited, and told.
LEMMA SettleKeeps ==
    ASSUME PlacementInv, NEW p, NEW g, DOMAIN g \subseteq DOMAIN grants,
           NEW o, Resolves(p, g, o, Range(pending)),
           grants' = o.grants, ready' = ready \o o.ready,
           UNCHANGED <<program, calls, kept, phase, retries, aborted, pending>>
    PROVE  /\ GrantsOpen' /\ Phases'
           /\ ready' \in Seq(Session) /\ Range(ready') \subseteq Range(pending)
<1>0. Typed /\ GrantsOpen /\ Phases /\ Rounds BY DEF PlacementInv
<1>1. /\ o.ready \in Seq(Session) /\ Range(o.ready) \subseteq Range(pending)
      /\ \A k \in DOMAIN o.grants \ DOMAIN g : k[1] \in Range(o.ready) /\ k = <<k[1], IndexOf(k[1])>>
  BY DEF Resolves
<1>2. ready' \in Seq(Session) /\ Range(ready') = Range(ready) \cup Range(o.ready)
  BY <1>0, <1>1, RangeOfConcat DEF Typed
<1>3. Range(ready') \subseteq Range(pending) BY <1>0, <1>1, <1>2 DEF Rounds
<1>4. \A t \in Range(pending) : t \in Session BY <1>0, RangeIsFinite DEF Typed
<1>5. ASSUME NEW k \in DOMAIN o.grants
      PROVE  /\ k \in Session \X Nat
             /\ k[2] <= Len(program[k[1]]) /\ k[2] > Len(calls[k[1]])
             /\ k[1] \notin aborted /\ phase[k[1]] \notin Ended
  <2>1. CASE k \in DOMAIN grants BY <1>0, <2>1 DEF GrantsOpen
  <2>2. CASE k \notin DOMAIN grants
    <3>. DEFINE s == k[1]
    <3>1. s \in Range(pending) /\ k = <<s, IndexOf(s)>> BY <1>1, <2>2
    <3>2. s \in Session /\ phase[s] = "PLACEMENT_WAITING" /\ s \notin aborted /\ IndexOf(s) <= Len(program[s])
      BY <1>0, <1>4, <3>1 DEF Phases
    <3>3. Len(calls[s]) \in Nat BY <1>0, <3>2, Cleared
    <3>4. k[2] = Len(calls[s]) + 1 BY <3>1 DEF IndexOf
    <3>. HIDE DEF s
    <3>5. k \in Session \X Nat BY <3>1, <3>2, <3>3 DEF IndexOf
    <3>6. k[2] <= Len(program[s]) BY <3>2, <3>4 DEF IndexOf
    <3>7. k[2] > Len(calls[s]) BY <3>3, <3>4
    <3>. QED BY <3>2, <3>5, <3>6, <3>7 DEF s, Ended
  <2>. QED BY <2>1, <2>2
<1>6. GrantsOpen' BY <1>5 DEF GrantsOpen
<1>7. Phases'
  <2>1. \A t \in Session : IndexOf(t)' = IndexOf(t) BY DEF IndexOf
  <2>2. ASSUME NEW t \in Session, Granted(t)' PROVE Granted(t) \/ t \in Range(o.ready)
    <3>. DEFINE k == <<t, IndexOf(t)>>
    <3>1. k \in DOMAIN o.grants BY <2>1, <2>2 DEF Granted
    <3>2. k \notin DOMAIN g => k[1] \in Range(o.ready) BY <1>1, <3>1
    <3>. QED BY <3>2 DEF Granted
  <2>3. ASSUME NEW t \in Session, phase[t] = "REFUSED" PROVE ~ Granted(t)'
    <3>1. t \notin Range(pending) /\ ~ Granted(t) BY <1>0, <2>3 DEF Phases
    <3>. QED BY <1>1, <2>2, <3>1
  <2>4. ASSUME NEW t \in Session, phase[t] = "PLACEMENT_WAITING", t \notin aborted, Granted(t)' PROVE t \in Range(ready')
    BY <1>0, <1>2, <2>2, <2>4 DEF Phases
  <2>. QED BY <1>0, <2>1, <2>3, <2>4 DEF Phases
<1>. QED BY <1>2, <1>3, <1>6, <1>7

LEMMA ResolveKeeps ==
    ASSUME PlacementInv, Resolve
    PROVE  PlacementInv'
<1>. DEFINE o == Resolution(Collected, grants, pending)
<1>0. Typed /\ GrantsOpen /\ Phases /\ Rounds BY DEF PlacementInv
<1>1. /\ pc = "IDLE" /\ wake' = FALSE /\ released' = {}
      /\ pool' = o.pool /\ grants' = o.grants /\ ready' = ready \o o.ready
      /\ todo' = Without(pending, Range(ready')) /\ pc' = "EVICT"
      /\ UNCHANGED <<program, calls, kept, busy, phase, retries, aborted, pending, leaving, revoked>>
  BY DEF Resolve, Settle, sessionVars
<1>2. /\ IsFiniteSet(Taken) /\ \A s \in Session : Held[s] \subseteq Taken
      /\ Ledger(Collected, grants, {}, Held, revoked)
  BY NoMoreTaken
<1>3. pending \in Seq(Session) /\ Asking(Range(pending)) BY <1>0, PendingAsk DEF Typed
<1>4. SoundPool(Collected) BY <1>2 DEF Ledger
<1>5. Resolves(Collected, grants, o, Range(pending)) BY <1>2, <1>3, <1>4, ResolutionResolves
<1>. HIDE DEF o
<1>6. Ledger(pool, grants, released, Held, revoked)'
  <2>1. Held' = Held BY <1>1 DEF Held
  <2>2. {} \subseteq Taken OBVIOUS
  <2>3. Ledger(o.pool, o.grants, {}, Held, revoked) BY <1>2, <1>3, <1>5, <2>2, LedgerResolved
  <2>. QED BY <1>1, <2>1, <2>3
<1>7. /\ GrantsOpen' /\ Phases'
      /\ ready' \in Seq(Session) /\ Range(ready') \subseteq Range(pending)
  BY <1>1, <1>5, SettleKeeps
<1>8. todo' \in Seq(Session) /\ Range(todo') \subseteq Range(pending) BY <1>1, <1>3, RangeOfWithout
<1>9. Typed' BY <1>0, <1>1, <1>7, <1>8 DEF Typed
<1>10. Rounds' BY <1>0, <1>1, <1>7, <1>8 DEF Rounds
<1>. QED BY <1>6, <1>7, <1>9, <1>10 DEF PlacementInv

LEMMA ResolveOneKeeps ==
    ASSUME PlacementInv, ResolveOne
    PROVE  PlacementInv'
<1>. DEFINE o == Resolution(Collected, grants, <<Head(todo)>>)
<1>0. Typed /\ GrantsOpen /\ Phases /\ Rounds BY DEF PlacementInv
<1>1. /\ pc = "UNLOAD" /\ released' = {}
      /\ pool' = o.pool /\ grants' = o.grants /\ ready' = ready \o o.ready
      /\ todo' = Tail(todo) /\ pc' = "EVICT"
      /\ UNCHANGED <<program, calls, kept, busy, phase, retries, aborted, pending, wake, leaving, revoked>>
  BY DEF ResolveOne, Settle, sessionVars
<1>2. /\ IsFiniteSet(Taken) /\ \A s \in Session : Held[s] \subseteq Taken
      /\ Ledger(Collected, grants, {}, Held, revoked)
  BY NoMoreTaken
<1>3. Asking(Range(pending)) BY PendingAsk
<1>4. SoundPool(Collected) BY <1>2 DEF Ledger
<1>5. Head(todo) \in Range(todo) /\ todo' \in Seq(Session) /\ Range(todo') \subseteq Range(todo)
      /\ Range(todo) \subseteq Range(pending)
  <2>1. todo # << >> /\ todo \in Seq(Session) BY <1>0, <1>1 DEF Rounds, Typed
  <2>. QED BY <1>0, <1>1, <2>1, RangeOfTail DEF Rounds
<1>6. <<Head(todo)>> \in Seq(Session) /\ Range(<<Head(todo)>>) \subseteq Range(pending)
  <2>1. Head(todo) \in Session BY <1>0, <1>5, RangeIsFinite DEF Typed
  <2>2. <<Head(todo)>> \in Seq(Session) /\ DOMAIN <<Head(todo)>> = {1} /\ <<Head(todo)>>[1] = Head(todo)
    BY <2>1
  <2>. QED BY <1>5, <2>2 DEF Range
<1>7. Resolves(Collected, grants, o, Range(pending)) BY <1>2, <1>3, <1>4, <1>6, ResolutionResolves
<1>. HIDE DEF o
<1>8. Ledger(pool, grants, released, Held, revoked)'
  <2>1. Held' = Held BY <1>1 DEF Held
  <2>2. {} \subseteq Taken OBVIOUS
  <2>3. Ledger(o.pool, o.grants, {}, Held, revoked) BY <1>2, <1>3, <1>7, <2>2, LedgerResolved
  <2>. QED BY <1>1, <2>1, <2>3
<1>9. /\ GrantsOpen' /\ Phases'
      /\ ready' \in Seq(Session) /\ Range(ready') \subseteq Range(pending)
  BY <1>1, <1>7, SettleKeeps
<1>10. Typed' BY <1>0, <1>1, <1>5, <1>9 DEF Typed
<1>11. Rounds' BY <1>0, <1>1, <1>5, <1>9 DEF Rounds
<1>. QED BY <1>8, <1>9, <1>10, <1>11 DEF PlacementInv

LEMMA VictimsAreUnloadable ==
    ASSUME NEW p, NEW target, NEW unloadable, NEW ids \in Victims(p, target, unloadable)
    PROVE  ids \subseteq unloadable
BY DEF Victims

LEMMA EvictKeeps ==
    ASSUME PlacementInv, Evict
    PROVE  PlacementInv'
<1>. DEFINE plans == Plans(Collected, Head(todo), Cached(Resource \ busy))
<1>0. Typed /\ GrantsOpen /\ Phases /\ Rounds BY DEF PlacementInv
<1>1. /\ pc = "EVICT" /\ todo # << >> /\ pool' = Collected /\ released' = {}
      /\ UNCHANGED <<program, grants, calls, kept, busy, phase, retries, aborted, pending, wake, ready, revoked>>
  BY DEF Evict, sessionVars
<1>2. \/ todo' = Tail(todo) /\ leaving' = leaving /\ pc' = pc
      \/ leaving' \in plans /\ pc' = "UNLOAD" /\ todo' = todo
  BY DEF Evict
<1>3. Ledger(pool, grants, released, Held, revoked)'
  <2>1. Held' = Held BY <1>1 DEF Held
  <2>. QED BY <1>1, <2>1, NoMoreTaken
<1>4. \A ids \in plans : ids \subseteq Nat
  <2>1. \A x \in Cached(Resource \ busy) : x \in Nat
    BY <1>0, ConstantsAssumption DEF Cached, Typed
  <2>2. ASSUME NEW ids \in plans PROVE ids \subseteq Cached(Resource \ busy)
    <3>1. PICK target \in Targets(Collected, Head(todo)) :
             ids \in Victims(Collected, target, Cached(Resource \ busy))
      BY <2>2 DEF Plans
    <3>. QED BY <3>1, VictimsAreUnloadable
  <2>. QED BY <2>1, <2>2
<1>5. Tail(todo) \in Seq(Session) /\ Range(Tail(todo)) \subseteq Range(todo)
  BY <1>0, <1>1, RangeOfTail DEF Typed
<1>. HIDE DEF plans
<1>6. leaving' \in SUBSET Nat /\ todo' \in Seq(Session) /\ Range(todo') \subseteq Range(todo)
  BY <1>0, <1>2, <1>4, <1>5 DEF Typed
<1>7. Typed' BY <1>0, <1>1, <1>2, <1>6 DEF Typed
<1>8. GrantsOpen' BY <1>0, <1>1 DEF GrantsOpen
<1>9. Phases' BY <1>0, <1>1 DEF Phases, Granted, IndexOf
<1>10. Rounds' BY <1>0, <1>1, <1>2, <1>6 DEF Rounds
<1>. QED BY <1>3, <1>7, <1>8, <1>9, <1>10 DEF PlacementInv

LEMMA UnloadKeeps ==
    ASSUME PlacementInv, Unload
    PROVE  PlacementInv'
<1>1. PICK s \in Resource : \E id \in kept[s] \cap leaving :
          /\ kept' = [kept EXCEPT ![s] = @ \ {id}]
          /\ leaving' = leaving \ {id}
          /\ Drop({id})
  BY DEF Unload
<1>2. PICK id \in kept[s] \cap leaving :
          /\ kept' = [kept EXCEPT ![s] = @ \ {id}]
          /\ leaving' = leaving \ {id}
          /\ Drop({id})
  BY <1>1
<1>3. UNCHANGED <<program, pool, grants, calls, busy, phase, retries, aborted, pending, pc, todo, ready, revoked>>
  BY DEF Unload
<1>4. s \in Session /\ id \in kept[s] BY ConstantsAssumption
<1>5. leaving' \in SUBSET Nat BY <1>2 DEF PlacementInv, Typed
<1>. QED BY <1>2, <1>3, <1>4, <1>5, LeaseDropped

\* The first member of a sequence that is not passed over is one of its members.
LEMMA FirstIsOne ==
    ASSUME NEW S, NEW q \in Seq(S), NEW C, NEW none
    PROVE  FirstOr(none, Without(q, C)) \in S \cup {none}
<1>1. Without(q, C) \in Seq(S) BY RangeOfWithout
<1>2. CASE Without(q, C) = << >> BY <1>2 DEF FirstOr
<1>3. CASE Without(q, C) # << >>
  <2>1. Head(Without(q, C)) \in S BY <1>1, <1>3
  <2>. QED BY <1>3, <2>1 DEF FirstOr
<1>. QED BY <1>2, <1>3

\* Only sessions that wait are victims.
LEMMA VictimsWait ==
    ASSUME NEW p, NEW waiting \in Seq(Session)
    PROVE  SelectVictims(p, Cycle(p, waiting), waiting) \subseteq Range(waiting)
<1>. DEFINE n == Len(waiting)
            holders == Range(waiting) \cap Holders(p)
            blockers == [s \in holders |-> Blockers(p, s, holders)]
            tied(s) == {t \in DOMAIN blockers :
                           s \in DOMAIN blockers /\ Reaches(blockers, s, t) /\ Reaches(blockers, t, s)}
            ties == [k \in DOMAIN waiting |-> tied(waiting[k])]
            single == {sessions \in SUBSET DOMAIN blockers : Cardinality(sessions) <= 1}
            cycle == Cycle(p, waiting)
            choices == [k \in DOMAIN waiting |-> VictimsFor(p, waiting[k], cycle, waiting)]
            S == SUBSET Range(waiting)
<1>0. n \in Nat /\ DOMAIN waiting = 1..n OBVIOUS
<1>1. cycle = FirstOr({}, Without(ties, single)) BY DEF Cycle, FirstCycle
<1>2. ties \in Seq(S)
  <2>1. \A k \in 1..n : tied(waiting[k]) \in S OBVIOUS
  <2>. HIDE DEF tied, S, n
  <2>2. ties \in [1..n -> S] BY <1>0, <2>1
  <2>. QED BY <1>0, <2>2
<1>3. cycle \in S
  <2>1. cycle \in S \cup {{}}
    <3>. HIDE DEF ties, single, S, cycle
    <3>. QED BY <1>1, <1>2, FirstIsOne
  <2>. QED BY <2>1
<1>. HIDE DEF cycle
<1>4. choices \in Seq(S)
  <2>1. \A k \in 1..n : VictimsFor(p, waiting[k], cycle, waiting) \in S BY <1>3 DEF VictimsFor
  <2>. HIDE DEF S, n
  <2>2. choices \in [1..n -> S] BY <1>0, <2>1
  <2>. QED BY <1>0, <2>2
<1>5. SelectVictims(p, cycle, waiting) = FirstOr({}, Without(choices, {{}})) BY DEF SelectVictims
<1>6. SelectVictims(p, cycle, waiting) \in S \cup {{}}
  <2>. HIDE DEF choices, S
  <2>. QED BY <1>4, <1>5, FirstIsOne
<1>. QED BY <1>6 DEF cycle

LEMMA RecoverKeeps ==
    ASSUME PlacementInv, Recover
    PROVE  PlacementInv'
<1>. DEFINE victims == SelectVictims(Collected, Cycle(Collected, Unmet), Unmet)
            ids == {id \in DOMAIN Collected.placements : Collected.placements[id].owner \in victims}
            end == IdsFor(grants, victims)
            left == OtherGrants(victims)
            requests == IF victims = {} THEN << >> ELSE Without(Unmet, victims)
            p == Freed(Collected, ids)
            o == Resolution(p, left, requests)
<1>0. Typed /\ GrantsOpen /\ Phases /\ Rounds BY DEF PlacementInv
<1>1. /\ pc = "EVICT" /\ revoked' = victims /\ released' = UNION {GrantsOf(s) : s \in victims}
      /\ pool' = o.pool /\ grants' = o.grants /\ ready' = ready \o o.ready /\ pc' = "TELL"
      /\ UNCHANGED <<program, calls, kept, busy, phase, retries, aborted, pending, wake, todo, leaving>>
  BY DEF Recover, Revoke, Settle, sessionVars
<1>2. /\ IsFiniteSet(Taken) /\ \A s \in Session : Held[s] \subseteq Taken
      /\ Ledger(Collected, grants, {}, Held, {})
  <2>1. revoked = {} BY <1>0, <1>1 DEF Rounds
  <2>. QED BY <2>1, NoMoreTaken
<1>3. Asking(Range(pending)) BY PendingAsk
<1>4. Unmet \in Seq(Session) /\ Range(Unmet) \subseteq Range(pending) BY <1>0, RangeOfWithout DEF Unmet, Typed
<1>5. victims \subseteq Range(Unmet) BY <1>4, VictimsWait
<1>6. requests \in Seq(Session) /\ Range(requests) \subseteq Range(pending)
  <2>. HIDE DEF victims
  <2>1. << >> \in Seq(Session) /\ Range(<< >>) = {} BY DEF Range
  <2>2. Without(Unmet, victims) \in Seq(Session) /\ Range(Without(Unmet, victims)) \subseteq Range(Unmet)
    BY <1>4, RangeOfWithout
  <2>. QED BY <1>4, <2>1, <2>2
<1>. HIDE DEF victims
<1>7. left = Others(grants, victims) /\ released' = end
      /\ DOMAIN left = {k \in DOMAIN grants : k[1] \notin victims}
  BY <1>1, GrantsByOwner
<1>8. Apart(grants, {}, Held) /\ Owned(Collected, grants, {}, Held, {}) /\ SoundPool(Collected)
  BY <1>2 DEF Ledger
<1>. HIDE DEF p, left, requests, o, ids
<1>9. /\ DOMAIN Others(grants, victims) = {k \in DOMAIN grants : k[1] \notin victims}
      /\ \A k \in DOMAIN Others(grants, victims) : Others(grants, victims)[k] = grants[k]
      /\ Range(grants) = Range(Others(grants, victims)) \cup end
      /\ \A x \in end : \E k \in DOMAIN grants : k[1] \in victims /\ grants[k] = x
  <2>1. \A k, l \in DOMAIN grants : grants[k] = grants[l] => k = l BY <1>8 DEF Apart
  <2>. HIDE DEF end
  <2>2. /\ \A k \in DOMAIN Others(grants, victims) : Others(grants, victims)[k] = grants[k]
        /\ DOMAIN Others(grants, victims) = {k \in DOMAIN grants : k[1] \notin victims}
    BY DEF Others, Restrict
  <2>3. Range(grants) = Range(Others(grants, victims)) \cup end BY <2>1, GrantsSplit DEF end
  <2>4. \A x \in end : \E k \in DOMAIN grants : k[1] \in victims /\ grants[k] = x BY <2>1, GrantsSplit DEF end
  <2>. QED BY <2>2, <2>3, <2>4
<1>. USE DEF ids
<1>10. end \subseteq ids
  <2>1. \A k \in DOMAIN grants : grants[k] \in DOMAIN Collected.placements
                                 /\ Collected.placements[grants[k]].owner = k[1]
    BY <1>8 DEF Owned
  <2>. QED BY <1>9, <2>1
<1>11. ids \cap Range(Others(grants, victims)) = {}
  <2>1. ASSUME NEW x \in ids, x \in Range(Others(grants, victims)) PROVE FALSE
    <3>1. PICK k \in DOMAIN Others(grants, victims) : Others(grants, victims)[k] = x BY <2>1, RangeIs
    <3>2. k \in DOMAIN grants /\ k[1] \notin victims /\ grants[k] = x BY <1>9, <3>1
    <3>3. Collected.placements[x].owner = k[1] BY <1>8, <3>2 DEF Owned
    <3>. QED BY <3>2, <3>3
  <2>. QED BY <2>1
<1>12. \A s \in Session : s \notin victims => s \notin {} /\ Held[s] \cap ids = {} BY <1>8 DEF Owned
<1>. HIDE DEF ids, end
<1>13. Ledger(p, left, end, Held, victims)
  <2>1. Ledger(Freed(Collected, ids), Others(grants, victims), {} \cup end, Held, victims)
    BY <1>2, <1>10, <1>11, <1>12, LedgerRevoked DEF end
  <2>. QED BY <1>7, <2>1 DEF p
<1>14. end \subseteq Taken BY <1>9 DEF Taken
<1>15. SoundPool(p) BY <1>13 DEF Ledger
<1>16. Resolves(p, left, o, Range(pending)) BY <1>2, <1>3, <1>6, <1>15, ResolutionResolves DEF o
<1>17. Ledger(pool, grants, released, Held, revoked)'
  <2>1. Held' = Held BY <1>1 DEF Held
  <2>2. Ledger(o.pool, o.grants, end, Held, victims) BY <1>2, <1>3, <1>13, <1>14, <1>16, LedgerResolved
  <2>. QED BY <1>1, <1>7, <2>1, <2>2
<1>18. /\ GrantsOpen' /\ Phases'
       /\ ready' \in Seq(Session) /\ Range(ready') \subseteq Range(pending)
  <2>1. DOMAIN left \subseteq DOMAIN grants BY <1>7
  <2>. QED BY <1>1, <1>16, <2>1, SettleKeeps
<1>19. victims \subseteq Range(pending) /\ \A s \in Range(pending) : s \in Session
  BY <1>0, <1>4, <1>5, RangeIsFinite DEF Typed
<1>20. Typed' BY <1>0, <1>1, <1>18, <1>19 DEF Typed
<1>21. Rounds' BY <1>0, <1>1, <1>18, <1>19 DEF Rounds
<1>. QED BY <1>17, <1>18, <1>20, <1>21 DEF PlacementInv

LEMMA TellKeeps ==
    ASSUME PlacementInv, Tell
    PROVE  PlacementInv'
<1>. DEFINE told == Range(ready) \cup revoked
<1>0. Typed /\ GrantsOpen /\ Phases /\ Rounds /\ Ledger(pool, grants, released, Held, revoked)
  BY DEF PlacementInv
<1>1. /\ pc = "TELL" /\ pending' = Without(pending, told)
      /\ phase' = [s \in Session |-> IF s \in told THEN "IDLE" ELSE phase[s]]
      /\ calls' = [s \in Session |-> IF s \in revoked THEN << >> ELSE calls[s]]
      /\ released' = released \cup UNION {Range(calls[s]) : s \in revoked}
      /\ wake' = (wake \/ UNION {Range(calls[s]) : s \in revoked} # {})
      /\ pc' = "IDLE" /\ todo' = << >> /\ ready' = << >> /\ revoked' = {}
      /\ UNCHANGED <<program, pool, grants, kept, busy, leaving, retries, aborted>>
  BY DEF Tell, Drop
<1>2. pending' \in Seq(Session) /\ Range(pending') = Range(pending) \ told
  BY <1>0, <1>1, RangeOfWithout DEF Typed
<1>3. told \subseteq Range(pending) /\ \A s \in told : s \in Session
  <2>1. told \subseteq Range(pending) BY <1>0 DEF Rounds
  <2>2. Range(pending) \subseteq Session BY <1>0, RangeIsFinite DEF Typed
  <2>. QED BY <2>1, <2>2
<1>4. \A s \in told : phase[s] = "PLACEMENT_WAITING" /\ s \notin aborted /\ kept[s] = {}
  BY <1>0, <1>3 DEF Phases, Ended
<1>5. Range(<< >>) = {} /\ Len(<< >>) = 0 /\ << >> \in Seq(Nat) /\ << >> \in Seq(Session) BY DEF Range
<1>6. Ledger(pool, grants, released, Held, revoked)'
  <2>1. \A s \in Session : Held[s] = Range(calls[s]) \cup kept[s] /\ Held'[s] = Range(calls'[s]) \cup kept[s]
    BY <1>1 DEF Held
  <2>2. \A s \in Session : IF s \in revoked THEN Held'[s] = {} /\ Held[s] = Range(calls[s])
                           ELSE Held'[s] = Held[s]
    BY <1>1, <1>4, <1>5, <2>1
  <2>3. \A s \in Session : Held'[s] \subseteq Held[s] BY <2>2
  <2>4. ASSUME NEW x PROVE x \in released' <=> x \in released \/ \E s \in Session : x \in Held[s] \ Held'[s]
    <3>1. x \in released' <=> x \in released \/ \E s \in revoked : x \in Range(calls[s]) BY <1>1
    <3>2. \A s \in revoked : s \in Session BY <1>3
    <3>. QED BY <2>2, <3>1, <3>2
  <2>5. \A s \in Session : s \notin {} => s \notin revoked \/ Held'[s] = {} BY <2>2
  <2>6. Ledger(pool, grants, released', Held', {}) BY <1>0, <2>3, <2>4, <2>5, LedgerDropped
  <2>. QED BY <1>1, <2>6
<1>7. Typed'
  <2>1. calls' \in [Session -> Seq(Nat)] BY <1>0, <1>1, <1>5 DEF Typed
  <2>2. phase' \in [Session -> Phase] BY <1>0, <1>1 DEF Typed, Phase
  <2>3. wake' \in BOOLEAN BY <1>0, <1>1 DEF Typed
  <2>. QED BY <1>0, <1>1, <1>2, <1>5, <2>1, <2>2, <2>3 DEF Typed
<1>8. GrantsOpen'
  <2>1. ASSUME NEW k \in DOMAIN grants PROVE k[2] > Len(calls'[k[1]]) /\ phase'[k[1]] \notin Ended
    <3>1. k[1] \in Session /\ k[2] \in Nat /\ k[2] > Len(calls[k[1]]) /\ phase[k[1]] \notin Ended
      BY <1>0 DEF GrantsOpen
    <3>2. Len(calls[k[1]]) \in Nat BY <1>0, <3>1, Cleared
    <3>3. k[2] > 0 BY <3>1, <3>2
    <3>4. calls'[k[1]] = << >> \/ calls'[k[1]] = calls[k[1]] BY <1>1, <3>1
    <3>5. phase'[k[1]] = "IDLE" \/ phase'[k[1]] = phase[k[1]] BY <1>1, <3>1
    <3>6. k[2] > Len(calls'[k[1]]) BY <1>5, <3>1, <3>3, <3>4
    <3>7. phase'[k[1]] \notin Ended BY <3>1, <3>5 DEF Ended
    <3>. QED BY <3>6, <3>7
  <2>. QED BY <1>0, <1>1, <2>1 DEF GrantsOpen
<1>9. Phases'
  <2>1. \A s \in Session : s \notin told => (Granted(s)' <=> Granted(s)) /\ IndexOf(s)' = IndexOf(s) /\ phase'[s] = phase[s] /\ calls'[s] = calls[s]
    BY <1>1 DEF Granted, IndexOf
  <2>2. ASSUME NEW s \in Session, s \notin told
        PROVE  /\ phase'[s] \in {"REFUSED", "PLACEMENT_WAITING"} => IndexOf(s)' <= Len(program'[s])
               /\ phase'[s] = "REFUSED" => ~ Granted(s)'
               /\ phase'[s] = "PLACEMENT_WAITING" /\ s \notin aborted' => s \in Range(pending')
               /\ phase'[s] = "PLACEMENT_WAITING" /\ s \notin aborted' /\ Granted(s)' => s \in Range(ready')
               /\ s \in Range(pending') => phase'[s] = "PLACEMENT_WAITING" /\ s \notin aborted'
               /\ phase'[s] \in Ended => calls'[s] = << >>
               /\ phase'[s] \notin Ended => kept'[s] = {}
    BY <1>0, <1>1, <1>2, <2>1, <2>2 DEF Phases
  <2>3. ASSUME NEW s \in Session, s \in told
        PROVE  phase'[s] = "IDLE" /\ s \notin Range(pending') /\ kept'[s] = {}
    BY <1>1, <1>2, <1>4, <2>3
  <2>. HIDE DEF told
  <2>. QED BY <2>2, <2>3 DEF Phases, Ended
<1>10. Rounds' BY <1>1, <1>5 DEF Rounds
<1>. QED BY <1>6, <1>7, <1>8, <1>9, <1>10 DEF PlacementInv

LEMMA StepKeeps == PlacementInv /\ [Next]_vars => PlacementInv'
<1>. SUFFICES ASSUME PlacementInv, [Next]_vars PROVE PlacementInv' OBVIOUS
<1>1. CASE UNCHANGED vars BY <1>1, StutterKeeps
<1>2. ASSUME NEW s \in Session,
             \/ Dispatch(s) \/ Work(s) \/ Retry(s) \/ Release(s)
             \/ Handle(s) \/ Pin(s) \/ Unpin(s) \/ Abort(s)
      PROVE  PlacementInv'
  <2>1. CASE Dispatch(s) BY <2>1, DispatchKeeps
  <2>2. CASE Reserve(s)
    <3>1. CASE TakeGrant(s) BY <2>2, <3>1, TakeGrantKeeps
    <3>2. CASE ~ TakeGrant(s) BY <2>2, <3>2, ReserveKeeps
    <3>. QED BY <3>1, <3>2
  <2>3. CASE Finish(s) BY <2>3, FinishKeeps
  <2>4. CASE Retry(s) BY <2>4, RetryKeeps
  <2>5. CASE Release(s) BY <2>5, ReleaseKeeps
  <2>6. CASE Collect(s) BY <2>6, CollectKeeps
  <2>7. CASE Drain(s) BY <2>7, DrainKeeps
  <2>8. CASE Abort(s) BY <2>8, AbortKeeps
  <2>9. CASE Pin(s) \/ Unpin(s) BY <2>9, PinsKeep
  <2>. QED BY <1>2, <2>1, <2>2, <2>3, <2>4, <2>5, <2>6, <2>7, <2>8, <2>9 DEF Work, Handle
<1>3. CASE Reconcile
  <2>1. CASE Resolve BY <2>1, ResolveKeeps
  <2>2. CASE Evict BY <2>2, EvictKeeps
  <2>3. CASE ResolveOne BY <2>3, ResolveOneKeeps
  <2>4. CASE Recover BY <2>4, RecoverKeeps
  <2>5. CASE Tell BY <2>5, TellKeeps
  <2>6. CASE Unload BY <2>6, UnloadKeeps
  <2>. QED BY <1>3, <2>1, <2>2, <2>3, <2>4, <2>5, <2>6 DEF Reconcile
<1>4. CASE Idle
  <2>1. UNCHANGED vars BY <1>4 DEF Idle
  <2>. QED BY <2>1, StutterKeeps
<1>. QED BY <1>1, <1>2, <1>3, <1>4 DEF Next

LEMMA AlwaysPlacementInv == Spec => []PlacementInv
<1>. QED BY InitHolds, StepKeeps, PTL DEF Spec

LEMMA InvGivesAccounts == PlacementInv => Accounts
<1>. SUFFICES ASSUME PlacementInv PROVE Accounts OBVIOUS
<1>1. Typed /\ GrantsOpen /\ SoundPool(pool) /\ Apart(grants, released, Held)
  BY DEF PlacementInv, Ledger
<1>2. Recorded(pool) /\ \A d \in Device : Balanced(pool, d) BY <1>1 DEF SoundPool
<1>3. CapacityRespected BY <1>2 DEF CapacityRespected, Balanced
<1>4. ASSUME NEW key \in DOMAIN grants PROVE key[1] \in Session /\ key[2] \in 1..Len(program[key[1]])
  <2>1. key[1] \in Session /\ key[2] \in Nat BY <1>1 DEF GrantsOpen
  <2>2. key[2] <= Len(program[key[1]]) /\ key[2] > Len(calls[key[1]]) BY <1>1 DEF GrantsOpen
  <2>3. Len(calls[key[1]]) \in Nat BY <1>1, <2>1, Cleared
  <2>4. program \in [Session -> Seq(Request)] BY <1>1, ConstantsAssumption DEF Typed
  <2>5. Len(program[key[1]]) \in Nat BY <2>1, <2>4
  <2>. QED BY <2>1, <2>2, <2>3, <2>5
<1>5. TypeOK BY <1>1, <1>2, <1>4 DEF TypeOK, Ids, Typed, Recorded, Apart
<1>. QED BY <1>3, <1>5 DEF Accounts

LEMMA InvGivesLeases == PlacementInv => LeasesAccounted
<1>. SUFFICES ASSUME PlacementInv PROVE LeasesAccounted OBVIOUS
<1>1. Typed /\ Phases /\ Rounds /\ Owned(pool, grants, released, Held, revoked)
  BY DEF PlacementInv, Ledger
<1>2. \A s \in Session : Held[s] = Range(calls[s]) \cup kept[s] BY DEF Held
<1>3. ASSUME NEW s \in Session
      PROVE  /\ phase[s] # "PLACEMENT_WAITING" => Range(calls[s]) \subseteq Ids
             /\ s \notin revoked => Range(calls[s]) \subseteq Ids
             /\ kept[s] \subseteq Ids
             /\ \A id \in Ids \cap (Range(calls[s]) \cup kept[s]) : pool.placements[id].owner = s
  <2>1. s \in revoked => phase[s] = "PLACEMENT_WAITING" BY <1>1 DEF Rounds, Phases
  <2>2. kept[s] # {} => s \notin revoked BY <1>1, <2>1 DEF Phases, Ended
  <2>3. s \notin revoked => Held[s] \subseteq Ids BY <1>1 DEF Owned, Ids
  <2>4. \A id \in Held[s] \cap Ids : pool.placements[id].owner = s BY <1>1 DEF Owned, Ids
  <2>. QED BY <1>2, <2>1, <2>2, <2>3, <2>4
<1>4. ASSUME NEW id \in Ids PROVE id \in Leases \cup released \cup Range(grants)
  <2>1. id \in released \cup Range(grants) \/ \E s \in Session : id \in Held[s] BY <1>1 DEF Owned, Ids
  <2>2. ASSUME NEW s \in Session, id \in Held[s] PROVE id \in Leases BY <1>2, <2>2 DEF Leases
  <2>. QED BY <2>1, <2>2
<1>. QED BY <1>3, <1>4 DEF LeasesAccounted, LeasesBacked, NothingLeaked

LEMMA InvGivesGrants == PlacementInv => GrantsAwaited
<1>. SUFFICES ASSUME PlacementInv PROVE GrantsAwaited OBVIOUS
<1>1. Typed /\ GrantsOpen /\ Phases /\ Rounds /\ Owned(pool, grants, released, Held, revoked)
  BY DEF PlacementInv, Ledger
<1>2. ASSUME NEW key \in DOMAIN grants
      PROVE  /\ grants[key] \in Ids /\ pool.placements[grants[key]].owner = key[1]
             /\ key[1] \notin aborted /\ phase[key[1]] \notin Ended
             /\ key[2] > Len(calls[key[1]])
  BY <1>1 DEF Owned, Ids, GrantsOpen
<1>3. ASSUME pc = "IDLE", NEW s \in Session, phase[s] = "PLACEMENT_WAITING", s \notin aborted
      PROVE  Contains(pending, s) /\ ~ Granted(s)
  <2>1. s \in Range(pending) /\ (Granted(s) => s \in Range(ready)) BY <1>1, <1>3 DEF Phases
  <2>2. Range(ready) = {} BY <1>1, <1>3 DEF Rounds, Range
  <2>3. pending \in Seq(Session) BY <1>1 DEF Typed
  <2>4. Contains(pending, s) BY <2>1, <2>3 DEF Contains, Range
  <2>. QED BY <2>1, <2>2, <2>4
<1>. QED BY <1>2, <1>3 DEF GrantsAwaited

\* Whatever sessions, devices, capacities and requests there are: the accounts
\* of a device are those of the reservations on it, no device is given more
\* than it has, and what is reserved exclusively is alone (DeviceAllocator and
\* PlacementController, on every path that reserves, frees, cancels or revokes).
THEOREM AccountsHold == Spec => []Accounts
<1>. QED BY AlwaysPlacementInv, InvGivesAccounts, PTL

\* Nobody has a lease on what is not reserved for it, and nothing stays reserved
\* that no lease, grant or queued finalizer will give back (_PlacementLease and
\* _collect_released), however executors and the coordinator interleave.
THEOREM LeasesStayAccounted == Spec => []LeasesAccounted
<1>. QED BY AlwaysPlacementInv, InvGivesLeases, PTL

\* Nothing is granted to a context that was cancelled or for a call that was
\* made, and a session that waits is registered, or was told of its grant
\* before the reconciliation ended (resolve, recover_stuck, cancel_context).
THEOREM GrantsStayAwaited == Spec => []GrantsAwaited
<1>. QED BY AlwaysPlacementInv, InvGivesGrants, PTL
=============================================================================
