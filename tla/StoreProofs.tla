----------------------------- MODULE StoreProofs -----------------------------
(***************************************************************************)
(* The accounting of a store that several lanes write, maintain and upgrade *)
(* is that of its rows after every transaction (StoreSound), and what the   *)
(* lanes are told and the ledger counts is what has been stored, once       *)
(* (StoredOnce), whatever the evidence, the policies, the clock and the     *)
(* failures.                                                                *)
(*                                                                          *)
(* The first invariant is a predicate of one store, Sound, that every       *)
(* operator of Store keeps, even within a transaction that is refused in    *)
(* the end.  The second is OnceInv: what a store knows by its rows has been *)
(* told, and every lane knows of each of its facts whether it has been.     *)
(***************************************************************************)
EXTENDS StoreReaders, QueueFacts

-----------------------------------------------------------------------------
(* What is sound                                                           *)

Fields == {"schema", "policy", "publication", "clock", "producers", "contexts", "sessions", "layouts",
           "profiles", "ledger", "counts", "applied", "error"}

\* A store is a record with these fields.
Whole(d) == d = [f \in Fields |-> d[f]]

Counted(rows, n) == IsFiniteSet(DOMAIN rows) /\ n = Cardinality(DOMAIN rows)

SessionRow == [started : BOOLEAN, shutdown : Nat \cup {Never}, refs : Int, publication : Nat]

Timed(contexts) == \A k \in DOMAIN contexts : contexts[k].at \in Nat /\ contexts[k].publication \in Nat
Learned(profiles) == \A k \in DOMAIN profiles : profiles[k].updated \in Nat /\ profiles[k].publication \in Nat
Dated(producers) == \A p \in DOMAIN producers : producers[p].expires \in Nat
Typed(sessions) == sessions \in [DOMAIN sessions -> SessionRow]
Shared(layouts) == layouts \in [DOMAIN layouts -> [refs : Int]] /\ Never \notin DOMAIN layouts

\* Every table by itself, and then what relates them.
Tables(d) ==
    /\ Counted(d.contexts, d.counts["contexts"]) /\ Timed(d.contexts)
    /\ Counted(d.sessions, d.counts["sessions"]) /\ Typed(d.sessions)
    /\ Counted(d.layouts, d.counts["layouts"]) /\ Shared(d.layouts)
    /\ Counted(d.profiles, d.counts["profiles"]) /\ Learned(d.profiles)
    /\ Counted(d.producers, d.counts["producers"]) /\ Dated(d.producers)

Related(d) ==
    /\ SessionsHeld(d.contexts, d.sessions)
    /\ LayoutsUsed(d.contexts, d.layouts)
    /\ Published(d.contexts, d.publication)
    /\ Published(d.sessions, d.publication)
    /\ Published(d.profiles, d.publication)

Sound(d) ==
    /\ Whole(d) /\ d.counts \in [Counters -> Int] /\ d.publication \in Nat /\ d.clock \in Nat
    /\ Tables(d) /\ Related(d)

-----------------------------------------------------------------------------
(* One table                                                               *)

LEMMA LessRows ==
    ASSUME NEW f, NEW k
    PROVE  /\ DOMAIN Less(f, k) = DOMAIN f \ {k}
           /\ \A x \in DOMAIN f \ {k} : Less(f, k)[x] = f[x]
BY DEF Less, Restrict

LEMMA WithRow ==
    ASSUME NEW f, NEW k, NEW v
    PROVE  /\ DOMAIN With(f, k, v) = DOMAIN f \cup {k}
           /\ \A x \in DOMAIN f \ {k} : With(f, k, v)[x] = f[x]
           /\ With(f, k, v)[k] = v
BY DEF With

LEMMA CountedLess ==
    ASSUME NEW f, NEW n, Counted(f, n), NEW k \in DOMAIN f
    PROVE  Counted(Less(f, k), n - 1) /\ n \in Nat
<1>1. DOMAIN Less(f, k) = DOMAIN f \ {k} BY LessRows
<1>2. IsFiniteSet(DOMAIN f \ {k}) /\ Cardinality(DOMAIN f \ {k}) = Cardinality(DOMAIN f) - 1
  BY FS_RemoveElement DEF Counted
<1>3. n \in Nat BY FS_CardinalityType DEF Counted
<1>. QED BY <1>1, <1>2, <1>3 DEF Counted

LEMMA CountedMore ==
    ASSUME NEW f, NEW n, Counted(f, n), NEW k, k \notin DOMAIN f, NEW g, DOMAIN g = DOMAIN f \cup {k}
    PROVE  Counted(g, n + 1) /\ n \in Nat
<1>1. IsFiniteSet(DOMAIN f \cup {k}) /\ Cardinality(DOMAIN f \cup {k}) = Cardinality(DOMAIN f) + 1
  BY FS_AddElement DEF Counted
<1>2. n \in Nat BY FS_CardinalityType DEF Counted
<1>. QED BY <1>1, <1>2 DEF Counted

LEMMA CountedSame ==
    ASSUME NEW f, NEW n, Counted(f, n), NEW g, DOMAIN g = DOMAIN f
    PROVE  Counted(g, n)
BY DEF Counted

LEMMA PublishedLess ==
    ASSUME NEW f, NEW last, Published(f, last), NEW k
    PROVE  Published(Less(f, k), last)
<1>1. \A x \in DOMAIN Less(f, k) : x \in DOMAIN f /\ Less(f, k)[x] = f[x] BY LessRows
<1>. QED BY <1>1 DEF Published

LEMMA PublishedLater ==
    ASSUME NEW f, NEW last \in Nat, Published(f, last), \A k \in DOMAIN f : f[k].publication \in Nat
    PROVE  Published(f, last + 1)
BY DEF Published

\* A row that is written takes the next publication.
LEMMA PublishedMore ==
    ASSUME NEW f, NEW last \in Nat, Published(f, last), \A x \in DOMAIN f : f[x].publication \in Nat,
           NEW k, NEW g, DOMAIN g = DOMAIN f \cup {k}, g[k].publication = last + 1,
           \A x \in DOMAIN f \ {k} : g[x].publication = f[x].publication
    PROVE  Published(g, last + 1)
<1>1. ASSUME NEW x \in DOMAIN g, x # k PROVE g[x].publication \in Nat /\ g[x].publication <= last
  BY <1>1 DEF Published
<1>2. ASSUME NEW x \in DOMAIN g PROVE g[x].publication <= last + 1
  BY <1>1
<1>3. ASSUME NEW x \in DOMAIN g, NEW y \in DOMAIN g, g[x].publication = g[y].publication PROVE x = y
  <2>1. CASE x = k
    <3>1. y # k => g[y].publication <= last /\ g[y].publication \in Nat BY <1>1
    <3>2. g[y].publication = last + 1 BY <2>1, <1>3
    <3>. QED BY <3>1, <3>2, <2>1
  <2>2. CASE y = k
    <3>1. x # k => g[x].publication <= last /\ g[x].publication \in Nat BY <1>1
    <3>2. g[x].publication = last + 1 BY <2>2, <1>3
    <3>. QED BY <3>1, <3>2, <2>2
  <2>3. CASE x # k /\ y # k
    <3>1. f[x].publication = f[y].publication /\ x \in DOMAIN f /\ y \in DOMAIN f BY <2>3, <1>3
    <3>. QED BY <3>1 DEF Published
  <2>. QED BY <2>1, <2>2, <2>3
<1>. QED BY <1>2, <1>3 DEF Published

LEMMA PublishedSame ==
    ASSUME NEW f, NEW last, Published(f, last), NEW g, DOMAIN g = DOMAIN f,
           \A x \in DOMAIN f : g[x].publication = f[x].publication
    PROVE  Published(g, last)
BY DEF Published

LEMMA TimedLess ==
    ASSUME NEW f, NEW k
    PROVE  /\ Timed(f) => Timed(Less(f, k))
           /\ Learned(f) => Learned(Less(f, k))
           /\ Dated(f) => Dated(Less(f, k))
<1>1. \A x \in DOMAIN Less(f, k) : x \in DOMAIN f /\ Less(f, k)[x] = f[x] BY LessRows
<1>. QED BY <1>1 DEF Timed, Learned, Dated

LEMMA TypedLess ==
    ASSUME NEW f, NEW k
    PROVE  /\ Typed(f) => Typed(Less(f, k))
           /\ Shared(f) => Shared(Less(f, k))
BY DEF Typed, Shared, Less, Restrict

-----------------------------------------------------------------------------
(* Contexts and the sessions and layouts that they hold                    *)

LEMMA PartLess ==
    ASSUME NEW f, NEW n, Counted(f, n), NEW k \in DOMAIN f, NEW x
    PROVE  /\ ContextsOf(Less(f, k), x) = ContextsOf(f, x) \ {k}
           /\ UsersOf(Less(f, k), x) = UsersOf(f, x) \ {k}
           /\ IsFiniteSet(ContextsOf(f, x)) /\ IsFiniteSet(UsersOf(f, x))
<1>1. \A y : y \in DOMAIN Less(f, k) <=> y \in DOMAIN f /\ y # k BY LessRows
<1>2. \A y \in DOMAIN f : y # k => Less(f, k)[y] = f[y] BY LessRows
<1>3. ContextsOf(f, x) \subseteq DOMAIN f /\ UsersOf(f, x) \subseteq DOMAIN f BY DEF ContextsOf, UsersOf
<1>4. ContextsOf(Less(f, k), x) = ContextsOf(f, x) \ {k} BY <1>1, <1>2 DEF ContextsOf
<1>5. UsersOf(Less(f, k), x) = UsersOf(f, x) \ {k} BY <1>1, <1>2 DEF UsersOf
<1>. QED BY <1>3, <1>4, <1>5, FS_Subset DEF Counted

LEMMA PartWith ==
    ASSUME NEW f, NEW n, Counted(f, n), NEW k, k \notin DOMAIN f, NEW row, NEW x
    PROVE  /\ ContextsOf(With(f, k, row), x)
                = IF row.session = x THEN ContextsOf(f, x) \cup {k} ELSE ContextsOf(f, x)
           /\ UsersOf(With(f, k, row), x)
                = IF row.layout = x THEN UsersOf(f, x) \cup {k} ELSE UsersOf(f, x)
           /\ k \notin ContextsOf(f, x) /\ k \notin UsersOf(f, x)
           /\ IsFiniteSet(ContextsOf(f, x)) /\ IsFiniteSet(UsersOf(f, x))
<1>1. \A y : y \in DOMAIN With(f, k, row) <=> y \in DOMAIN f \/ y = k BY DEF With
<1>2. \A y \in DOMAIN f : y # k /\ With(f, k, row)[y] = f[y] BY DEF With
<1>0. With(f, k, row)[k] = row BY DEF With
<1>3. ContextsOf(f, x) \subseteq DOMAIN f /\ UsersOf(f, x) \subseteq DOMAIN f BY DEF ContextsOf, UsersOf
<1>4. ContextsOf(With(f, k, row), x) = IF row.session = x THEN ContextsOf(f, x) \cup {k} ELSE ContextsOf(f, x)
  BY <1>0, <1>1, <1>2 DEF ContextsOf
<1>5. UsersOf(With(f, k, row), x) = IF row.layout = x THEN UsersOf(f, x) \cup {k} ELSE UsersOf(f, x)
  BY <1>0, <1>1, <1>2 DEF UsersOf
<1>. QED BY <1>3, <1>4, <1>5, FS_Subset DEF Counted

LEMMA HeldLess ==
    ASSUME NEW f, NEW n, Counted(f, n), NEW sessions, SessionsHeld(f, sessions), NEW k \in DOMAIN f,
           NEW g, DOMAIN g = DOMAIN sessions,
           \A s \in DOMAIN g : g[s].refs = IF s = f[k].session THEN sessions[s].refs - 1 ELSE sessions[s].refs
    PROVE  SessionsHeld(Less(f, k), g)
<1>1. ASSUME NEW x \in DOMAIN Less(f, k) PROVE Less(f, k)[x].session \in DOMAIN g
  <2>1. x \in DOMAIN f /\ Less(f, k)[x] = f[x] BY DEF Less, Restrict
  <2>. QED BY <2>1 DEF SessionsHeld
<1>2. ASSUME NEW s \in DOMAIN g PROVE g[s].refs = Cardinality(ContextsOf(Less(f, k), s))
  <2>. DEFINE C == ContextsOf(f, s)
  <2>1. ContextsOf(Less(f, k), s) = C \ {k} /\ IsFiniteSet(C) BY PartLess
  <2>2. Cardinality(C \ {k}) = IF k \in C THEN Cardinality(C) - 1 ELSE Cardinality(C) BY <2>1, FS_RemoveElement
  <2>3. k \in C <=> s = f[k].session BY DEF ContextsOf
  <2>4. sessions[s].refs = Cardinality(C) BY DEF SessionsHeld
  <2>. QED BY <2>1, <2>2, <2>3, <2>4
<1>. QED BY <1>1, <1>2 DEF SessionsHeld

LEMMA HeldMore ==
    ASSUME NEW f, NEW n, Counted(f, n), NEW sessions, SessionsHeld(f, sessions), NEW k, k \notin DOMAIN f,
           NEW row, row.session \in DOMAIN sessions, NEW g, DOMAIN g = DOMAIN sessions,
           \A s \in DOMAIN g : g[s].refs = IF s = row.session THEN sessions[s].refs + 1 ELSE sessions[s].refs
    PROVE  SessionsHeld(With(f, k, row), g)
<1>1. ASSUME NEW x \in DOMAIN With(f, k, row) PROVE With(f, k, row)[x].session \in DOMAIN g
  <2>1. x = k \/ x \in DOMAIN f \ {k} BY DEF With
  <2>2. With(f, k, row)[x] = IF x = k THEN row ELSE f[x] BY <2>1 DEF With
  <2>. QED BY <2>1, <2>2 DEF SessionsHeld
<1>2. ASSUME NEW s \in DOMAIN g PROVE g[s].refs = Cardinality(ContextsOf(With(f, k, row), s))
  <2>. DEFINE C == ContextsOf(f, s)
  <2>1. /\ ContextsOf(With(f, k, row), s) = IF row.session = s THEN C \cup {k} ELSE C
        /\ IsFiniteSet(C) /\ k \notin C
    BY PartWith
  <2>2. Cardinality(C \cup {k}) = Cardinality(C) + 1 BY <2>1, FS_AddElement
  <2>3. sessions[s].refs = Cardinality(C) BY DEF SessionsHeld
  <2>. QED BY <2>1, <2>2, <2>3
<1>. QED BY <1>1, <1>2 DEF SessionsHeld

\* Nobody refers to a session that is opened or goes.
LEMMA HeldForget ==
    ASSUME NEW f, NEW n, Counted(f, n), NEW sessions, SessionsHeld(f, sessions),
           NEW s \in DOMAIN sessions, sessions[s].refs = 0
    PROVE  SessionsHeld(f, Less(sessions, s))
<1>1. IsFiniteSet(ContextsOf(f, s))
  <2>1. ContextsOf(f, s) \subseteq DOMAIN f BY DEF ContextsOf
  <2>. QED BY <2>1, FS_Subset DEF Counted
<1>2. ContextsOf(f, s) = {} BY <1>1, FS_EmptySet DEF SessionsHeld
<1>3. \A k \in DOMAIN f : f[k].session \in DOMAIN sessions \ {s} BY <1>2 DEF ContextsOf, SessionsHeld
<1>. QED BY <1>3 DEF SessionsHeld, Less, Restrict

LEMMA HeldOpen ==
    ASSUME NEW f, NEW n, Counted(f, n), NEW sessions, SessionsHeld(f, sessions),
           NEW s, s \notin DOMAIN sessions, NEW row, row.refs = 0
    PROVE  SessionsHeld(f, With(sessions, s, row))
<1>1. ContextsOf(f, s) = {} BY DEF SessionsHeld, ContextsOf
<1>2. Cardinality(ContextsOf(f, s)) = 0 BY <1>1, FS_EmptySet
<1>3. /\ DOMAIN With(sessions, s, row) = DOMAIN sessions \cup {s}
      /\ \A x \in DOMAIN sessions \ {s} : With(sessions, s, row)[x] = sessions[x]
      /\ With(sessions, s, row)[s] = row
  BY DEF With
<1>. QED BY <1>2, <1>3 DEF SessionsHeld

LEMMA HeldSame ==
    ASSUME NEW f, NEW sessions, SessionsHeld(f, sessions), NEW g, DOMAIN g = DOMAIN sessions,
           \A s \in DOMAIN sessions : g[s].refs = sessions[s].refs
    PROVE  SessionsHeld(f, g)
BY DEF SessionsHeld

LEMMA UsedLess ==
    ASSUME NEW f, NEW n, Counted(f, n), NEW layouts, Shared(layouts), LayoutsUsed(f, layouts),
           NEW k \in DOMAIN f, NEW l, l = f[k].layout
    PROVE  /\ l = Never => LayoutsUsed(Less(f, k), layouts)
           /\ l # Never => l \in DOMAIN layouts
           /\ l # Never /\ layouts[l].refs = 1 => LayoutsUsed(Less(f, k), Less(layouts, l))
           /\ l # Never /\ layouts[l].refs # 1 =>
                  LayoutsUsed(Less(f, k), [layouts EXCEPT ![l].refs = @ - 1])
<1>1. /\ \A x : x \in DOMAIN Less(f, k) <=> x \in DOMAIN f /\ x # k
      /\ \A x \in DOMAIN f : x # k => Less(f, k)[x] = f[x]
  BY DEF Less, Restrict
<1>2. \A x \in DOMAIN layouts : layouts[x].refs = Cardinality(UsersOf(f, x)) /\ layouts[x].refs > 0
  BY DEF LayoutsUsed
<1>3. \A x \in DOMAIN layouts : layouts[x] \in [refs : Int] BY DEF Shared
<1>4. ASSUME NEW x
      PROVE  /\ UsersOf(Less(f, k), x) = UsersOf(f, x) \ {k} /\ IsFiniteSet(UsersOf(f, x))
             /\ k \in UsersOf(f, x) <=> x = l
             /\ Cardinality(UsersOf(Less(f, k), x))
                    = IF x = l THEN Cardinality(UsersOf(f, x)) - 1 ELSE Cardinality(UsersOf(f, x))
  <2>1. UsersOf(Less(f, k), x) = UsersOf(f, x) \ {k} /\ IsFiniteSet(UsersOf(f, x)) BY PartLess
  <2>2. k \in UsersOf(f, x) <=> x = l BY DEF UsersOf
  <2>3. Cardinality(UsersOf(f, x) \ {k}) = IF k \in UsersOf(f, x) THEN Cardinality(UsersOf(f, x)) - 1
                                            ELSE Cardinality(UsersOf(f, x))
    BY <2>1, FS_RemoveElement
  <2>. QED BY <2>1, <2>2, <2>3
<1>5. \A x \in DOMAIN f : f[x].layout \in DOMAIN layouts \cup {Never} BY DEF LayoutsUsed
<1>6. l # Never => l \in DOMAIN layouts BY <1>5
<1>7. ASSUME l = Never PROVE LayoutsUsed(Less(f, k), layouts)
  <2>1. \A x \in DOMAIN layouts : x # l BY <1>7 DEF Shared
  <2>2. \A x \in DOMAIN layouts : Cardinality(UsersOf(Less(f, k), x)) = Cardinality(UsersOf(f, x)) BY <1>4, <2>1
  <2>. QED BY <1>1, <1>2, <1>5, <2>2 DEF LayoutsUsed
<1>8. ASSUME l # Never, layouts[l].refs = 1 PROVE LayoutsUsed(Less(f, k), Less(layouts, l))
  <2>1. Cardinality(UsersOf(Less(f, k), l)) = 0 BY <1>2, <1>4, <1>6, <1>8
  <2>2. UsersOf(Less(f, k), l) = {}
    <3>1. IsFiniteSet(UsersOf(f, l) \ {k}) BY <1>4, FS_Subset
    <3>. QED BY <1>4, <2>1, <3>1, FS_EmptySet
  <2>3. \A x \in DOMAIN Less(f, k) : Less(f, k)[x].layout # l BY <2>2 DEF UsersOf
  <2>4. /\ \A x : x \in DOMAIN Less(layouts, l) <=> x \in DOMAIN layouts /\ x # l
        /\ \A x \in DOMAIN layouts : x # l => Less(layouts, l)[x] = layouts[x]
    BY DEF Less, Restrict
  <2>5. \A x \in DOMAIN layouts : x # l => Cardinality(UsersOf(Less(f, k), x)) = Cardinality(UsersOf(f, x))
    BY <1>4
  <2>. QED BY <1>1, <1>2, <1>5, <2>3, <2>4, <2>5 DEF LayoutsUsed
<1>9. ASSUME l # Never, layouts[l].refs # 1
      PROVE  LayoutsUsed(Less(f, k), [layouts EXCEPT ![l].refs = @ - 1])
  <2>. DEFINE g == [layouts EXCEPT ![l].refs = @ - 1]
  <2>1. DOMAIN g = DOMAIN layouts OBVIOUS
  <2>2. \A x \in DOMAIN layouts : g[x].refs = IF x = l THEN layouts[x].refs - 1 ELSE layouts[x].refs
    BY <1>3
  <2>. HIDE DEF g
  <2>3. \A x \in DOMAIN g : g[x].refs = Cardinality(UsersOf(Less(f, k), x))
    BY <1>2, <1>4, <2>1, <2>2
  <2>4. \A x \in DOMAIN g : g[x].refs > 0
    <3>1. layouts[l].refs \in Int /\ layouts[l].refs > 0 BY <1>2, <1>3, <1>6, <1>9
    <3>2. layouts[l].refs - 1 > 0 BY <3>1, <1>9
    <3>. QED BY <1>2, <2>1, <2>2, <3>2
  <2>5. LayoutsUsed(Less(f, k), g) BY <1>1, <1>5, <2>1, <2>3, <2>4 DEF LayoutsUsed
  <2>. QED BY <2>5 DEF g
<1>. QED BY <1>6, <1>7, <1>8, <1>9

LEMMA UsedMore ==
    ASSUME NEW f, NEW n, Counted(f, n), NEW layouts, Shared(layouts), LayoutsUsed(f, layouts),
           NEW k, k \notin DOMAIN f, NEW row, NEW l, l = row.layout
    PROVE  /\ l = Never => LayoutsUsed(With(f, k, row), layouts)
           /\ l \in DOMAIN layouts => LayoutsUsed(With(f, k, row), [layouts EXCEPT ![l].refs = @ + 1])
           /\ l # Never /\ l \notin DOMAIN layouts =>
                  LayoutsUsed(With(f, k, row), With(layouts, l, [refs |-> 1]))
<1>1. /\ \A x : x \in DOMAIN With(f, k, row) <=> x \in DOMAIN f \/ x = k
      /\ \A x \in DOMAIN f : x # k /\ With(f, k, row)[x] = f[x]
      /\ With(f, k, row)[k] = row
  BY DEF With
<1>2. \A x \in DOMAIN layouts : layouts[x].refs = Cardinality(UsersOf(f, x)) /\ layouts[x].refs > 0
  BY DEF LayoutsUsed
<1>3. \A x \in DOMAIN layouts : layouts[x] \in [refs : Int] BY DEF Shared
<1>4. ASSUME NEW x
      PROVE  Cardinality(UsersOf(With(f, k, row), x))
                 = IF x = l THEN Cardinality(UsersOf(f, x)) + 1 ELSE Cardinality(UsersOf(f, x))
  <2>1. /\ UsersOf(With(f, k, row), x) = IF l = x THEN UsersOf(f, x) \cup {k} ELSE UsersOf(f, x)
        /\ k \notin UsersOf(f, x) /\ IsFiniteSet(UsersOf(f, x))
    BY PartWith
  <2>2. Cardinality(UsersOf(f, x) \cup {k}) = Cardinality(UsersOf(f, x)) + 1 BY <2>1, FS_AddElement
  <2>. QED BY <2>1, <2>2
<1>5. \A x \in DOMAIN f : f[x].layout \in DOMAIN layouts \cup {Never} BY DEF LayoutsUsed
<1>6. ASSUME l = Never PROVE LayoutsUsed(With(f, k, row), layouts)
  <2>1. \A x \in DOMAIN layouts : x # l BY <1>6 DEF Shared
  <2>2. \A x \in DOMAIN layouts : Cardinality(UsersOf(With(f, k, row), x)) = Cardinality(UsersOf(f, x))
    BY <1>4, <2>1
  <2>3. \A x \in DOMAIN With(f, k, row) : With(f, k, row)[x].layout \in DOMAIN layouts \cup {Never}
    BY <1>1, <1>5, <1>6
  <2>. QED BY <1>2, <2>2, <2>3 DEF LayoutsUsed
<1>7. ASSUME l \in DOMAIN layouts PROVE LayoutsUsed(With(f, k, row), [layouts EXCEPT ![l].refs = @ + 1])
  <2>. DEFINE g == [layouts EXCEPT ![l].refs = @ + 1]
  <2>1. DOMAIN g = DOMAIN layouts OBVIOUS
  <2>2. \A x \in DOMAIN layouts : g[x].refs = IF x = l THEN layouts[x].refs + 1 ELSE layouts[x].refs
    BY <1>3
  <2>. HIDE DEF g
  <2>3. \A x \in DOMAIN g : g[x].refs = Cardinality(UsersOf(With(f, k, row), x)) BY <1>2, <1>4, <2>1, <2>2
  <2>4. \A x \in DOMAIN g : g[x].refs > 0
    <3>1. layouts[l].refs \in Int /\ layouts[l].refs > 0 BY <1>2, <1>3, <1>7
    <3>. QED BY <1>2, <2>1, <2>2, <3>1
  <2>5. \A x \in DOMAIN With(f, k, row) : With(f, k, row)[x].layout \in DOMAIN g \cup {Never}
    BY <1>1, <1>5, <1>7, <2>1
  <2>6. LayoutsUsed(With(f, k, row), g) BY <2>3, <2>4, <2>5 DEF LayoutsUsed
  <2>. QED BY <2>6 DEF g
<1>8. ASSUME l # Never, l \notin DOMAIN layouts
      PROVE  LayoutsUsed(With(f, k, row), With(layouts, l, [refs |-> 1]))
  <2>. DEFINE g == With(layouts, l, [refs |-> 1])
  <2>1. /\ \A x : x \in DOMAIN g <=> x \in DOMAIN layouts \/ x = l
        /\ \A x \in DOMAIN layouts : x # l /\ g[x] = layouts[x]
        /\ g[l].refs = 1
    BY <1>8 DEF With
  <2>. HIDE DEF g
  <2>2. UsersOf(f, l) = {} BY <1>5, <1>8 DEF UsersOf
  <2>3. Cardinality(UsersOf(f, l)) = 0 BY <2>2, FS_EmptySet
  <2>4. \A x \in DOMAIN g : g[x].refs = Cardinality(UsersOf(With(f, k, row), x))
    <3>1. Cardinality(UsersOf(With(f, k, row), l)) = 1 BY <1>4, <2>3
    <3>2. \A x \in DOMAIN layouts : Cardinality(UsersOf(With(f, k, row), x)) = Cardinality(UsersOf(f, x))
      BY <1>4, <2>1
    <3>. QED BY <1>2, <2>1, <3>1, <3>2
  <2>5. \A x \in DOMAIN g : g[x].refs > 0 BY <1>2, <2>1
  <2>6. \A x \in DOMAIN With(f, k, row) : With(f, k, row)[x].layout \in DOMAIN g \cup {Never}
    BY <1>1, <1>5, <2>1
  <2>7. LayoutsUsed(With(f, k, row), g) BY <2>4, <2>5, <2>6 DEF LayoutsUsed
  <2>. QED BY <2>7 DEF g
<1>. QED BY <1>6, <1>7, <1>8

-----------------------------------------------------------------------------
(* One deletion                                                            *)

\* What an operator leaves alone that is not a table.
SameStore(d, e) ==
    e.schema = d.schema /\ e.policy = d.policy /\ e.clock = d.clock /\ e.ledger = d.ledger

\* Or, with a checkpoint of the ledgers L, all but the ledger.
SameOver(d, e, L) ==
    e.schema = d.schema /\ e.policy = d.policy /\ e.clock = d.clock /\ e.ledger \in L \cup {d.ledger}

LEMMA RemoveContextFields ==
    ASSUME NEW d, Whole(d), d.counts \in [Counters -> Int], NEW k, NEW e, e = RemoveContext(d, k), NEW l, l = d.contexts[k].layout
    PROVE  /\ Whole(e) /\ SameStore(d, e) /\ e.publication = d.publication
           /\ e.counts \in [Counters -> Int]
           /\ e.contexts = Less(d.contexts, k)
           /\ e.counts["contexts"] = d.counts["contexts"] - 1
           /\ e.sessions = [d.sessions EXCEPT ![d.contexts[k].session].refs = @ - 1]
           /\ e.counts["sessions"] = d.counts["sessions"]
           /\ e.layouts = LayoutsWithout(d.layouts, l)
           /\ e.counts["layouts"] = (IF l # Never /\ d.layouts[l].refs = 1 THEN d.counts["layouts"] - 1
                                     ELSE d.counts["layouts"])
           /\ e.profiles = d.profiles /\ e.counts["profiles"] = d.counts["profiles"]
           /\ e.producers = d.producers /\ e.counts["producers"] = d.counts["producers"]
           /\ e.applied = d.applied /\ e.error = d.error
<1>. DEFINE last == l # Never /\ d.layouts[l].refs = 1
            lays == LayoutsWithout(d.layouts, l)
            sess == [d.sessions EXCEPT ![d.contexts[k].session].refs = @ - 1]
            rows == Less(d.contexts, k)
            nums == [d.counts EXCEPT !.contexts = @ - 1, !.layouts = IF last THEN @ - 1 ELSE @]
<1>1. e = [d EXCEPT !.contexts = rows, !.counts = nums, !.sessions = sess, !.layouts = lays]
  BY DEF RemoveContext
<1>. HIDE DEF lays, sess, rows, nums
<1>2. /\ Whole(e) /\ SameStore(d, e) /\ e.publication = d.publication
      /\ e.contexts = rows /\ e.sessions = sess /\ e.layouts = lays
      /\ e.profiles = d.profiles /\ e.producers = d.producers
      /\ e.applied = d.applied /\ e.error = d.error
  BY <1>1 DEF Whole, Fields, SameStore
<1>3. e.counts = nums
  BY <1>1 DEF Whole, Fields
<1>. HIDE DEF last
<1>4. /\ nums \in [Counters -> Int]
      /\ nums["contexts"] = d.counts["contexts"] - 1
      /\ nums["sessions"] = d.counts["sessions"] /\ nums["profiles"] = d.counts["profiles"]
      /\ nums["producers"] = d.counts["producers"]
      /\ nums["layouts"] = (IF last THEN d.counts["layouts"] - 1 ELSE d.counts["layouts"])
  <2>. DEFINE one == [d.counts EXCEPT !["contexts"] = @ - 1]
  <2>1. "contexts" \in Counters /\ "layouts" \in Counters /\ "sessions" \in Counters
        /\ "profiles" \in Counters /\ "producers" \in Counters
    BY DEF Counters
  <2>2. /\ one \in [Counters -> Int] /\ one["contexts"] = d.counts["contexts"] - 1
        /\ \A c \in Counters \ {"contexts"} : one[c] = d.counts[c]
    BY <2>1
  <2>. HIDE DEF one
  <2>3. nums = [one EXCEPT !["layouts"] = IF last THEN one["layouts"] - 1 ELSE one["layouts"]]
    BY <2>1, <2>2 DEF nums, one
  <2>4. /\ nums \in [Counters -> Int]
        /\ nums["layouts"] = IF last THEN one["layouts"] - 1 ELSE one["layouts"]
        /\ \A c \in Counters \ {"layouts"} : nums[c] = one[c]
    BY <2>1, <2>2, <2>3
  <2>. QED BY <2>1, <2>2, <2>4
<1>. QED BY <1>2, <1>3, <1>4 DEF last, lays, sess, rows

LEMMA CountersFive ==
    /\ "contexts" \in Counters /\ "layouts" \in Counters /\ "sessions" \in Counters
    /\ "profiles" \in Counters /\ "producers" \in Counters
BY DEF Counters

LEMMA RemoveContextKeeps ==
    ASSUME NEW d, Sound(d), NEW k \in DOMAIN d.contexts
    PROVE  Sound(RemoveContext(d, k)) /\ SameStore(d, RemoveContext(d, k))
<1>. DEFINE l == d.contexts[k].layout
            s == d.contexts[k].session
            sess == [d.sessions EXCEPT ![s].refs = @ - 1]
<1>0. PICK e : e = RemoveContext(d, k) OBVIOUS
<1>1. Whole(d) /\ d.counts \in [Counters -> Int] BY DEF Sound
<1>2. /\ Whole(e) /\ SameStore(d, e) /\ e.publication = d.publication
      /\ e.counts \in [Counters -> Int]
      /\ e.contexts = Less(d.contexts, k)
      /\ e.counts["contexts"] = d.counts["contexts"] - 1
      /\ e.sessions = sess
      /\ e.counts["sessions"] = d.counts["sessions"]
      /\ e.layouts = LayoutsWithout(d.layouts, l)
      /\ e.counts["layouts"] = (IF l # Never /\ d.layouts[l].refs = 1 THEN d.counts["layouts"] - 1
                                ELSE d.counts["layouts"])
      /\ e.profiles = d.profiles /\ e.counts["profiles"] = d.counts["profiles"]
      /\ e.producers = d.producers /\ e.counts["producers"] = d.counts["producers"]
  BY <1>0, <1>1, RemoveContextFields
<1>3. /\ Counted(d.contexts, d.counts["contexts"]) /\ Timed(d.contexts)
      /\ Counted(d.sessions, d.counts["sessions"]) /\ Typed(d.sessions)
      /\ Counted(d.layouts, d.counts["layouts"]) /\ Shared(d.layouts)
      /\ Counted(d.profiles, d.counts["profiles"]) /\ Learned(d.profiles)
      /\ Counted(d.producers, d.counts["producers"]) /\ Dated(d.producers)
      /\ SessionsHeld(d.contexts, d.sessions) /\ LayoutsUsed(d.contexts, d.layouts)
      /\ Published(d.contexts, d.publication) /\ Published(d.sessions, d.publication)
      /\ Published(d.profiles, d.publication)
      /\ d.publication \in Nat /\ d.clock \in Nat
  BY DEF Sound, Tables, Related
<1>4. Counted(e.contexts, e.counts["contexts"]) /\ Timed(e.contexts) /\ Published(e.contexts, e.publication)
  BY <1>2, <1>3, CountedLess, TimedLess, PublishedLess
<1>5. s \in DOMAIN d.sessions BY <1>3 DEF SessionsHeld
<1>6. /\ DOMAIN sess = DOMAIN d.sessions /\ Typed(sess)
      /\ \A x \in DOMAIN d.sessions :
             /\ sess[x].publication = d.sessions[x].publication
             /\ sess[x].refs = IF x = s THEN d.sessions[x].refs - 1 ELSE d.sessions[x].refs
  BY <1>3, <1>5 DEF Typed, SessionRow
<1>. HIDE DEF sess, l
<1>7. Counted(e.sessions, e.counts["sessions"]) /\ Typed(e.sessions) /\ Published(e.sessions, e.publication)
  BY <1>2, <1>3, <1>6, CountedSame, PublishedSame
<1>8. SessionsHeld(e.contexts, e.sessions)
  BY <1>2, <1>3, <1>6, HeldLess
<1>9. /\ l = Never => LayoutsUsed(Less(d.contexts, k), d.layouts)
      /\ l # Never => l \in DOMAIN d.layouts
      /\ l # Never /\ d.layouts[l].refs = 1 => LayoutsUsed(Less(d.contexts, k), Less(d.layouts, l))
      /\ l # Never /\ d.layouts[l].refs # 1 =>
             LayoutsUsed(Less(d.contexts, k), [d.layouts EXCEPT ![l].refs = @ - 1])
  BY <1>3, UsedLess DEF l
<1>10. LayoutsUsed(e.contexts, e.layouts)
  BY <1>2, <1>9 DEF LayoutsWithout
<1>11. Counted(e.layouts, e.counts["layouts"]) /\ Shared(e.layouts)
  <2>1. CASE l = Never BY <1>2, <1>3, <2>1 DEF LayoutsWithout
  <2>2. CASE l # Never /\ d.layouts[l].refs = 1
    <3>1. e.layouts = Less(d.layouts, l) /\ e.counts["layouts"] = d.counts["layouts"] - 1 /\ l \in DOMAIN d.layouts
      BY <1>2, <1>9, <2>2 DEF LayoutsWithout
    <3>. QED BY <1>3, <3>1, CountedLess, TypedLess
  <2>3. CASE l # Never /\ d.layouts[l].refs # 1
    <3>1. /\ e.layouts = [d.layouts EXCEPT ![l].refs = @ - 1] /\ e.counts["layouts"] = d.counts["layouts"]
          /\ l \in DOMAIN d.layouts
      BY <1>2, <1>9, <2>3 DEF LayoutsWithout
    <3>2. Shared(e.layouts) /\ DOMAIN e.layouts = DOMAIN d.layouts BY <1>3, <3>1 DEF Shared
    <3>. QED BY <1>3, <3>1, <3>2, CountedSame
  <2>. QED BY <2>1, <2>2, <2>3
<1>12. Tables(e) BY <1>2, <1>3, <1>4, <1>7, <1>11 DEF Tables
<1>13. Related(e) BY <1>2, <1>3, <1>4, <1>7, <1>8, <1>10 DEF Related
<1>14. Sound(e) BY <1>2, <1>3, <1>12, <1>13 DEF Sound, SameStore
<1>. QED BY <1>0, <1>2, <1>14

\* The first by age and publication is there.
LEMMA OldestIsOne ==
    ASSUME NEW rows, NEW keys, keys # {}, NEW age,
           \A k \in keys : age[k] \in Nat /\ rows[k].publication \in Nat
    PROVE  Oldest(rows, keys, age) \in keys
<1>. DEFINE Ages == {age[k] : k \in keys}
<1>1. Ages \subseteq Nat /\ Ages # {} OBVIOUS
<1>2. PICK a \in Ages : \A b \in Ages : a <= b
  <2>. HIDE DEF Ages
  <2>. QED BY <1>1, LeastExists
<1>. DEFINE First == {k \in keys : age[k] = a}
            Pubs == {rows[k].publication : k \in First}
<1>3. Pubs \subseteq Nat /\ Pubs # {} BY <1>2
<1>4. PICK p \in Pubs : \A q \in Pubs : p <= q
  <2>. HIDE DEF Pubs
  <2>. QED BY <1>3, LeastExists
<1>5. PICK k \in keys : age[k] = a /\ rows[k].publication = p BY <1>4
<1>6. ASSUME NEW l \in keys
      PROVE  age[k] < age[l] \/ (age[k] = age[l] /\ rows[k].publication <= rows[l].publication)
  <2>1. a <= age[l] /\ a \in Nat /\ age[l] \in Nat BY <1>1, <1>2
  <2>2. age[l] = a => p <= rows[l].publication BY <1>4
  <2>. QED BY <1>5, <2>1, <2>2
<1>. HIDE DEF Ages, First, Pubs
<1>7. \E x \in keys : \A l \in keys :
          \/ age[x] < age[l]
          \/ age[x] = age[l] /\ rows[x].publication <= rows[l].publication
  BY <1>6
<1>. QED BY <1>7 DEF Oldest

LEMMA CountsChange ==
    ASSUME NEW counts \in [Counters -> Int], NEW k \in Counters, NEW x \in Int,
           NEW new, new = [counts EXCEPT ![k] = x]
    PROVE  /\ new \in [Counters -> Int] /\ new[k] = x
           /\ \A c \in Counters \ {k} : new[c] = counts[c]
OBVIOUS

LEMMA SoundParts ==
    ASSUME NEW d, Sound(d)
    PROVE  /\ Whole(d) /\ d.counts \in [Counters -> Int] /\ d.publication \in Nat /\ d.clock \in Nat
           /\ Counted(d.contexts, d.counts["contexts"]) /\ Timed(d.contexts)
           /\ Counted(d.sessions, d.counts["sessions"]) /\ Typed(d.sessions)
           /\ Counted(d.layouts, d.counts["layouts"]) /\ Shared(d.layouts)
           /\ Counted(d.profiles, d.counts["profiles"]) /\ Learned(d.profiles)
           /\ Counted(d.producers, d.counts["producers"]) /\ Dated(d.producers)
           /\ SessionsHeld(d.contexts, d.sessions) /\ LayoutsUsed(d.contexts, d.layouts)
           /\ Published(d.contexts, d.publication) /\ Published(d.sessions, d.publication)
           /\ Published(d.profiles, d.publication)
BY DEF Sound, Tables, Related

LEMMA ForgetProducer ==
    ASSUME NEW d, Sound(d), NEW p \in DOMAIN d.producers,
           NEW e, e = [d EXCEPT !.producers = Less(@, p), !.counts.producers = @ - 1]
    PROVE  Sound(e) /\ SameStore(d, e)
<1>. DEFINE left == Less(d.producers, p)
            nums == [d.counts EXCEPT !["producers"] = d.counts["producers"] - 1]
<1>1. Counted(left, d.counts["producers"] - 1) /\ Dated(left)
  BY SoundParts, CountedLess, TimedLess
<1>2. Whole(d) /\ d.counts \in [Counters -> Int] BY SoundParts
<1>3. e = [d EXCEPT !.producers = left, !.counts = nums] OBVIOUS
<1>4. /\ nums \in [Counters -> Int] /\ nums["producers"] = d.counts["producers"] - 1
      /\ \A c \in Counters \ {"producers"} : nums[c] = d.counts[c]
  BY <1>2, CountersFive, CountsChange
<1>. HIDE DEF left, nums
<1>5. /\ Whole(e) /\ e.producers = left /\ e.counts = nums /\ SameStore(d, e) /\ e.publication = d.publication
      /\ e.contexts = d.contexts /\ e.sessions = d.sessions /\ e.layouts = d.layouts /\ e.profiles = d.profiles
  BY <1>2, <1>3 DEF Whole, Fields, SameStore
<1>6. Tables(e) BY <1>1, <1>4, <1>5, SoundParts, CountersFive DEF Tables
<1>7. Related(e) BY <1>5, SoundParts DEF Related
<1>. QED BY <1>4, <1>5, <1>6, <1>7, SoundParts DEF Sound, SameStore

LEMMA ForgetProfile ==
    ASSUME NEW d, Sound(d), NEW p \in DOMAIN d.profiles,
           NEW e, e = [d EXCEPT !.profiles = Less(@, p), !.counts.profiles = @ - 1]
    PROVE  Sound(e) /\ SameStore(d, e)
<1>. DEFINE left == Less(d.profiles, p)
            nums == [d.counts EXCEPT !["profiles"] = d.counts["profiles"] - 1]
<1>1. Counted(left, d.counts["profiles"] - 1) /\ Learned(left) /\ Published(left, d.publication)
  BY SoundParts, CountedLess, TimedLess, PublishedLess
<1>2. Whole(d) /\ d.counts \in [Counters -> Int] BY SoundParts
<1>3. e = [d EXCEPT !.profiles = left, !.counts = nums] OBVIOUS
<1>4. /\ nums \in [Counters -> Int] /\ nums["profiles"] = d.counts["profiles"] - 1
      /\ \A c \in Counters \ {"profiles"} : nums[c] = d.counts[c]
  BY <1>2, CountersFive, CountsChange
<1>. HIDE DEF left, nums
<1>5. /\ Whole(e) /\ e.profiles = left /\ e.counts = nums /\ SameStore(d, e) /\ e.publication = d.publication
      /\ e.contexts = d.contexts /\ e.sessions = d.sessions /\ e.layouts = d.layouts /\ e.producers = d.producers
  BY <1>2, <1>3 DEF Whole, Fields, SameStore
<1>6. Tables(e) BY <1>1, <1>4, <1>5, SoundParts, CountersFive DEF Tables
<1>7. Related(e) BY <1>1, <1>5, SoundParts DEF Related
<1>. QED BY <1>4, <1>5, <1>6, <1>7, SoundParts DEF Sound, SameStore

LEMMA ForgetSession ==
    ASSUME NEW d, Sound(d), NEW s \in DOMAIN d.sessions, d.sessions[s].refs = 0,
           NEW e, e = [d EXCEPT !.sessions = Less(@, s), !.counts.sessions = @ - 1]
    PROVE  Sound(e) /\ SameStore(d, e)
<1>. DEFINE left == Less(d.sessions, s)
            nums == [d.counts EXCEPT !["sessions"] = d.counts["sessions"] - 1]
<1>1. Counted(left, d.counts["sessions"] - 1) /\ Typed(left) /\ Published(left, d.publication)
  BY SoundParts, CountedLess, TypedLess, PublishedLess
<1>0. SessionsHeld(d.contexts, left) BY SoundParts, HeldForget
<1>2. Whole(d) /\ d.counts \in [Counters -> Int] BY SoundParts
<1>3. e = [d EXCEPT !.sessions = left, !.counts = nums] OBVIOUS
<1>4. /\ nums \in [Counters -> Int] /\ nums["sessions"] = d.counts["sessions"] - 1
      /\ \A c \in Counters \ {"sessions"} : nums[c] = d.counts[c]
  BY <1>2, CountersFive, CountsChange
<1>. HIDE DEF left, nums
<1>5. /\ Whole(e) /\ e.sessions = left /\ e.counts = nums /\ SameStore(d, e) /\ e.publication = d.publication
      /\ e.contexts = d.contexts /\ e.profiles = d.profiles /\ e.layouts = d.layouts /\ e.producers = d.producers
  BY <1>2, <1>3 DEF Whole, Fields, SameStore
<1>6. Tables(e) BY <1>1, <1>4, <1>5, SoundParts, CountersFive DEF Tables
<1>7. Related(e) BY <1>0, <1>1, <1>5, SoundParts DEF Related
<1>. QED BY <1>4, <1>5, <1>6, <1>7, SoundParts DEF Sound, SameStore

LEMMA PruneOneKeeps ==
    ASSUME NEW d, Sound(d)
    PROVE  Sound(PruneOne(d)) /\ SameStore(d, PruneOne(d))
<1>1. CASE Expired(d) # {}
  <2>. DEFINE p == CHOOSE p \in Expired(d) : \A q \in Expired(d) : d.producers[p].expires <= d.producers[q].expires
              Ends == {d.producers[q].expires : q \in Expired(d)}
  <2>1. \A q \in Expired(d) : q \in DOMAIN d.producers /\ d.producers[q].expires \in Nat
    BY SoundParts DEF Expired, Dated
  <2>2. Ends \subseteq Nat /\ Ends # {} BY <1>1, <2>1
  <2>3. PICK m \in Ends : \A x \in Ends : m <= x
    <3>. HIDE DEF Ends
    <3>. QED BY <2>2, LeastExists
  <2>4. \E q \in Expired(d) : \A r \in Expired(d) : d.producers[q].expires <= d.producers[r].expires BY <2>3
  <2>5. p \in Expired(d) BY <2>4
  <2>6. PruneOne(d) = [d EXCEPT !.producers = Less(@, p), !.counts.producers = @ - 1] BY <1>1 DEF PruneOne
  <2>. HIDE DEF p
  <2>. QED BY <2>1, <2>5, <2>6, ForgetProducer
<1>2. CASE Expired(d) = {} /\ DueContexts(d) # {}
  <2>. DEFINE age == [k \in DOMAIN d.contexts |-> d.contexts[k].at]
              k == Oldest(d.contexts, DueContexts(d), age)
  <2>1. DueContexts(d) \subseteq DOMAIN d.contexts BY DEF DueContexts
  <2>2. \A x \in DueContexts(d) : age[x] \in Nat /\ d.contexts[x].publication \in Nat
    BY <2>1, SoundParts DEF Timed
  <2>3. PruneOne(d) = RemoveContext(d, k) BY <1>2 DEF PruneOne
  <2>. HIDE DEF age
  <2>4. k \in DueContexts(d) BY <1>2, <2>2, OldestIsOne
  <2>. HIDE DEF k
  <2>. QED BY <2>1, <2>3, <2>4, RemoveContextKeeps
<1>3. CASE Expired(d) = {} /\ DueContexts(d) = {} /\ DueProfiles(d) # {}
  <2>. DEFINE age == [k \in DOMAIN d.profiles |-> d.profiles[k].updated]
              k == Oldest(d.profiles, DueProfiles(d), age)
  <2>1. DueProfiles(d) \subseteq DOMAIN d.profiles BY DEF DueProfiles
  <2>2. \A x \in DueProfiles(d) : age[x] \in Nat /\ d.profiles[x].publication \in Nat
    BY <2>1, SoundParts DEF Learned
  <2>3. PruneOne(d) = [d EXCEPT !.profiles = Less(@, k), !.counts.profiles = @ - 1] BY <1>3 DEF PruneOne
  <2>. HIDE DEF age
  <2>4. k \in DueProfiles(d) BY <1>3, <2>2, OldestIsOne
  <2>. HIDE DEF k
  <2>. QED BY <2>1, <2>3, <2>4, ForgetProfile
<1>4. CASE Expired(d) = {} /\ DueContexts(d) = {} /\ DueProfiles(d) = {} /\ DueSessions(d) # {}
  <2>. DEFINE age == [s \in DOMAIN d.sessions |-> EndOf(d.sessions[s])]
              s == Oldest(d.sessions, DueSessions(d), age)
  <2>1. \A x \in DueSessions(d) : x \in DOMAIN d.sessions /\ d.sessions[x].refs = 0 BY DEF DueSessions
  <2>2. \A x \in DueSessions(d) : age[x] \in Nat /\ d.sessions[x].publication \in Nat
    BY <2>1, SoundParts DEF Typed, SessionRow, EndOf
  <2>3. PruneOne(d) = [d EXCEPT !.sessions = Less(@, s), !.counts.sessions = @ - 1] BY <1>4 DEF PruneOne
  <2>. HIDE DEF age
  <2>4. s \in DueSessions(d) BY <1>4, <2>2, OldestIsOne
  <2>. HIDE DEF s
  <2>. QED BY <2>1, <2>3, <2>4, ForgetSession
<1>5. CASE Expired(d) = {} /\ DueContexts(d) = {} /\ DueProfiles(d) = {} /\ DueSessions(d) = {}
  <2>1. PruneOne(d) = d BY <1>5 DEF PruneOne
  <2>. QED BY <2>1 DEF SameStore
<1>. QED BY <1>1, <1>2, <1>3, <1>4, <1>5

\* The recursion of Prune, and that of PutKind below, define a function.
LEMMA PruneIsDefined ==
    ASSUME NEW d
    PROVE  \E f : /\ f[0] = d
                  /\ \A n \in 1..MaintenanceItems : f[n] = PruneOne(f[n - 1])
                  /\ Prune(d) = f[MaintenanceItems]
<1>. DEFINE Body(f, n) == IF n = 0 THEN d ELSE PruneOne(f[n - 1])
            Good(n) == \E f : f = [i \in 0..n |-> Body(f, i)]
            N == MaintenanceItems
<1>0. N \in Nat BY StoreAssumption
<1>1. Good(0)
  <2>. DEFINE f == [i \in 0..0 |-> d]
  <2>1. \A i \in 0..0 : Body(f, i) = d OBVIOUS
  <2>2. f = [i \in 0..0 |-> Body(f, i)] BY <2>1
  <2>. QED BY <2>2
<1>2. ASSUME NEW n \in 0..N, Good(n), n < N PROVE Good(n + 1)
  <2>1. PICK g : g = [i \in 0..n |-> Body(g, i)] BY <1>2
  <2>. DEFINE e == PruneOne(g[n])
              f == [i \in 0..(n + 1) |-> IF i = n + 1 THEN e ELSE g[i]]
  <2>. HIDE DEF e
  <2>2. n \in Nat BY <1>0
  <2>3. ASSUME NEW i \in 0..(n + 1) PROVE f[i] = Body(f, i)
    <3>1. CASE i = n + 1
      <4>1. i # 0 /\ i - 1 = n /\ n \in 0..(n + 1) /\ n # n + 1 BY <2>2, <3>1
      <4>2. f[i - 1] = g[n] BY <4>1
      <4>3. f[i] = e BY <3>1
      <4>4. Body(f, i) = PruneOne(f[i - 1]) BY <4>1
      <4>. HIDE DEF f
      <4>. QED BY <4>2, <4>3, <4>4 DEF e
    <3>2. CASE i # n + 1
      <4>1. i \in 0..n /\ f[i] = g[i] BY <2>2, <3>2
      <4>2. g[i] = Body(g, i)
        <5>. DEFINE h == [j \in 0..n |-> Body(g, j)]
        <5>1. h[i] = Body(g, i) BY <4>1
        <5>. HIDE DEF h
        <5>2. g = h BY <2>1 DEF h
        <5>. QED BY <5>1, <5>2
      <4>3. CASE i = 0 BY <4>1, <4>2, <4>3
      <4>4. CASE i # 0
        <5>1. i - 1 \in 0..(n + 1) /\ i - 1 # n + 1 BY <2>2, <4>1, <4>4
        <5>2. f[i - 1] = g[i - 1] BY <5>1
        <5>3. Body(g, i) = PruneOne(g[i - 1]) /\ Body(f, i) = PruneOne(f[i - 1]) BY <4>4
        <5>. HIDE DEF f
        <5>. QED BY <4>1, <4>2, <5>2, <5>3
      <4>. QED BY <4>3, <4>4
    <3>. QED BY <3>1, <3>2
  <2>4. f = [i \in 0..(n + 1) |-> Body(f, i)] BY <2>3
  <2>. QED BY <2>4
<1>3. Good(N)
  <2>. DEFINE G == {n \in 0..N : Good(n)}
  <2>1. 0 \in G BY <1>0, <1>1
  <2>2. ASSUME NEW m \in 0..N, m \in G, m < N PROVE m + 1 \in G
    <3>. HIDE DEF Good
    <3>1. Good(m) BY <2>2
    <3>2. m + 1 \in 0..N BY <1>0, <2>2
    <3>. QED BY <1>2, <2>2, <3>1, <3>2
  <2>. HIDE DEF G
  <2>3. \A m \in 0..N : m \in G BY <1>0, <2>1, <2>2, Inductive
  <2>4. N \in 0..N BY <1>0
  <2>. QED BY <2>3, <2>4 DEF G
<1>. DEFINE f == CHOOSE f : f = [n \in 0..N |-> Body(f, n)]
<1>4. f = [n \in 0..N |-> Body(f, n)] BY <1>3
<1>5. Prune(d) = f[N] BY DEF Prune
<1>. HIDE DEF f
<1>6. ASSUME NEW n \in 0..N PROVE f[n] = Body(f, n)
  <2>. DEFINE h == [j \in 0..N |-> Body(f, j)]
  <2>1. h[n] = Body(f, n) OBVIOUS
  <2>. HIDE DEF h
  <2>2. f = h BY <1>4 DEF h
  <2>. QED BY <2>1, <2>2
<1>7. f[0] = d /\ \A n \in 1..N : f[n] = PruneOne(f[n - 1]) BY <1>0, <1>6
<1>. QED BY <1>5, <1>7

LEMMA PruneKeeps ==
    ASSUME NEW d, Sound(d)
    PROVE  Sound(Prune(d)) /\ SameStore(d, Prune(d))
<1>. DEFINE N == MaintenanceItems
<1>0. N \in Nat BY StoreAssumption
<1>1. PICK f : f[0] = d /\ (\A n \in 1..N : f[n] = PruneOne(f[n - 1])) /\ Prune(d) = f[N]
  BY PruneIsDefined
<1>. DEFINE G == {n \in 0..N : Sound(f[n]) /\ SameStore(d, f[n])}
<1>2. 0 \in G BY <1>0, <1>1 DEF SameStore
<1>3. ASSUME NEW m \in 0..N, m \in G, m < N PROVE m + 1 \in G
  <2>1. m + 1 \in 1..N /\ m + 1 \in 0..N /\ (m + 1) - 1 = m BY <1>0, <1>3
  <2>2. f[m + 1] = PruneOne(f[m]) BY <1>1, <2>1
  <2>3. Sound(f[m]) /\ SameStore(d, f[m]) BY <1>3
  <2>4. Sound(f[m + 1]) /\ SameStore(f[m], f[m + 1]) BY <2>2, <2>3, PruneOneKeeps
  <2>5. SameStore(d, f[m + 1]) BY <2>3, <2>4 DEF SameStore
  <2>. QED BY <2>1, <2>4, <2>5
<1>. HIDE DEF G
<1>4. \A m \in 0..N : m \in G BY <1>0, <1>2, <1>3, Inductive
<1>5. N \in 0..N BY <1>0
<1>. QED BY <1>1, <1>4, <1>5 DEF G

-----------------------------------------------------------------------------
(* One item of evidence                                                    *)

LEMMA ClockedKeeps ==
    ASSUME NEW d, Sound(d), NEW t \in Nat
    PROVE  /\ Sound(Clocked(d, t))
           /\ Clocked(d, t).schema = d.schema /\ Clocked(d, t).policy = d.policy
           /\ Clocked(d, t).counts = d.counts /\ Clocked(d, t).ledger = d.ledger
<1>0. PICK e : e = Clocked(d, t) OBVIOUS
<1>1. Later(d.clock, t) \in Nat BY SoundParts DEF Later
<1>2. /\ Whole(e) /\ e.clock = Later(d.clock, t) /\ e.schema = d.schema /\ e.policy = d.policy
      /\ e.ledger = d.ledger /\ e.counts = d.counts /\ e.publication = d.publication /\ e.contexts = d.contexts
      /\ e.sessions = d.sessions /\ e.layouts = d.layouts /\ e.profiles = d.profiles /\ e.producers = d.producers
  BY <1>0, SoundParts DEF Clocked, Whole, Fields
<1>3. Tables(e) BY <1>2, SoundParts DEF Tables
<1>4. Related(e) BY <1>2, SoundParts DEF Related
<1>. QED BY <1>0, <1>1, <1>2, <1>3, <1>4, SoundParts DEF Sound

\* What nothing in Sound is about.
LEMMA RestKeeps ==
    ASSUME NEW d, Sound(d), NEW why, NEW L, NEW g \in L
    PROVE  /\ Sound(Refused(d, why)) /\ SameStore(d, Refused(d, why))
           /\ Sound([d EXCEPT !.ledger = g]) /\ SameOver(d, [d EXCEPT !.ledger = g], L)
<1>0. Whole(d) BY SoundParts
<1>1. ASSUME NEW e, e = Refused(d, why) \/ e = [d EXCEPT !.ledger = g] PROVE Sound(e) /\ e.clock = d.clock
  <2>1. /\ Whole(e) /\ e.schema = d.schema /\ e.policy = d.policy /\ e.clock = d.clock
        /\ e.counts = d.counts /\ e.publication = d.publication /\ e.contexts = d.contexts
        /\ e.sessions = d.sessions /\ e.layouts = d.layouts /\ e.profiles = d.profiles /\ e.producers = d.producers
    BY <1>0, <1>1 DEF Refused, Whole, Fields
  <2>2. Tables(e) BY <2>1, SoundParts DEF Tables
  <2>3. Related(e) BY <2>1, SoundParts DEF Related
  <2>. QED BY <2>1, <2>2, <2>3, SoundParts DEF Sound
<1>2. SameStore(d, Refused(d, why)) BY <1>0 DEF Refused, Whole, Fields, SameStore
<1>3. SameOver(d, [d EXCEPT !.ledger = g], L) BY <1>0 DEF Whole, Fields, SameOver
<1>. QED BY <1>1, <1>2, <1>3

LEMMA RefusedKeeps ==
    ASSUME NEW d, Sound(d), NEW why
    PROVE  Sound(Refused(d, why)) /\ SameStore(d, Refused(d, why))
BY RestKeeps

LEMMA PublicationsAre ==
    ASSUME NEW d, Sound(d)
    PROVE  /\ \A k \in DOMAIN d.contexts : d.contexts[k].publication \in Nat
           /\ \A k \in DOMAIN d.sessions : d.sessions[k] \in SessionRow /\ d.sessions[k].publication \in Nat
           /\ \A k \in DOMAIN d.profiles : d.profiles[k].publication \in Nat
           /\ Published(d.contexts, d.publication + 1) /\ Published(d.sessions, d.publication + 1)
           /\ Published(d.profiles, d.publication + 1) /\ d.publication + 1 \in Nat
<1>1. /\ \A k \in DOMAIN d.contexts : d.contexts[k].publication \in Nat
      /\ \A k \in DOMAIN d.sessions : d.sessions[k] \in SessionRow /\ d.sessions[k].publication \in Nat
      /\ \A k \in DOMAIN d.profiles : d.profiles[k].publication \in Nat
  BY SoundParts DEF Timed, Learned, Typed, SessionRow
<1>. QED BY <1>1, SoundParts, PublishedLater

LEMMA PutSessionKeeps ==
    ASSUME NEW d, Sound(d), NEW i, i.started \in BOOLEAN, i.at \in Nat \cup {Never}
    PROVE  Sound(PutSession(d, i)) /\ SameStore(d, PutSession(d, i))
<1>. DEFINE s == i.session
            e == PutSession(d, i)
<1>1. CASE s \notin DOMAIN d.sessions
  <2>. DEFINE row == [started |-> i.started, shutdown |-> i.at, refs |-> 0, publication |-> d.publication + 1]
              new == With(d.sessions, s, row)
              nums == [d.counts EXCEPT !["sessions"] = d.counts["sessions"] + 1]
  <2>1. e = [d EXCEPT !.sessions = new, !.publication = d.publication + 1, !.counts = nums,
                      !.applied = Append(@, i.id)]
    BY <1>1 DEF PutSession, NextPublication
  <2>2. row \in SessionRow /\ row.refs = 0 /\ row.publication = d.publication + 1
    BY SoundParts DEF SessionRow
  <2>. HIDE DEF row
  <2>3. DOMAIN new = DOMAIN d.sessions \cup {s} /\ new[s] = row
        /\ \A x \in DOMAIN d.sessions \ {s} : new[x] = d.sessions[x]
    BY DEF With
  <2>4. Counted(new, d.counts["sessions"] + 1) BY <1>1, <2>3, SoundParts, CountedMore
  <2>5. Typed(new) BY <1>1, <2>2, <2>3, SoundParts DEF Typed, With
  <2>6. SessionsHeld(d.contexts, new) BY <1>1, <2>2, SoundParts, HeldOpen
  <2>7. /\ nums \in [Counters -> Int] /\ nums["sessions"] = d.counts["sessions"] + 1
        /\ \A c \in Counters \ {"sessions"} : nums[c] = d.counts[c]
    BY SoundParts, CountersFive, CountsChange
  <2>. HIDE DEF new, nums
  <2>8. Published(new, d.publication + 1)
    BY <2>2, <2>3, SoundParts, PublicationsAre, PublishedMore
  <2>. HIDE DEF e
  <2>9. /\ Whole(e) /\ SameStore(d, e) /\ e.sessions = new /\ e.counts = nums /\ e.publication = d.publication + 1
        /\ e.contexts = d.contexts /\ e.layouts = d.layouts /\ e.profiles = d.profiles /\ e.producers = d.producers
    BY <2>1, SoundParts DEF Whole, Fields, SameStore
  <2>10. Tables(e) BY <2>4, <2>5, <2>7, <2>9, SoundParts, CountersFive DEF Tables
  <2>11. Related(e) BY <2>6, <2>8, <2>9, SoundParts, PublicationsAre DEF Related
  <2>12. Sound(e) BY <2>7, <2>9, <2>10, <2>11, SoundParts, PublicationsAre DEF Sound, SameStore
  <2>. QED BY <2>9, <2>12 DEF e
<1>2. CASE s \in DOMAIN d.sessions /\ d.sessions[s].shutdown = i.at
  <2>1. e = d BY <1>2 DEF PutSession
  <2>. QED BY <2>1 DEF SameStore
<1>3. CASE /\ s \in DOMAIN d.sessions /\ d.sessions[s].shutdown # i.at
           /\ (d.sessions[s].shutdown # Never \/ i.at = Never)
  <2>1. e = Refused(d, "CONTRACT") BY <1>3 DEF PutSession
  <2>. QED BY <2>1, RefusedKeeps
<1>4. CASE /\ s \in DOMAIN d.sessions /\ d.sessions[s].shutdown # i.at
           /\ ~ (d.sessions[s].shutdown # Never \/ i.at = Never)
  <2>. DEFINE row == [d.sessions[s] EXCEPT !.shutdown = i.at, !.publication = d.publication + 1]
              new == [d.sessions EXCEPT ![s] = row]
  <2>1. e = [d EXCEPT !.sessions = new, !.publication = d.publication + 1, !.applied = Append(@, i.id)]
    <3>1. e = [d EXCEPT !.sessions[s].shutdown = i.at, !.sessions[s].publication = NextPublication(d),
                        !.publication = NextPublication(d), !.applied = Append(@, i.id)]
      BY <1>4 DEF PutSession
    <3>. QED BY <1>4, <3>1, SoundParts DEF NextPublication, Whole, Fields, Typed
  <2>2. row \in SessionRow /\ row.refs = d.sessions[s].refs /\ row.publication = d.publication + 1
    BY <1>4, PublicationsAre DEF SessionRow
  <2>. HIDE DEF row
  <2>3. /\ DOMAIN new = DOMAIN d.sessions /\ new[s] = row /\ Typed(new)
        /\ \A x \in DOMAIN d.sessions \ {s} : new[x] = d.sessions[x]
    BY <1>4, <2>2, SoundParts DEF Typed
  <2>. HIDE DEF new
  <2>4. Counted(new, d.counts["sessions"]) BY <2>3, SoundParts, CountedSame
  <2>5. SessionsHeld(d.contexts, new)
    <3>1. \A x \in DOMAIN d.sessions : new[x].refs = d.sessions[x].refs BY <2>2, <2>3
    <3>. QED BY <2>3, <3>1, SoundParts, HeldSame
  <2>6. Published(new, d.publication + 1)
    <3>1. DOMAIN new = DOMAIN d.sessions \cup {s} BY <1>4, <2>3
    <3>. QED BY <2>2, <2>3, <3>1, SoundParts, PublicationsAre, PublishedMore
  <2>. HIDE DEF e
  <2>7. /\ Whole(e) /\ SameStore(d, e) /\ e.sessions = new /\ e.counts = d.counts /\ e.publication = d.publication + 1
        /\ e.contexts = d.contexts /\ e.layouts = d.layouts /\ e.profiles = d.profiles /\ e.producers = d.producers
    BY <2>1, SoundParts DEF Whole, Fields, SameStore
  <2>8. Tables(e) BY <2>3, <2>4, <2>7, SoundParts DEF Tables
  <2>9. Related(e) BY <2>5, <2>6, <2>7, SoundParts, PublicationsAre DEF Related
  <2>10. Sound(e) BY <2>7, <2>8, <2>9, SoundParts, PublicationsAre DEF Sound, SameStore
  <2>. QED BY <2>7, <2>10 DEF e
<1>. QED BY <1>1, <1>2, <1>3, <1>4

LEMMA PutProfileKeeps ==
    ASSUME NEW d, Sound(d), NEW i
    PROVE  Sound(PutProfile(d, i)) /\ SameStore(d, PutProfile(d, i))
<1>. DEFINE k == i.name
            e == PutProfile(d, i)
            row == [updated |-> d.clock, publication |-> d.publication + 1]
            new == With(d.profiles, k, row)
            n == IF k \in DOMAIN d.profiles THEN d.counts["profiles"] ELSE d.counts["profiles"] + 1
            nums == [d.counts EXCEPT !["profiles"] = n]
<1>1. e = [d EXCEPT !.profiles = new, !.publication = d.publication + 1, !.counts = nums, !.applied = Append(@, i.id)]
  BY DEF PutProfile, NextPublication
<1>2. row.updated \in Nat /\ row.publication = d.publication + 1 /\ row.publication \in Nat BY SoundParts
<1>. HIDE DEF row
<1>3. DOMAIN new = DOMAIN d.profiles \cup {k} /\ new[k] = row
      /\ \A x \in DOMAIN d.profiles \ {k} : new[x] = d.profiles[x]
  BY DEF With
<1>. HIDE DEF new
<1>4. Counted(new, n) /\ n \in Int
  <2>1. CASE k \in DOMAIN d.profiles
    <3>1. DOMAIN new = DOMAIN d.profiles BY <1>3, <2>1
    <3>. QED BY <2>1, <3>1, SoundParts, CountedSame, CountersFive
  <2>2. CASE k \notin DOMAIN d.profiles
    BY <1>3, <2>2, SoundParts, CountedMore, CountersFive
  <2>. QED BY <2>1, <2>2
<1>. HIDE DEF n
<1>5. Learned(new) BY <1>2, <1>3, SoundParts DEF Learned
<1>6. /\ nums \in [Counters -> Int] /\ nums["profiles"] = n
      /\ \A c \in Counters \ {"profiles"} : nums[c] = d.counts[c]
  BY <1>4, SoundParts, CountersFive, CountsChange
<1>7. Published(new, d.publication + 1) BY <1>2, <1>3, SoundParts, PublicationsAre, PublishedMore
<1>. HIDE DEF e, nums
<1>8. /\ Whole(e) /\ SameStore(d, e) /\ e.profiles = new /\ e.counts = nums /\ e.publication = d.publication + 1
      /\ e.contexts = d.contexts /\ e.layouts = d.layouts /\ e.sessions = d.sessions /\ e.producers = d.producers
  <2>1. Whole(d) BY SoundParts
  <2>. QED BY <1>1, <2>1 DEF Whole, Fields, SameStore
<1>9. Tables(e) BY <1>4, <1>5, <1>6, <1>8, SoundParts, CountersFive DEF Tables
<1>10. Related(e) BY <1>7, <1>8, SoundParts, PublicationsAre DEF Related
<1>11. Sound(e) BY <1>6, <1>8, <1>9, <1>10, SoundParts, PublicationsAre DEF Sound, SameStore
<1>. QED BY <1>8, <1>11 DEF e

\* What PutLayout makes of a store.
LayoutWritten(d, l, e) ==
    /\ Whole(e) /\ SameStore(d, e) /\ e.publication = d.publication
    /\ e.counts \in [Counters -> Int] /\ \A c \in Counters \ {"layouts"} : e.counts[c] = d.counts[c]
    /\ e.contexts = d.contexts /\ e.sessions = d.sessions /\ e.profiles = d.profiles
    /\ e.producers = d.producers /\ e.applied = d.applied /\ e.error = d.error
    /\ l = Never => e.layouts = d.layouts /\ e.counts["layouts"] = d.counts["layouts"]
    /\ l # Never /\ l \in DOMAIN d.layouts =>
           e.layouts = [d.layouts EXCEPT ![l].refs = @ + 1] /\ e.counts["layouts"] = d.counts["layouts"]
    /\ l # Never /\ l \notin DOMAIN d.layouts =>
           e.layouts = With(d.layouts, l, [refs |-> 1]) /\ e.counts["layouts"] = d.counts["layouts"] + 1

LEMMA PutLayoutFields ==
    ASSUME NEW d, Whole(d), d.counts \in [Counters -> Int], NEW l
    PROVE  LayoutWritten(d, l, PutLayout(d, l))
<1>. DEFINE e == PutLayout(d, l)
<1>0. SUFFICES LayoutWritten(d, l, e) OBVIOUS
<1>1. CASE l = Never
  <2>1. e = d BY <1>1 DEF PutLayout
  <2>. QED BY <1>1, <2>1 DEF SameStore, LayoutWritten
<1>2. CASE l # Never /\ l \in DOMAIN d.layouts
  <2>. DEFINE new == [d.layouts EXCEPT ![l].refs = @ + 1]
  <2>1. e = [d EXCEPT !.layouts = new] BY <1>2 DEF PutLayout
  <2>. HIDE DEF new, e
  <2>2. /\ Whole(e) /\ SameStore(d, e) /\ e.publication = d.publication /\ e.counts = d.counts
        /\ e.contexts = d.contexts /\ e.sessions = d.sessions /\ e.profiles = d.profiles
        /\ e.producers = d.producers /\ e.layouts = new /\ e.applied = d.applied /\ e.error = d.error
    BY <2>1 DEF Whole, Fields, SameStore
  <2>. QED BY <1>2, <2>2 DEF new, LayoutWritten
<1>3. CASE l # Never /\ l \notin DOMAIN d.layouts
  <2>. DEFINE new == With(d.layouts, l, [refs |-> 1])
              nums == [d.counts EXCEPT !["layouts"] = d.counts["layouts"] + 1]
  <2>1. e = [d EXCEPT !.layouts = new, !.counts = nums] BY <1>3 DEF PutLayout
  <2>2. /\ nums \in [Counters -> Int] /\ nums["layouts"] = d.counts["layouts"] + 1
        /\ \A c \in Counters \ {"layouts"} : nums[c] = d.counts[c]
    BY CountersFive, CountsChange
  <2>. HIDE DEF new, nums, e
  <2>3. /\ Whole(e) /\ SameStore(d, e) /\ e.publication = d.publication /\ e.counts = nums
        /\ e.contexts = d.contexts /\ e.sessions = d.sessions /\ e.profiles = d.profiles
        /\ e.producers = d.producers /\ e.layouts = new /\ e.applied = d.applied /\ e.error = d.error
    BY <2>1 DEF Whole, Fields, SameStore
  <2>. QED BY <1>3, <2>2, <2>3 DEF new, LayoutWritten
<1>. QED BY <1>1, <1>2, <1>3

LEMMA PutContextKeeps ==
    ASSUME NEW d, Sound(d), NEW i, i.at \in Nat
    PROVE  Sound(PutContext(d, i)) /\ SameStore(d, PutContext(d, i))
<1>. DEFINE k == i.name
            s == i.session
            l == i.layout
            w == PutContext(d, i)
<1>1. CASE k \in DOMAIN d.contexts
  <2>1. w = d BY <1>1 DEF PutContext
  <2>. QED BY <2>1 DEF SameStore
<1>2. CASE k \notin DOMAIN d.contexts /\ s \notin DOMAIN d.sessions
  <2>1. w = Refused(d, "CONTRACT") BY <1>2 DEF PutContext
  <2>. QED BY <2>1, RefusedKeeps
<1>3. CASE k \notin DOMAIN d.contexts /\ s \in DOMAIN d.sessions
  <2>0. PICK e : e = PutLayout(d, l) OBVIOUS
  <2>1. /\ Whole(e) /\ SameStore(d, e) /\ e.publication = d.publication
        /\ e.counts \in [Counters -> Int] /\ \A c \in Counters \ {"layouts"} : e.counts[c] = d.counts[c]
        /\ e.contexts = d.contexts /\ e.sessions = d.sessions /\ e.profiles = d.profiles
        /\ e.producers = d.producers
        /\ l = Never => e.layouts = d.layouts /\ e.counts["layouts"] = d.counts["layouts"]
        /\ l # Never /\ l \in DOMAIN d.layouts =>
               e.layouts = [d.layouts EXCEPT ![l].refs = @ + 1] /\ e.counts["layouts"] = d.counts["layouts"]
        /\ l # Never /\ l \notin DOMAIN d.layouts =>
               e.layouts = With(d.layouts, l, [refs |-> 1]) /\ e.counts["layouts"] = d.counts["layouts"] + 1
    <3>1. Whole(d) /\ d.counts \in [Counters -> Int] BY SoundParts
    <3>2. LayoutWritten(d, l, e) BY <2>0, <3>1, PutLayoutFields
    <3>. QED BY <3>2 DEF LayoutWritten
  <2>. DEFINE row == [session |-> s, layout |-> l, at |-> i.at, publication |-> d.publication + 1]
              new == With(d.contexts, k, row)
              sess == [d.sessions EXCEPT ![s].refs = @ + 1]
              nums == [e.counts EXCEPT !["contexts"] = e.counts["contexts"] + 1]
  <2>2. w = [e EXCEPT !.contexts = new, !.publication = d.publication + 1, !.sessions = sess,
                      !.counts = nums, !.applied = Append(@, i.id)]
    <3>1. w = [e EXCEPT !.contexts = With(e.contexts, k, row), !.publication = d.publication + 1,
                        !.sessions = [e.sessions EXCEPT ![s].refs = @ + 1],
                        !.counts = [e.counts EXCEPT !["contexts"] = e.counts["contexts"] + 1],
                        !.applied = Append(@, i.id)]
      BY <1>3, <2>0, <2>1 DEF PutContext, NextPublication, Whole, Fields
    <3>. QED BY <2>1, <3>1
  <2>3. row.session = s /\ row.layout = l /\ row.at \in Nat /\ row.publication = d.publication + 1
    OBVIOUS
  <2>. HIDE DEF row
  <2>4. DOMAIN new = DOMAIN d.contexts \cup {k} /\ new[k] = row
        /\ \A x \in DOMAIN d.contexts \ {k} : new[x] = d.contexts[x]
    BY DEF With
  <2>5. Counted(new, d.counts["contexts"] + 1) /\ d.counts["contexts"] \in Nat
    <3>1. Counted(d.contexts, d.counts["contexts"]) /\ k \notin DOMAIN d.contexts BY <1>3, SoundParts
    <3>. HIDE DEF new
    <3>. QED BY <2>4, <3>1, CountedMore
  <2>6. Timed(new) BY <2>3, <2>4, SoundParts, PublicationsAre DEF Timed
  <2>7. Published(new, d.publication + 1)
    <3>1. /\ Published(d.contexts, d.publication) /\ d.publication \in Nat
          /\ \A x \in DOMAIN d.contexts : d.contexts[x].publication \in Nat
      BY SoundParts, PublicationsAre
    <3>2. /\ new[k].publication = d.publication + 1
          /\ \A x \in DOMAIN d.contexts \ {k} : new[x].publication = d.contexts[x].publication
      BY <2>3, <2>4
    <3>. HIDE DEF new
    <3>. QED BY <2>4, <3>1, <3>2, PublishedMore
  <2>8. /\ DOMAIN sess = DOMAIN d.sessions /\ Typed(sess)
        /\ \A x \in DOMAIN d.sessions :
               /\ sess[x].publication = d.sessions[x].publication
               /\ sess[x].refs = IF x = s THEN d.sessions[x].refs + 1 ELSE d.sessions[x].refs
    BY <1>3, SoundParts DEF Typed, SessionRow
  <2>. HIDE DEF sess
  <2>9. /\ Counted(sess, d.counts["sessions"]) /\ Published(sess, d.publication + 1)
    BY <2>8, SoundParts, PublicationsAre, CountedSame, PublishedSame
  <2>10. SessionsHeld(new, sess)
    <3>1. \A x \in DOMAIN sess : sess[x].refs = IF x = row.session THEN d.sessions[x].refs + 1 ELSE d.sessions[x].refs
      BY <2>3, <2>8
    <3>2. row.session \in DOMAIN d.sessions BY <1>3, <2>3
    <3>3. Counted(d.contexts, d.counts["contexts"]) /\ SessionsHeld(d.contexts, d.sessions) BY SoundParts
    <3>4. k \notin DOMAIN d.contexts BY <1>3
    <3>. QED BY <2>8, <3>1, <3>2, <3>3, <3>4, HeldMore
  <2>11. /\ l = Never => LayoutsUsed(new, d.layouts)
         /\ l \in DOMAIN d.layouts => LayoutsUsed(new, [d.layouts EXCEPT ![l].refs = @ + 1])
         /\ l # Never /\ l \notin DOMAIN d.layouts => LayoutsUsed(new, With(d.layouts, l, [refs |-> 1]))
    <3>1. Counted(d.contexts, d.counts["contexts"]) /\ Shared(d.layouts) /\ LayoutsUsed(d.contexts, d.layouts)
      BY SoundParts
    <3>2. k \notin DOMAIN d.contexts /\ l = row.layout BY <1>3, <2>3
    <3>. QED BY <3>1, <3>2, UsedMore
  <2>12. LayoutsUsed(new, e.layouts) BY <2>1, <2>11
  <2>13. Counted(e.layouts, e.counts["layouts"]) /\ Shared(e.layouts)
    <3>1. CASE l = Never BY <2>1, <3>1, SoundParts
    <3>2. CASE l # Never /\ l \in DOMAIN d.layouts
      <4>1. Shared(e.layouts) /\ DOMAIN e.layouts = DOMAIN d.layouts BY <2>1, <3>2, SoundParts DEF Shared
      <4>. QED BY <2>1, <3>2, <4>1, SoundParts, CountedSame
    <3>3. CASE l # Never /\ l \notin DOMAIN d.layouts
      <4>1. e.layouts = With(d.layouts, l, [refs |-> 1]) /\ e.counts["layouts"] = d.counts["layouts"] + 1
        BY <2>1, <3>3
      <4>2. DOMAIN e.layouts = DOMAIN d.layouts \cup {l} BY <4>1 DEF With
      <4>3. Counted(e.layouts, d.counts["layouts"] + 1) BY <3>3, <4>2, SoundParts, CountedMore
      <4>4. Shared(e.layouts) BY <3>3, <4>1, SoundParts DEF Shared, With
      <4>. QED BY <4>1, <4>3, <4>4
    <3>. QED BY <3>1, <3>2, <3>3
  <2>14. /\ nums \in [Counters -> Int] /\ nums["contexts"] = e.counts["contexts"] + 1
         /\ \A c \in Counters \ {"contexts"} : nums[c] = e.counts[c]
    BY <2>1, CountersFive, CountsChange
  <2>. HIDE DEF new, nums, w
  <2>15. /\ Whole(w) /\ SameStore(e, w) /\ w.contexts = new /\ w.publication = d.publication + 1 /\ w.sessions = sess
         /\ w.counts = nums /\ w.layouts = e.layouts /\ w.profiles = e.profiles /\ w.producers = e.producers
    <3>1. Whole(e) BY <2>1
    <3>. QED BY <2>2, <3>1 DEF Whole, Fields, SameStore
  <2>16. /\ nums["contexts"] = d.counts["contexts"] + 1 /\ nums["sessions"] = d.counts["sessions"]
         /\ nums["layouts"] = e.counts["layouts"] /\ nums["profiles"] = d.counts["profiles"]
         /\ nums["producers"] = d.counts["producers"]
    BY <2>1, <2>14, CountersFive
  <2>17. Tables(w)
    BY <2>1, <2>5, <2>6, <2>8, <2>9, <2>13, <2>15, <2>16, SoundParts DEF Tables
  <2>18. Related(w)
    BY <2>1, <2>7, <2>9, <2>10, <2>12, <2>15, SoundParts, PublicationsAre DEF Related
  <2>19. SameStore(d, w) BY <2>1, <2>15 DEF SameStore
  <2>20. Sound(w) BY <2>14, <2>15, <2>17, <2>18, <2>19, SoundParts, PublicationsAre DEF Sound, SameStore
  <2>. QED BY <2>19, <2>20 DEF w
<1>. QED BY <1>1, <1>2, <1>3

\* What a lane puts in a batch, with checkpoints of the ledgers L.
ItemOK(i, L) == EvidenceOK(i) \/ (i.kind = "IMPORT" /\ i.ledger \in L)

ItemsOK(items, L) == \E S : items \in Seq(S) /\ \A i \in S : ItemOK(i, L)

LEMMA PutKeeps ==
    ASSUME NEW d, Sound(d), NEW L, NEW i, ItemOK(i, L)
    PROVE  Sound(Put(d, i)) /\ SameOver(d, Put(d, i), L)
<1>0. ASSUME NEW e, SameStore(d, e) PROVE SameOver(d, e, L) BY <1>0 DEF SameStore, SameOver
<1>1. CASE d.error # "NONE"
  <2>1. Put(d, i) = d BY <1>1 DEF Put
  <2>. QED BY <2>1 DEF SameOver
<1>2. CASE d.error = "NONE" /\ i.kind = "SESSION"
  <2>1. Put(d, i) = PutSession(d, i) BY <1>2 DEF Put
  <2>. QED BY <1>0, <1>2, <2>1, PutSessionKeeps DEF ItemOK, EvidenceOK
<1>3. CASE d.error = "NONE" /\ i.kind = "CONTEXT"
  <2>1. Put(d, i) = PutContext(d, i) BY <1>3 DEF Put
  <2>. QED BY <1>0, <1>3, <2>1, PutContextKeeps DEF ItemOK, EvidenceOK
<1>4. CASE d.error = "NONE" /\ i.kind = "PROFILE"
  <2>1. Put(d, i) = PutProfile(d, i) BY <1>4 DEF Put
  <2>. QED BY <1>0, <2>1, PutProfileKeeps
<1>5. CASE d.error = "NONE" /\ i.kind \notin {"SESSION", "CONTEXT", "PROFILE"}
  <2>1. Put(d, i) = PutImport(d, i) BY <1>5 DEF Put
  <2>2. i.ledger \in L BY <1>5 DEF ItemOK, EvidenceOK
  <2>3. CASE d.policy.imports = 0
    <3>1. Put(d, i) = Refused(d, "PRESSURE") BY <2>1, <2>3 DEF PutImport
    <3>. QED BY <1>0, <3>1, RefusedKeeps
  <2>4. CASE d.policy.imports # 0
    <3>1. Put(d, i) = [d EXCEPT !.ledger = i.ledger] BY <2>1, <2>4 DEF PutImport
    <3>. QED BY <2>2, <3>1, RestKeeps
  <2>. QED BY <2>3, <2>4
<1>. QED BY <1>1, <1>2, <1>3, <1>4, <1>5

LEMMA PutKindIsDefined ==
    ASSUME NEW d, NEW items, NEW kind, Len(items) \in Nat
    PROVE  \E f : /\ f[0] = d
                  /\ \A n \in 1..Len(items) :
                         f[n] = IF items[n].kind = kind THEN Put(f[n - 1], items[n]) ELSE f[n - 1]
                  /\ PutKind(d, items, kind) = f[Len(items)]
<1>. DEFINE Body(f, n) == IF n = 0 THEN d
                          ELSE IF items[n].kind = kind THEN Put(f[n - 1], items[n]) ELSE f[n - 1]
            Good(n) == \E f : f = [i \in 0..n |-> Body(f, i)]
            N == Len(items)
<1>0. N \in Nat OBVIOUS
<1>. HIDE DEF N
<1>1. Good(0)
  <2>. DEFINE f == [i \in 0..0 |-> d]
  <2>1. \A i \in 0..0 : Body(f, i) = d OBVIOUS
  <2>2. f = [i \in 0..0 |-> Body(f, i)] BY <2>1
  <2>. QED BY <2>2
<1>2. ASSUME NEW n \in 0..N, Good(n), n < N PROVE Good(n + 1)
  <2>1. PICK g : g = [i \in 0..n |-> Body(g, i)] BY <1>2
  <2>. DEFINE e == IF items[n + 1].kind = kind THEN Put(g[n], items[n + 1]) ELSE g[n]
              f == [i \in 0..(n + 1) |-> IF i = n + 1 THEN e ELSE g[i]]
  <2>. HIDE DEF e
  <2>2. n \in Nat BY <1>0
  <2>3. ASSUME NEW i \in 0..(n + 1) PROVE f[i] = Body(f, i)
    <3>1. CASE i = n + 1
      <4>1. i # 0 /\ i - 1 = n /\ n \in 0..(n + 1) /\ n # n + 1 BY <2>2, <3>1
      <4>2. f[i - 1] = g[n] BY <4>1
      <4>3. f[i] = e BY <3>1
      <4>4. Body(f, i) = IF items[i].kind = kind THEN Put(f[i - 1], items[i]) ELSE f[i - 1] BY <4>1
      <4>. HIDE DEF f
      <4>. QED BY <3>1, <4>2, <4>3, <4>4 DEF e
    <3>2. CASE i # n + 1
      <4>1. i \in 0..n /\ f[i] = g[i] BY <2>2, <3>2
      <4>2. g[i] = Body(g, i)
        <5>. DEFINE h == [j \in 0..n |-> Body(g, j)]
        <5>1. h[i] = Body(g, i) BY <4>1
        <5>. HIDE DEF h
        <5>2. g = h BY <2>1 DEF h
        <5>. QED BY <5>1, <5>2
      <4>3. CASE i = 0 BY <4>1, <4>2, <4>3
      <4>4. CASE i # 0
        <5>1. i - 1 \in 0..(n + 1) /\ i - 1 # n + 1 BY <2>2, <4>1, <4>4
        <5>2. f[i - 1] = g[i - 1] BY <5>1
        <5>3. /\ Body(g, i) = IF items[i].kind = kind THEN Put(g[i - 1], items[i]) ELSE g[i - 1]
              /\ Body(f, i) = IF items[i].kind = kind THEN Put(f[i - 1], items[i]) ELSE f[i - 1]
          BY <4>4
        <5>. HIDE DEF f
        <5>. QED BY <4>1, <4>2, <5>2, <5>3
      <4>. QED BY <4>3, <4>4
    <3>. QED BY <3>1, <3>2
  <2>4. f = [i \in 0..(n + 1) |-> Body(f, i)] BY <2>3
  <2>. QED BY <2>4
<1>3. Good(N)
  <2>. DEFINE G == {n \in 0..N : Good(n)}
  <2>1. 0 \in G BY <1>0, <1>1
  <2>2. ASSUME NEW m \in 0..N, m \in G, m < N PROVE m + 1 \in G
    <3>. HIDE DEF Good
    <3>1. Good(m) BY <2>2
    <3>2. m + 1 \in 0..N BY <1>0, <2>2
    <3>. QED BY <1>2, <2>2, <3>1, <3>2
  <2>. HIDE DEF G
  <2>3. \A m \in 0..N : m \in G BY <1>0, <2>1, <2>2, Inductive
  <2>4. N \in 0..N BY <1>0
  <2>. QED BY <2>3, <2>4 DEF G
<1>. DEFINE f == CHOOSE f : f = [n \in 0..N |-> Body(f, n)]
<1>4. f = [n \in 0..N |-> Body(f, n)] BY <1>3
<1>5. PutKind(d, items, kind) = f[N] BY DEF PutKind, N
<1>. HIDE DEF f
<1>6. ASSUME NEW n \in 0..N PROVE f[n] = Body(f, n)
  <2>. DEFINE h == [j \in 0..N |-> Body(f, j)]
  <2>1. h[n] = Body(f, n) OBVIOUS
  <2>. HIDE DEF h
  <2>2. f = h BY <1>4 DEF h
  <2>. QED BY <2>1, <2>2
<1>7. /\ f[0] = d
      /\ \A n \in 1..N : f[n] = IF items[n].kind = kind THEN Put(f[n - 1], items[n]) ELSE f[n - 1]
  BY <1>0, <1>6
<1>. QED BY <1>5, <1>7 DEF N

LEMMA PutKindKeeps ==
    ASSUME NEW d, Sound(d), NEW L, NEW items, ItemsOK(items, L), NEW kind
    PROVE  Sound(PutKind(d, items, kind)) /\ SameOver(d, PutKind(d, items, kind), L)
<1>. DEFINE N == Len(items)
<1>1. PICK S : items \in Seq(S) /\ \A i \in S : ItemOK(i, L) BY DEF ItemsOK
<1>2. N \in Nat BY <1>1, LenProperties
<1>3. \A n \in 1..N : ItemOK(items[n], L) BY <1>1, ElementOfSeq
<1>4. PICK f : /\ f[0] = d
               /\ \A n \in 1..N : f[n] = IF items[n].kind = kind THEN Put(f[n - 1], items[n]) ELSE f[n - 1]
               /\ PutKind(d, items, kind) = f[N]
  BY <1>2, PutKindIsDefined
<1>. HIDE DEF N
<1>. DEFINE G == {n \in 0..N : Sound(f[n]) /\ SameOver(d, f[n], L)}
<1>5. 0 \in G BY <1>2, <1>4 DEF SameOver
<1>6. ASSUME NEW m \in 0..N, m \in G, m < N PROVE m + 1 \in G
  <2>1. m + 1 \in 1..N /\ m + 1 \in 0..N /\ (m + 1) - 1 = m BY <1>2, <1>6
  <2>2. f[m + 1] = IF items[m + 1].kind = kind THEN Put(f[m], items[m + 1]) ELSE f[m] BY <1>4, <2>1
  <2>3. Sound(f[m]) /\ SameOver(d, f[m], L) BY <1>6
  <2>4. Sound(f[m + 1]) /\ SameOver(f[m], f[m + 1], L) BY <1>3, <2>1, <2>2, <2>3, PutKeeps DEF SameOver
  <2>5. SameOver(d, f[m + 1], L) BY <2>3, <2>4 DEF SameOver
  <2>. QED BY <2>1, <2>4, <2>5
<1>. HIDE DEF G
<1>7. \A m \in 0..N : m \in G BY <1>2, <1>5, <1>6, Inductive
<1>8. N \in 0..N BY <1>2
<1>. QED BY <1>4, <1>7, <1>8 DEF G

LEMMA PutAllKeeps ==
    ASSUME NEW d, Sound(d), NEW L, NEW items, ItemsOK(items, L)
    PROVE  Sound(PutAll(d, items)) /\ SameOver(d, PutAll(d, items), L)
<1>1. PICK d1 : d1 = PutKind(d, items, "SESSION") OBVIOUS
<1>2. PICK d2 : d2 = PutKind(d1, items, "CONTEXT") OBVIOUS
<1>3. PICK d3 : d3 = PutKind(d2, items, "PROFILE") OBVIOUS
<1>4. PICK d4 : d4 = PutKind(d3, items, "IMPORT") OBVIOUS
<1>5. Sound(d1) /\ SameOver(d, d1, L) BY <1>1, PutKindKeeps
<1>6. Sound(d2) /\ SameOver(d1, d2, L) BY <1>2, <1>5, PutKindKeeps
<1>7. Sound(d3) /\ SameOver(d2, d3, L) BY <1>3, <1>6, PutKindKeeps
<1>8. Sound(d4) /\ SameOver(d3, d4, L) BY <1>4, <1>7, PutKindKeeps
<1>9. PutAll(d, items) = d4 BY <1>1, <1>2, <1>3, <1>4 DEF PutAll
<1>. QED BY <1>5, <1>6, <1>7, <1>8, <1>9 DEF SameOver

-----------------------------------------------------------------------------
(* One transaction                                                         *)

\* A batch as a lane makes it.
BatchOK(b, L) == b.issued \in Nat /\ ItemsOK(b.items, L)

LEMMA RegisteredKeeps ==
    ASSUME NEW d, Sound(d), NEW b, b.issued \in Nat, d.policy.horizon \in Nat
    PROVE  Sound(Registered(d, b)) /\ SameStore(d, Registered(d, b))
<1>. DEFINE p == b.producer
            e == Registered(d, b)
<1>1. CASE p \in DOMAIN d.producers
  <2>1. e = d BY <1>1 DEF Registered
  <2>. QED BY <2>1 DEF SameStore
<1>2. CASE p \notin DOMAIN d.producers /\ d.counts.producers >= d.policy.producers
  <2>1. e = Refused(d, "PRESSURE") BY <1>2 DEF Registered
  <2>. QED BY <2>1, RefusedKeeps
<1>3. CASE p \notin DOMAIN d.producers /\ ~ d.counts.producers >= d.policy.producers
  <2>. DEFINE row == [sequence |-> 0, digest |-> <<>>, expires |-> b.issued + d.policy.horizon]
              new == With(d.producers, p, row)
              nums == [d.counts EXCEPT !["producers"] = d.counts["producers"] + 1]
  <2>1. e = [d EXCEPT !.producers = new, !.counts = nums] BY <1>3 DEF Registered
  <2>2. row.expires \in Nat OBVIOUS
  <2>. HIDE DEF row
  <2>3. DOMAIN new = DOMAIN d.producers \cup {p} /\ new[p] = row
        /\ \A x \in DOMAIN d.producers \ {p} : new[x] = d.producers[x]
    BY DEF With
  <2>. HIDE DEF new
  <2>4. Counted(new, d.counts["producers"] + 1) BY <1>3, <2>3, SoundParts, CountedMore
  <2>5. Dated(new) BY <2>2, <2>3, SoundParts DEF Dated
  <2>6. /\ nums \in [Counters -> Int] /\ nums["producers"] = d.counts["producers"] + 1
        /\ \A c \in Counters \ {"producers"} : nums[c] = d.counts[c]
    BY SoundParts, CountersFive, CountsChange
  <2>. HIDE DEF e, nums
  <2>7. /\ Whole(e) /\ SameStore(d, e) /\ e.producers = new /\ e.counts = nums /\ e.publication = d.publication
        /\ e.contexts = d.contexts /\ e.layouts = d.layouts /\ e.sessions = d.sessions /\ e.profiles = d.profiles
    <3>1. Whole(d) BY SoundParts
    <3>. QED BY <2>1, <3>1 DEF Whole, Fields, SameStore
  <2>8. Tables(e) BY <2>4, <2>5, <2>6, <2>7, SoundParts, CountersFive DEF Tables
  <2>9. Related(e) BY <2>7, SoundParts DEF Related
  <2>10. Sound(e) BY <2>6, <2>7, <2>8, <2>9, SoundParts DEF Sound, SameStore
  <2>. QED BY <2>7, <2>10 DEF e
<1>. QED BY <1>1, <1>2, <1>3

\* Whatever is refused in the end is refused as a whole; what is stored is sound
\* and within its bounds.
LEMMA StoredKeeps ==
    ASSUME NEW d, Sound(d), NEW L, NEW b, BatchOK(b, L), d.policy.horizon \in Nat
    PROVE  Stored(d, b).error = "NONE" =>
               /\ Sound(Stored(d, b)) /\ SameOver(d, Stored(d, b), L)
               /\ WithinBounds(Stored(d, b))
<1>1. PICK d1 : d1 = Prune(d) OBVIOUS
<1>2. PICK d2 : d2 = Registered(d1, b) OBVIOUS
<1>3. PICK put : put = PutAll(d2, b.items) OBVIOUS
<1>4. PICK e : e = Prune(put) OBVIOUS
<1>5. Sound(d1) /\ SameStore(d, d1) BY <1>1, PruneKeeps
<1>6. Sound(d2) /\ SameStore(d1, d2) BY <1>2, <1>5, RegisteredKeeps DEF BatchOK, SameStore
<1>7. Sound(put) /\ SameOver(d2, put, L) BY <1>3, <1>6, PutAllKeeps DEF BatchOK
<1>8. Sound(e) /\ SameStore(put, e) BY <1>4, <1>7, PruneKeeps
<1>9. SameOver(d, e, L) BY <1>5, <1>6, <1>7, <1>8 DEF SameStore, SameOver
<1>. DEFINE p == b.producer
            new == [e.producers EXCEPT ![p] = [sequence |-> b.sequence, digest |-> b.items,
                                               expires |-> e.producers[p].expires]]
            w == [e EXCEPT !.producers = new]
<1>10. Stored(d, b) = IF put.error # "NONE" THEN put
                      ELSE IF ~WithinBounds(e) THEN Refused(e, "PRESSURE") ELSE w
  BY <1>1, <1>2, <1>3, <1>4 DEF Stored
<1>11. Refused(e, "PRESSURE").error = "PRESSURE"
  <2>1. Whole(e) BY <1>8, SoundParts
  <2>. QED BY <2>1 DEF Refused, Whole, Fields
<1>12. Dated(new) /\ DOMAIN new = DOMAIN e.producers BY <1>8, SoundParts DEF Dated
<1>. HIDE DEF new
<1>13. /\ Whole(w) /\ SameStore(e, w) /\ w.producers = new /\ w.counts = e.counts /\ w.publication = e.publication
       /\ w.contexts = e.contexts /\ w.layouts = e.layouts /\ w.sessions = e.sessions /\ w.profiles = e.profiles
  <2>1. Whole(e) BY <1>8, SoundParts
  <2>. QED BY <2>1 DEF Whole, Fields, SameStore
<1>. HIDE DEF w
<1>14. Tables(w)
  <2>1. Counted(new, e.counts["producers"]) BY <1>8, <1>12, SoundParts, CountedSame
  <2>. QED BY <1>8, <1>12, <1>13, <2>1, SoundParts DEF Tables
<1>15. Related(w) BY <1>8, <1>13, SoundParts DEF Related
<1>16. Sound(w) BY <1>8, <1>13, <1>14, <1>15, SoundParts DEF Sound, SameStore
<1>17. WithinBounds(e) => WithinBounds(w) BY <1>13 DEF WithinBounds, SameStore
<1>18. SameOver(d, w, L) BY <1>9, <1>13 DEF SameStore, SameOver
<1>. QED BY <1>10, <1>11, <1>16, <1>17, <1>18

\* The bounds are those of the policy of a store that has one.
Bounded(d) == d.schema = "V2" => WithinBounds(d)

LEMMA WriteKeeps ==
    ASSUME NEW d, Sound(d), Bounded(d), NEW L, NEW b, BatchOK(b, L), d.policy.horizon \in Nat, NEW t \in Nat,
           NEW e, e = Write(d, b, t).store
    PROVE  /\ Sound(e) /\ Bounded(e) /\ e.schema = d.schema /\ e.policy = d.policy
           /\ e.ledger \in L \cup {d.ledger}
<1>1. PICK c : c = Clocked(d, t) OBVIOUS
<1>2. Sound(c) /\ c.schema = d.schema /\ c.policy = d.policy /\ c.counts = d.counts /\ c.ledger = d.ledger
  BY <1>1, ClockedKeeps
<1>3. Bounded(c) BY <1>2 DEF Bounded, WithinBounds
<1>4. PICK w : w = Stored(c, b) OBVIOUS
<1>5. w.error = "NONE" => Sound(w) /\ SameOver(c, w, L) /\ WithinBounds(w) BY <1>2, <1>4, StoredKeeps
<1>6. e = d \/ e = c \/ (e = w /\ w.error = "NONE")
  <2>1. Judged(c, b) \in {"CONTRACT", "DUPLICATE", "NEW"} BY DEF Judged
  <2>. QED BY <1>1, <1>4, <2>1 DEF Write
<1>. QED BY <1>2, <1>3, <1>5, <1>6 DEF Bounded, SameOver

LEMMA MaintainedKeeps ==
    ASSUME NEW d, Sound(d), Bounded(d), NEW t \in Nat, NEW e, e = Maintained(d, t)
    PROVE  Sound(e) /\ Bounded(e) /\ e.schema = d.schema /\ e.policy = d.policy /\ e.ledger = d.ledger
<1>1. PICK c : c = Clocked(d, t) OBVIOUS
<1>2. Sound(c) /\ c.schema = d.schema /\ c.policy = d.policy /\ c.ledger = d.ledger BY <1>1, ClockedKeeps
<1>3. PICK w : w = Prune(c) OBVIOUS
<1>4. Sound(w) /\ SameStore(c, w) BY <1>2, <1>3, PruneKeeps
<1>5. e = IF WithinBounds(w) THEN w ELSE d BY <1>1, <1>3 DEF Maintained
<1>. QED BY <1>2, <1>4, <1>5 DEF Bounded, SameStore

LEMMA FreshIsSound == Sound(Uninitialized)
<1>. DEFINE e == Uninitialized
<1>1. /\ Whole(e) /\ e.counts = [k \in Counters |-> 0] /\ e.publication = 0 /\ e.clock = 0
      /\ e.contexts = <<>> /\ e.sessions = <<>> /\ e.layouts = <<>> /\ e.profiles = <<>> /\ e.producers = <<>>
  BY DEF Uninitialized, Whole, Fields
<1>. HIDE DEF e
<1>2. DOMAIN << >> = {} BY EmptySeq
<1>3. Counted(<<>>, 0) BY <1>2, FS_EmptySet DEF Counted
<1>4. Timed(<<>>) /\ Typed(<<>>) /\ Shared(<<>>) /\ Learned(<<>>) /\ Dated(<<>>)
  BY <1>2 DEF Timed, Typed, Shared, Learned, Dated
<1>5. e.counts \in [Counters -> Int] /\ \A k \in Counters : e.counts[k] = 0 BY <1>1
<1>6. Tables(e) BY <1>1, <1>3, <1>4, <1>5, CountersFive DEF Tables
<1>7. Related(e) BY <1>1, <1>2 DEF Related, SessionsHeld, LayoutsUsed, Published
<1>8. Sound(e) BY <1>1, <1>5, <1>6, <1>7 DEF Sound
<1>. QED BY <1>8 DEF e

\* A new store, or one that gets another policy, is sound.
Labelled(d, schema, policy) == [d EXCEPT !.schema = schema, !.policy = policy]

LEMMA LabelKeeps ==
    ASSUME NEW d, Sound(d), NEW schema, NEW policy
    PROVE  /\ Sound(Labelled(d, schema, policy))
           /\ Labelled(d, schema, policy).schema = schema /\ Labelled(d, schema, policy).policy = policy
           /\ Labelled(d, schema, policy).counts = d.counts /\ Labelled(d, schema, policy).ledger = d.ledger
<1>. DEFINE e == Labelled(d, schema, policy)
<1>0. Whole(d) BY SoundParts
<1>1. /\ Whole(e) /\ e.schema = schema /\ e.policy = policy /\ e.clock = d.clock
      /\ e.ledger = d.ledger /\ e.counts = d.counts /\ e.publication = d.publication /\ e.contexts = d.contexts
      /\ e.sessions = d.sessions /\ e.layouts = d.layouts /\ e.profiles = d.profiles /\ e.producers = d.producers
  BY <1>0 DEF Whole, Fields, Labelled
<1>. HIDE DEF e
<1>2. Tables(e) BY <1>1, SoundParts DEF Tables
<1>3. Related(e) BY <1>1, SoundParts DEF Related
<1>. QED BY <1>1, <1>2, <1>3, SoundParts DEF Sound, e

\* What the disk is between two transactions.
DiskOK(d, L) ==
    /\ Sound(d) /\ Bounded(d) /\ d.schema \in {"NONE", "V1", "V2"}
    /\ d.schema # "NONE" => PolicyOK(d.policy)
    /\ d.ledger \in L \cup {Never}

LEMMA OpenedKeeps ==
    ASSUME NEW d, NEW L, DiskOK(d, L), NEW policy, PolicyOK(policy), NEW upgrade \in BOOLEAN,
           NEW o, o = Opened(d, policy, upgrade)
    PROVE  /\ DiskOK(o.store, L)
           /\ o.ok => o.store.schema = "V2"
           /\ d.schema = "V2" => o.store.schema = "V2"
<1>1. CASE d.schema = "NONE"
  <2>1. PICK e : e = Labelled(Uninitialized, "V2", policy) OBVIOUS
  <2>2. o.store = e BY <1>1, <2>1 DEF Opened, Initialized, Labelled
  <2>3. Sound(e) /\ e.schema = "V2" /\ e.policy = policy /\ e.counts = Uninitialized.counts
        /\ e.ledger = Uninitialized.ledger
    BY <2>1, FreshIsSound, LabelKeeps
  <2>4. Uninitialized.ledger = Never /\ Uninitialized.counts = [k \in Counters |-> 0] BY DEF Uninitialized
  <2>5. \A k \in Counters : e.counts[k] = 0 BY <2>3, <2>4
  <2>6. WithinBounds(e) BY <2>3, <2>5, CountersFive DEF WithinBounds, PolicyOK
  <2>. QED BY <1>1, <2>2, <2>3, <2>4, <2>6 DEF DiskOK, Bounded
<1>2. CASE d.schema = "V1"
  <2>. DEFINE ok == Qualified(d) /\ upgrade /\ d.policy = [policy EXCEPT !.imports = 0]
  <2>1. o.store = (IF ok THEN Upgraded(d, policy) ELSE d) /\ o.ok = ok BY <1>2 DEF Opened
  <2>2. CASE ~ok BY <1>2, <2>1, <2>2 DEF DiskOK
  <2>3. CASE ok
    <3>1. PICK e : e = Labelled(d, "V2", policy) OBVIOUS
    <3>2. o.store = e BY <2>1, <2>3, <3>1 DEF Upgraded, Labelled
    <3>3. Sound(e) /\ e.schema = "V2" /\ e.policy = policy /\ e.counts = d.counts /\ e.ledger = d.ledger
      BY <3>1, LabelKeeps DEF DiskOK
    <3>4. \A f \in {"contexts", "bytes", "sessions", "profiles", "producers"} : d.policy[f] = policy[f]
      BY <2>3 DEF PolicyOK
    <3>5. WithinBounds(e) BY <2>3, <3>3, <3>4 DEF Qualified, WithinBounds
    <3>. QED BY <3>2, <3>3, <3>5 DEF DiskOK, Bounded
  <2>. QED BY <2>2, <2>3
<1>3. CASE d.schema = "V2"
  <2>1. o.store = d BY <1>3 DEF Opened
  <2>. QED BY <1>3, <2>1
<1>. QED BY <1>1, <1>2, <1>3 DEF DiskOK

LEMMA WriteDisk ==
    ASSUME NEW d, NEW L, DiskOK(d, L), d.schema = "V2", NEW b, BatchOK(b, L), NEW t \in Nat
    PROVE  DiskOK(Write(d, b, t).store, L) /\ Write(d, b, t).store.schema = "V2"
<1>1. PICK e : e = Write(d, b, t).store OBVIOUS
<1>2. d.policy.horizon \in Nat /\ PolicyOK(d.policy) BY DEF DiskOK, PolicyOK
<1>3. Sound(e) /\ Bounded(e) /\ e.schema = d.schema /\ e.policy = d.policy /\ e.ledger \in L \cup {d.ledger}
  BY <1>1, <1>2, WriteKeeps DEF DiskOK
<1>. QED BY <1>1, <1>2, <1>3 DEF DiskOK

LEMMA MaintainedDisk ==
    ASSUME NEW d, NEW L, DiskOK(d, L), d.schema = "V2", NEW t \in Nat
    PROVE  DiskOK(Maintained(d, t), L) /\ Maintained(d, t).schema = "V2"
<1>1. PICK e : e = Maintained(d, t) OBVIOUS
<1>2. Sound(e) /\ Bounded(e) /\ e.schema = d.schema /\ e.policy = d.policy /\ e.ledger = d.ledger
  BY <1>1, MaintainedKeeps DEF DiskOK
<1>. QED BY <1>1, <1>2 DEF DiskOK

-----------------------------------------------------------------------------
(* Lanes                                                                   *)

\* The ledgers that the importers of this archive write.
Ledgers ==
    {g \in [processed : 0..Len(plan.source), imported : Nat, skipped : Nat, complete : BOOLEAN] :
        g.complete <=> g.processed = Len(plan.source)}

LaneFields == {"pc", "producer", "todo", "batch", "attempt", "ledger", "runs", "acknowledged"}

LaneOK(l, L, importing, open) ==
    /\ l = [f \in LaneFields |-> l[f]]
    /\ l.producer \in [number : Nat, issued : Nat, sequence : Nat]
    /\ ItemsOK(l.todo, {})
    /\ ItemsOK(l.batch, IF importing THEN L ELSE {})
    /\ l.pc \in {"IDLE", "CONVERTING", "WRITING"} => open
    /\ l.pc = "WRITING" => l.batch # <<>>
    /\ l.pc = "CONVERTING" => /\ importing /\ l.ledger \in L \cup {Never}
                              /\ l.ledger # Never => ~l.ledger.complete

\* The inductive invariant.
StoreInv ==
    /\ plan \in Instances /\ wall \in Nat
    /\ DiskOK(disk, Ledgers)
    /\ lane = [c \in Client |-> lane[c]]
    /\ \A c \in Client : LaneOK(lane[c], Ledgers, c \in Importers, disk.schema = "V2")

LEMMA InvIsSound == StoreInv => StoreSound
<1>. SUFFICES ASSUME StoreInv PROVE StoreSound OBVIOUS
<1>1. Sound(disk) /\ Bounded(disk) BY DEF StoreInv, DiskOK
<1>2. Accounted(disk) BY <1>1, SoundParts DEF Accounted, Counters, Counted
<1>. QED BY <1>1, <1>2, SoundParts DEF StoreSound, Bounded

LEMMA EmptyItems ==
    ASSUME NEW L
    PROVE  ItemsOK(<<>>, L)
<1>1. <<>> \in Seq({}) BY EmptySeq
<1>. DEFINE Of(S) == <<>> \in Seq(S) /\ \A i \in S : ItemOK(i, L)
<1>2. Of({}) BY <1>1
<1>. HIDE DEF Of
<1>3. \E S : Of(S) BY <1>2
<1>. QED BY <1>3 DEF ItemsOK, Of

LEMMA SomeItems ==
    ASSUME NEW s, NEW L, ItemsOK(s, L), NEW m \in Nat \ {0}, NEW n, n \in Nat \/ n = Len(s), n <= Len(s)
    PROVE  ItemsOK(SubSeq(s, m, n), L)
<1>1. PICK S : s \in Seq(S) /\ \A i \in S : ItemOK(i, L) BY DEF ItemsOK
<1>2. Len(s) \in Nat /\ n \in Nat BY <1>1, LenProperties
<1>3. \A i \in m..n : s[i] \in S
  <2>1. \A i \in m..n : i \in 1..Len(s) BY <1>2
  <2>. QED BY <1>1, <2>1, ElementOfSeq
<1>4. SubSeq(s, m, n) \in Seq(S) BY <1>2, <1>3, SubSeqProperties
<1>. QED BY <1>1, <1>4 DEF ItemsOK

LEMMA LaterItems ==
    ASSUME NEW s, NEW L, NEW M, ItemsOK(s, L), L \subseteq M
    PROVE  ItemsOK(s, M)
<1>1. PICK S : s \in Seq(S) /\ \A i \in S : ItemOK(i, L) BY DEF ItemsOK
<1>2. \A i \in S : ItemOK(i, M) BY <1>1 DEF ItemOK
<1>. QED BY <1>1, <1>2 DEF ItemsOK

\* The last item of a batch.
LEMMA LastItem ==
    ASSUME NEW s, NEW L, ItemsOK(s, L), s # <<>>
    PROVE  ItemOK(s[Len(s)], L) /\ Len(s) \in Nat \ {0}
<1>1. PICK S : s \in Seq(S) /\ \A i \in S : ItemOK(i, L) BY DEF ItemsOK
<1>2. Len(s) \in Nat /\ Len(s) # 0 BY <1>1, LenProperties, EmptySeq
<1>3. Len(s) \in 1..Len(s) BY <1>2
<1>. QED BY <1>1, <1>2, <1>3, ElementOfSeq

LEMMA StoreInit == Init => StoreInv
<1>. SUFFICES ASSUME Init PROVE StoreInv OBVIOUS
<1>1. plan \in Instances /\ wall = 1 /\ lane = [c \in Client |-> [Closed EXCEPT !.todo = plan.todo[c]]]
  BY DEF Init, WritersInit
<1>2. ScenarioOK(plan) BY <1>1, ScenarioAssumption
<1>3. DiskOK(disk, Ledgers)
  <2>1. Uninitialized.ledger = Never /\ Uninitialized.schema = "NONE" /\ Uninitialized.counts = [k \in Counters |-> 0]
    BY DEF Uninitialized
  <2>2. CASE ~plan.old
    <3>1. disk = Uninitialized BY <2>2 DEF Init, WritersInit
    <3>. QED BY <2>1, <3>1, FreshIsSound DEF DiskOK, Bounded
  <2>3. CASE plan.old
    <3>. DEFINE policy == plan.policy[plan.upgrader]
                first == [policy EXCEPT !.imports = 0]
    <3>1. disk = Version1(policy) BY <2>3 DEF Init, WritersInit
    <3>2. PolicyOK(first) BY <1>2 DEF ScenarioOK, PolicyOK
    <3>. HIDE DEF first
    <3>3. disk = Labelled(Uninitialized, "V1", first) BY <3>1 DEF Version1, Labelled, first
    <3>4. Sound(disk) /\ disk.schema = "V1" /\ disk.policy = first /\ disk.ledger = Uninitialized.ledger
      BY <3>3, FreshIsSound, LabelKeeps
    <3>. QED BY <2>1, <3>2, <3>4 DEF DiskOK, Bounded
  <2>. QED BY <2>2, <2>3
<1>4. ASSUME NEW c \in Client PROVE LaneOK(lane[c], Ledgers, c \in Importers, disk.schema = "V2")
  <2>1. PICK l : l = [Closed EXCEPT !.todo = plan.todo[c]] OBVIOUS
  <2>2. /\ l = [f \in LaneFields |-> l[f]] /\ l.todo = plan.todo[c] /\ l.pc = "CLOSED" /\ l.batch = <<>>
        /\ l.producer = [number |-> 0, issued |-> 0, sequence |-> 0]
    BY <2>1 DEF Closed, LaneFields
  <2>3. ItemsOK(plan.todo[c], {})
    <3>1. plan.todo[c] \in Seq(Range(plan.todo[c])) /\ \A n \in DOMAIN plan.todo[c] : EvidenceOK(plan.todo[c][n])
      BY <1>2 DEF ScenarioOK
    <3>2. \A i \in Range(plan.todo[c]) : ItemOK(i, {}) BY <3>1 DEF Range, ItemOK
    <3>. QED BY <3>1, <3>2 DEF ItemsOK
  <2>4. LaneOK(l, Ledgers, c \in Importers, disk.schema = "V2") BY <2>2, <2>3, EmptyItems DEF LaneOK
  <2>. QED BY <1>1, <2>1, <2>4
<1>. QED BY <1>1, <1>3, <1>4 DEF StoreInv

\* A step that changes at most one lane, and leaves a store a store.
LEMMA StepKeeps ==
    ASSUME StoreInv, plan' = plan, wall' \in Nat, DiskOK(disk', Ledgers),
           disk.schema = "V2" => disk'.schema = "V2",
           NEW c \in Client, NEW l, LaneOK(l, Ledgers, c \in Importers, disk'.schema = "V2"),
           lane' = [lane EXCEPT ![c] = l]
    PROVE  StoreInv'
<1>1. Ledgers' = Ledgers /\ Importers' = Importers BY DEF Ledgers, Importers
<1>2. lane' = [x \in Client |-> lane'[x]] /\ \A x \in Client : lane'[x] = IF x = c THEN l ELSE lane[x]
  BY DEF StoreInv
<1>3. ASSUME NEW x \in Client PROVE LaneOK(lane'[x], Ledgers, x \in Importers, disk'.schema = "V2")
  <2>1. CASE x = c BY <1>2, <2>1
  <2>2. CASE x # c
    <3>1. LaneOK(lane[x], Ledgers, x \in Importers, disk.schema = "V2") /\ lane'[x] = lane[x]
      BY <1>2, <2>2 DEF StoreInv
    <3>. QED BY <3>1 DEF LaneOK
  <2>. QED BY <2>1, <2>2
<1>4. plan' \in Instances BY DEF StoreInv
<1>5. (DiskOK(disk, Ledgers))' BY <1>1
<1>6. \A x \in Client : (LaneOK(lane[x], Ledgers, x \in Importers, disk.schema = "V2"))' BY <1>1, <1>3
<1>. QED BY <1>2, <1>4, <1>5, <1>6 DEF StoreInv

-----------------------------------------------------------------------------
(* The lane that a step leaves                                             *)

\* What a lane is known to be.
LEMMA LaneParts ==
    ASSUME StoreInv, NEW c \in Client
    PROVE  /\ LaneOK(lane[c], Ledgers, c \in Importers, disk.schema = "V2")
           /\ plan \in Instances /\ ScenarioOK(plan) /\ wall \in Nat /\ DiskOK(disk, Ledgers)
           /\ lane[c].producer \in [number : Nat, issued : Nat, sequence : Nat]
           /\ lane[c].pc \in {"IDLE", "CONVERTING", "WRITING"} => disk.schema = "V2"
BY ScenarioAssumption DEF StoreInv, LaneOK

\* A lane whose fields that nothing asks about differ.
LEMMA FieldsKeep ==
    ASSUME NEW l, NEW L, NEW importing, NEW open, LaneOK(l, L, importing, open), NEW e, NEW now,
           e = [f \in LaneFields |-> e[f]],
           e.producer \in [number : Nat, issued : Nat, sequence : Nat],
           e.todo = l.todo \/ ItemsOK(e.todo, {}), e.batch = l.batch \/ e.batch = <<>>,
           e.pc \in {"IDLE", "CONVERTING", "WRITING"} => now,
           e.pc \notin {"CONVERTING", "WRITING"} \/ (e.pc = "WRITING" /\ l.pc = "WRITING" /\ e.batch = l.batch)
    PROVE  LaneOK(e, L, importing, now)
BY EmptyItems DEF LaneOK

LEMMA ProducerKeeps ==
    ASSUME NEW p \in [number : Nat, issued : Nat, sequence : Nat], wall \in Nat
    PROVE  NewProducer(p) \in [number : Nat, issued : Nat, sequence : Nat]
BY DEF NewProducer

LEMMA RotatedKeeps ==
    ASSUME StoreInv, NEW c \in Client
    PROVE  Rotated(c) \in [number : Nat, issued : Nat, sequence : Nat]
<1>. DEFINE p == lane[c].producer
            q == IF 2 * (wall - p.issued) > plan.policy[c].horizon THEN NewProducer(p) ELSE p
<1>1. p \in [number : Nat, issued : Nat, sequence : Nat] /\ wall \in Nat BY LaneParts
<1>2. q \in [number : Nat, issued : Nat, sequence : Nat] BY <1>1, ProducerKeeps
<1>3. Rotated(c) = [q EXCEPT !.sequence = @ + 1] BY DEF Rotated
<1>. HIDE DEF q
<1>. QED BY <1>2, <1>3

LEMMA RestKeepsItems ==
    ASSUME NEW l, NEW L, NEW importing, NEW open, LaneOK(l, L, importing, open)
    PROVE  ItemsOK(Rest(l), {})
<1>1. ItemsOK(l.todo, {}) BY DEF LaneOK
<1>2. PICK M : ItemsOK(l.batch, M) BY DEF LaneOK
<1>3. Len(l.batch) \in Nat /\ Len(l.todo) \in Nat
  <2>1. PICK S : l.batch \in Seq(S) BY <1>2 DEF ItemsOK
  <2>2. PICK T : l.todo \in Seq(T) BY <1>1 DEF ItemsOK
  <2>. QED BY <2>1, <2>2, LenProperties
<1>4. Len(l.batch) + 1 \in Nat \ {0} /\ Len(l.todo) <= Len(l.todo) BY <1>3
<1>5. ItemsOK(SubSeq(l.todo, Len(l.batch) + 1, Len(l.todo)), {}) BY <1>1, <1>3, <1>4, SomeItems
<1>. QED BY <1>5, EmptyItems DEF Rest

\* A row that is converted is evidence, and moves the ledger on by one.
LEMMA ConvertedOK ==
    ASSUME StoreInv, NEW c \in Client, lane[c].pc = "CONVERTING"
    PROVE  ItemsOK(Converted(lane[c].ledger), Ledgers) /\ Converted(lane[c].ledger) # <<>>
<1>. DEFINE ledger == lane[c].ledger
            old == Progress(ledger)
            n == old.processed + 1
            row == plan.source[n]
            new == [processed |-> n, imported |-> old.imported + (IF row.final THEN 1 ELSE 0),
                    skipped |-> old.skipped + (IF row.final THEN 0 ELSE 1), complete |-> n = Len(plan.source)]
            checkpoint == [kind |-> "IMPORT", ledger |-> new,
                           expected |-> IF ledger = Never THEN Never ELSE ledger.processed]
            session == [kind |-> "SESSION", id |-> Never, session |-> row.partition, started |-> FALSE, at |-> Never]
            context == [kind |-> "CONTEXT", id |-> row.name, name |-> row.name, session |-> row.partition,
                        layout |-> Never, at |-> row.at]
<1>1. /\ c \in Importers /\ ledger \in Ledgers \cup {Never} /\ (ledger # Never => ~ledger.complete)
      /\ ScenarioOK(plan)
  BY LaneParts DEF LaneOK
<1>2. plan.source \in Seq(Range(plan.source)) /\ plan.source # <<>> BY <1>1 DEF ScenarioOK, Importers
<1>3. Len(plan.source) \in Nat \ {0} /\ DOMAIN plan.source = 1..Len(plan.source)
  BY <1>2, LenProperties, EmptySeq
<1>4. /\ old.processed \in 0..(Len(plan.source) - 1) /\ old.imported \in Nat /\ old.skipped \in Nat
  <2>1. CASE ledger = Never BY <1>3, <2>1 DEF Progress
  <2>2. CASE ledger # Never
    <3>1. old = ledger /\ ledger \in Ledgers /\ ~ledger.complete BY <1>1, <2>2 DEF Progress
    <3>2. /\ ledger.processed \in 0..Len(plan.source) /\ ledger.imported \in Nat /\ ledger.skipped \in Nat
          /\ ledger.processed # Len(plan.source)
      BY <3>1 DEF Ledgers
    <3>. HIDE DEF old, ledger
    <3>. QED BY <1>3, <3>1, <3>2
  <2>. QED BY <2>1, <2>2
<1>. HIDE DEF old
<1>5. n \in DOMAIN plan.source /\ n \in 0..Len(plan.source) BY <1>3, <1>4
<1>6. row.at \in Nat /\ row.final \in BOOLEAN BY <1>1, <1>5 DEF ScenarioOK
<1>7. Converted(ledger) = IF row.final THEN <<session, context, checkpoint>> ELSE <<checkpoint>>
  BY DEF Converted, old
<1>8. new \in Ledgers
  <2>. DEFINE imported == old.imported + (IF row.final THEN 1 ELSE 0)
              skipped == old.skipped + (IF row.final THEN 0 ELSE 1)
              N == Len(plan.source)
  <2>1. imported \in Nat /\ skipped \in Nat BY <1>4, <1>6
  <2>2. new = [processed |-> n, imported |-> imported, skipped |-> skipped, complete |-> n = N] OBVIOUS
  <2>. HIDE DEF n, imported, skipped
  <2>3. /\ new \in [processed : 0..N, imported : Nat, skipped : Nat, complete : BOOLEAN]
        /\ new.complete <=> new.processed = N
    BY <1>5, <2>1, <2>2
  <2>. QED BY <2>3 DEF Ledgers
<1>. HIDE DEF new
<1>9. ItemOK(checkpoint, Ledgers) BY <1>8 DEF ItemOK
<1>10. ItemOK(session, Ledgers) BY DEF ItemOK, EvidenceOK
<1>11. ItemOK(context, Ledgers) BY <1>6 DEF ItemOK, EvidenceOK
<1>. HIDE DEF ledger, row, n, session, context, checkpoint
<1>12. CASE row.final
  <2>1. Converted(ledger) \in Seq({session, context, checkpoint}) /\ Converted(ledger) # <<>> BY <1>7, <1>12
  <2>2. \A i \in {session, context, checkpoint} : ItemOK(i, Ledgers) BY <1>9, <1>10, <1>11
  <2>. QED BY <2>1, <2>2 DEF ItemsOK, ledger
<1>13. CASE ~row.final
  <2>1. Converted(ledger) \in Seq({checkpoint}) /\ Converted(ledger) # <<>> BY <1>7, <1>13
  <2>2. \A i \in {checkpoint} : ItemOK(i, Ledgers) BY <1>9
  <2>. QED BY <2>1, <2>2 DEF ItemsOK, ledger
<1>. QED BY <1>12, <1>13

-----------------------------------------------------------------------------
(* Steps                                                                   *)

LEMMA PreflightKeeps ==
    ASSUME StoreInv, NEW c \in Client, Preflight(c)
    PROVE  StoreInv'
<1>1. PICK l : l = [lane[c] EXCEPT !.pc = "OPENING"] OBVIOUS
<1>2. lane' = [lane EXCEPT ![c] = l] BY <1>1 DEF Preflight, StoreInv
<1>3. LaneOK(lane[c], Ledgers, c \in Importers, disk.schema = "V2") BY LaneParts
<1>4. /\ l = [f \in LaneFields |-> l[f]] /\ l.pc = "OPENING" /\ l.producer = lane[c].producer
      /\ l.todo = lane[c].todo /\ l.batch = lane[c].batch
  BY <1>1, <1>3 DEF LaneOK, LaneFields
<1>5. LaneOK(l, Ledgers, c \in Importers, disk'.schema = "V2") BY <1>3, <1>4 DEF LaneOK
<1>6. plan' = plan /\ wall' = wall /\ disk' = disk BY DEF Preflight
<1>. QED BY <1>2, <1>5, <1>6, LaneParts, StepKeeps

LEMMA OpenKeeps ==
    ASSUME StoreInv, NEW c \in Client, Open(c)
    PROVE  StoreInv'
<1>. DEFINE policy == plan.policy[c]
            upgrade == plan.old /\ c = plan.upgrader
<1>1. PICK o : o = Opened(disk, policy, upgrade) OBVIOUS
<1>2. PICK l : l = [lane[c] EXCEPT !.pc = IF o.ok THEN "IDLE" ELSE "ENDED", !.producer = NewProducer(@)] OBVIOUS
<1>3. disk' = o.store /\ plan' = plan /\ wall' = wall BY <1>1 DEF Open
<1>4. lane' = [lane EXCEPT ![c] = l] BY <1>1, <1>2 DEF Open, StoreInv
<1>5. /\ LaneOK(lane[c], Ledgers, c \in Importers, disk.schema = "V2") /\ DiskOK(disk, Ledgers)
      /\ PolicyOK(policy) /\ wall \in Nat /\ lane[c].producer \in [number : Nat, issued : Nat, sequence : Nat]
  BY LaneParts DEF ScenarioOK
<1>6. upgrade \in BOOLEAN OBVIOUS
<1>. HIDE DEF policy, upgrade
<1>7. /\ DiskOK(o.store, Ledgers) /\ (o.ok => o.store.schema = "V2")
      /\ (disk.schema = "V2" => o.store.schema = "V2")
  BY <1>1, <1>5, <1>6, OpenedKeeps
<1>8. /\ l = [f \in LaneFields |-> l[f]] /\ l.pc = (IF o.ok THEN "IDLE" ELSE "ENDED")
      /\ l.producer = NewProducer(lane[c].producer) /\ l.todo = lane[c].todo /\ l.batch = lane[c].batch
  BY <1>2, <1>5 DEF LaneOK, LaneFields
<1>9. l.producer \in [number : Nat, issued : Nat, sequence : Nat] BY <1>5, <1>8, ProducerKeeps
<1>10. LaneOK(l, Ledgers, c \in Importers, disk'.schema = "V2") BY <1>3, <1>5, <1>7, <1>8, <1>9 DEF LaneOK
<1>. QED BY <1>3, <1>4, <1>5, <1>7, <1>10, StepKeeps

LEMMA ReadLedgerKeeps ==
    ASSUME StoreInv, NEW c \in Client, ReadLedger(c)
    PROVE  StoreInv'
<1>. DEFINE over == disk.ledger # Never /\ disk.ledger.complete
<1>1. PICK l : l = IF over THEN [lane[c] EXCEPT !.pc = "ENDED"]
                   ELSE [lane[c] EXCEPT !.pc = "CONVERTING", !.ledger = disk.ledger]
  OBVIOUS
<1>2. lane' = [lane EXCEPT ![c] = l] BY <1>1 DEF ReadLedger, StoreInv
<1>3. LaneOK(lane[c], Ledgers, c \in Importers, disk.schema = "V2") /\ DiskOK(disk, Ledgers) BY LaneParts
<1>4. /\ l = [f \in LaneFields |-> l[f]] /\ l.producer = lane[c].producer
      /\ l.todo = lane[c].todo /\ l.batch = lane[c].batch
      /\ l.pc = IF over THEN "ENDED" ELSE "CONVERTING"
      /\ ~over => l.ledger = disk.ledger
  BY <1>1, <1>3 DEF LaneOK, LaneFields
<1>5. c \in Importers /\ disk.schema = "V2" BY LaneParts DEF ReadLedger
<1>6. disk.ledger \in Ledgers \cup {Never} BY <1>3 DEF DiskOK
<1>7. LaneOK(l, Ledgers, c \in Importers, disk'.schema = "V2")
  BY <1>3, <1>4, <1>5, <1>6 DEF LaneOK, ReadLedger
<1>8. plan' = plan /\ wall' = wall /\ disk' = disk BY DEF ReadLedger
<1>. QED BY <1>2, <1>7, <1>8, LaneParts, StepKeeps

LEMMA BeginKeeps ==
    ASSUME StoreInv, NEW c \in Client, NEW batch, Begin(c, batch), UNCHANGED <<plan, wall, disk>>,
           ItemsOK(batch, IF c \in Importers THEN Ledgers ELSE {}), batch # <<>>, disk.schema = "V2"
    PROVE  StoreInv'
<1>1. PICK l : l = [lane[c] EXCEPT !.pc = "WRITING", !.batch = batch, !.attempt = 1, !.producer = Rotated(c)]
  OBVIOUS
<1>2. lane' = [lane EXCEPT ![c] = l] BY <1>1 DEF Begin, StoreInv
<1>3. LaneOK(lane[c], Ledgers, c \in Importers, disk.schema = "V2") BY LaneParts
<1>4. /\ l = [f \in LaneFields |-> l[f]] /\ l.pc = "WRITING" /\ l.producer = Rotated(c)
      /\ l.todo = lane[c].todo /\ l.batch = batch
  BY <1>1, <1>3 DEF LaneOK, LaneFields
<1>5. l.producer \in [number : Nat, issued : Nat, sequence : Nat] BY <1>4, RotatedKeeps
<1>6. LaneOK(l, Ledgers, c \in Importers, disk'.schema = "V2") BY <1>3, <1>4, <1>5 DEF LaneOK
<1>. QED BY <1>2, <1>6, LaneParts, StepKeeps

LEMMA PublishKeeps ==
    ASSUME StoreInv, NEW c \in Client, Publish(c)
    PROVE  StoreInv'
<1>1. LaneOK(lane[c], Ledgers, c \in Importers, disk.schema = "V2") /\ ScenarioOK(plan) /\ disk.schema = "V2"
  BY LaneParts DEF Publish
<1>. DEFINE todo == lane[c].todo
<1>2. ItemsOK(todo, {}) /\ todo # <<>> BY <1>1 DEF LaneOK, Publish
<1>3. PICK n \in plan.ready : Begin(c, IF n < Len(todo) THEN SubSeq(todo, 1, n) ELSE todo) BY DEF Publish
<1>4. n \in Nat \ {0} BY <1>1 DEF ScenarioOK
<1>5. Len(todo) \in Nat \ {0} BY <1>2, LastItem
<1>. HIDE DEF todo
<1>6. n < Len(todo) => ItemsOK(SubSeq(todo, 1, n), {}) BY <1>2, <1>4, <1>5, SomeItems
<1>7. n < Len(todo) => SubSeq(todo, 1, n) # <<>>
  <2>1. PICK S : todo \in Seq(S) BY <1>2 DEF ItemsOK
  <2>2. n < Len(todo) => Len(SubSeq(todo, 1, n)) = n
    <3>1. n < Len(todo) => \A i \in 1..n : todo[i] \in S
      <4>1. n < Len(todo) => \A i \in 1..n : i \in 1..Len(todo) BY <1>4, <1>5
      <4>. QED BY <2>1, <4>1, ElementOfSeq
    <3>. QED BY <1>4, <3>1, SubSeqProperties
  <2>. QED BY <1>4, <2>2, EmptySeq
<1>8. PICK batch : batch = (IF n < Len(todo) THEN SubSeq(todo, 1, n) ELSE todo) OBVIOUS
<1>9. ItemsOK(batch, {}) /\ batch # <<>> BY <1>2, <1>6, <1>7, <1>8
<1>10. ItemsOK(batch, IF c \in Importers THEN Ledgers ELSE {}) BY <1>9, LaterItems
<1>. QED BY <1>1, <1>3, <1>8, <1>9, <1>10, BeginKeeps DEF Publish

LEMMA PublishRowKeeps ==
    ASSUME StoreInv, NEW c \in Client, PublishRow(c)
    PROVE  StoreInv'
<1>1. lane[c].pc = "CONVERTING" /\ disk.schema = "V2" /\ c \in Importers
  BY LaneParts DEF PublishRow, LaneOK
<1>2. ItemsOK(Converted(lane[c].ledger), Ledgers) /\ Converted(lane[c].ledger) # <<>> BY <1>1, ConvertedOK
<1>. QED BY <1>1, <1>2, BeginKeeps DEF PublishRow

\* What an attempt makes of the store.
LEMMA AttemptKeeps ==
    ASSUME StoreInv, NEW c \in Client, lane[c].pc = "WRITING"
    PROVE  /\ DiskOK(Attempt(c).store, Ledgers) /\ Attempt(c).store.schema = "V2"
           /\ DiskOK(disk, Ledgers) /\ disk.schema = "V2" /\ wall \in Nat
<1>. DEFINE p == lane[c].producer
            b == [producer |-> <<c, p.number>>, issued |-> p.issued, sequence |-> p.sequence, items |-> lane[c].batch]
<1>1. LaneOK(lane[c], Ledgers, c \in Importers, disk.schema = "V2") /\ DiskOK(disk, Ledgers) /\ disk.schema = "V2"
      /\ wall \in Nat /\ p.issued \in Nat
  BY LaneParts
<1>2. ItemsOK(lane[c].batch, Ledgers) BY <1>1, LaterItems DEF LaneOK
<1>3. BatchOK(b, Ledgers) BY <1>1, <1>2 DEF BatchOK
<1>4. Attempt(c) = Write(disk, b, wall) BY DEF Attempt
<1>. HIDE DEF b
<1>. QED BY <1>1, <1>3, <1>4, WriteDisk

LEMMA MaintainedAfter ==
    ASSUME StoreInv, NEW d, DiskOK(d, Ledgers), d.schema = "V2"
    PROVE  DiskOK(Maintained(d, wall), Ledgers) /\ Maintained(d, wall).schema = "V2"
BY MaintainedDisk DEF StoreInv

LEMMA AcknowledgedOK ==
    ASSUME NEW l, NEW L, NEW importing, NEW open, LaneOK(l, L, importing, open), l.pc = "WRITING"
    PROVE  LaneOK(Acknowledged(l), L, importing, open)
<1>. DEFINE written == {l.batch[n].id : n \in {m \in DOMAIN l.batch : l.batch[m].kind # "IMPORT"}} \ {Never}
            done == [l EXCEPT !.batch = <<>>, !.attempt = 0, !.acknowledged = @ \cup written]
            checkpoint == l.batch[Len(l.batch)]
            pc == IF checkpoint.ledger.complete THEN "ENDED" ELSE "CONVERTING"
            imported == [done EXCEPT !.pc = pc, !.ledger = checkpoint.ledger]
            rest == Rest(l)
            stored == [done EXCEPT !.pc = "IDLE", !.todo = rest]
<1>1. Acknowledged(l) = IF checkpoint.kind = "IMPORT" THEN imported ELSE stored BY DEF Acknowledged
<1>2. ItemOK(checkpoint, IF importing THEN L ELSE {}) BY LastItem DEF LaneOK
<1>. HIDE DEF written
<1>3. /\ done = [f \in LaneFields |-> done[f]] /\ done.batch = <<>> /\ done.todo = l.todo /\ done.producer = l.producer
  BY DEF LaneOK, LaneFields
<1>. HIDE DEF done, pc, rest, checkpoint
<1>4. CASE checkpoint.kind = "IMPORT"
  <2>1. importing /\ checkpoint.ledger \in L BY <1>2, <1>4 DEF ItemOK, EvidenceOK
  <2>2. /\ imported = [f \in LaneFields |-> imported[f]] /\ imported.batch = <<>> /\ imported.todo = l.todo
        /\ imported.producer = l.producer /\ imported.pc = pc /\ imported.ledger = checkpoint.ledger
    BY <1>3 DEF LaneFields
  <2>. HIDE DEF imported
  <2>3. LaneOK(imported, L, importing, open) BY <2>1, <2>2, EmptyItems DEF LaneOK, pc
  <2>. QED BY <1>1, <1>4, <2>3
<1>5. CASE checkpoint.kind # "IMPORT"
  <2>1. /\ stored = [f \in LaneFields |-> stored[f]] /\ stored.batch = <<>> /\ stored.todo = rest
        /\ stored.producer = l.producer /\ stored.pc = "IDLE"
    BY <1>3 DEF LaneFields
  <2>2. ItemsOK(rest, {}) BY RestKeepsItems DEF rest
  <2>. HIDE DEF stored
  <2>3. LaneOK(stored, L, importing, open) BY <2>1, <2>2, EmptyItems DEF LaneOK
  <2>. QED BY <1>1, <1>5, <2>3
<1>. QED BY <1>4, <1>5

LEMMA GivenUpOK ==
    ASSUME wall \in Nat,
           NEW l, NEW L, NEW importing, NEW open, LaneOK(l, L, importing, open), l.pc = "WRITING"
    PROVE  LaneOK(GivenUp(l), L, importing, open)
<1>. DEFINE pc == IF l.batch[Len(l.batch)].kind = "IMPORT" THEN "ENDED" ELSE "IDLE"
            rest == Rest(l)
            p == NewProducer(l.producer)
            e == [l EXCEPT !.batch = <<>>, !.attempt = 0, !.todo = rest, !.producer = p, !.pc = pc]
<1>1. GivenUp(l) = e BY DEF GivenUp
<1>2. ItemsOK(rest, {}) BY RestKeepsItems
<1>3. p \in [number : Nat, issued : Nat, sequence : Nat] BY ProducerKeeps DEF LaneOK
<1>4. pc \in {"ENDED", "IDLE"} OBVIOUS
<1>. HIDE DEF pc, rest, p
<1>5. e = [f \in LaneFields |-> e[f]] /\ e.batch = <<>> /\ e.todo = rest /\ e.producer = p /\ e.pc = pc
  BY DEF LaneOK, LaneFields
<1>. HIDE DEF e
<1>6. LaneOK(e, L, importing, open) BY <1>2, <1>3, <1>4, <1>5, EmptyItems DEF LaneOK
<1>. QED BY <1>1, <1>6

LEMMA UnansweredOK ==
    ASSUME wall \in Nat,
           NEW l, NEW L, NEW importing, NEW open, LaneOK(l, L, importing, open), l.pc = "WRITING"
    PROVE  LaneOK(Unanswered(l), L, importing, open)
<1>1. CASE l.attempt = MaxAttempts BY <1>1, GivenUpOK DEF Unanswered
<1>2. CASE l.attempt # MaxAttempts
  <2>1. PICK e : e = [l EXCEPT !.attempt = @ + 1] OBVIOUS
  <2>2. /\ e = [f \in LaneFields |-> e[f]] /\ e.batch = l.batch /\ e.todo = l.todo /\ e.producer = l.producer
        /\ e.pc = l.pc
    BY <2>1 DEF LaneOK, LaneFields
  <2>3. LaneOK(e, L, importing, open) BY <2>2 DEF LaneOK
  <2>. QED BY <1>2, <2>1, <2>3 DEF Unanswered
<1>. QED BY <1>1, <1>2

LEMMA CommitKeeps ==
    ASSUME StoreInv, NEW c \in Client, Commit(c)
    PROVE  StoreInv'
<1>1. lane[c].pc = "WRITING" /\ plan' = plan /\ wall' = wall /\ disk' = Attempt(c).store BY DEF Commit
<1>2. DiskOK(disk', Ledgers) /\ disk'.schema = "V2" /\ disk.schema = "V2" /\ wall \in Nat BY <1>1, AttemptKeeps
<1>3. LaneOK(lane[c], Ledgers, c \in Importers, disk.schema = "V2") BY LaneParts
<1>4. LaneOK(lane[c], Ledgers, c \in Importers, disk'.schema = "V2") BY <1>2, <1>3
<1>5. LaneOK(Acknowledged(lane[c]), Ledgers, c \in Importers, disk'.schema = "V2")
  BY <1>1, <1>4, AcknowledgedOK
<1>6. lane' = [lane EXCEPT ![c] = Acknowledged(lane[c])] BY DEF Commit
<1>. QED BY <1>1, <1>2, <1>5, <1>6, StepKeeps

LEMMA RefuseKeeps ==
    ASSUME StoreInv, NEW c \in Client, Refuse(c)
    PROVE  StoreInv'
<1>1. lane[c].pc = "WRITING" /\ plan' = plan /\ wall' = wall BY DEF Refuse
<1>2. DiskOK(disk, Ledgers) /\ disk.schema = "V2" /\ wall \in Nat BY <1>1, AttemptKeeps
<1>3. disk' = disk \/ disk' = Maintained(disk, wall) BY DEF Refuse
<1>4. DiskOK(disk', Ledgers) /\ disk'.schema = "V2" BY <1>2, <1>3, MaintainedAfter
<1>5. LaneOK(lane[c], Ledgers, c \in Importers, disk'.schema = "V2")
  BY <1>2, <1>4, LaneParts DEF LaneOK
<1>6. PICK l : l = (IF Attempt(c).answer = "CONTRACT" THEN GivenUp(lane[c]) ELSE Unanswered(lane[c])) OBVIOUS
<1>7. LaneOK(l, Ledgers, c \in Importers, disk'.schema = "V2")
  BY <1>1, <1>2, <1>5, <1>6, GivenUpOK, UnansweredOK
<1>8. lane' = [lane EXCEPT ![c] = l] BY <1>6 DEF Refuse
<1>. QED BY <1>1, <1>2, <1>4, <1>7, <1>8, StepKeeps

LEMMA FailKeeps ==
    ASSUME StoreInv, NEW c \in Client, Fail(c)
    PROVE  StoreInv'
<1>1. lane[c].pc = "WRITING" /\ plan' = plan /\ wall' = wall BY DEF Fail
<1>2. /\ DiskOK(disk, Ledgers) /\ disk.schema = "V2" /\ wall \in Nat
      /\ DiskOK(Attempt(c).store, Ledgers) /\ Attempt(c).store.schema = "V2"
  BY <1>1, AttemptKeeps
<1>3. PICK stored \in {disk, Attempt(c).store} : disk' = stored \/ disk' = Maintained(stored, wall)
  BY DEF Fail
<1>4. DiskOK(stored, Ledgers) /\ stored.schema = "V2" BY <1>2, <1>3
<1>5. DiskOK(disk', Ledgers) /\ disk'.schema = "V2" BY <1>3, <1>4, MaintainedAfter
<1>6. LaneOK(lane[c], Ledgers, c \in Importers, disk'.schema = "V2") BY <1>2, <1>5, LaneParts DEF LaneOK
<1>7. LaneOK(Unanswered(lane[c]), Ledgers, c \in Importers, disk'.schema = "V2") BY <1>1, <1>2, <1>6, UnansweredOK
<1>8. lane' = [lane EXCEPT ![c] = Unanswered(lane[c])] BY DEF Fail
<1>. QED BY <1>1, <1>2, <1>5, <1>7, <1>8, StepKeeps

LEMMA CrashKeeps ==
    ASSUME StoreInv, NEW c \in Client, Crash(c)
    PROVE  StoreInv'
<1>1. plan' = plan /\ wall' = wall BY DEF Crash
<1>2. DiskOK(disk', Ledgers) /\ (disk.schema = "V2" => disk'.schema = "V2")
  <2>1. CASE lane[c].pc = "WRITING" BY <2>1, AttemptKeeps DEF Crash
  <2>2. CASE lane[c].pc # "WRITING" BY <2>2, LaneParts DEF Crash
  <2>. QED BY <2>1, <2>2
<1>3. PICK l : l = [lane[c] EXCEPT !.pc = "ENDED", !.batch = <<>>, !.attempt = 0, !.todo = <<>>] OBVIOUS
<1>4. lane' = [lane EXCEPT ![c] = l] BY <1>3 DEF Crash, StoreInv
<1>5. LaneOK(lane[c], Ledgers, c \in Importers, disk.schema = "V2") BY LaneParts
<1>6. /\ l = [f \in LaneFields |-> l[f]] /\ l.pc = "ENDED" /\ l.producer = lane[c].producer
      /\ l.todo = <<>> /\ l.batch = <<>>
  BY <1>3, <1>5 DEF LaneOK, LaneFields
<1>7. LaneOK(l, Ledgers, c \in Importers, disk'.schema = "V2") BY <1>5, <1>6, EmptyItems DEF LaneOK
<1>. QED BY <1>1, <1>2, <1>4, <1>7, LaneParts, StepKeeps

LEMMA RerunKeeps ==
    ASSUME StoreInv, NEW c \in Client, Rerun(c)
    PROVE  StoreInv'
<1>1. plan' = plan /\ wall' = wall /\ disk' = disk BY DEF Rerun
<1>2. PICK l : l = [lane[c] EXCEPT !.pc = "CLOSED", !.ledger = Never, !.runs = @ + 1] OBVIOUS
<1>3. lane' = [lane EXCEPT ![c] = l] BY <1>2 DEF Rerun, StoreInv
<1>4. LaneOK(lane[c], Ledgers, c \in Importers, disk.schema = "V2") BY LaneParts
<1>5. /\ l = [f \in LaneFields |-> l[f]] /\ l.pc = "CLOSED" /\ l.producer = lane[c].producer
      /\ l.todo = lane[c].todo /\ l.batch = lane[c].batch
  BY <1>2, <1>4 DEF LaneOK, LaneFields
<1>6. LaneOK(l, Ledgers, c \in Importers, disk'.schema = "V2") BY <1>4, <1>5 DEF LaneOK
<1>. QED BY <1>1, <1>3, <1>6, LaneParts, StepKeeps

\* Steps that leave the lanes alone.
LEMMA LanesStay ==
    ASSUME StoreInv, plan' = plan, wall' \in Nat, lane' = lane, DiskOK(disk', Ledgers),
           disk.schema = "V2" => disk'.schema = "V2"
    PROVE  StoreInv'
<1>1. Ledgers' = Ledgers /\ Importers' = Importers BY DEF Ledgers, Importers
<1>2. \A c \in Client : LaneOK(lane'[c], Ledgers, c \in Importers, disk'.schema = "V2") BY DEF StoreInv, LaneOK
<1>3. (DiskOK(disk, Ledgers))' BY <1>1
<1>4. \A c \in Client : (LaneOK(lane[c], Ledgers, c \in Importers, disk.schema = "V2"))' BY <1>1, <1>2
<1>. QED BY <1>3, <1>4 DEF StoreInv

LEMMA MaintainKeeps ==
    ASSUME StoreInv, NEW c \in Client, Maintain(c)
    PROVE  StoreInv'
<1>1. disk.schema = "V2" /\ DiskOK(disk, Ledgers) /\ wall \in Nat BY LaneParts DEF Maintain
<1>2. DiskOK(disk', Ledgers) /\ disk'.schema = "V2" BY <1>1, MaintainedAfter DEF Maintain
<1>. QED BY <1>1, <1>2, LanesStay DEF Maintain

LEMMA StoreNext == StoreInv /\ [Next]_vars => StoreInv'
<1>. SUFFICES ASSUME StoreInv, [Next]_vars PROVE StoreInv' OBVIOUS
<1>1. ASSUME NEW c \in Client,
             \/ Preflight(c) \/ Open(c) \/ ReadLedger(c) \/ Publish(c) \/ PublishRow(c)
             \/ Commit(c) \/ Refuse(c) \/ Fail(c) \/ Crash(c) \/ Rerun(c) \/ Maintain(c)
      PROVE  StoreInv'
  BY <1>1, PreflightKeeps, OpenKeeps, ReadLedgerKeeps, PublishKeeps, PublishRowKeeps, CommitKeeps, RefuseKeeps,
     FailKeeps, CrashKeeps, RerunKeeps, MaintainKeeps
<1>2. ASSUME plan' = plan, disk' = disk, lane' = lane, wall' \in Nat PROVE StoreInv'
  BY <1>2, LanesStay DEF StoreInv
<1>3. CASE Tick BY <1>2, <1>3 DEF Tick, StoreInv
<1>4. CASE SetBack BY <1>2, <1>4 DEF SetBack, StoreInv
<1>5. wall \in Nat BY DEF StoreInv
<1>6. CASE Close BY <1>2, <1>5, <1>6 DEF Close, writerVars
<1>7. CASE Reopen BY <1>2, <1>5, <1>7 DEF Reopen, writerVars
<1>8. ASSUME NEW w \in Walker, Serve(w) \/ Receive(w) PROVE StoreInv'
  BY <1>2, <1>5, <1>8 DEF Serve, Receive, writerVars
<1>9. ASSUME NEW f, NEW n, ShowCached(f, n) \/ Query(f, n) \/ Expire(f, n) \/ Unavailable(f, n) PROVE StoreInv'
  BY <1>2, <1>5, <1>9 DEF ShowCached, Query, Expire, Unavailable, writerVars
<1>10. CASE Keep BY <1>2, <1>5, <1>10 DEF Keep, writerVars
<1>11. CASE UNCHANGED vars BY <1>2, <1>5, <1>11 DEF vars, writerVars
<1>. QED BY <1>1, <1>3, <1>4, <1>6, <1>7, <1>8, <1>9, <1>10, <1>11 DEF Next, WritersNext

\* The accounting of the store is that of its rows: counters, references,
\* layouts and publications, and the policy holds, after every transaction of
\* any number of writers, importers, upgrades and crashes, under any clock.
THEOREM StoreStaysSound == Spec => []StoreSound
<1>1. Init => StoreInv BY StoreInit
<1>2. StoreInv /\ [Next]_vars => StoreInv' BY StoreNext
<1>3. StoreInv => StoreSound BY InvIsSound
<1>. QED BY <1>1, <1>2, <1>3, PTL DEF Spec

-----------------------------------------------------------------------------
(* What a store has been told                                              *)

Told(d) == Range(d.applied)

\* A checkpoint tells nothing that is counted.
IdOf(i) == IF i.kind = "IMPORT" THEN Never ELSE i.id
Ids(items) == {IdOf(items[n]) : n \in DOMAIN items}

NoRepeat(s) == s \in Seq(Range(s)) /\ \A n, m \in DOMAIN s : s[n] = s[m] => n = m \/ s[n] = Never

\* The rows by which an item is found to be stored already.
Known(i, d) ==
    \/ i.kind = "CONTEXT" /\ i.name \in DOMAIN d.contexts
    \/ i.kind = "SESSION" /\ i.session \in DOMAIN d.sessions /\ d.sessions[i.session].shutdown = i.at

Consistent(U) == \A i, j \in U : SameFact(i, j) => i.id = j.id

\* Of the items U, those that are known have been told.
Telling(d, U) == NoRepeat(d.applied) /\ \A i \in U : Known(i, d) => i.id \in Told(d) \cup {Never}

LEMMA AppendNoRepeat ==
    ASSUME NEW s, NoRepeat(s), NEW x, x \notin Range(s) \/ x = Never
    PROVE  /\ NoRepeat(Append(s, x)) /\ Range(Append(s, x)) = Range(s) \cup {x}
<1>. DEFINE t == Append(s, x)
            N == Len(s)
<1>1. s \in Seq(Range(s)) /\ N \in Nat /\ DOMAIN s = 1..N BY LenProperties DEF NoRepeat
<1>2. s \in Seq(Range(s) \cup {x}) BY <1>1, SeqMonotonic
<1>3. /\ t \in Seq(Range(s) \cup {x}) /\ Len(t) = N + 1 /\ t[N + 1] = x
      /\ \A n \in 1..N : t[n] = s[n]
  BY <1>2, AppendProperties
<1>4. DOMAIN t = 1..(N + 1) BY <1>3, LenProperties
<1>. HIDE DEF t, N
<1>5. Range(t) = Range(s) \cup {x}
  <2>1. ASSUME NEW y \in Range(t) PROVE y \in Range(s) \cup {x}
    <3>1. PICK n \in 1..(N + 1) : y = t[n] BY <1>4, <2>1 DEF Range
    <3>2. n = N + 1 \/ n \in 1..N BY <1>1, <3>1
    <3>. QED BY <1>1, <1>3, <3>1, <3>2 DEF Range
  <2>2. ASSUME NEW y \in Range(s) PROVE y \in Range(t)
    <3>1. PICK n \in 1..N : y = s[n] BY <1>1, <2>2 DEF Range
    <3>2. n \in 1..(N + 1) BY <1>1
    <3>. QED BY <1>3, <1>4, <3>1, <3>2 DEF Range
  <2>3. N + 1 \in DOMAIN t BY <1>1, <1>4
  <2>4. x \in Range(t) BY <1>3, <2>3 DEF Range
  <2>. QED BY <2>1, <2>2, <2>4
<1>6. ASSUME NEW n \in DOMAIN t, NEW m \in DOMAIN t, t[n] = t[m], t[n] # Never PROVE n = m
  <2>1. (n \in 1..N \/ n = N + 1) /\ (m \in 1..N \/ m = N + 1) BY <1>1, <1>4
  <2>2. CASE n \in 1..N /\ m \in 1..N BY <1>1, <1>3, <1>6, <2>2 DEF NoRepeat
  <2>3. CASE n \in 1..N /\ m = N + 1
    <3>1. t[n] \in Range(s) /\ t[n] = x BY <1>1, <1>3, <1>6, <2>3 DEF Range
    <3>. QED BY <1>6, <3>1
  <2>4. CASE n = N + 1 /\ m \in 1..N
    <3>1. t[m] \in Range(s) /\ t[m] = x BY <1>1, <1>3, <1>6, <2>4 DEF Range
    <3>. QED BY <1>6, <3>1
  <2>. QED BY <2>1, <2>2, <2>3, <2>4
<1>7. NoRepeat(t) BY <1>3, <1>5, <1>6 DEF NoRepeat
<1>. QED BY <1>5, <1>7 DEF t

-----------------------------------------------------------------------------
(* What retention leaves                                                   *)

\* What was told stays told; a watermark goes when it has expired.
Remains(d, e) ==
    /\ SameStore(d, e) /\ e.applied = d.applied /\ e.error = d.error
    /\ DOMAIN e.contexts \subseteq DOMAIN d.contexts
    /\ \A s \in DOMAIN e.sessions : s \in DOMAIN d.sessions /\ e.sessions[s].shutdown = d.sessions[s].shutdown
    /\ \A y \in DOMAIN e.producers : y \in DOMAIN d.producers /\ e.producers[y] = d.producers[y]
    /\ \A y \in DOMAIN d.producers \ DOMAIN e.producers : d.producers[y].expires <= d.clock

LEMMA KeptOn ==
    ASSUME NEW d, NEW e, NEW g, Remains(d, e), Remains(e, g)
    PROVE  Remains(d, g)
BY DEF Remains, SameStore

LEMMA KeptSame == ASSUME NEW d PROVE Remains(d, d)
BY DEF Remains, SameStore

LEMMA PruneOneKept ==
    ASSUME NEW d, Sound(d)
    PROVE  Remains(d, PruneOne(d))
<1>0. Whole(d) /\ d.counts \in [Counters -> Int] BY SoundParts
<1>1. CASE Expired(d) # {}
  <2>. DEFINE p == CHOOSE p \in Expired(d) : \A q \in Expired(d) : d.producers[p].expires <= d.producers[q].expires
              Ends == {d.producers[q].expires : q \in Expired(d)}
  <2>1. \A q \in Expired(d) : q \in DOMAIN d.producers /\ d.producers[q].expires \in Nat
                              /\ d.producers[q].expires <= d.clock
    BY SoundParts DEF Expired, Dated
  <2>2. Ends \subseteq Nat /\ Ends # {} BY <1>1, <2>1
  <2>3. PICK m \in Ends : \A x \in Ends : m <= x
    <3>. HIDE DEF Ends
    <3>. QED BY <2>2, LeastExists
  <2>4. \E q \in Expired(d) : \A r \in Expired(d) : d.producers[q].expires <= d.producers[r].expires BY <2>3
  <2>5. p \in Expired(d) BY <2>4
  <2>. DEFINE left == Less(d.producers, p)
              nums == [d.counts EXCEPT !.producers = @ - 1]
  <2>6. PICK e : e = [d EXCEPT !.producers = left, !.counts = nums] OBVIOUS
  <2>7. PruneOne(d) = e BY <1>1, <2>6 DEF PruneOne
  <2>8. DOMAIN left = DOMAIN d.producers \ {p} /\ \A x \in DOMAIN left : left[x] = d.producers[x]
    BY LessRows
  <2>. HIDE DEF p, left, nums
  <2>9. /\ e.producers = left /\ SameStore(d, e) /\ e.applied = d.applied /\ e.error = d.error
        /\ e.contexts = d.contexts /\ e.sessions = d.sessions
    BY <1>0, <2>6 DEF Whole, Fields, SameStore
  <2>. QED BY <2>1, <2>5, <2>7, <2>8, <2>9 DEF Remains
<1>2. CASE Expired(d) = {} /\ DueContexts(d) # {}
  <2>. DEFINE k == Oldest(d.contexts, DueContexts(d), [c \in DOMAIN d.contexts |-> d.contexts[c].at])
  <2>1. PICK e : e = RemoveContext(d, k) OBVIOUS
  <2>2. PruneOne(d) = e BY <1>2, <2>1 DEF PruneOne
  <2>. HIDE DEF k
  <2>3. /\ SameStore(d, e) /\ e.contexts = Less(d.contexts, k)
        /\ e.sessions = [d.sessions EXCEPT ![d.contexts[k].session].refs = @ - 1]
        /\ e.producers = d.producers /\ e.applied = d.applied /\ e.error = d.error
    BY <1>0, <2>1, RemoveContextFields
  <2>4. DOMAIN e.contexts = DOMAIN d.contexts \ {k} BY <2>3, LessRows
  <2>5. /\ DOMAIN e.sessions = DOMAIN d.sessions
        /\ \A s \in DOMAIN d.sessions : e.sessions[s].shutdown = d.sessions[s].shutdown
    BY <2>3, SoundParts DEF Typed, SessionRow
  <2>. QED BY <2>2, <2>3, <2>4, <2>5 DEF Remains
<1>3. CASE Expired(d) = {} /\ DueContexts(d) = {} /\ DueProfiles(d) # {}
  <2>. DEFINE k == Oldest(d.profiles, DueProfiles(d), [c \in DOMAIN d.profiles |-> d.profiles[c].updated])
              left == Less(d.profiles, k)
              nums == [d.counts EXCEPT !.profiles = @ - 1]
  <2>1. PICK e : e = [d EXCEPT !.profiles = left, !.counts = nums] OBVIOUS
  <2>2. PruneOne(d) = e BY <1>3, <2>1 DEF PruneOne
  <2>. HIDE DEF left, nums
  <2>3. /\ e.producers = d.producers /\ SameStore(d, e) /\ e.applied = d.applied /\ e.error = d.error
        /\ e.contexts = d.contexts /\ e.sessions = d.sessions
    BY <1>0, <2>1 DEF Whole, Fields, SameStore
  <2>. QED BY <2>2, <2>3 DEF Remains
<1>4. CASE Expired(d) = {} /\ DueContexts(d) = {} /\ DueProfiles(d) = {} /\ DueSessions(d) # {}
  <2>. DEFINE k == Oldest(d.sessions, DueSessions(d), [s \in DOMAIN d.sessions |-> EndOf(d.sessions[s])])
              left == Less(d.sessions, k)
              nums == [d.counts EXCEPT !.sessions = @ - 1]
  <2>1. PICK e : e = [d EXCEPT !.sessions = left, !.counts = nums] OBVIOUS
  <2>2. PruneOne(d) = e BY <1>4, <2>1 DEF PruneOne
  <2>3. DOMAIN left = DOMAIN d.sessions \ {k} /\ \A s \in DOMAIN left : left[s] = d.sessions[s] BY LessRows
  <2>. HIDE DEF left, nums
  <2>4. /\ e.producers = d.producers /\ SameStore(d, e) /\ e.applied = d.applied /\ e.error = d.error
        /\ e.contexts = d.contexts /\ e.sessions = left
    BY <1>0, <2>1 DEF Whole, Fields, SameStore
  <2>. QED BY <2>2, <2>3, <2>4 DEF Remains
<1>5. CASE Expired(d) = {} /\ DueContexts(d) = {} /\ DueProfiles(d) = {} /\ DueSessions(d) = {}
  <2>1. PruneOne(d) = d BY <1>5 DEF PruneOne
  <2>. QED BY <2>1, KeptSame
<1>. QED BY <1>1, <1>2, <1>3, <1>4, <1>5

LEMMA PruneKept ==
    ASSUME NEW d, Sound(d)
    PROVE  Remains(d, Prune(d))
<1>. DEFINE N == MaintenanceItems
<1>0. N \in Nat BY StoreAssumption
<1>1. PICK f : f[0] = d /\ (\A n \in 1..N : f[n] = PruneOne(f[n - 1])) /\ Prune(d) = f[N]
  BY PruneIsDefined
<1>. DEFINE G == {n \in 0..N : Sound(f[n]) /\ Remains(d, f[n])}
<1>2. 0 \in G BY <1>0, <1>1, KeptSame
<1>3. ASSUME NEW m \in 0..N, m \in G, m < N PROVE m + 1 \in G
  <2>1. m + 1 \in 1..N /\ m + 1 \in 0..N /\ (m + 1) - 1 = m BY <1>0, <1>3
  <2>2. f[m + 1] = PruneOne(f[m]) BY <1>1, <2>1
  <2>3. Sound(f[m]) /\ Remains(d, f[m]) BY <1>3
  <2>4. Sound(f[m + 1]) /\ Remains(f[m], f[m + 1]) BY <2>2, <2>3, PruneOneKeeps, PruneOneKept
  <2>5. Remains(d, f[m + 1]) BY <2>3, <2>4, KeptOn
  <2>. QED BY <2>1, <2>4, <2>5
<1>. HIDE DEF G
<1>4. \A m \in 0..N : m \in G BY <1>0, <1>2, <1>3, Inductive
<1>5. N \in 0..N BY <1>0
<1>. QED BY <1>1, <1>4, <1>5 DEF G

LEMMA TellingKept ==
    ASSUME NEW d, NEW e, NEW U, Telling(d, U), Remains(d, e)
    PROVE  Telling(e, U)
BY DEF Telling, Remains, Known, Told

-----------------------------------------------------------------------------
(* What an item that is put tells                                          *)

\* Nothing is told that is known, or is refused; else the item is told, and
\* what is known is what was known and the item.
Noted(d, e, i) ==
    /\ e.producers = d.producers /\ e.error \in {d.error, "CONTRACT", "PRESSURE"}
    /\ i.kind # "IMPORT" => e.ledger = d.ledger
    /\ i.kind = "IMPORT" /\ e.error = "NONE" => e.ledger = i.ledger
    /\ \/ /\ e.applied = d.applied /\ e.contexts = d.contexts /\ e.sessions = d.sessions
          /\ e.error # "NONE" \/ (e.error = d.error /\ (i.kind = "IMPORT" \/ Known(i, d)))
       \/ /\ e.applied = Append(d.applied, i.id) /\ e.error = d.error /\ i.kind # "IMPORT"
          /\ \A k \in DOMAIN e.contexts : k \in DOMAIN d.contexts \/ (i.kind = "CONTEXT" /\ k = i.name)
          /\ \A s \in DOMAIN e.sessions :
                 \/ s \in DOMAIN d.sessions /\ e.sessions[s].shutdown = d.sessions[s].shutdown
                 \/ i.kind = "SESSION" /\ s = i.session /\ e.sessions[s].shutdown = i.at

LEMMA RefusedNoted ==
    ASSUME NEW d, Whole(d), NEW why \in {"CONTRACT", "PRESSURE"}, NEW i
    PROVE  Noted(d, Refused(d, why), i)
<1>1. PICK e : e = Refused(d, why) OBVIOUS
<1>2. /\ e.producers = d.producers /\ e.ledger = d.ledger /\ e.applied = d.applied /\ e.contexts = d.contexts
      /\ e.sessions = d.sessions /\ e.error = why
  BY <1>1 DEF Refused, Whole, Fields
<1>. QED BY <1>1, <1>2 DEF Noted

LEMMA PutSessionNoted ==
    ASSUME NEW d, Sound(d), NEW i, i.kind = "SESSION", d.error = "NONE"
    PROVE  Noted(d, PutSession(d, i), i)
<1>. DEFINE s == i.session
            e == PutSession(d, i)
            pub == NextPublication(d)
            ids == Append(d.applied, i.id)
<1>0. Whole(d) BY SoundParts
<1>1. CASE s \notin DOMAIN d.sessions
  <2>. DEFINE row == [started |-> i.started, shutdown |-> i.at, refs |-> 0, publication |-> pub]
              new == With(d.sessions, s, row)
              nums == [d.counts EXCEPT !.sessions = @ + 1]
  <2>1. e = [d EXCEPT !.sessions = new, !.publication = pub, !.counts = nums, !.applied = ids]
    BY <1>1 DEF PutSession
  <2>2. row.shutdown = i.at OBVIOUS
  <2>3. DOMAIN new = DOMAIN d.sessions \cup {s} /\ new[s] = row
        /\ \A x \in DOMAIN d.sessions \ {s} : new[x] = d.sessions[x]
    BY DEF With
  <2>. HIDE DEF row, new, nums, pub, ids, e
  <2>4. /\ e.producers = d.producers /\ e.ledger = d.ledger /\ e.applied = ids /\ e.contexts = d.contexts
        /\ e.sessions = new /\ e.error = d.error
    BY <1>0, <2>1 DEF Whole, Fields
  <2>5. \A x \in DOMAIN e.sessions :
            \/ x \in DOMAIN d.sessions /\ e.sessions[x].shutdown = d.sessions[x].shutdown
            \/ x = s /\ e.sessions[x].shutdown = i.at
    BY <2>2, <2>3, <2>4
  <2>. QED BY <2>4, <2>5 DEF Noted, ids, e
<1>2. CASE s \in DOMAIN d.sessions /\ d.sessions[s].shutdown = i.at
  <2>1. e = d BY <1>2 DEF PutSession
  <2>. QED BY <1>2, <2>1 DEF Noted, Known
<1>3. CASE /\ s \in DOMAIN d.sessions /\ d.sessions[s].shutdown # i.at
           /\ (d.sessions[s].shutdown # Never \/ i.at = Never)
  <2>1. e = Refused(d, "CONTRACT") BY <1>3 DEF PutSession
  <2>. QED BY <1>0, <2>1, RefusedNoted
<1>4. CASE /\ s \in DOMAIN d.sessions /\ d.sessions[s].shutdown # i.at
           /\ ~ (d.sessions[s].shutdown # Never \/ i.at = Never)
  <2>. DEFINE row == [d.sessions[s] EXCEPT !.shutdown = i.at, !.publication = pub]
              new == [d.sessions EXCEPT ![s] = row]
  <2>1. e = [d EXCEPT !.sessions = new, !.publication = pub, !.applied = ids]
    <3>1. e = [d EXCEPT !.sessions[s].shutdown = i.at, !.sessions[s].publication = NextPublication(d),
                        !.publication = NextPublication(d), !.applied = Append(@, i.id)]
      BY <1>4 DEF PutSession
    <3>. QED BY <1>4, <3>1, SoundParts DEF NextPublication, Whole, Fields, Typed
  <2>2. row.shutdown = i.at
    <3>1. d.sessions[s] \in SessionRow BY <1>4, PublicationsAre
    <3>. QED BY <3>1 DEF SessionRow
  <2>. HIDE DEF row
  <2>3. /\ DOMAIN new = DOMAIN d.sessions /\ new[s] = row
        /\ \A x \in DOMAIN d.sessions \ {s} : new[x] = d.sessions[x]
    BY <1>4
  <2>. HIDE DEF new, pub, ids, e
  <2>4. /\ e.producers = d.producers /\ e.ledger = d.ledger /\ e.applied = ids /\ e.contexts = d.contexts
        /\ e.sessions = new /\ e.error = d.error
    BY <1>0, <2>1 DEF Whole, Fields
  <2>5. \A x \in DOMAIN e.sessions :
            \/ x \in DOMAIN d.sessions /\ e.sessions[x].shutdown = d.sessions[x].shutdown
            \/ x = s /\ e.sessions[x].shutdown = i.at
    BY <2>2, <2>3, <2>4
  <2>. QED BY <2>4, <2>5 DEF Noted, ids, e
<1>. QED BY <1>1, <1>2, <1>3, <1>4

LEMMA PutProfileNoted ==
    ASSUME NEW d, Sound(d), NEW i, i.kind = "PROFILE"
    PROVE  Noted(d, PutProfile(d, i), i)
<1>. DEFINE new == With(d.profiles, i.name, [updated |-> d.clock, publication |-> NextPublication(d)])
            pub == NextPublication(d)
            nums == [d.counts EXCEPT !.profiles = IF i.name \in DOMAIN d.profiles THEN @ ELSE @ + 1]
            ids == Append(d.applied, i.id)
<1>1. PICK e : e = PutProfile(d, i) OBVIOUS
<1>2. e = [d EXCEPT !.profiles = new, !.publication = pub, !.counts = nums, !.applied = ids]
  BY <1>1 DEF PutProfile
<1>. HIDE DEF new, pub, nums, ids
<1>3. /\ e.producers = d.producers /\ e.ledger = d.ledger /\ e.applied = ids /\ e.contexts = d.contexts
      /\ e.sessions = d.sessions /\ e.error = d.error
  <2>1. Whole(d) BY SoundParts
  <2>. QED BY <1>2, <2>1 DEF Whole, Fields
<1>. QED BY <1>1, <1>3 DEF Noted, ids

LEMMA PutContextNoted ==
    ASSUME NEW d, Sound(d), NEW i, i.kind = "CONTEXT"
    PROVE  Noted(d, PutContext(d, i), i)
<1>. DEFINE k == i.name
            s == i.session
            ids == Append(d.applied, i.id)
            w == PutContext(d, i)
<1>0. Whole(d) /\ d.counts \in [Counters -> Int] BY SoundParts
<1>1. CASE k \in DOMAIN d.contexts
  <2>1. w = d BY <1>1 DEF PutContext
  <2>. QED BY <1>1, <2>1 DEF Noted, Known
<1>2. CASE k \notin DOMAIN d.contexts /\ s \notin DOMAIN d.sessions
  <2>1. w = Refused(d, "CONTRACT") BY <1>2 DEF PutContext
  <2>. QED BY <1>0, <2>1, RefusedNoted
<1>3. CASE k \notin DOMAIN d.contexts /\ s \in DOMAIN d.sessions
  <2>0. PICK e : e = PutLayout(d, i.layout) OBVIOUS
  <2>1. /\ Whole(e) /\ e.ledger = d.ledger /\ e.contexts = d.contexts /\ e.sessions = d.sessions
        /\ e.producers = d.producers /\ e.applied = d.applied /\ e.error = d.error
    <3>1. LayoutWritten(d, i.layout, e) BY <1>0, <2>0, PutLayoutFields
    <3>. QED BY <3>1 DEF LayoutWritten, SameStore
  <2>. DEFINE row == [session |-> s, layout |-> i.layout, at |-> i.at, publication |-> NextPublication(d)]
              new == With(d.contexts, k, row)
              sess == [d.sessions EXCEPT ![s].refs = @ + 1]
              pub == NextPublication(d)
              nums == [e.counts EXCEPT !["contexts"] = e.counts["contexts"] + 1]
  <2>2. w = [e EXCEPT !.contexts = new, !.publication = pub, !.sessions = sess, !.counts = nums,
                      !.applied = ids]
    <3>1. w = [e EXCEPT !.contexts = With(e.contexts, k, row), !.publication = pub,
                        !.sessions = [e.sessions EXCEPT ![s].refs = @ + 1],
                        !.counts = [e.counts EXCEPT !["contexts"] = e.counts["contexts"] + 1],
                        !.applied = Append(@, i.id)]
      BY <1>3, <2>0, <2>1 DEF PutContext, Whole, Fields
    <3>. HIDE DEF w, pub, row
    <3>. QED BY <2>1, <3>1 DEF Whole, Fields
  <2>3. DOMAIN new = DOMAIN d.contexts \cup {k} BY DEF With
  <2>4. /\ DOMAIN sess = DOMAIN d.sessions
        /\ \A x \in DOMAIN d.sessions : sess[x].shutdown = d.sessions[x].shutdown
    BY <1>3, SoundParts DEF Typed, SessionRow
  <2>. HIDE DEF row, new, sess, pub, nums, ids, w
  <2>5. /\ w.producers = e.producers /\ w.ledger = e.ledger /\ w.applied = ids /\ w.contexts = new
        /\ w.sessions = sess /\ w.error = e.error
    BY <2>1, <2>2 DEF Whole, Fields
  <2>. QED BY <2>1, <2>3, <2>4, <2>5 DEF Noted, ids, w
<1>. QED BY <1>1, <1>2, <1>3

LEMMA PutNoted ==
    ASSUME NEW d, Sound(d), NEW i
    PROVE  Noted(d, Put(d, i), i) \/ i.kind \notin {"SESSION", "CONTEXT", "PROFILE", "IMPORT"}
<1>0. Whole(d) BY SoundParts
<1>1. CASE d.error # "NONE"
  <2>1. Put(d, i) = d BY <1>1 DEF Put
  <2>. QED BY <1>1, <2>1 DEF Noted
<1>2. CASE d.error = "NONE" /\ i.kind = "SESSION" BY <1>2, PutSessionNoted DEF Put
<1>3. CASE d.error = "NONE" /\ i.kind = "CONTEXT"
  <2>1. Put(d, i) = PutContext(d, i) BY <1>3 DEF Put
  <2>. QED BY <1>3, <2>1, PutContextNoted
<1>4. CASE d.error = "NONE" /\ i.kind = "PROFILE"
  <2>1. Put(d, i) = PutProfile(d, i) BY <1>4 DEF Put
  <2>. QED BY <1>4, <2>1, PutProfileNoted
<1>5. CASE d.error = "NONE" /\ i.kind = "IMPORT"
  <2>1. Put(d, i) = PutImport(d, i) BY <1>5 DEF Put
  <2>2. CASE d.policy.imports = 0
    <3>1. Put(d, i) = Refused(d, "PRESSURE") BY <2>1, <2>2 DEF PutImport
    <3>. QED BY <1>0, <3>1, RefusedNoted
  <2>3. CASE d.policy.imports # 0
    <3>1. PICK e : e = [d EXCEPT !.ledger = i.ledger] OBVIOUS
    <3>2. Put(d, i) = e BY <2>1, <2>3, <3>1 DEF PutImport
    <3>3. /\ e.producers = d.producers /\ e.ledger = i.ledger /\ e.applied = d.applied
          /\ e.contexts = d.contexts /\ e.sessions = d.sessions /\ e.error = d.error
      BY <1>0, <3>1 DEF Whole, Fields
    <3>. QED BY <1>5, <3>2, <3>3 DEF Noted
  <2>. QED BY <2>2, <2>3
<1>. QED BY <1>1, <1>2, <1>3, <1>4, <1>5

\* An item that has not been told is told once.
LEMMA NotedTells ==
    ASSUME NEW U, Consistent(U), NEW d, Telling(d, U), NEW e, NEW i, i.kind = "IMPORT" \/ i \in U,
           IdOf(i) = Never \/ IdOf(i) \notin Told(d), Noted(d, e, i)
    PROVE  /\ Telling(e, U) /\ Told(d) \subseteq Told(e) /\ Told(e) \subseteq Told(d) \cup {IdOf(i)}
           /\ e.error = "NONE" => d.error = "NONE" /\ IdOf(i) \in Told(e) \cup {Never}
<1>1. CASE /\ e.applied = d.applied /\ e.contexts = d.contexts /\ e.sessions = d.sessions
           /\ e.error # "NONE" \/ (e.error = d.error /\ (i.kind = "IMPORT" \/ Known(i, d)))
  <2>1. Told(e) = Told(d) /\ \A j : Known(j, e) <=> Known(j, d) BY <1>1 DEF Told, Known
  <2>2. Telling(e, U) BY <1>1, <2>1 DEF Telling
  <2>3. e.error = "NONE" => d.error = "NONE" /\ IdOf(i) \in Told(e) \cup {Never}
    BY <1>1, <2>1 DEF Telling, IdOf
  <2>. QED BY <2>1, <2>2, <2>3
<1>2. CASE /\ e.applied = Append(d.applied, i.id) /\ e.error = d.error /\ i.kind # "IMPORT"
           /\ \A k \in DOMAIN e.contexts : k \in DOMAIN d.contexts \/ (i.kind = "CONTEXT" /\ k = i.name)
           /\ \A s \in DOMAIN e.sessions :
                  \/ s \in DOMAIN d.sessions /\ e.sessions[s].shutdown = d.sessions[s].shutdown
                  \/ i.kind = "SESSION" /\ s = i.session /\ e.sessions[s].shutdown = i.at
  <2>1. IdOf(i) = i.id BY <1>2 DEF IdOf
  <2>2. NoRepeat(d.applied) BY DEF Telling
  <2>3. NoRepeat(e.applied) /\ Told(e) = Told(d) \cup {i.id} BY <1>2, <2>1, <2>2, AppendNoRepeat DEF Told
  <2>4. ASSUME NEW j \in U, Known(j, e) PROVE j.id \in Told(e) \cup {Never}
    <3>1. Known(j, d) \/ SameFact(j, i) BY <1>2, <2>4 DEF Known, SameFact
    <3>2. SameFact(j, i) => j.id = i.id BY <1>2 DEF Consistent
    <3>. QED BY <2>3, <3>1, <3>2 DEF Telling
  <2>5. Telling(e, U) BY <2>3, <2>4 DEF Telling
  <2>. QED BY <1>2, <2>1, <2>3, <2>5
<1>. QED BY <1>1, <1>2 DEF Noted

-----------------------------------------------------------------------------
(* What a batch tells                                                      *)

\* A batch of which nothing has been told, with one checkpoint at most.
Sendable(items, d, U) ==
    \A n \in DOMAIN items :
        /\ items[n].kind # "IMPORT" => items[n] \in U
        /\ IdOf(items[n]) = Never \/ IdOf(items[n]) \notin Told(d)
        /\ \A m \in DOMAIN items :
               /\ IdOf(items[n]) = IdOf(items[m]) => n = m \/ IdOf(items[n]) = Never
               /\ items[n].kind = "IMPORT" /\ items[m].kind = "IMPORT" => n = m

\* The store e is d with those items put that are at the positions H.
Handled(d, e, items, H, L, U) ==
    /\ Sound(e) /\ Telling(e, U) /\ SameOver(d, e, L) /\ e.producers = d.producers
    /\ e.error \in {d.error, "CONTRACT", "PRESSURE"}
    /\ Told(d) \subseteq Told(e) /\ Told(e) \subseteq Told(d) \cup {IdOf(items[n]) : n \in H}
    /\ e.error = "NONE" =>
           /\ d.error = "NONE"
           /\ \A n \in H : /\ IdOf(items[n]) \in Told(e) \cup {Never}
                           /\ items[n].kind = "IMPORT" => e.ledger = items[n].ledger
    /\ (\A n \in H : items[n].kind # "IMPORT") => e.ledger = d.ledger

LEMMA HandledOne ==
    ASSUME NEW U, Consistent(U), NEW L, NEW d, NEW items, Sendable(items, d, U),
           NEW H, H \subseteq DOMAIN items, NEW f, Handled(d, f, items, H, L, U),
           NEW n \in DOMAIN items, n \notin H, ItemOK(items[n], L), NEW e, e = Put(f, items[n])
    PROVE  Handled(d, e, items, H \cup {n}, L, U)
<1>1. PICK i : i = items[n] OBVIOUS
<1>2. Sound(f) /\ Telling(f, U) /\ SameOver(d, f, L) BY DEF Handled
<1>3. Sound(e) /\ SameOver(f, e, L) BY <1>1, <1>2, PutKeeps
<1>4. Noted(f, e, i)
  <2>1. i.kind \in {"SESSION", "CONTEXT", "PROFILE", "IMPORT"} BY <1>1 DEF ItemOK, EvidenceOK
  <2>. QED BY <1>1, <1>2, <2>1, PutNoted
<1>5. IdOf(i) = Never \/ IdOf(i) \notin Told(f)
  <2>1. IdOf(i) = Never \/ IdOf(i) \notin Told(d) BY <1>1 DEF Sendable
  <2>2. \A m \in H : IdOf(i) = IdOf(items[m]) => IdOf(i) = Never BY <1>1 DEF Sendable
  <2>. QED BY <2>1, <2>2 DEF Handled
<1>6. /\ Telling(e, U) /\ Told(f) \subseteq Told(e) /\ Told(e) \subseteq Told(f) \cup {IdOf(i)}
      /\ e.error = "NONE" => f.error = "NONE" /\ IdOf(i) \in Told(e) \cup {Never}
  <2>1. i.kind = "IMPORT" \/ i \in U BY <1>1 DEF Sendable
  <2>. QED BY <1>2, <1>4, <1>5, <2>1, NotedTells
<1>7. SameOver(d, e, L) BY <1>2, <1>3 DEF SameOver
<1>8. e.producers = d.producers /\ e.error \in {d.error, "CONTRACT", "PRESSURE"} BY <1>4 DEF Noted, Handled
<1>9. Told(d) \subseteq Told(e) /\ Told(e) \subseteq Told(d) \cup {IdOf(items[m]) : m \in H \cup {n}}
  BY <1>1, <1>6 DEF Handled
<1>10. e.error = "NONE" =>
           /\ d.error = "NONE"
           /\ \A m \in H \cup {n} : /\ IdOf(items[m]) \in Told(e) \cup {Never}
                                    /\ items[m].kind = "IMPORT" => e.ledger = items[m].ledger
  <2>. SUFFICES ASSUME e.error = "NONE"
                PROVE  /\ d.error = "NONE"
                       /\ \A m \in H \cup {n} : /\ IdOf(items[m]) \in Told(e) \cup {Never}
                                                /\ items[m].kind = "IMPORT" => e.ledger = items[m].ledger
    OBVIOUS
  <2>1. /\ f.error = "NONE" /\ d.error = "NONE"
        /\ \A m \in H : /\ IdOf(items[m]) \in Told(f) \cup {Never}
                        /\ items[m].kind = "IMPORT" => f.ledger = items[m].ledger
    BY <1>6 DEF Handled
  <2>2. ASSUME NEW m \in H, items[m].kind = "IMPORT" PROVE e.ledger = items[m].ledger
    <3>1. i.kind # "IMPORT" BY <1>1, <2>2 DEF Sendable
    <3>. QED BY <1>4, <2>1, <2>2, <3>1 DEF Noted
  <2>3. i.kind = "IMPORT" => e.ledger = i.ledger BY <1>4 DEF Noted
  <2>. QED BY <1>1, <1>6, <2>1, <2>2, <2>3
<1>11. (\A m \in H \cup {n} : items[m].kind # "IMPORT") => e.ledger = d.ledger
  BY <1>1, <1>4 DEF Noted, Handled
<1>. QED BY <1>3, <1>6, <1>7, <1>8, <1>9, <1>10, <1>11 DEF Handled

\* One pass puts those of one kind.
OfKind(items, kind) == {n \in DOMAIN items : items[n].kind = kind}

LEMMA PassHandled ==
    ASSUME NEW U, Consistent(U), NEW L, NEW d, NEW items, ItemsOK(items, L), Sendable(items, d, U),
           NEW kind, NEW H, H \subseteq DOMAIN items, H \cap OfKind(items, kind) = {},
           NEW d1, Handled(d, d1, items, H, L, U)
    PROVE  Handled(d, PutKind(d1, items, kind), items, H \cup OfKind(items, kind), L, U)
<1>. DEFINE N == Len(items)
            At(n) == H \cup {m \in 1..n : items[m].kind = kind}
<1>1. PICK S : items \in Seq(S) /\ \A i \in S : ItemOK(i, L) BY DEF ItemsOK
<1>2. N \in Nat /\ DOMAIN items = 1..N BY <1>1, LenProperties
<1>3. \A n \in 1..N : ItemOK(items[n], L) BY <1>1, ElementOfSeq
<1>4. PICK f : /\ f[0] = d1
               /\ \A n \in 1..N : f[n] = IF items[n].kind = kind THEN Put(f[n - 1], items[n]) ELSE f[n - 1]
               /\ PutKind(d1, items, kind) = f[N]
  BY <1>2, PutKindIsDefined
<1>. HIDE DEF N
<1>. DEFINE G == {n \in 0..N : Handled(d, f[n], items, At(n), L, U)}
<1>5. 0 \in G
  <2>1. At(0) = H OBVIOUS
  <2>. HIDE DEF At
  <2>. QED BY <1>2, <1>4, <2>1
<1>6. ASSUME NEW m \in 0..N, m \in G, m < N PROVE m + 1 \in G
  <2>1. m + 1 \in 1..N /\ m + 1 \in 0..N /\ (m + 1) - 1 = m BY <1>2, <1>6
  <2>2. f[m + 1] = IF items[m + 1].kind = kind THEN Put(f[m], items[m + 1]) ELSE f[m] BY <1>4, <2>1
  <2>3. Handled(d, f[m], items, At(m), L, U) BY <1>6
  <2>4. \A x : x \in 1..(m + 1) <=> x \in 1..m \/ x = m + 1 BY <1>2
  <2>5. m + 1 \notin 1..m /\ 1..m \subseteq 1..N BY <1>2, <2>1
  <2>6. CASE items[m + 1].kind = kind
    <3>1. At(m + 1) = At(m) \cup {m + 1} BY <2>4, <2>6
    <3>2. At(m) \subseteq DOMAIN items BY <1>2, <2>5
    <3>3. m + 1 \in DOMAIN items /\ m + 1 \notin At(m) BY <1>2, <2>1, <2>5, <2>6 DEF OfKind
    <3>. HIDE DEF At
    <3>4. f[m + 1] = Put(f[m], items[m + 1]) /\ ItemOK(items[m + 1], L) BY <1>3, <2>1, <2>2, <2>6
    <3>5. Handled(d, f[m + 1], items, At(m) \cup {m + 1}, L, U) BY <2>3, <3>2, <3>3, <3>4, HandledOne
    <3>. QED BY <2>1, <3>1, <3>5
  <2>7. CASE items[m + 1].kind # kind
    <3>1. At(m + 1) = At(m) BY <2>4, <2>7
    <3>2. f[m + 1] = f[m] BY <2>2, <2>7
    <3>. HIDE DEF At
    <3>. QED BY <2>1, <2>3, <3>1, <3>2
  <2>. QED BY <2>6, <2>7
<1>. HIDE DEF G
<1>7. \A m \in 0..N : m \in G BY <1>2, <1>5, <1>6, Inductive
<1>8. N \in 0..N BY <1>2
<1>9. Handled(d, f[N], items, At(N), L, U) BY <1>7, <1>8 DEF G
<1>10. At(N) = H \cup OfKind(items, kind) BY <1>2 DEF OfKind
<1>. HIDE DEF At
<1>. QED BY <1>4, <1>9, <1>10

LEMMA AllHandled ==
    ASSUME NEW U, Consistent(U), NEW L, NEW d, Sound(d), Telling(d, U),
           NEW items, ItemsOK(items, L), Sendable(items, d, U)
    PROVE  Handled(d, PutAll(d, items), items, DOMAIN items, L, U)
<1>. DEFINE K(kind) == OfKind(items, kind)
<1>1. PICK d1 : d1 = PutKind(d, items, "SESSION") OBVIOUS
<1>2. PICK d2 : d2 = PutKind(d1, items, "CONTEXT") OBVIOUS
<1>3. PICK d3 : d3 = PutKind(d2, items, "PROFILE") OBVIOUS
<1>4. PICK d4 : d4 = PutKind(d3, items, "IMPORT") OBVIOUS
<1>5. Handled(d, d, items, {}, L, U) BY DEF Handled, SameOver
<1>6. Handled(d, d1, items, {} \cup K("SESSION"), L, U) BY <1>1, <1>5, PassHandled
<1>7. Handled(d, d2, items, ({} \cup K("SESSION")) \cup K("CONTEXT"), L, U)
  <2>1. ({} \cup K("SESSION")) \cap K("CONTEXT") = {} /\ ({} \cup K("SESSION")) \subseteq DOMAIN items BY DEF OfKind
  <2>. QED BY <1>2, <1>6, <2>1, PassHandled
<1>8. Handled(d, d3, items, (({} \cup K("SESSION")) \cup K("CONTEXT")) \cup K("PROFILE"), L, U)
  <2>. DEFINE H == ({} \cup K("SESSION")) \cup K("CONTEXT")
  <2>1. H \cap K("PROFILE") = {} /\ H \subseteq DOMAIN items BY DEF OfKind
  <2>. QED BY <1>3, <1>7, <2>1, PassHandled
<1>9. Handled(d, d4, items, ((({} \cup K("SESSION")) \cup K("CONTEXT")) \cup K("PROFILE")) \cup K("IMPORT"), L, U)
  <2>. DEFINE H == (({} \cup K("SESSION")) \cup K("CONTEXT")) \cup K("PROFILE")
  <2>1. H \cap K("IMPORT") = {} /\ H \subseteq DOMAIN items BY DEF OfKind
  <2>. QED BY <1>4, <1>8, <2>1, PassHandled
<1>10. ((({} \cup K("SESSION")) \cup K("CONTEXT")) \cup K("PROFILE")) \cup K("IMPORT") = DOMAIN items
  <2>1. PICK S : items \in Seq(S) /\ \A i \in S : ItemOK(i, L) BY DEF ItemsOK
  <2>2. \A n \in DOMAIN items : ItemOK(items[n], L) BY <2>1, LenProperties, ElementOfSeq
  <2>3. \A n \in DOMAIN items : items[n].kind \in {"SESSION", "CONTEXT", "PROFILE", "IMPORT"}
    BY <2>2 DEF ItemOK, EvidenceOK
  <2>. QED BY <2>3 DEF OfKind
<1>11. PutAll(d, items) = d4 BY <1>1, <1>2, <1>3, <1>4 DEF PutAll
<1>. HIDE DEF K
<1>. QED BY <1>9, <1>10, <1>11

-----------------------------------------------------------------------------
(* What a transaction tells                                                *)

Until(b, d) == b.issued + d.policy.horizon

\* A producer that has a row has it until its tokens expire.
Dues(b, d) == b.producer \in DOMAIN d.producers => d.producers[b.producer].expires = Until(b, d)

LEMMA RegisteredFields ==
    ASSUME NEW d, Sound(d), NEW b, Dues(b, d), NEW e, e = Registered(d, b)
    PROVE  /\ e.applied = d.applied /\ e.contexts = d.contexts /\ e.sessions = d.sessions
           /\ e.error \in {d.error, "CONTRACT", "PRESSURE"}
           /\ e.error = "NONE" =>
                  /\ d.error = "NONE" /\ DOMAIN e.producers = DOMAIN d.producers \cup {b.producer}
                  /\ e.producers[b.producer].expires = Until(b, d)
                  /\ \A y \in DOMAIN d.producers \ {b.producer} : e.producers[y] = d.producers[y]
<1>. DEFINE p == b.producer
<1>0. Whole(d) BY SoundParts
<1>1. CASE p \in DOMAIN d.producers
  <2>1. e = d BY <1>1 DEF Registered
  <2>. QED BY <1>1, <2>1 DEF Dues
<1>2. CASE p \notin DOMAIN d.producers /\ d.counts.producers >= d.policy.producers
  <2>1. e = Refused(d, "PRESSURE") BY <1>2 DEF Registered
  <2>2. /\ e.applied = d.applied /\ e.contexts = d.contexts /\ e.sessions = d.sessions /\ e.error = "PRESSURE"
    BY <1>0, <2>1 DEF Refused, Whole, Fields
  <2>. QED BY <2>2
<1>3. CASE p \notin DOMAIN d.producers /\ ~ d.counts.producers >= d.policy.producers
  <2>. DEFINE row == [sequence |-> 0, digest |-> <<>>, expires |-> b.issued + d.policy.horizon]
              new == With(d.producers, p, row)
              nums == [d.counts EXCEPT !.producers = @ + 1]
  <2>1. e = [d EXCEPT !.producers = new, !.counts = nums] BY <1>3 DEF Registered
  <2>2. row.expires = Until(b, d) BY DEF Until
  <2>. HIDE DEF row
  <2>3. DOMAIN new = DOMAIN d.producers \cup {p} /\ new[p] = row
        /\ \A x \in DOMAIN d.producers \ {p} : new[x] = d.producers[x]
    BY DEF With
  <2>. HIDE DEF new, nums
  <2>4. /\ e.applied = d.applied /\ e.contexts = d.contexts /\ e.sessions = d.sessions /\ e.error = d.error
        /\ e.producers = new
    BY <1>0, <2>1 DEF Whole, Fields
  <2>. QED BY <2>2, <2>3, <2>4
<1>. QED BY <1>1, <1>2, <1>3

\* The store w is d with the batch b stored.
Wrote(d, w, b, L, U) ==
    /\ SameOver(d, w, L) /\ Telling(w, U) /\ d.error = "NONE" /\ w.error = "NONE"
    /\ Told(d) \subseteq Told(w) /\ Told(w) \subseteq Told(d) \cup Ids(b.items)
    /\ Ids(b.items) \subseteq Told(w) \cup {Never}
    /\ \A n \in DOMAIN b.items : b.items[n].kind = "IMPORT" => w.ledger = b.items[n].ledger
    /\ (\A n \in DOMAIN b.items : b.items[n].kind # "IMPORT") => w.ledger = d.ledger
    /\ \A y \in DOMAIN w.producers \ {b.producer} : y \in DOMAIN d.producers /\ w.producers[y] = d.producers[y]
    /\ \A y \in DOMAIN d.producers \ (DOMAIN w.producers \cup {b.producer}) : d.producers[y].expires <= d.clock
    /\ b.producer \in DOMAIN w.producers =>
           w.producers[b.producer].sequence = b.sequence /\ w.producers[b.producer].expires = Until(b, d)
    /\ b.producer \notin DOMAIN w.producers => Until(b, d) <= d.clock

LEMMA StoredWrites ==
    ASSUME NEW U, Consistent(U), NEW L, NEW d, Sound(d), Telling(d, U), d.policy.horizon \in Nat,
           NEW b, BatchOK(b, L), Sendable(b.items, d, U), Dues(b, d)
    PROVE  /\ Stored(d, b).error \in {d.error, "CONTRACT", "PRESSURE"}
           /\ Stored(d, b).error = "NONE" => Wrote(d, Stored(d, b), b, L, U)
<1>. DEFINE p == b.producer
            until == Until(b, d)
<1>1. PICK d1 : d1 = Prune(d) OBVIOUS
<1>2. PICK d2 : d2 = Registered(d1, b) OBVIOUS
<1>3. PICK put : put = PutAll(d2, b.items) OBVIOUS
<1>4. PICK e : e = Prune(put) OBVIOUS
<1>5. Sound(d1) /\ Remains(d, d1) /\ Telling(d1, U) BY <1>1, PruneKeeps, PruneKept, TellingKept
<1>6. Dues(b, d1) /\ Until(b, d1) = until BY <1>5 DEF Remains, SameStore, Dues, Until
<1>7. Sound(d2) /\ SameStore(d1, d2)
  <2>1. d1.policy.horizon \in Nat /\ b.issued \in Nat BY <1>5 DEF Remains, SameStore, BatchOK
  <2>. QED BY <1>2, <1>5, <2>1, RegisteredKeeps
<1>8. /\ d2.applied = d1.applied /\ d2.contexts = d1.contexts /\ d2.sessions = d1.sessions
      /\ d2.error \in {d1.error, "CONTRACT", "PRESSURE"}
      /\ d2.error = "NONE" =>
             /\ d1.error = "NONE" /\ DOMAIN d2.producers = DOMAIN d1.producers \cup {p}
             /\ d2.producers[p].expires = until
             /\ \A y \in DOMAIN d1.producers \ {p} : d2.producers[y] = d1.producers[y]
  <2>. HIDE DEF until
  <2>1. /\ d2.applied = d1.applied /\ d2.contexts = d1.contexts /\ d2.sessions = d1.sessions
        /\ d2.error \in {d1.error, "CONTRACT", "PRESSURE"}
        /\ d2.error = "NONE" =>
               /\ d1.error = "NONE" /\ DOMAIN d2.producers = DOMAIN d1.producers \cup {b.producer}
               /\ d2.producers[b.producer].expires = Until(b, d1)
               /\ \A y \in DOMAIN d1.producers \ {b.producer} : d2.producers[y] = d1.producers[y]
    BY <1>2, <1>5, <1>6, RegisteredFields
  <2>. QED BY <1>6, <2>1
<1>. HIDE DEF until
<1>9. Telling(d2, U) /\ Told(d2) = Told(d) BY <1>5, <1>8 DEF Telling, Told, Known, Remains
<1>10. Sendable(b.items, d2, U) BY <1>9 DEF Sendable
<1>11. Handled(d2, put, b.items, DOMAIN b.items, L, U)
  <2>1. ItemsOK(b.items, L) BY DEF BatchOK
  <2>. QED BY <1>3, <1>7, <1>9, <1>10, <2>1, AllHandled
<1>12. Sound(e) /\ Remains(put, e) /\ Telling(e, U)
  <2>1. Sound(put) /\ Telling(put, U) BY <1>11 DEF Handled
  <2>. QED BY <1>4, <2>1, PruneKeeps, PruneKept, TellingKept
<1>. DEFINE new == [e.producers EXCEPT ![p] = [sequence |-> b.sequence, digest |-> b.items,
                                               expires |-> e.producers[p].expires]]
            w == [e EXCEPT !.producers = new]
<1>13. Stored(d, b) = IF put.error # "NONE" THEN put
                      ELSE IF ~WithinBounds(e) THEN Refused(e, "PRESSURE") ELSE w
  BY <1>1, <1>2, <1>3, <1>4 DEF Stored
<1>14. Refused(e, "PRESSURE").error = "PRESSURE"
  <2>1. Whole(e) BY <1>12, SoundParts
  <2>. QED BY <2>1 DEF Refused, Whole, Fields
<1>15. /\ DOMAIN new = DOMAIN e.producers /\ \A y \in DOMAIN e.producers \ {p} : new[y] = e.producers[y]
       /\ p \in DOMAIN e.producers => new[p].sequence = b.sequence /\ new[p].expires = e.producers[p].expires
  OBVIOUS
<1>. HIDE DEF new
<1>16. /\ w.producers = new /\ SameStore(e, w) /\ w.applied = e.applied /\ w.error = e.error
       /\ w.contexts = e.contexts /\ w.sessions = e.sessions
  <2>1. Whole(e) BY <1>12, SoundParts
  <2>. QED BY <2>1 DEF Whole, Fields, SameStore
<1>. HIDE DEF w
<1>. DEFINE s == Stored(d, b)
<1>32. s.error \in {d.error, "CONTRACT", "PRESSURE"}
  <2>1. put.error \in {d.error, "CONTRACT", "PRESSURE"} BY <1>5, <1>8, <1>11 DEF Handled, Remains
  <2>. QED BY <1>12, <1>13, <1>14, <1>16, <2>1 DEF Remains
<1>. HIDE DEF s
<1>33. SUFFICES ASSUME s.error = "NONE" PROVE Wrote(d, s, b, L, U)
  BY <1>32 DEF s
<1>17. s = w /\ put.error = "NONE" BY <1>13, <1>14, <1>33 DEF s
<1>18. d2.error = "NONE" /\ d1.error = "NONE" /\ d.error = "NONE" /\ w.error = "NONE"
  BY <1>5, <1>8, <1>11, <1>12, <1>16, <1>17 DEF Handled, Remains
<1>19. SameOver(d, w, L)
  BY <1>5, <1>7, <1>11, <1>12, <1>16 DEF Remains, Handled, SameStore, SameOver
<1>20. Telling(w, U) BY <1>12, <1>16 DEF Telling, Told, Known
<1>21. Told(w) = Told(put) BY <1>12, <1>16 DEF Remains, Told
<1>22. /\ Told(d) \subseteq Told(w) /\ Told(w) \subseteq Told(d) \cup Ids(b.items)
       /\ Ids(b.items) \subseteq Told(w) \cup {Never}
  BY <1>9, <1>11, <1>17, <1>21 DEF Handled, Ids
<1>23. w.ledger = put.ledger /\ d2.ledger = d.ledger BY <1>5, <1>7, <1>12, <1>16 DEF Remains, SameStore
<1>24. /\ \A n \in DOMAIN b.items : b.items[n].kind = "IMPORT" => w.ledger = b.items[n].ledger
       /\ (\A n \in DOMAIN b.items : b.items[n].kind # "IMPORT") => w.ledger = d.ledger
  BY <1>11, <1>17, <1>23 DEF Handled
<1>25. /\ put.producers = d2.producers /\ e.clock = d.clock /\ put.clock = d.clock
  BY <1>5, <1>7, <1>11, <1>12 DEF Remains, Handled, SameStore, SameOver
<1>26. \A y \in DOMAIN w.producers \ {p} : y \in DOMAIN d.producers /\ w.producers[y] = d.producers[y]
  <2>1. \A y \in DOMAIN e.producers : y \in DOMAIN d2.producers /\ e.producers[y] = d2.producers[y]
    BY <1>12, <1>25 DEF Remains
  <2>2. \A y \in DOMAIN d2.producers \ {p} : y \in DOMAIN d1.producers /\ d2.producers[y] = d1.producers[y]
    BY <1>8, <1>18
  <2>3. \A y \in DOMAIN d1.producers : y \in DOMAIN d.producers /\ d1.producers[y] = d.producers[y]
    BY <1>5 DEF Remains
  <2>. QED BY <1>15, <1>16, <2>1, <2>2, <2>3
<1>27. \A y \in DOMAIN d.producers \ (DOMAIN w.producers \cup {p}) : d.producers[y].expires <= d.clock
  <2>. SUFFICES ASSUME NEW y \in DOMAIN d.producers, y \notin DOMAIN w.producers, y # p
                PROVE  d.producers[y].expires <= d.clock
    OBVIOUS
  <2>1. CASE y \notin DOMAIN d1.producers BY <1>5, <2>1 DEF Remains
  <2>2. CASE y \in DOMAIN d1.producers
    <3>1. d1.producers[y] = d.producers[y] /\ d2.producers[y] = d1.producers[y] /\ y \in DOMAIN put.producers
      BY <1>5, <1>8, <1>18, <1>25, <2>2 DEF Remains
    <3>2. put.producers[y].expires <= put.clock BY <1>12, <1>15, <1>16, <3>1 DEF Remains
    <3>. QED BY <1>25, <3>1, <3>2
  <2>. QED BY <2>1, <2>2
<1>28. p \in DOMAIN put.producers /\ put.producers[p].expires = until BY <1>8, <1>18, <1>25
<1>29. p \in DOMAIN w.producers => w.producers[p].sequence = b.sequence /\ w.producers[p].expires = until
  BY <1>12, <1>15, <1>16, <1>28 DEF Remains
<1>30. p \notin DOMAIN w.producers => until <= d.clock
  BY <1>12, <1>15, <1>16, <1>25, <1>28 DEF Remains
<1>31. Wrote(d, w, b, L, U)
  BY <1>18, <1>19, <1>20, <1>22, <1>24, <1>26, <1>27, <1>29, <1>30 DEF Wrote, until
<1>. QED BY <1>17, <1>31

\* What other lanes see of a step that tells the ids X with the producers P.
Grown(d, e, X, P) ==
    /\ e.schema = d.schema /\ e.policy = d.policy /\ e.clock >= d.clock /\ e.error = d.error
    /\ d.clock \in Nat /\ e.clock \in Nat
    /\ Told(d) \subseteq Told(e) /\ Told(e) \subseteq Told(d) \cup X \cup {Never}
    /\ \A y \in DOMAIN e.producers \ P : y \in DOMAIN d.producers /\ e.producers[y] = d.producers[y]
    /\ \A y \in DOMAIN d.producers \ (DOMAIN e.producers \cup P) : d.producers[y].expires <= e.clock

LEMMA ClockedFields ==
    ASSUME NEW d, Sound(d), NEW t \in Nat, NEW e, e = Clocked(d, t)
    PROVE  /\ e.schema = d.schema /\ e.policy = d.policy /\ e.clock >= d.clock /\ e.error = d.error
           /\ d.clock \in Nat /\ e.clock \in Nat
           /\ e.applied = d.applied /\ e.producers = d.producers /\ e.ledger = d.ledger
           /\ e.contexts = d.contexts /\ e.sessions = d.sessions
<1>1. Whole(d) /\ d.clock \in Nat BY SoundParts
<1>2. Later(d.clock, t) \in Nat /\ Later(d.clock, t) >= d.clock BY <1>1 DEF Later
<1>3. /\ e.schema = d.schema /\ e.policy = d.policy /\ e.clock = Later(d.clock, t) /\ e.error = d.error
      /\ e.applied = d.applied /\ e.producers = d.producers /\ e.ledger = d.ledger
      /\ e.contexts = d.contexts /\ e.sessions = d.sessions
  BY <1>1 DEF Clocked, Whole, Fields
<1>. QED BY <1>1, <1>2, <1>3

LEMMA GrownSame == ASSUME NEW d, d.clock \in Nat, NEW X, NEW P PROVE Grown(d, d, X, P)
BY DEF Grown

LEMMA MaintainedGrown ==
    ASSUME NEW d, Sound(d), NEW t \in Nat, NEW U, Telling(d, U), NEW e, e = Maintained(d, t)
    PROVE  Grown(d, e, {}, {}) /\ Telling(e, U) /\ e.ledger = d.ledger /\ Told(e) = Told(d)
<1>1. PICK c : c = Clocked(d, t) OBVIOUS
<1>2. /\ Sound(c) /\ c.schema = d.schema /\ c.policy = d.policy /\ c.clock >= d.clock /\ c.error = d.error
      /\ d.clock \in Nat /\ c.clock \in Nat
      /\ c.applied = d.applied /\ c.producers = d.producers /\ c.ledger = d.ledger
      /\ c.contexts = d.contexts /\ c.sessions = d.sessions
  <2>1. Sound(c) BY <1>1, ClockedKeeps
  <2>2. /\ c.schema = d.schema /\ c.policy = d.policy /\ c.clock >= d.clock /\ c.error = d.error
        /\ d.clock \in Nat /\ c.clock \in Nat
        /\ c.applied = d.applied /\ c.producers = d.producers /\ c.ledger = d.ledger
        /\ c.contexts = d.contexts /\ c.sessions = d.sessions
    BY <1>1, ClockedFields
  <2>. QED BY <2>1, <2>2
<1>3. Telling(c, U) BY <1>2 DEF Telling, Told, Known
<1>4. PICK w : w = Prune(c) OBVIOUS
<1>5. Remains(c, w) /\ Telling(w, U) BY <1>2, <1>3, <1>4, PruneKept, TellingKept
<1>6. Grown(d, w, {}, {}) BY <1>2, <1>5 DEF Grown, Remains, SameStore, Told
<1>7. w.ledger = d.ledger /\ Told(w) = Told(d) BY <1>2, <1>5 DEF Remains, SameStore, Told
<1>8. e = IF WithinBounds(w) THEN w ELSE d BY <1>1, <1>4 DEF Maintained
<1>. QED BY <1>2, <1>5, <1>6, <1>7, <1>8, GrownSame

\* A write that was answered by STORED told its batch; any other answer told nothing.
WriteTells(d, t, b, e, answer, L, U) ==
    /\ Grown(d, e, Ids(b.items), {b.producer}) /\ Telling(e, U)
    /\ \/ answer # "STORED" /\ e.producers = d.producers /\ e.ledger = d.ledger /\ Told(e) = Told(d)
       \/ /\ answer = "STORED" /\ Judged(Clocked(d, t), b) = "NEW"
          /\ Wrote(Clocked(d, t), e, b, L, U)
    /\ answer = "DUPLICATE" => Judged(Clocked(d, t), b) = "DUPLICATE"

LEMMA WriteGrown ==
    ASSUME NEW U, Consistent(U), NEW L, NEW d, Sound(d), Telling(d, U), d.policy.horizon \in Nat, d.error = "NONE",
           NEW t \in Nat, NEW b, BatchOK(b, L), Dues(b, d),
           Judged(Clocked(d, t), b) = "NEW" => Sendable(b.items, d, U),
           NEW e, e = Write(d, b, t).store, NEW answer, answer = Write(d, b, t).answer
    PROVE  WriteTells(d, t, b, e, answer, L, U)
<1>1. PICK c : c = Clocked(d, t) OBVIOUS
<1>2. /\ Sound(c) /\ c.schema = d.schema /\ c.policy = d.policy /\ c.clock >= d.clock /\ c.error = d.error
      /\ d.clock \in Nat /\ c.clock \in Nat
      /\ c.applied = d.applied /\ c.producers = d.producers /\ c.ledger = d.ledger
      /\ c.contexts = d.contexts /\ c.sessions = d.sessions
  <2>1. Sound(c) BY <1>1, ClockedKeeps
  <2>2. /\ c.schema = d.schema /\ c.policy = d.policy /\ c.clock >= d.clock /\ c.error = d.error
        /\ d.clock \in Nat /\ c.clock \in Nat
        /\ c.applied = d.applied /\ c.producers = d.producers /\ c.ledger = d.ledger
        /\ c.contexts = d.contexts /\ c.sessions = d.sessions
    BY <1>1, ClockedFields
  <2>. QED BY <2>1, <2>2
<1>3. Telling(c, U) /\ Told(c) = Told(d) BY <1>2 DEF Telling, Told, Known
<1>4. PICK w : w = Stored(c, b) OBVIOUS
<1>5. PICK judged : judged = Judged(c, b) OBVIOUS
<1>6. judged \in {"CONTRACT", "DUPLICATE", "NEW"} BY <1>5 DEF Judged
<1>7. ASSUME judged = "NEW"
      PROVE  w.error \in {"NONE", "CONTRACT", "PRESSURE"} /\ (w.error = "NONE" => Wrote(c, w, b, L, U))
  <2>1. Sendable(b.items, c, U) BY <1>1, <1>3, <1>5, <1>7 DEF Sendable
  <2>2. Dues(b, c) /\ c.policy.horizon \in Nat BY <1>2 DEF Dues, Until
  <2>. QED BY <1>2, <1>3, <1>4, <2>1, <2>2, StoredWrites
<1>8. /\ judged = "CONTRACT" => e = d /\ answer = "CONTRACT"
      /\ judged = "DUPLICATE" => e = c /\ answer = "DUPLICATE"
      /\ judged = "NEW" => IF w.error # "NONE" THEN e = d /\ answer = w.error ELSE e = w /\ answer = "STORED"
  BY <1>1, <1>4, <1>5, <1>6 DEF Write
<1>9. Grown(d, d, Ids(b.items), {b.producer}) /\ Grown(d, c, Ids(b.items), {b.producer})
  BY <1>2, <1>3 DEF Grown
<1>10. CASE judged = "CONTRACT"
  BY <1>8, <1>9, <1>10 DEF WriteTells
<1>11. CASE judged = "DUPLICATE" 
  BY <1>1, <1>2, <1>3, <1>5, <1>8, <1>9, <1>11 DEF WriteTells
<1>12. CASE judged = "NEW" /\ w.error # "NONE" 
  BY <1>7, <1>8, <1>9, <1>12 DEF WriteTells
<1>13. CASE judged = "NEW" /\ w.error = "NONE"
  <2>1. Wrote(c, w, b, L, U) /\ e = w /\ answer = "STORED" BY <1>7, <1>8, <1>13
  <2>2. Grown(d, w, Ids(b.items), {b.producer})
    BY <1>2, <1>3, <2>1 DEF Grown, Wrote, SameOver
  <2>. QED BY <1>1, <1>5, <1>13, <2>1, <2>2 DEF Wrote, WriteTells
<1>. QED BY <1>6, <1>10, <1>11, <1>12, <1>13

-----------------------------------------------------------------------------
(* Scenarios, and what their lanes have yet to tell                        *)

TodoIds(p, c) == {p.todo[c][n].id : n \in DOMAIN p.todo[c]}
SourceIds(p) == {p.source[n].name : n \in DOMAIN p.source}

\* What engines and importers may ever put, checkpoints aside.
SessionOf(row) == [kind |-> "SESSION", id |-> Never, session |-> row.partition, started |-> FALSE, at |-> Never]
ContextOf(row) ==
    [kind |-> "CONTEXT", id |-> row.name, name |-> row.name, session |-> row.partition, layout |-> Never,
     at |-> row.at]
Facts(p) ==
    (UNION {Range(p.todo[c]) : c \in Client}) \cup {SessionOf(p.source[n]) : n \in DOMAIN p.source}
        \cup {ContextOf(p.source[n]) : n \in DOMAIN p.source}

\* The ledger of an import counts the rows that it has told.
FinalUpTo(p, n) == {m \in 1..n : p.source[m].final}
LedgerTrue(g, p) == g.imported = Cardinality(FinalUpTo(p, g.processed))
Processed(g) == IF g = Never THEN 0 ELSE g.processed

Imported(d, p) ==
    /\ d.ledger # Never => LedgerTrue(d.ledger, p)
    /\ \A n \in DOMAIN p.source : p.source[n].final => (p.source[n].name \in Told(d) <=> n <= Processed(d.ledger))

DiskTold(d, p) ==
    /\ d.error = "NONE" /\ Telling(d, Facts(p)) /\ Imported(d, p)
    /\ d.schema # "V2" => Told(d) = {} /\ DOMAIN d.producers = {}

\* The token x with which the ids I are sent for the q-th time of its producer:
\* they are stored if the store has heard it, and else untold until it expires.
Owned(x, until, q, I, engine, d) ==
    /\ q > 0
    /\ x \in DOMAIN d.producers /\ d.producers[x].sequence = q => I \subseteq Told(d) \cup {Never}
    /\ engine => \/ I \cap Told(d) = {} \/ until <= d.clock
                 \/ x \in DOMAIN d.producers /\ d.producers[x].sequence = q

Mine(c, l) == <<c, l.producer.number>>
LastsUntil(l, d) == l.producer.issued + d.policy.horizon

Token(c, l, d, importing) ==
    /\ Mine(c, l) \in DOMAIN d.producers =>
           /\ d.producers[Mine(c, l)].expires = LastsUntil(l, d)
           /\ d.producers[Mine(c, l)].sequence \in 0..l.producer.sequence
    /\ \A y \in DOMAIN d.producers : y[1] = c => y[2] \in 0..l.producer.number
    /\ l.pc = "WRITING" =>
           Owned(Mine(c, l), LastsUntil(l, d), l.producer.sequence, Ids(l.batch), ~importing, d)

\* The batches that an importer makes, by the ledger it goes on from.
Batches == [g \in Ledgers \cup {Never} |-> Converted(g)]

Unsent(c, l, d, p, L, B) ==
    /\ l.todo \in Seq(Range(p.todo[c]))
    /\ \A n, m \in DOMAIN l.todo : l.todo[n].id = l.todo[m].id => n = m
    /\ \A n \in DOMAIN l.todo : (l.pc = "WRITING" /\ c \notin p.importers /\ n <= Len(l.batch)) \/ l.todo[n].id \notin Told(d)
    /\ l.pc = "WRITING" /\ c \notin p.importers =>
           DOMAIN l.batch \subseteq DOMAIN l.todo /\ \A n \in DOMAIN l.batch : l.batch[n] = l.todo[n]
    /\ l.pc \in {"WRITING", "CONVERTING"} /\ c \in p.importers =>
           l.ledger \in L \cup {Never} /\ (l.ledger # Never => LedgerTrue(l.ledger, p) /\ ~l.ledger.complete)
    /\ l.pc = "WRITING" /\ c \in p.importers => l.batch = B[l.ledger]
    /\ l.acknowledged \subseteq Told(d)

\* The inductive invariant.
OnceInv ==
    /\ DiskTold(disk, plan)
    /\ \A c \in Client : /\ Token(c, lane[c], disk, c \in plan.importers)
                         /\ Unsent(c, lane[c], disk, plan, Ledgers, Batches)

LEMMA ScenarioFacts ==
    ASSUME NEW p \in Instances
    PROVE  /\ Consistent(Facts(p)) /\ \A c \in Client : Range(p.todo[c]) \subseteq Facts(p)
           /\ \A c \in Client : Never \notin TodoIds(p, c) /\ TodoIds(p, c) \cap SourceIds(p) = {}
           /\ \A c, e \in Client : c # e => TodoIds(p, c) \cap TodoIds(p, e) = {}
           /\ Never \notin SourceIds(p)
           /\ \A n, m \in DOMAIN p.source : p.source[n].name = p.source[m].name => n = m
           /\ \A c \in Client : \A n \in DOMAIN p.todo[c] :
                  p.todo[c][n].kind \in {"SESSION", "CONTEXT", "PROFILE"}
           /\ \A c \in Client : \A n, m \in DOMAIN p.todo[c] : p.todo[c][n].id = p.todo[c][m].id => n = m
<1>1. ToldOnce(p) /\ ScenarioOK(p) BY ScenarioAssumption
<1>2. \A c, e \in Client : \A n \in DOMAIN p.todo[c] : \A m \in DOMAIN p.todo[e] :
          /\ p.todo[c][n].id # Never
          /\ p.todo[c][n].id = p.todo[e][m].id \/ SameFact(p.todo[c][n], p.todo[e][m]) => c = e /\ n = m
  BY <1>1 DEF ToldOnce
<1>3. \A c \in Client : \A n \in DOMAIN p.todo[c] : \A m \in DOMAIN p.source :
          /\ p.todo[c][n].id # p.source[m].name
          /\ p.todo[c][n].kind = "CONTEXT" => p.todo[c][n].name # p.source[m].name
          /\ p.todo[c][n].kind = "SESSION" => p.todo[c][n].session # p.source[m].partition
  BY <1>1 DEF ToldOnce
<1>4. \A n \in DOMAIN p.source :
          /\ p.source[n].name # Never
          /\ \A m \in DOMAIN p.source : p.source[n].name = p.source[m].name => n = m
  BY <1>1 DEF ToldOnce
<1>5. ASSUME NEW i \in Facts(p), NEW j \in Facts(p), SameFact(i, j) PROVE i.id = j.id
  <2>1. ASSUME NEW k \in Facts(p)
        PROVE  \/ \E c \in Client : \E n \in DOMAIN p.todo[c] : k = p.todo[c][n]
               \/ \E n \in DOMAIN p.source : k = SessionOf(p.source[n])
               \/ \E n \in DOMAIN p.source : k = ContextOf(p.source[n])
    <3>1. CASE k \in UNION {Range(p.todo[c]) : c \in Client}
      <4>1. PICK c \in Client : k \in Range(p.todo[c]) BY <3>1
      <4>2. \E n \in DOMAIN p.todo[c] : k = p.todo[c][n] BY <4>1 DEF Range
      <4>. QED BY <4>2
    <3>2. CASE k \in {SessionOf(p.source[n]) : n \in DOMAIN p.source} BY <3>2
    <3>3. CASE k \in {ContextOf(p.source[n]) : n \in DOMAIN p.source} BY <3>3
    <3>4. \/ k \in UNION {Range(p.todo[c]) : c \in Client}
          \/ k \in {SessionOf(p.source[n]) : n \in DOMAIN p.source}
          \/ k \in {ContextOf(p.source[n]) : n \in DOMAIN p.source}
      BY Zenon DEF Facts
    <3>. QED BY <3>1, <3>2, <3>3, <3>4, Zenon
  <2>2. ASSUME NEW n \in DOMAIN p.source
        PROVE  /\ SessionOf(p.source[n]).kind = "SESSION" /\ SessionOf(p.source[n]).id = Never
               /\ SessionOf(p.source[n]).session = p.source[n].partition
               /\ ContextOf(p.source[n]).kind = "CONTEXT" /\ ContextOf(p.source[n]).id = p.source[n].name
               /\ ContextOf(p.source[n]).name = p.source[n].name
    BY DEF SessionOf, ContextOf
  <2>3. CASE \E c \in Client : \E n \in DOMAIN p.todo[c] : i = p.todo[c][n]
    <3>1. PICK c \in Client : \E n \in DOMAIN p.todo[c] : i = p.todo[c][n] BY <2>3
    <3>2. CASE \E e \in Client : \E m \in DOMAIN p.todo[e] : j = p.todo[e][m] BY <1>2, <1>5, <3>1, <3>2
    <3>3. CASE \E m \in DOMAIN p.source : j = SessionOf(p.source[m]) BY <1>3, <1>5, <2>2, <3>1, <3>3 DEF SameFact
    <3>4. CASE \E m \in DOMAIN p.source : j = ContextOf(p.source[m]) BY <1>3, <1>5, <2>2, <3>1, <3>4 DEF SameFact
    <3>. QED BY <2>1, <3>2, <3>3, <3>4
  <2>4. CASE \E n \in DOMAIN p.source : i = SessionOf(p.source[n])
    <3>1. PICK n \in DOMAIN p.source : i = SessionOf(p.source[n]) BY <2>4
    <3>2. CASE \E e \in Client : \E m \in DOMAIN p.todo[e] : j = p.todo[e][m]
      BY <1>3, <1>5, <2>2, <3>1, <3>2 DEF SameFact
    <3>3. CASE \E m \in DOMAIN p.source : j = SessionOf(p.source[m]) BY <2>2, <3>1, <3>3
    <3>4. CASE \E m \in DOMAIN p.source : j = ContextOf(p.source[m]) BY <1>5, <2>2, <3>1, <3>4 DEF SameFact
    <3>. QED BY <2>1, <3>2, <3>3, <3>4
  <2>5. CASE \E n \in DOMAIN p.source : i = ContextOf(p.source[n])
    <3>1. PICK n \in DOMAIN p.source : i = ContextOf(p.source[n]) BY <2>5
    <3>2. CASE \E e \in Client : \E m \in DOMAIN p.todo[e] : j = p.todo[e][m]
      BY <1>3, <1>5, <2>2, <3>1, <3>2 DEF SameFact
    <3>3. CASE \E m \in DOMAIN p.source : j = SessionOf(p.source[m]) BY <1>5, <2>2, <3>1, <3>3 DEF SameFact
    <3>4. CASE \E m \in DOMAIN p.source : j = ContextOf(p.source[m])
      BY <1>4, <1>5, <2>2, <3>1, <3>4 DEF SameFact
    <3>. QED BY <2>1, <3>2, <3>3, <3>4
  <2>. QED BY <2>1, <2>3, <2>4, <2>5
<1>6. Consistent(Facts(p)) BY <1>5 DEF Consistent
<1>7. \A c \in Client : Range(p.todo[c]) \subseteq Facts(p) BY DEF Facts
<1>8. \A c \in Client : \A n \in DOMAIN p.todo[c] : p.todo[c][n].kind \in {"SESSION", "CONTEXT", "PROFILE"}
  BY <1>1 DEF ScenarioOK, EvidenceOK
<1>. QED BY <1>2, <1>3, <1>4, <1>6, <1>7, <1>8 DEF TodoIds, SourceIds

\* Another lane's step that tells none of a lane's evidence.
LEMMA LaneStays ==
    ASSUME NEW c, NEW l, NEW d, NEW e, NEW p, NEW L, NEW B, NEW X, NEW P, NEW importing,
           importing <=> c \in p.importers,
           Token(c, l, d, importing), Unsent(c, l, d, p, L, B), Grown(d, e, X, P),
           \A n \in DOMAIN p.todo[c] : p.todo[c][n].kind # "IMPORT", Never \notin TodoIds(p, c), X \cap TodoIds(p, c) = {}, \A y \in P : y[1] # c,
           l.producer.issued \in Nat, d.policy.horizon \in Nat
    PROVE  Token(c, l, e, importing) /\ Unsent(c, l, e, p, L, B)
<1>. DEFINE x == Mine(c, l)
            I == Ids(l.batch)
<1>1. x[1] = c BY DEF Mine
<1>2. x \notin P BY <1>1
<1>3. LastsUntil(l, e) = LastsUntil(l, d) /\ LastsUntil(l, d) \in Nat BY DEF Grown, LastsUntil
<1>4. x \in DOMAIN e.producers => x \in DOMAIN d.producers /\ e.producers[x] = d.producers[x]
  BY <1>2 DEF Grown
<1>5. \A y \in DOMAIN e.producers : y[1] = c => y \in DOMAIN d.producers BY DEF Grown
<1>6. Told(d) \subseteq Told(e) BY DEF Grown
<1>7. \A i \in TodoIds(p, c) : i \in Told(e) => i \in Told(d) BY DEF Grown
<1>8. \A n \in DOMAIN l.todo : l.todo[n].id \in TodoIds(p, c) /\ l.todo[n] \in Range(p.todo[c])
  <2>1. l.todo \in Seq(Range(p.todo[c])) BY DEF Unsent
  <2>2. \A n \in DOMAIN l.todo : l.todo[n] \in Range(p.todo[c]) BY <2>1, LenProperties, ElementOfSeq
  <2>. QED BY <2>2 DEF TodoIds, Range
<1>9. Unsent(c, l, e, p, L, B) BY <1>6, <1>7, <1>8 DEF Unsent
<1>10. ASSUME l.pc = "WRITING" PROVE Owned(x, LastsUntil(l, e), l.producer.sequence, I, ~importing, e)
  <2>1. Owned(x, LastsUntil(l, d), l.producer.sequence, I, ~importing, d) BY <1>10 DEF Token
  <2>2. ASSUME ~importing PROVE I \subseteq TodoIds(p, c)
    <3>1. \A n \in DOMAIN l.batch : n \in DOMAIN l.todo /\ l.batch[n] = l.todo[n] BY <1>10, <2>2 DEF Unsent
    <3>2. \A i \in Range(p.todo[c]) : i.kind # "IMPORT" BY DEF Range
    <3>. QED BY <1>8, <3>1, <3>2 DEF Ids, IdOf
  <2>3. ASSUME ~importing
        PROVE  \/ I \cap Told(e) = {} \/ LastsUntil(l, e) <= e.clock
               \/ x \in DOMAIN e.producers /\ e.producers[x].sequence = l.producer.sequence
    <3>1. CASE I \cap Told(d) = {} BY <1>7, <2>2, <2>3, <3>1
    <3>2. CASE LastsUntil(l, d) <= d.clock BY <1>3, <3>2 DEF Grown
    <3>3. CASE x \in DOMAIN d.producers /\ d.producers[x].sequence = l.producer.sequence
      <4>1. CASE x \in DOMAIN e.producers BY <1>4, <3>3, <4>1
      <4>2. CASE x \notin DOMAIN e.producers
        <5>1. d.producers[x].expires <= e.clock BY <1>2, <3>3, <4>2 DEF Grown
        <5>2. d.producers[x].expires = LastsUntil(l, d) BY <3>3 DEF Token
        <5>. QED BY <1>3, <5>1, <5>2
      <4>. QED BY <4>1, <4>2
    <3>. QED BY <2>1, <2>3, <3>1, <3>2, <3>3 DEF Owned
  <2>4. x \in DOMAIN e.producers /\ e.producers[x].sequence = l.producer.sequence => I \subseteq Told(e) \cup {Never}
    BY <1>4, <1>6, <2>1 DEF Owned
  <2>. QED BY <2>1, <2>3, <2>4 DEF Owned
<1>11. Token(c, l, e, importing) BY <1>3, <1>4, <1>5, <1>10 DEF Token
<1>. QED BY <1>9, <1>11

-----------------------------------------------------------------------------
(* The rows of an archive                                                  *)

LEMMA FinalOneMore ==
    ASSUME NEW p, NEW n \in Nat
    PROVE  /\ FinalUpTo(p, 0) = {} /\ Cardinality(FinalUpTo(p, 0)) = 0
           /\ Cardinality(FinalUpTo(p, n + 1))
                  = Cardinality(FinalUpTo(p, n)) + (IF p.source[n + 1].final THEN 1 ELSE 0)
           /\ Cardinality(FinalUpTo(p, n)) \in Nat
<1>1. FinalUpTo(p, 0) = {} BY DEF FinalUpTo
<1>2. IsFiniteSet(FinalUpTo(p, n))
  <2>1. IsFiniteSet(1..n) BY FS_Interval
  <2>2. FinalUpTo(p, n) \subseteq 1..n BY DEF FinalUpTo
  <2>. QED BY <2>1, <2>2, FS_Subset
<1>3. n + 1 \notin FinalUpTo(p, n) BY DEF FinalUpTo
<1>4. \A x : x \in 1..(n + 1) <=> x \in 1..n \/ x = n + 1 OBVIOUS
<1>5. CASE p.source[n + 1].final
  <2>1. FinalUpTo(p, n + 1) = FinalUpTo(p, n) \cup {n + 1} BY <1>4, <1>5 DEF FinalUpTo
  <2>2. Cardinality(FinalUpTo(p, n) \cup {n + 1}) = Cardinality(FinalUpTo(p, n)) + 1 BY <1>2, <1>3, FS_AddElement
  <2>. QED BY <1>1, <1>2, <1>5, <2>1, <2>2, FS_EmptySet, FS_CardinalityType
<1>6. CASE ~p.source[n + 1].final
  <2>1. FinalUpTo(p, n + 1) = FinalUpTo(p, n) BY <1>4, <1>6 DEF FinalUpTo
  <2>2. Cardinality(FinalUpTo(p, n)) \in Nat BY <1>2, FS_CardinalityType
  <2>. QED BY <1>1, <1>6, <2>1, <2>2, FS_EmptySet
<1>. QED BY <1>5, <1>6

\* A batch of the row that comes after the ledger, with the ledger g of it.
Checkpoint(batch, ledger, g, p) ==
    /\ g.processed = Processed(ledger) + 1 /\ g.processed \in DOMAIN p.source /\ LedgerTrue(g, p)
    /\ Len(batch) \in Nat \ {0} /\ DOMAIN batch = 1..Len(batch)
    /\ batch[Len(batch)].kind = "IMPORT" /\ batch[Len(batch)].ledger = g
    /\ batch[Len(batch)].expected = IF ledger = Never THEN Never ELSE ledger.processed
    /\ \A m \in DOMAIN batch :
           /\ batch[m].kind = "IMPORT" => m = Len(batch)
           /\ batch[m].kind # "IMPORT" => batch[m] \in Facts(p)
           /\ \A k \in DOMAIN batch : IdOf(batch[m]) = IdOf(batch[k]) => m = k \/ IdOf(batch[m]) = Never
    /\ Ids(batch) = {Never} \cup (IF p.source[g.processed].final THEN {p.source[g.processed].name} ELSE {})

LEMMA ConvertedIs ==
    ASSUME plan \in Instances, plan.importers # {}, NEW ledger \in Ledgers \cup {Never},
           ledger # Never => LedgerTrue(ledger, plan) /\ ~ledger.complete
    PROVE  \E g \in Ledgers : Checkpoint(Converted(ledger), ledger, g, plan)
<1>. DEFINE old == Progress(ledger)
            n == old.processed + 1
            row == plan.source[n]
            imported == old.imported + (IF row.final THEN 1 ELSE 0)
            skipped == old.skipped + (IF row.final THEN 0 ELSE 1)
            g == [processed |-> n, imported |-> imported, skipped |-> skipped, complete |-> n = Len(plan.source)]
            expected == IF ledger = Never THEN Never ELSE ledger.processed
            checkpoint == [kind |-> "IMPORT", ledger |-> g, expected |-> expected]
            batch == Converted(ledger)
<1>1. plan.source \in Seq(Range(plan.source)) /\ plan.source # <<>> /\ ScenarioOK(plan)
  BY ScenarioAssumption DEF ScenarioOK
<1>2. Len(plan.source) \in Nat \ {0} /\ DOMAIN plan.source = 1..Len(plan.source)
  BY <1>1, LenProperties, EmptySeq
<1>3. /\ old.processed \in 0..(Len(plan.source) - 1) /\ old.imported \in Nat /\ old.skipped \in Nat
      /\ old.processed = Processed(ledger) /\ old.imported = Cardinality(FinalUpTo(plan, old.processed))
  <2>1. CASE ledger = Never BY <1>2, <2>1, FinalOneMore DEF Progress, Processed
  <2>2. CASE ledger # Never
    <3>1. old = ledger /\ ledger \in Ledgers /\ ~ledger.complete BY <2>2 DEF Progress
    <3>2. /\ ledger.processed \in 0..Len(plan.source) /\ ledger.imported \in Nat /\ ledger.skipped \in Nat
          /\ ledger.processed # Len(plan.source) /\ LedgerTrue(ledger, plan)
      BY <2>2, <3>1 DEF Ledgers
    <3>. HIDE DEF old
    <3>. QED BY <1>2, <2>2, <3>1, <3>2 DEF Processed, LedgerTrue
  <2>. QED BY <2>1, <2>2
<1>4. Converted(ledger) = IF row.final THEN <<SessionOf(row), ContextOf(row), checkpoint>> ELSE <<checkpoint>>
  BY DEF Converted, SessionOf, ContextOf
<1>. HIDE DEF old
<1>5. n \in DOMAIN plan.source /\ n \in 0..Len(plan.source) BY <1>2, <1>3
<1>6. row.final \in BOOLEAN BY <1>1, <1>5 DEF ScenarioOK
<1>7. imported \in Nat /\ skipped \in Nat BY <1>3, <1>6
<1>8. imported = Cardinality(FinalUpTo(plan, n)) BY <1>3, FinalOneMore
<1>. HIDE DEF n, imported, skipped
<1>9. g \in Ledgers /\ g.processed = n /\ LedgerTrue(g, plan)
  <2>. DEFINE N == Len(plan.source)
  <2>1. /\ g \in [processed : 0..N, imported : Nat, skipped : Nat, complete : BOOLEAN]
        /\ g.complete <=> g.processed = N
    BY <1>5, <1>7
  <2>2. g.imported = imported /\ g.processed = n OBVIOUS
  <2>3. g \in Ledgers BY <2>1 DEF Ledgers
  <2>. HIDE DEF g
  <2>. QED BY <1>8, <2>2, <2>3 DEF LedgerTrue
<1>10. n = Processed(ledger) + 1 BY <1>3 DEF n
<1>. HIDE DEF g
<1>11. checkpoint.kind = "IMPORT" /\ checkpoint.ledger = g /\ checkpoint.expected = expected /\ IdOf(checkpoint) = Never
  BY DEF IdOf
<1>. HIDE DEF checkpoint, expected
<1>12. /\ SessionOf(row).kind = "SESSION" /\ IdOf(SessionOf(row)) = Never
       /\ ContextOf(row).kind = "CONTEXT" /\ IdOf(ContextOf(row)) = row.name
       /\ SessionOf(row) \in Facts(plan) /\ ContextOf(row) \in Facts(plan)
  BY <1>5 DEF SessionOf, ContextOf, IdOf, Facts
<1>. HIDE DEF row
<1>13. CASE row.final
  <2>. DEFINE s == SessionOf(row)
              k == ContextOf(row)
  <2>1. batch = <<s, k, checkpoint>> BY <1>4, <1>13
  <2>. HIDE DEF batch, s, k
  <2>2. Len(batch) = 3 /\ DOMAIN batch = 1..3 /\ batch[1] = s /\ batch[2] = k /\ batch[3] = checkpoint
    BY <2>1
  <2>3. \A m : m \in 1..3 <=> m = 1 \/ m = 2 \/ m = 3 OBVIOUS
  <2>4. Ids(batch) = {Never} \cup {row.name} BY <1>11, <1>12, <2>2, <2>3 DEF Ids, s, k
  <2>5. \A m \in DOMAIN batch :
            /\ batch[m].kind = "IMPORT" => m = 3
            /\ batch[m].kind # "IMPORT" => batch[m] \in Facts(plan)
            /\ \A j \in DOMAIN batch : IdOf(batch[m]) = IdOf(batch[j]) => m = j \/ IdOf(batch[m]) = Never
    BY <1>11, <1>12, <2>2, <2>3 DEF s, k
  <2>6. Checkpoint(batch, ledger, g, plan)
    BY <1>5, <1>9, <1>10, <1>11, <1>13, <2>2, <2>4, <2>5 DEF Checkpoint, expected, row
  <2>. QED BY <1>9, <2>6 DEF batch
<1>14. CASE ~row.final
  <2>1. batch = <<checkpoint>> BY <1>4, <1>14
  <2>. HIDE DEF batch
  <2>2. Len(batch) = 1 /\ DOMAIN batch = 1..1 /\ batch[1] = checkpoint BY <2>1
  <2>3. \A m : m \in 1..1 <=> m = 1 OBVIOUS
  <2>4. Ids(batch) = {Never} BY <1>11, <2>2, <2>3 DEF Ids
  <2>5. \A m \in DOMAIN batch :
            /\ batch[m].kind = "IMPORT" => m = 1
            /\ batch[m].kind # "IMPORT" => batch[m] \in Facts(plan)
            /\ \A j \in DOMAIN batch : IdOf(batch[m]) = IdOf(batch[j]) => m = j \/ IdOf(batch[m]) = Never
    BY <1>11, <2>2, <2>3
  <2>6. Checkpoint(batch, ledger, g, plan)
    BY <1>5, <1>9, <1>10, <1>11, <1>14, <2>2, <2>4, <2>5 DEF Checkpoint, expected, row
  <2>. QED BY <1>9, <2>6 DEF batch
<1>. QED BY <1>13, <1>14

-----------------------------------------------------------------------------
(* Attempts                                                                *)

BatchOf(c, l) ==
    [producer |-> Mine(c, l), issued |-> l.producer.issued, sequence |-> l.producer.sequence, items |-> l.batch]

\* What is asked of a lane that sends its batch.
Sends(c, l, d, p, importing) ==
    /\ Sound(d) /\ d.policy.horizon \in Nat /\ d.schema = "V2" /\ DiskTold(d, p)
    /\ l.pc = "WRITING" /\ l.producer \in [number : Nat, issued : Nat, sequence : Nat]
    /\ Token(c, l, d, importing) /\ (importing <=> c \in p.importers)

\* A new batch of an engine has not been told: its token is heard, and not due.
LEMMA EngineSends ==
    ASSUME NEW p \in Instances, NEW c \in Client, NEW l, NEW d, Sends(c, l, d, p, FALSE), NEW t \in Nat,
           NEW L, NEW B, Unsent(c, l, d, p, L, B)
    PROVE  /\ Judged(Clocked(d, t), BatchOf(c, l)) = "NEW" => Sendable(l.batch, d, Facts(p))
           /\ Ids(l.batch) \subseteq TodoIds(p, c)
           /\ \A n \in DOMAIN l.batch : l.batch[n].kind # "IMPORT"
<1>. DEFINE b == BatchOf(c, l)
            until == LastsUntil(l, d)
            q == l.producer.sequence
            x == Mine(c, l)
<1>1. PICK k : k = Clocked(d, t) OBVIOUS
<1>2. /\ k.policy = d.policy /\ k.clock >= d.clock /\ d.clock \in Nat /\ k.clock \in Nat /\ k.producers = d.producers
  <2>1. /\ k.schema = d.schema /\ k.policy = d.policy /\ k.clock >= d.clock /\ k.error = d.error
        /\ d.clock \in Nat /\ k.clock \in Nat
        /\ k.applied = d.applied /\ k.producers = d.producers /\ k.ledger = d.ledger
        /\ k.contexts = d.contexts /\ k.sessions = d.sessions
    BY <1>1, ClockedFields DEF Sends
  <2>. QED BY <2>1
<1>3. /\ DOMAIN l.batch \subseteq DOMAIN l.todo /\ \A n \in DOMAIN l.batch : l.batch[n] = l.todo[n]
      /\ \A n, m \in DOMAIN l.todo : l.todo[n].id = l.todo[m].id => n = m
      /\ l.todo \in Seq(Range(p.todo[c]))
  BY DEF Unsent, Sends
<1>4. \A n \in DOMAIN l.todo : l.todo[n] \in Range(p.todo[c]) BY <1>3, LenProperties, ElementOfSeq
<1>5. /\ Range(p.todo[c]) \subseteq Facts(p)
      /\ \A i \in Range(p.todo[c]) : i.kind \in {"SESSION", "CONTEXT", "PROFILE"} /\ i.id \in TodoIds(p, c)
  BY ScenarioFacts DEF Range, TodoIds
<1>6. \A n \in DOMAIN l.batch : /\ l.batch[n] \in Facts(p) /\ l.batch[n].kind # "IMPORT"
                                /\ IdOf(l.batch[n]) = l.batch[n].id /\ l.batch[n].id \in TodoIds(p, c)
  BY <1>3, <1>4, <1>5 DEF IdOf
<1>7. ASSUME Judged(k, b) = "NEW" PROVE Sendable(l.batch, d, Facts(p))
  <2>1. b.issued = l.producer.issued /\ b.sequence = q /\ b.producer = x BY DEF BatchOf
  <2>. HIDE DEF b
  <2>2. ~ b.issued + k.policy.horizon <= k.clock /\ ~ b.sequence <= Watermark(k, b) BY <1>7 DEF Judged
  <2>3. ~ until <= d.clock BY <1>2, <2>1, <2>2 DEF LastsUntil, Sends
  <2>4. x \in DOMAIN d.producers => d.producers[x].sequence # q
    BY <1>2, <2>1, <2>2 DEF Watermark, Sends
  <2>5. Ids(l.batch) \cap Told(d) = {} BY <2>3, <2>4 DEF Sends, Token, Owned
  <2>6. \A n \in DOMAIN l.batch : IdOf(l.batch[n]) \notin Told(d) BY <2>5 DEF Ids
  <2>7. \A n, m \in DOMAIN l.batch : IdOf(l.batch[n]) = IdOf(l.batch[m]) => n = m BY <1>3, <1>6
  <2>. QED BY <1>6, <2>6, <2>7 DEF Sendable
<1>8. Ids(l.batch) \subseteq TodoIds(p, c) BY <1>6 DEF Ids
<1>. QED BY <1>1, <1>6, <1>7, <1>8

\* A new batch of an importer has the row that comes after the ledger.
SendsNext(c, l, d, t, p, g) ==
    Judged(Clocked(d, t), BatchOf(c, l)) = "NEW" =>
        Sendable(l.batch, d, Facts(p)) /\ g.processed = Processed(d.ledger) + 1

LEMMA ImporterSends ==
    ASSUME NEW p \in Instances, NEW c \in Client, NEW l, NEW d, Sends(c, l, d, p, TRUE), NEW t \in Nat,
           NEW L, \A h \in L : h.processed \in Nat, d.ledger \in L \cup {Never}, l.ledger \in L \cup {Never},
           NEW g, Checkpoint(l.batch, l.ledger, g, p)
    PROVE  SendsNext(c, l, d, t, p, g)
<1>. DEFINE b == BatchOf(c, l)
            N == Len(l.batch)
<1>1. PICK k : k = Clocked(d, t) OBVIOUS
<1>2. k.ledger = d.ledger
  <2>1. /\ k.schema = d.schema /\ k.policy = d.policy /\ k.clock >= d.clock /\ k.error = d.error
        /\ d.clock \in Nat /\ k.clock \in Nat
        /\ k.applied = d.applied /\ k.producers = d.producers /\ k.ledger = d.ledger
        /\ k.contexts = d.contexts /\ k.sessions = d.sessions
    BY <1>1, ClockedFields DEF Sends
  <2>. QED BY <2>1
<1>3. SUFFICES ASSUME Judged(k, b) = "NEW"
               PROVE  Sendable(l.batch, d, Facts(p)) /\ g.processed = Processed(d.ledger) + 1
  BY <1>1 DEF SendsNext
<1>4. ImportAdvances(k, l.batch)
  <2>1. b.items = l.batch BY DEF BatchOf
  <2>. HIDE DEF b
  <2>2. ImportAdvances(k, b.items) BY <1>3 DEF Judged
  <2>. QED BY <2>1, <2>2
<1>5. N \in DOMAIN l.batch /\ l.batch[N].kind = "IMPORT" BY DEF Checkpoint
<1>6. l.batch[N].expected = (IF d.ledger = Never THEN Never ELSE d.ledger.processed)
  BY <1>2, <1>4, <1>5 DEF ImportAdvances
<1>7. l.batch[N].expected = (IF l.ledger = Never THEN Never ELSE l.ledger.processed) BY DEF Checkpoint
<1>8. Processed(l.ledger) = Processed(d.ledger) BY <1>6, <1>7, NeverAssumption DEF Processed
<1>9. g.processed = Processed(d.ledger) + 1 BY <1>8 DEF Checkpoint
<1>10. Processed(d.ledger) \in Nat BY DEF Processed
<1>11. p.source[g.processed].final => p.source[g.processed].name \notin Told(d)
  <2>1. g.processed \in DOMAIN p.source BY DEF Checkpoint
  <2>2. ~ g.processed <= Processed(d.ledger) BY <1>9, <1>10
  <2>. QED BY <2>1, <2>2 DEF Sends, DiskTold, Imported
<1>12. \A n \in DOMAIN l.batch : IdOf(l.batch[n]) = Never \/ IdOf(l.batch[n]) \notin Told(d)
  <2>1. \A n \in DOMAIN l.batch : IdOf(l.batch[n]) \in Ids(l.batch) BY DEF Ids
  <2>. QED BY <1>11, <2>1 DEF Checkpoint
<1>13. Sendable(l.batch, d, Facts(p)) BY <1>12 DEF Checkpoint, Sendable
<1>. QED BY <1>9, <1>13

\* What an attempt leaves, whether the lane hears of it or not.
Answered(c, l, d, t, p, importing, e, answer) ==
    /\ Grown(d, e, Ids(l.batch), {Mine(c, l)}) /\ Telling(e, Facts(p)) /\ e.error = "NONE"
    /\ Token(c, l, e, importing)
    /\ answer \in {"STORED", "DUPLICATE"} => Ids(l.batch) \subseteq Told(e) \cup {Never}
    /\ \/ answer # "STORED" /\ e.ledger = d.ledger /\ Told(e) = Told(d)
       \/ /\ answer = "STORED" /\ Judged(Clocked(d, t), BatchOf(c, l)) = "NEW"
          /\ Told(d) \subseteq Told(e) /\ Told(e) \subseteq Told(d) \cup Ids(l.batch)
          /\ \A n \in DOMAIN l.batch : l.batch[n].kind = "IMPORT" => e.ledger = l.batch[n].ledger
          /\ (\A n \in DOMAIN l.batch : l.batch[n].kind # "IMPORT") => e.ledger = d.ledger

LEMMA AttemptTells ==
    ASSUME NEW p \in Instances, NEW c \in Client, NEW l, NEW d, NEW importing \in BOOLEAN,
           Sends(c, l, d, p, importing), NEW t \in Nat, NEW L, BatchOK(BatchOf(c, l), L),
           Judged(Clocked(d, t), BatchOf(c, l)) = "NEW" => Sendable(l.batch, d, Facts(p)),
           NEW e, e = Write(d, BatchOf(c, l), t).store, NEW answer, answer = Write(d, BatchOf(c, l), t).answer
    PROVE  Answered(c, l, d, t, p, importing, e, answer)
<1>. DEFINE q == l.producer.sequence
            x == Mine(c, l)
            I == Ids(l.batch)
<1>0. PICK U : U = Facts(p) OBVIOUS
<1>1. PICK b : b = BatchOf(c, l) OBVIOUS
<1>2. PICK k : k = Clocked(d, t) OBVIOUS
<1>3. b.issued = l.producer.issued /\ b.sequence = q /\ b.producer = x /\ b.items = l.batch
  BY <1>1 DEF BatchOf
<1>4. /\ k.policy = d.policy /\ k.clock >= d.clock /\ d.clock \in Nat /\ k.clock \in Nat /\ k.producers = d.producers
      /\ k.applied = d.applied /\ k.ledger = d.ledger
  <2>1. /\ k.schema = d.schema /\ k.policy = d.policy /\ k.clock >= d.clock /\ k.error = d.error
        /\ d.clock \in Nat /\ k.clock \in Nat
        /\ k.applied = d.applied /\ k.producers = d.producers /\ k.ledger = d.ledger
        /\ k.contexts = d.contexts /\ k.sessions = d.sessions
    BY <1>2, ClockedFields DEF Sends
  <2>. QED BY <2>1
<1>5. q \in Nat /\ l.producer.issued \in Nat /\ l.pc = "WRITING" BY DEF Sends
<1>6. Owned(x, LastsUntil(l, d), q, I, ~importing, d)
  <2>1. Token(c, l, d, importing) BY DEF Sends
  <2>. QED BY <1>5, <2>1 DEF Token
<1>7. Until(b, d) = LastsUntil(l, d) /\ Until(b, k) = LastsUntil(l, d) /\ LastsUntil(l, d) \in Nat
  BY <1>3, <1>4, <1>5 DEF Until, LastsUntil, Sends
<1>8. Dues(b, d) BY <1>3, <1>7 DEF Dues, Sends, Token
<1>9. Consistent(U) BY <1>0, ScenarioFacts
<1>17. WriteTells(d, t, b, e, answer, L, U)
  <2>1. Sound(d) /\ Telling(d, U) /\ d.policy.horizon \in Nat /\ d.error = "NONE" BY <1>0 DEF Sends, DiskTold
  <2>2. BatchOK(b, L) BY <1>1
  <2>3. Judged(Clocked(d, t), b) = "NEW" => Sendable(b.items, d, U) BY <1>0, <1>1, <1>3
  <2>4. e = Write(d, b, t).store /\ answer = Write(d, b, t).answer BY <1>1
  <2>. QED BY <1>8, <1>9, <2>1, <2>2, <2>3, <2>4, WriteGrown
<1>10. /\ Grown(d, e, Ids(b.items), {b.producer}) /\ Telling(e, U)
       /\ \/ answer # "STORED" /\ e.producers = d.producers /\ e.ledger = d.ledger /\ Told(e) = Told(d)
          \/ /\ answer = "STORED" /\ Judged(Clocked(d, t), b) = "NEW"
             /\ Wrote(Clocked(d, t), e, b, L, U)
       /\ answer = "DUPLICATE" => Judged(Clocked(d, t), b) = "DUPLICATE"
  BY <1>17 DEF WriteTells
<1>11. Grown(d, e, I, {x}) BY <1>3, <1>10
<1>12. e.error = "NONE" /\ e.policy = d.policy /\ e.clock >= d.clock /\ e.clock \in Nat
  BY <1>11 DEF Grown, Sends, DiskTold
<1>13. LastsUntil(l, e) = LastsUntil(l, d) BY <1>12 DEF LastsUntil
<1>14. CASE answer # "STORED" /\ e.producers = d.producers /\ e.ledger = d.ledger /\ Told(e) = Told(d)
  <2>1. Token(c, l, d, importing) BY DEF Sends
  <2>2. Owned(x, LastsUntil(l, e), q, I, ~importing, e) BY <1>4, <1>6, <1>7, <1>12, <1>13, <1>14 DEF Owned
  <2>3. Token(c, l, e, importing) BY <1>13, <1>14, <2>1, <2>2 DEF Token
  <2>4. ASSUME answer = "DUPLICATE" PROVE I \subseteq Told(e) \cup {Never}
    <3>1. Judged(k, b) = "DUPLICATE" BY <1>2, <1>10, <2>4
    <3>2. q <= Watermark(k, b) BY <1>3, <3>1 DEF Judged
    <3>3. q > 0 BY <1>6 DEF Owned
    <3>4. x \in DOMAIN d.producers /\ q <= d.producers[x].sequence BY <1>3, <1>4, <1>5, <3>2, <3>3 DEF Watermark
    <3>5. d.producers[x].sequence = q BY <1>5, <2>1, <3>4 DEF Token
    <3>. QED BY <1>6, <1>14, <3>4, <3>5 DEF Owned
  <2>. QED BY <1>0, <1>10, <1>11, <1>12, <1>14, <2>3, <2>4 DEF Answered
<1>15. CASE answer = "STORED" /\ Judged(k, b) = "NEW" /\ Wrote(k, e, b, L, U)
  <2>1. /\ Told(d) \subseteq Told(e) /\ Told(e) \subseteq Told(d) \cup I /\ I \subseteq Told(e) \cup {Never}
        /\ \A n \in DOMAIN l.batch : l.batch[n].kind = "IMPORT" => e.ledger = l.batch[n].ledger
        /\ (\A n \in DOMAIN l.batch : l.batch[n].kind # "IMPORT") => e.ledger = d.ledger
    BY <1>3, <1>4, <1>15 DEF Wrote, Told
  <2>2. /\ \A y \in DOMAIN e.producers \ {x} : y \in DOMAIN d.producers /\ e.producers[y] = d.producers[y]
        /\ x \in DOMAIN e.producers => e.producers[x].sequence = q /\ e.producers[x].expires = LastsUntil(l, d)
        /\ x \notin DOMAIN e.producers => LastsUntil(l, d) <= k.clock /\ e.clock = k.clock
    BY <1>3, <1>4, <1>7, <1>15 DEF Wrote, SameOver
  <2>3. Owned(x, LastsUntil(l, e), q, I, ~importing, e) BY <1>6, <1>13, <2>1, <2>2 DEF Owned
  <2>4. Token(c, l, d, importing) BY DEF Sends
  <2>5. x[1] = c /\ x[2] = l.producer.number BY DEF Mine
  <2>6. Token(c, l, e, importing)
    <3>1. \A y \in DOMAIN e.producers : y[1] = c => y[2] \in 0..l.producer.number
      <4>1. l.producer.number \in Nat BY DEF Sends
      <4>2. \A y \in DOMAIN d.producers : y[1] = c => y[2] \in 0..l.producer.number BY <2>4 DEF Token
      <4>. QED BY <2>2, <2>5, <4>1, <4>2
    <3>. QED BY <1>5, <1>13, <2>2, <2>3, <3>1 DEF Token
  <2>7. Judged(Clocked(d, t), BatchOf(c, l)) = "NEW" BY <1>1, <1>2, <1>15
  <2>. QED BY <1>0, <1>10, <1>11, <1>12, <1>15, <2>1, <2>6, <2>7 DEF Answered
<1>16. \/ answer # "STORED" /\ e.producers = d.producers /\ e.ledger = d.ledger /\ Told(e) = Told(d)
       \/ answer = "STORED" /\ Judged(k, b) = "NEW" /\ Wrote(k, e, b, L, U)
  BY <1>2, <1>10
<1>. QED BY <1>14, <1>15, <1>16

\* What the rows of the archive know of it.
LEMMA ImportedAfter ==
    ASSUME NEW p \in Instances, NEW d, Imported(d, p), NEW e, NEW I,
           Told(d) \subseteq Told(e), Told(e) \subseteq Told(d) \cup I,
           \/ e.ledger = d.ledger /\ I \cap SourceIds(p) = {}
           \/ /\ e.ledger # Never /\ LedgerTrue(e.ledger, p) /\ e.ledger.processed = Processed(d.ledger) + 1
              /\ e.ledger.processed \in DOMAIN p.source /\ I \subseteq Told(e) \cup {Never}
              /\ I = {Never} \cup (IF p.source[e.ledger.processed].final
                                   THEN {p.source[e.ledger.processed].name} ELSE {}),
           Processed(d.ledger) \in Nat
    PROVE  Imported(e, p)
<1>1. /\ Never \notin SourceIds(p)
      /\ \A n, m \in DOMAIN p.source : p.source[n].name = p.source[m].name => n = m
      /\ \A n \in DOMAIN p.source : p.source[n].name \in SourceIds(p)
  BY ScenarioFacts DEF SourceIds
<1>2. DOMAIN p.source \subseteq Nat
  <2>1. p.source \in Seq(Range(p.source)) BY ScenarioAssumption DEF ScenarioOK
  <2>. QED BY <2>1, LenProperties
<1>3. CASE e.ledger = d.ledger /\ I \cap SourceIds(p) = {}
  <2>1. \A n \in DOMAIN p.source : p.source[n].name \in Told(e) <=> p.source[n].name \in Told(d) BY <1>1, <1>3
  <2>. QED BY <1>3, <2>1 DEF Imported
<1>4. CASE /\ e.ledger # Never /\ LedgerTrue(e.ledger, p) /\ e.ledger.processed = Processed(d.ledger) + 1
           /\ e.ledger.processed \in DOMAIN p.source /\ I \subseteq Told(e) \cup {Never}
           /\ I = {Never} \cup (IF p.source[e.ledger.processed].final
                                THEN {p.source[e.ledger.processed].name} ELSE {})
  <2>. DEFINE last == e.ledger.processed
  <2>1. Processed(e.ledger) = last BY <1>4 DEF Processed
  <2>2. ASSUME NEW n \in DOMAIN p.source, p.source[n].final
        PROVE  p.source[n].name \in Told(e) <=> n <= last
    <3>1. p.source[n].name \in Told(d) <=> n <= Processed(d.ledger) BY <2>2 DEF Imported
    <3>2. p.source[n].name # Never BY <1>1
    <3>3. CASE n = last BY <1>2, <1>4, <2>2, <3>2, <3>3
    <3>4. CASE n # last
      <4>1. p.source[n].name \notin I BY <1>1, <1>4, <3>2, <3>4
      <4>2. p.source[n].name \in Told(e) <=> p.source[n].name \in Told(d) BY <4>1
      <4>3. n <= last <=> n <= Processed(d.ledger) BY <1>2, <1>4, <3>4
      <4>. QED BY <3>1, <4>2, <4>3
    <3>. QED BY <3>3, <3>4
  <2>. QED BY <1>4, <2>1, <2>2 DEF Imported
<1>. QED BY <1>3, <1>4

\* The todo of a lane after a batch of its own.
LEMMA UnsentAfter ==
    ASSUME NEW c, NEW l, NEW d, NEW e, NEW p, NEW L, NEW B, NEW M, Unsent(c, l, d, p, L, B), l.pc = "WRITING",
           Told(d) \subseteq Told(e), Told(e) \subseteq Told(d) \cup Ids(l.batch) \cup {Never},
           Never \notin TodoIds(p, c), ItemsOK(l.batch, M),
           \/ c \notin p.importers /\ \A n \in DOMAIN l.batch : l.batch[n].kind # "IMPORT"
           \/ c \in p.importers /\ Ids(l.batch) \cap TodoIds(p, c) = {}
    PROVE  Unsent(c, l, e, p, L, B)
<1>1. \A n \in DOMAIN l.todo : l.todo[n].id \in TodoIds(p, c)
  <2>1. l.todo \in Seq(Range(p.todo[c])) BY DEF Unsent
  <2>2. \A n \in DOMAIN l.todo : l.todo[n] \in Range(p.todo[c]) BY <2>1, LenProperties, ElementOfSeq
  <2>. QED BY <2>2 DEF TodoIds, Range
<1>2. \A n \in DOMAIN l.batch : n <= Len(l.batch)
  <2>1. PICK S : l.batch \in Seq(S) BY DEF ItemsOK
  <2>. QED BY <2>1, LenProperties
<1>3. ASSUME NEW n \in DOMAIN l.todo, ~ (c \notin p.importers /\ n <= Len(l.batch))
      PROVE  l.todo[n].id \notin Told(e)
  <2>1. l.todo[n].id \notin Told(d) /\ l.todo[n].id # Never BY <1>1, <1>3 DEF Unsent
  <2>2. CASE c \in p.importers BY <1>1, <2>1, <2>2
  <2>3. CASE c \notin p.importers
    <3>1. ASSUME NEW m \in DOMAIN l.batch, IdOf(l.batch[m]) = l.todo[n].id PROVE FALSE
      <4>1. m \in DOMAIN l.todo /\ l.batch[m] = l.todo[m] BY <2>3 DEF Unsent
      <4>2. IdOf(l.batch[m]) = l.todo[m].id BY <2>3, <4>1 DEF IdOf
      <4>3. n = m BY <3>1, <4>1, <4>2 DEF Unsent
      <4>. QED BY <1>2, <1>3, <2>3, <4>3
    <3>2. l.todo[n].id \notin Ids(l.batch) BY <3>1 DEF Ids
    <3>. QED BY <2>1, <3>2
  <2>. QED BY <2>2, <2>3
<1>4. l.acknowledged \subseteq Told(e) BY DEF Unsent
<1>. QED BY <1>3, <1>4 DEF Unsent

\* What an attempt of the lane c leaves.
Attempted(c, e, answer) ==
    /\ DiskTold(e, plan) /\ Grown(disk, e, Ids(lane[c].batch), {Mine(c, lane[c])})
    /\ Token(c, lane[c], e, c \in plan.importers) /\ Unsent(c, lane[c], e, plan, Ledgers, Batches)
    /\ answer \in {"STORED", "DUPLICATE"} => Ids(lane[c].batch) \subseteq Told(e) \cup {Never}
    /\ \A x \in Client \ {c} : Ids(lane[c].batch) \cap TodoIds(plan, x) = {}

LEMMA AttemptOnce ==
    ASSUME StoreInv, OnceInv, NEW c \in Client, lane[c].pc = "WRITING",
           NEW e, e = Attempt(c).store, NEW answer, answer = Attempt(c).answer
    PROVE  Attempted(c, e, answer)
<1>. DEFINE importing == c \in plan.importers
            I == Ids(lane[c].batch)
<1>1. PICK l : l = lane[c] OBVIOUS
<1>2. /\ LaneOK(l, Ledgers, importing, disk.schema = "V2") /\ plan \in Instances /\ ScenarioOK(plan)
      /\ DiskOK(disk, Ledgers) /\ l.producer \in [number : Nat, issued : Nat, sequence : Nat] /\ wall \in Nat
      /\ disk.schema = "V2" /\ l.pc = "WRITING"
  BY <1>1, LaneParts DEF Importers
<1>3. DiskTold(disk, plan) /\ Token(c, l, disk, importing) /\ Unsent(c, l, disk, plan, Ledgers, Batches)
  BY <1>1 DEF OnceInv
<1>4. Sends(c, l, disk, plan, importing)
  <2>1. Sound(disk) /\ disk.policy.horizon \in Nat BY <1>2 DEF DiskOK, PolicyOK
  <2>. QED BY <1>2, <1>3, <2>1 DEF Sends
<1>5. ItemsOK(l.batch, Ledgers) BY <1>2, LaterItems DEF LaneOK
<1>6. BatchOK(BatchOf(c, l), Ledgers) BY <1>2, <1>5 DEF BatchOK, BatchOf
<1>7. Attempt(c) = Write(disk, BatchOf(c, l), wall) BY <1>1 DEF Attempt, BatchOf, Mine
<1>8. Never \notin TodoIds(plan, c) /\ (\A x \in Client : TodoIds(plan, x) \cap SourceIds(plan) = {})
      /\ Never \notin SourceIds(plan)
      /\ \A x \in Client : Never \notin TodoIds(plan, x) /\ (x # c => TodoIds(plan, c) \cap TodoIds(plan, x) = {})
  BY <1>2, ScenarioFacts
<1>9. Processed(disk.ledger) \in Nat /\ \A h \in Ledgers : h.processed \in Nat /\ h # Never
  BY <1>2, NeverAssumption DEF DiskOK, Ledgers, Processed
<1>. DEFINE tells ==
       /\ Grown(disk, e, Ids(l.batch), {Mine(c, l)}) /\ Telling(e, Facts(plan)) /\ e.error = "NONE"
       /\ Token(c, l, e, importing)
       /\ answer \in {"STORED", "DUPLICATE"} => Ids(l.batch) \subseteq Told(e) \cup {Never}
       /\ \/ answer # "STORED" /\ e.ledger = disk.ledger /\ Told(e) = Told(disk)
          \/ /\ answer = "STORED" /\ Judged(Clocked(disk, wall), BatchOf(c, l)) = "NEW"
             /\ Told(disk) \subseteq Told(e) /\ Told(e) \subseteq Told(disk) \cup Ids(l.batch)
             /\ \A n \in DOMAIN l.batch : l.batch[n].kind = "IMPORT" => e.ledger = l.batch[n].ledger
             /\ (\A n \in DOMAIN l.batch : l.batch[n].kind # "IMPORT") => e.ledger = disk.ledger
<1>10. ASSUME Judged(Clocked(disk, wall), BatchOf(c, l)) = "NEW" => Sendable(l.batch, disk, Facts(plan)) PROVE tells
  <2>1. importing \in BOOLEAN OBVIOUS
  <2>2. e = Write(disk, BatchOf(c, l), wall).store /\ answer = Write(disk, BatchOf(c, l), wall).answer BY <1>7
  <2>. HIDE DEF importing
  <2>3. Answered(c, l, disk, wall, plan, importing, e, answer)
    BY <1>2, <1>4, <1>6, <1>10, <2>1, <2>2, AttemptTells
  <2>. QED BY <2>3 DEF Answered
<1>. DEFINE rests ==
       /\ Imported(e, plan) /\ \A x \in Client \ {c} : Ids(l.batch) \cap TodoIds(plan, x) = {}
       /\ Unsent(c, l, e, plan, Ledgers, Batches)
<1>11. CASE ~importing
  <2>1. /\ Judged(Clocked(disk, wall), BatchOf(c, l)) = "NEW" => Sendable(l.batch, disk, Facts(plan))
        /\ Ids(l.batch) \subseteq TodoIds(plan, c)
        /\ \A n \in DOMAIN l.batch : l.batch[n].kind # "IMPORT"
    <3>0. importing = FALSE BY <1>11
    <3>1. Sends(c, l, disk, plan, FALSE)
      <4>. HIDE DEF importing
      <4>. QED BY <1>4, <3>0
    <3>. QED BY <1>2, <1>3, <3>1, EngineSends
  <2>2. tells BY <1>10, <2>1
  <2>3. e.ledger = disk.ledger /\ Told(disk) \subseteq Told(e) /\ Told(e) \subseteq Told(disk) \cup I
    BY <1>1, <2>1, <2>2
  <2>4. I \cap SourceIds(plan) = {} /\ \A x \in Client \ {c} : I \cap TodoIds(plan, x) = {} BY <1>1, <1>8, <2>1
  <2>5. Imported(disk, plan) BY <1>3 DEF DiskTold
  <2>6. Imported(e, plan) BY <1>2, <1>9, <2>3, <2>4, <2>5, ImportedAfter
  <2>7. Unsent(c, l, e, plan, Ledgers, Batches) BY <1>1, <1>2, <1>3, <1>5, <1>8, <1>11, <2>1, <2>3, UnsentAfter
  <2>8. rests BY <1>1, <2>4, <2>6, <2>7
  <2>. HIDE DEF tells
  <2>9. tells /\ rests BY <2>2, <2>8
  <2>. QED BY <1>1, <1>2, <2>9 DEF tells, Attempted, DiskTold, Grown
<1>12. CASE importing
  <2>1. /\ l.ledger \in Ledgers \cup {Never} /\ (l.ledger # Never => LedgerTrue(l.ledger, plan) /\ ~l.ledger.complete)
        /\ l.batch = Batches[l.ledger]
    BY <1>2, <1>3, <1>12 DEF Unsent
  <2>2. l.batch = Converted(l.ledger) BY <2>1 DEF Batches
  <2>3. PICK g \in Ledgers : Checkpoint(l.batch, l.ledger, g, plan) BY <1>2, <1>12, <2>1, <2>2, ConvertedIs
  <2>4. Judged(Clocked(disk, wall), BatchOf(c, l)) = "NEW" =>
            Sendable(l.batch, disk, Facts(plan)) /\ g.processed = Processed(disk.ledger) + 1
    <3>1. Sends(c, l, disk, plan, TRUE) BY <1>4, <1>12
    <3>2. disk.ledger \in Ledgers \cup {Never} BY <1>2 DEF DiskOK
    <3>3. \A h \in Ledgers : h.processed \in Nat BY <1>9
    <3>4. l.ledger \in Ledgers \cup {Never} BY <2>1
    <3>5. plan \in Instances /\ wall \in Nat BY <1>2
    <3>6. PICK L : L = Ledgers OBVIOUS
    <3>7. /\ (\A h \in L : h.processed \in Nat) /\ disk.ledger \in L \cup {Never} /\ l.ledger \in L \cup {Never}
      BY <3>2, <3>3, <3>4, <3>6
    <3>8. Checkpoint(l.batch, l.ledger, g, plan) BY <2>3
    <3>9. SendsNext(c, l, disk, wall, plan, g) BY <3>1, <3>5, <3>7, <3>8, ImporterSends
    <3>. QED BY <3>9 DEF SendsNext
  <2>5. tells BY <1>10, <2>4
  <2>6. Told(disk) \subseteq Told(e) /\ Told(e) \subseteq Told(disk) \cup I BY <1>1, <2>5
  <2>7. I = {Never} \cup (IF plan.source[g.processed].final THEN {plan.source[g.processed].name} ELSE {})
    BY <1>1, <2>3 DEF Checkpoint
  <2>8. \A x \in Client : I \cap TodoIds(plan, x) = {}
    <3>1. g.processed \in DOMAIN plan.source BY <2>3 DEF Checkpoint
    <3>2. I \subseteq {Never} \cup SourceIds(plan) BY <2>7, <3>1 DEF SourceIds
    <3>. QED BY <1>8, <3>2
  <2>9. Imported(e, plan)
    <3>0. Imported(disk, plan) BY <1>3 DEF DiskTold
    <3>1. CASE answer # "STORED" /\ e.ledger = disk.ledger /\ Told(e) = Told(disk)
      BY <3>0, <3>1 DEF Imported
    <3>2. CASE answer = "STORED" /\ Judged(Clocked(disk, wall), BatchOf(c, l)) = "NEW"
      <4>1. g.processed = Processed(disk.ledger) + 1 BY <2>4, <3>2
      <4>2. e.ledger = g
        <5>1. Len(l.batch) \in DOMAIN l.batch /\ l.batch[Len(l.batch)].kind = "IMPORT" /\ l.batch[Len(l.batch)].ledger = g
          BY <2>3 DEF Checkpoint
        <5>. QED BY <2>5, <3>2, <5>1
      <4>3. LedgerTrue(g, plan) /\ g # Never /\ g.processed \in DOMAIN plan.source BY <1>9, <2>3 DEF Checkpoint
      <4>4. I \subseteq Told(e) \cup {Never} BY <1>1, <2>5, <3>2
      <4>. HIDE DEF I, tells
      <4>. QED BY <1>2, <1>9, <2>6, <2>7, <3>0, <4>1, <4>2, <4>3, <4>4, ImportedAfter
    <3>. QED BY <2>5, <3>1, <3>2
  <2>10. Unsent(c, l, e, plan, Ledgers, Batches) BY <1>1, <1>2, <1>3, <1>5, <1>8, <1>12, <2>6, <2>8, UnsentAfter
  <2>11. rests BY <1>1, <2>8, <2>9, <2>10
  <2>. HIDE DEF tells
  <2>12. tells /\ rests BY <2>5, <2>11
  <2>. QED BY <1>1, <1>2, <2>12 DEF tells, Attempted, DiskTold, Grown
<1>. QED BY <1>11, <1>12

-----------------------------------------------------------------------------
(* The lane that a step leaves                                             *)

LaneOnce(c, l, d) == Token(c, l, d, c \in plan.importers) /\ Unsent(c, l, d, plan, Ledgers, Batches)

\* What a lane has yet to tell.
Untold(c, todo, d) ==
    /\ todo \in Seq(Range(plan.todo[c]))
    /\ \A n, m \in DOMAIN todo : todo[n].id = todo[m].id => n = m
    /\ \A n \in DOMAIN todo : todo[n].id \notin Told(d)

LEMMA TokenOfNone ==
    ASSUME NEW c, NEW l, NEW d, NEW importing, Token(c, l, d, importing), NEW m, m.pc # "WRITING",
           l.producer \in [number : Nat, issued : Nat, sequence : Nat],
           m.producer = l.producer \/ m.producer = NewProducer(l.producer)
    PROVE  Token(c, m, d, importing)
<1>1. CASE m.producer = l.producer BY <1>1 DEF Token, Mine, LastsUntil
<1>2. CASE m.producer = NewProducer(l.producer)
  <2>1. m.producer.number = l.producer.number + 1 /\ l.producer.number \in Nat BY <1>2 DEF NewProducer
  <2>2. Mine(c, m)[1] = c /\ Mine(c, m)[2] = m.producer.number BY DEF Mine
  <2>3. \A y \in DOMAIN d.producers : y[1] = c => y[2] \in 0..l.producer.number BY DEF Token
  <2>4. Mine(c, m) \notin DOMAIN d.producers
    <3>1. ASSUME Mine(c, m) \in DOMAIN d.producers PROVE FALSE
      <4>1. Mine(c, m)[2] \in 0..l.producer.number BY <2>2, <2>3, <3>1
      <4>. QED BY <2>1, <2>2, <4>1
    <3>. QED BY <3>1
  <2>5. \A y \in DOMAIN d.producers : y[1] = c => y[2] \in 0..m.producer.number
    <3>. SUFFICES ASSUME NEW y \in DOMAIN d.producers, y[1] = c PROVE y[2] \in 0..m.producer.number OBVIOUS
    <3>1. y[2] \in 0..l.producer.number BY <2>3
    <3>. QED BY <2>1, <3>1
  <2>. QED BY <2>4, <2>5 DEF Token
<1>. QED BY <1>1, <1>2

\* A lane that writes nothing.
LEMMA LaneRests ==
    ASSUME NEW c, NEW l, NEW d, LaneOnce(c, l, d), NEW m, m.pc # "WRITING",
           l.producer \in [number : Nat, issued : Nat, sequence : Nat],
           m.producer = l.producer \/ m.producer = NewProducer(l.producer),
           Untold(c, m.todo, d), m.acknowledged \subseteq Told(d),
           m.pc = "CONVERTING" /\ c \in plan.importers =>
               m.ledger \in Ledgers \cup {Never} /\ (m.ledger # Never => LedgerTrue(m.ledger, plan) /\ ~m.ledger.complete)
    PROVE  LaneOnce(c, m, d)
<1>1. Token(c, m, d, c \in plan.importers)
  <2>1. PICK importing : importing = (c \in plan.importers) OBVIOUS
  <2>2. Token(c, l, d, importing) BY <2>1 DEF LaneOnce
  <2>3. Token(c, m, d, importing) BY <2>2, TokenOfNone
  <2>. QED BY <2>1, <2>3
<1>2. Unsent(c, m, d, plan, Ledgers, Batches) BY DEF Unsent, Untold
<1>. QED BY <1>1, <1>2 DEF LaneOnce

LEMMA UntoldOfNone == ASSUME NEW c, NEW d PROVE Untold(c, <<>>, d)
BY DEF Untold

LEMMA UntoldAtRest ==
    ASSUME NEW c, NEW l, NEW d, LaneOnce(c, l, d), l.pc # "WRITING" \/ c \in plan.importers
    PROVE  Untold(c, l.todo, d)
BY DEF LaneOnce, Unsent, Untold

LEMMA UntoldLater ==
    ASSUME NEW c, NEW l, NEW d, LaneOnce(c, l, d), NEW M, ItemsOK(l.batch, M)
    PROVE  Untold(c, Rest(l), d)
<1>. DEFINE S == Range(plan.todo[c])
            k == Len(l.batch)
            N == Len(l.todo)
            rest == SubSeq(l.todo, k + 1, N)
<1>1. /\ l.todo \in Seq(S) /\ \A n, m \in DOMAIN l.todo : l.todo[n].id = l.todo[m].id => n = m
      /\ \A n \in DOMAIN l.todo : (l.pc = "WRITING" /\ c \notin plan.importers /\ n <= k) \/ l.todo[n].id \notin Told(d)
  BY DEF LaneOnce, Unsent
<1>2. k \in Nat
  <2>1. PICK T : l.batch \in Seq(T) BY DEF ItemsOK
  <2>. QED BY <2>1, LenProperties
<1>3. N \in Nat /\ DOMAIN l.todo = 1..N BY <1>1, LenProperties
<1>. HIDE DEF k, N, S
<1>4. \A i \in (k + 1)..N : i \in 1..N /\ ~ i <= k BY <1>2, <1>3
<1>5. \A i \in (k + 1)..N : l.todo[i] \in S BY <1>1, <1>3, <1>4, ElementOfSeq DEF N
<1>6. k + 1 \in Nat /\ k + 1 \in Int /\ N \in Int BY <1>2, <1>3
<1>7. /\ rest \in Seq(S) /\ Len(rest) = (IF k + 1 <= N THEN N - (k + 1) + 1 ELSE 0)
      /\ \A i \in 1..(N - (k + 1) + 1) : rest[i] = l.todo[k + 1 + i - 1]
  BY <1>5, <1>6, SubSeqProperties
<1>8. DOMAIN rest = 1..Len(rest) BY <1>7, LenProperties
<1>. HIDE DEF rest
<1>9. \A i \in DOMAIN rest : k + i \in (k + 1)..N /\ rest[i] = l.todo[k + i]
  <2>. SUFFICES ASSUME NEW i \in DOMAIN rest PROVE k + i \in (k + 1)..N /\ rest[i] = l.todo[k + i] OBVIOUS
  <2>1. i \in 1..(N - (k + 1) + 1) BY <1>2, <1>3, <1>7, <1>8
  <2>2. rest[i] = l.todo[k + 1 + i - 1] BY <1>7, <2>1
  <2>3. k + 1 + i - 1 = k + i /\ k + i \in (k + 1)..N BY <1>2, <1>3, <2>1
  <2>. QED BY <2>2, <2>3
<1>10. \A i \in DOMAIN rest : rest[i].id \notin Told(d) BY <1>1, <1>3, <1>4, <1>9
<1>11. \A i, j \in DOMAIN rest : rest[i].id = rest[j].id => i = j
  <2>. SUFFICES ASSUME NEW i \in DOMAIN rest, NEW j \in DOMAIN rest, rest[i].id = rest[j].id PROVE i = j OBVIOUS
  <2>1. k + i = k + j BY <1>1, <1>3, <1>4, <1>9
  <2>2. i \in Int /\ j \in Int BY <1>7, <1>8
  <2>3. \A x, y, z \in Int : x + y = x + z => y = z OBVIOUS
  <2>4. k \in Int BY <1>2
  <2>. QED BY <2>1, <2>2, <2>3, <2>4, Zenon
<1>12. Untold(c, rest, d) BY <1>7, <1>10, <1>11 DEF Untold, S
<1>. QED BY <1>12, UntoldOfNone DEF Rest, rest, k, N

LEMMA GivenUpOnce ==
    ASSUME NEW c, NEW l, NEW d, LaneOnce(c, l, d), NEW L, NEW importing, NEW open, LaneOK(l, L, importing, open)
    PROVE  LaneOnce(c, GivenUp(l), d)
<1>. DEFINE pc == IF l.batch[Len(l.batch)].kind = "IMPORT" THEN "ENDED" ELSE "IDLE"
            rest == Rest(l)
            p == NewProducer(l.producer)
<1>1. PICK e : e = [l EXCEPT !.batch = <<>>, !.attempt = 0, !.todo = rest, !.producer = p, !.pc = pc] OBVIOUS
<1>2. GivenUp(l) = e BY <1>1 DEF GivenUp
<1>3. Untold(c, rest, d)
  <2>1. PICK M : ItemsOK(l.batch, M) BY DEF LaneOK
  <2>. QED BY <2>1, UntoldLater
<1>4. pc \in {"ENDED", "IDLE"} OBVIOUS
<1>. HIDE DEF pc, rest, p
<1>5. e.todo = rest /\ e.producer = p /\ e.pc = pc /\ e.acknowledged = l.acknowledged
  BY <1>1 DEF LaneOK, LaneFields
<1>6. l.producer \in [number : Nat, issued : Nat, sequence : Nat] BY DEF LaneOK
<1>7. l.acknowledged \subseteq Told(d) BY DEF LaneOnce, Unsent
<1>8. LaneOnce(c, e, d) BY <1>3, <1>4, <1>5, <1>6, <1>7, LaneRests DEF p
<1>. QED BY <1>2, <1>8

LEMMA SameLane ==
    ASSUME NEW c, NEW l, NEW d, LaneOnce(c, l, d), NEW m,
           m.pc = l.pc, m.producer = l.producer, m.todo = l.todo, m.batch = l.batch, m.ledger = l.ledger,
           m.acknowledged = l.acknowledged
    PROVE  LaneOnce(c, m, d)
<1>1. Token(c, m, d, c \in plan.importers) BY DEF LaneOnce, Token, Mine, LastsUntil
<1>2. Unsent(c, m, d, plan, Ledgers, Batches) BY DEF LaneOnce, Unsent
<1>. QED BY <1>1, <1>2 DEF LaneOnce

LEMMA UnansweredOnce ==
    ASSUME NEW c, NEW l, NEW d, LaneOnce(c, l, d), NEW L, NEW importing, NEW open, LaneOK(l, L, importing, open)
    PROVE  LaneOnce(c, Unanswered(l), d)
<1>1. CASE l.attempt = MaxAttempts BY <1>1, GivenUpOnce DEF Unanswered
<1>2. CASE l.attempt # MaxAttempts
  <2>1. PICK e : e = [l EXCEPT !.attempt = @ + 1] OBVIOUS
  <2>2. /\ e.batch = l.batch /\ e.todo = l.todo /\ e.producer = l.producer /\ e.pc = l.pc /\ e.ledger = l.ledger
        /\ e.acknowledged = l.acknowledged
    BY <2>1 DEF LaneOK, LaneFields
  <2>3. LaneOnce(c, e, d) BY <2>2, SameLane
  <2>. QED BY <1>2, <2>1, <2>3 DEF Unanswered
<1>. QED BY <1>1, <1>2

\* The batch of an importer that writes.
LEMMA ImporterBatch ==
    ASSUME plan \in Instances, NEW c, c \in plan.importers, NEW l, NEW d, LaneOnce(c, l, d), l.pc = "WRITING"
    PROVE  \E g \in Ledgers : Checkpoint(l.batch, l.ledger, g, plan)
<1>1. /\ l.ledger \in Ledgers \cup {Never} /\ (l.ledger # Never => LedgerTrue(l.ledger, plan) /\ ~l.ledger.complete)
      /\ l.batch = Batches[l.ledger]
  BY DEF LaneOnce, Unsent
<1>2. l.batch = Converted(l.ledger) BY <1>1 DEF Batches
<1>3. \E g \in Ledgers : Checkpoint(Converted(l.ledger), l.ledger, g, plan) BY <1>1, ConvertedIs
<1>. QED BY <1>2, <1>3

LEMMA AcknowledgedOnce ==
    ASSUME plan \in Instances, NEW c, NEW l, NEW d, LaneOnce(c, l, d), l.pc = "WRITING",
           NEW open, LaneOK(l, Ledgers, c \in plan.importers, open), Ids(l.batch) \subseteq Told(d) \cup {Never}
    PROVE  LaneOnce(c, Acknowledged(l), d)
<1>. DEFINE written == {l.batch[n].id : n \in {m \in DOMAIN l.batch : l.batch[m].kind # "IMPORT"}} \ {Never}
            done == [l EXCEPT !.batch = <<>>, !.attempt = 0, !.acknowledged = @ \cup written]
            checkpoint == l.batch[Len(l.batch)]
            pc == IF checkpoint.ledger.complete THEN "ENDED" ELSE "CONVERTING"
            imported == [done EXCEPT !.pc = pc, !.ledger = checkpoint.ledger]
            rest == Rest(l)
            stored == [done EXCEPT !.pc = "IDLE", !.todo = rest]
<1>1. Acknowledged(l) = IF checkpoint.kind = "IMPORT" THEN imported ELSE stored BY DEF Acknowledged
<1>2. written \subseteq Told(d)
  <2>1. ASSUME NEW n \in DOMAIN l.batch, l.batch[n].kind # "IMPORT" PROVE l.batch[n].id \in Ids(l.batch)
    BY <2>1 DEF Ids, IdOf
  <2>. QED BY <2>1
<1>3. /\ checkpoint.kind = "IMPORT" => c \in plan.importers
      /\ c \in plan.importers => checkpoint.kind = "IMPORT"
  <2>1. CASE c \in plan.importers
    <3>1. \E g \in Ledgers : Checkpoint(l.batch, l.ledger, g, plan) BY <2>1, ImporterBatch
    <3>2. PICK g \in Ledgers : Checkpoint(l.batch, l.ledger, g, plan) BY <3>1
    <3>. QED BY <2>1, <3>2 DEF Checkpoint
  <2>2. CASE c \notin plan.importers
    <3>1. ItemsOK(l.batch, {}) /\ l.batch # <<>> BY <2>2 DEF LaneOK
    <3>2. ItemOK(checkpoint, {}) BY <3>1, LastItem
    <3>. QED BY <2>2, <3>2 DEF ItemOK, EvidenceOK
  <2>. QED BY <2>1, <2>2
<1>4. /\ l.producer \in [number : Nat, issued : Nat, sequence : Nat] /\ l.acknowledged \subseteq Told(d)
      /\ l = [f \in LaneFields |-> l[f]]
  BY DEF LaneOK, LaneOnce, Unsent
<1>. HIDE DEF written
<1>5. /\ done = [f \in LaneFields |-> done[f]] /\ done.todo = l.todo /\ done.producer = l.producer
      /\ done.acknowledged = l.acknowledged \cup written
  BY <1>4 DEF LaneFields
<1>. HIDE DEF done
<1>6. CASE checkpoint.kind = "IMPORT"
  <2>1. c \in plan.importers BY <1>3, <1>6
  <2>2. \E g \in Ledgers : Checkpoint(l.batch, l.ledger, g, plan) BY <2>1, ImporterBatch
  <2>3. PICK g \in Ledgers : Checkpoint(l.batch, l.ledger, g, plan) BY <2>2
  <2>4. checkpoint.ledger = g /\ LedgerTrue(g, plan) BY <2>3 DEF Checkpoint
  <2>5. Untold(c, l.todo, d) BY <2>1, UntoldAtRest
  <2>. HIDE DEF pc, checkpoint
  <2>6. /\ imported.todo = l.todo /\ imported.producer = l.producer /\ imported.pc = pc
        /\ imported.ledger = checkpoint.ledger /\ imported.acknowledged = l.acknowledged \cup written
    BY <1>5 DEF LaneFields
  <2>7. pc \in {"ENDED", "CONVERTING"} /\ (pc = "CONVERTING" => ~checkpoint.ledger.complete) BY DEF pc
  <2>. HIDE DEF imported
  <2>8. /\ imported.pc # "WRITING" /\ imported.acknowledged \subseteq Told(d)
        /\ imported.pc = "CONVERTING" /\ c \in plan.importers =>
               /\ imported.ledger \in Ledgers \cup {Never}
               /\ imported.ledger # Never => LedgerTrue(imported.ledger, plan) /\ ~imported.ledger.complete
    BY <1>2, <1>4, <2>4, <2>6, <2>7
  <2>9. LaneOnce(c, imported, d) BY <1>4, <2>5, <2>6, <2>8, LaneRests
  <2>. QED BY <1>1, <1>6, <2>9
<1>7. CASE checkpoint.kind # "IMPORT"
  <2>1. Untold(c, rest, d)
    <3>1. PICK M : ItemsOK(l.batch, M) BY DEF LaneOK
    <3>. QED BY <3>1, UntoldLater
  <2>. HIDE DEF rest
  <2>2. /\ stored.todo = rest /\ stored.producer = l.producer /\ stored.pc = "IDLE"
        /\ stored.acknowledged = l.acknowledged \cup written
    BY <1>5 DEF LaneFields
  <2>. HIDE DEF stored, checkpoint
  <2>3. LaneOnce(c, stored, d) BY <1>2, <1>4, <2>1, <2>2, LaneRests
  <2>. QED BY <1>1, <1>7, <2>3
<1>. QED BY <1>6, <1>7

\* The lane l that begins to write is m.
LEMMA BegunOnce ==
    ASSUME StoreInv, OnceInv, NEW c \in Client, NEW l, l = lane[c], l.pc # "WRITING",
           NEW m, m.pc = "WRITING", m.producer = Rotated(c), m.todo = l.todo, m.ledger = l.ledger,
           m.acknowledged = l.acknowledged,
           \/ /\ c \notin plan.importers /\ DOMAIN m.batch \subseteq DOMAIN l.todo
              /\ \A n \in DOMAIN m.batch : m.batch[n] = l.todo[n]
           \/ c \in plan.importers /\ l.pc = "CONVERTING" /\ m.batch = Converted(l.ledger)
    PROVE  LaneOnce(c, m, disk)
<1>1. Token(c, l, disk, c \in plan.importers) /\ Unsent(c, l, disk, plan, Ledgers, Batches) BY DEF OnceInv
<1>2. Untold(c, l.todo, disk) BY <1>1 DEF Unsent, Untold
<1>3. l.producer \in [number : Nat, issued : Nat, sequence : Nat] /\ plan \in Instances /\ wall \in Nat
  BY LaneParts
<1>. DEFINE turns == 2 * (wall - l.producer.issued) > plan.policy[c].horizon
            q == IF turns THEN NewProducer(l.producer) ELSE l.producer
            x == Mine(c, m)
<1>4. m.producer = [q EXCEPT !.sequence = @ + 1] BY DEF Rotated
<1>5. q = l.producer \/ q = NewProducer(l.producer) OBVIOUS
<1>6. q \in [number : Nat, issued : Nat, sequence : Nat] BY <1>3, <1>5, ProducerKeeps
<1>. HIDE DEF q
<1>7. /\ m.producer.number = q.number /\ m.producer.issued = q.issued /\ m.producer.sequence = q.sequence + 1
      /\ q.sequence \in Nat
  BY <1>4, <1>6
<1>8. /\ x \in DOMAIN disk.producers =>
             /\ disk.producers[x].expires = LastsUntil(m, disk)
             /\ disk.producers[x].sequence \in 0..q.sequence
      /\ \A y \in DOMAIN disk.producers : y[1] = c => y[2] \in 0..m.producer.number
  <2>1. PICK k : k = [l EXCEPT !.pc = "IDLE", !.producer = q] OBVIOUS
  <2>2. k.producer = q /\ k.pc # "WRITING"
    <3>1. l = [f \in LaneFields |-> l[f]] BY LaneParts DEF LaneOK
    <3>. QED BY <2>1, <3>1 DEF LaneFields
  <2>3. PICK importing : importing = (c \in plan.importers) OBVIOUS
  <2>4. Token(c, l, disk, importing) BY <1>1, <2>3
  <2>5. Token(c, k, disk, importing) BY <1>3, <1>5, <2>2, <2>4, TokenOfNone
  <2>6. Mine(c, k) = x /\ LastsUntil(k, disk) = LastsUntil(m, disk) BY <1>7, <2>2 DEF Mine, LastsUntil
  <2>. QED BY <1>7, <2>2, <2>5, <2>6 DEF Token
<1>9. c \notin plan.importers => Ids(m.batch) \cap Told(disk) = {}
  <2>. SUFFICES ASSUME c \notin plan.importers, NEW n \in DOMAIN m.batch PROVE IdOf(m.batch[n]) \notin Told(disk)
    BY DEF Ids
  <2>1. n \in DOMAIN l.todo /\ m.batch[n] = l.todo[n] OBVIOUS
  <2>2. l.todo[n] \in Range(plan.todo[c])
    <3>1. l.todo \in Seq(Range(plan.todo[c])) BY <1>2 DEF Untold
    <3>. QED BY <2>1, <3>1, LenProperties, ElementOfSeq
  <2>3. \A j \in DOMAIN plan.todo[c] : plan.todo[c][j].kind \in {"SESSION", "CONTEXT", "PROFILE"}
    BY <1>3, ScenarioFacts
  <2>4. l.todo[n].kind # "IMPORT" BY <2>2, <2>3 DEF Range
  <2>. QED BY <1>2, <2>1, <2>4 DEF Untold, IdOf
<1>10. Owned(x, LastsUntil(m, disk), m.producer.sequence, Ids(m.batch), ~(c \in plan.importers), disk)
  BY <1>7, <1>8, <1>9 DEF Owned
<1>11. Token(c, m, disk, c \in plan.importers) BY <1>7, <1>8, <1>10 DEF Token
<1>12. c \in plan.importers =>
           /\ m.ledger \in Ledgers \cup {Never} /\ (m.ledger # Never => LedgerTrue(m.ledger, plan) /\ ~m.ledger.complete)
           /\ m.batch = Batches[m.ledger]
  BY <1>1 DEF Unsent, Batches
<1>13. Unsent(c, m, disk, plan, Ledgers, Batches) BY <1>1, <1>2, <1>12 DEF Unsent, Untold
<1>. QED BY <1>11, <1>13 DEF LaneOnce

-----------------------------------------------------------------------------
(* Steps                                                                   *)

\* What is known of a lane.
LEMMA LaneKnown ==
    ASSUME StoreInv, OnceInv, NEW c \in Client
    PROVE  /\ LaneOnce(c, lane[c], disk) /\ DiskTold(disk, plan)
           /\ LaneOK(lane[c], Ledgers, c \in plan.importers, disk.schema = "V2")
           /\ plan \in Instances /\ wall \in Nat /\ Sound(disk) /\ disk.clock \in Nat
           /\ disk.schema = "V2" => disk.policy.horizon \in Nat
           /\ lane[c].pc \in {"IDLE", "CONVERTING", "WRITING"} => disk.schema = "V2"
<1>1. /\ LaneOK(lane[c], Ledgers, c \in plan.importers, disk.schema = "V2")
      /\ plan \in Instances /\ wall \in Nat /\ DiskOK(disk, Ledgers)
      /\ lane[c].pc \in {"IDLE", "CONVERTING", "WRITING"} => disk.schema = "V2"
  BY LaneParts DEF Importers
<1>2. Sound(disk) /\ (disk.schema = "V2" => disk.policy.horizon \in Nat) BY <1>1 DEF DiskOK, PolicyOK
<1>3. disk.clock \in Nat BY <1>2, SoundParts
<1>4. LaneOnce(c, lane[c], disk) /\ DiskTold(disk, plan) BY DEF OnceInv, LaneOnce
<1>. QED BY <1>1, <1>2, <1>3, <1>4

\* A step of one lane.
LEMMA StepOnce ==
    ASSUME StoreInv, plan' = plan, DiskTold(disk', plan), NEW c \in Client, NEW l, lane' = [lane EXCEPT ![c] = l],
           LaneOnce(c, l, disk'), \A x \in Client \ {c} : LaneOnce(x, lane[x], disk')
    PROVE  OnceInv'
<1>1. \A x \in Client : lane'[x] = IF x = c THEN l ELSE lane[x] BY DEF StoreInv
<1>2. Ledgers' = Ledgers BY DEF Ledgers
<1>3. Batches' = Batches BY <1>2 DEF Batches, Converted
<1>4. \A x \in Client : LaneOnce(x, lane'[x], disk') BY <1>1
<1>5. \A x \in Client : /\ Token(x, lane'[x], disk', x \in plan'.importers)
                        /\ Unsent(x, lane'[x], disk', plan', Ledgers', Batches')
  BY <1>2, <1>3, <1>4 DEF LaneOnce
<1>. QED BY <1>5 DEF OnceInv

\* The other lanes, when a step tells nothing of theirs.
LEMMA OthersStay ==
    ASSUME StoreInv, OnceInv, NEW c \in Client, disk.schema = "V2", NEW e, NEW X, NEW P, Grown(disk, e, X, P),
           \A y \in P : y[1] = c, \A x \in Client \ {c} : X \cap TodoIds(plan, x) = {}
    PROVE  \A x \in Client \ {c} : LaneOnce(x, lane[x], e)
<1>. SUFFICES ASSUME NEW x \in Client \ {c} PROVE LaneOnce(x, lane[x], e) OBVIOUS
<1>1. PICK l : l = lane[x] OBVIOUS
<1>2. PICK importing : importing = (x \in plan.importers) OBVIOUS
<1>3. /\ LaneOnce(x, l, disk) /\ LaneOK(l, Ledgers, importing, disk.schema = "V2") /\ plan \in Instances
      /\ disk.policy.horizon \in Nat
  BY <1>1, <1>2, LaneKnown
<1>4. l.producer.issued \in Nat BY <1>3 DEF LaneOK
<1>5. Never \notin TodoIds(plan, x) /\ X \cap TodoIds(plan, x) = {} BY <1>3, ScenarioFacts
<1>6. \A n \in DOMAIN plan.todo[x] : plan.todo[x][n].kind # "IMPORT"
  <2>1. \A n \in DOMAIN plan.todo[x] : plan.todo[x][n].kind \in {"SESSION", "CONTEXT", "PROFILE"}
    BY <1>3, ScenarioFacts
  <2>. QED BY <2>1
<1>7. \A y \in P : y[1] # x OBVIOUS
<1>8. Token(x, l, disk, importing) /\ Unsent(x, l, disk, plan, Ledgers, Batches) BY <1>2, <1>3 DEF LaneOnce
<1>9. importing <=> x \in plan.importers BY <1>2
<1>10. Token(x, l, e, importing) /\ Unsent(x, l, e, plan, Ledgers, Batches)
  BY <1>3, <1>4, <1>5, <1>6, <1>7, <1>8, <1>9, LaneStays
<1>. QED BY <1>1, <1>2, <1>10 DEF LaneOnce

\* Maintenance takes nothing back.
LEMMA MaintainedOnce ==
    ASSUME NEW p \in Instances, NEW d, Sound(d), DiskTold(d, p), NEW t \in Nat, NEW e, e = Maintained(d, t)
    PROVE  DiskTold(e, p) /\ Grown(d, e, {}, {})
<1>1. PICK U : U = Facts(p) OBVIOUS
<1>2. Telling(d, U) BY <1>1 DEF DiskTold
<1>3. Grown(d, e, {}, {}) /\ Telling(e, U) /\ e.ledger = d.ledger /\ Told(e) = Told(d) BY <1>2, MaintainedGrown
<1>4. Imported(e, p) BY <1>3 DEF DiskTold, Imported
<1>5. e.schema = "V2" \/ (Told(e) = {} /\ DOMAIN e.producers = {}) BY <1>3 DEF DiskTold, Grown
<1>. QED BY <1>1, <1>3, <1>4, <1>5 DEF DiskTold, Grown

\* A lane that writes, after maintenance.
LEMMA LaneMaintained ==
    ASSUME StoreInv, OnceInv, NEW c \in Client, NEW d, LaneOnce(c, lane[c], d), d.policy.horizon \in Nat,
           NEW e, Grown(d, e, {}, {})
    PROVE  LaneOnce(c, lane[c], e)
<1>1. PICK l : l = lane[c] OBVIOUS
<1>2. PICK importing : importing = (c \in plan.importers) OBVIOUS
<1>3. LaneOK(l, Ledgers, importing, disk.schema = "V2") /\ plan \in Instances BY <1>1, <1>2, LaneKnown
<1>4. l.producer.issued \in Nat BY <1>3 DEF LaneOK
<1>5. Never \notin TodoIds(plan, c) BY <1>3, ScenarioFacts
<1>6. \A n \in DOMAIN plan.todo[c] : plan.todo[c][n].kind # "IMPORT"
  <2>1. \A n \in DOMAIN plan.todo[c] : plan.todo[c][n].kind \in {"SESSION", "CONTEXT", "PROFILE"}
    BY <1>3, ScenarioFacts
  <2>. QED BY <2>1
<1>7. Token(c, l, d, importing) /\ Unsent(c, l, d, plan, Ledgers, Batches) BY <1>1, <1>2 DEF LaneOnce
<1>8. importing <=> c \in plan.importers BY <1>2
<1>9. {} \cap TodoIds(plan, c) = {} /\ \A y \in {} : y[1] # c OBVIOUS
<1>10. Token(c, l, e, importing) /\ Unsent(c, l, e, plan, Ledgers, Batches)
  BY <1>4, <1>5, <1>6, <1>7, <1>8, <1>9, LaneStays
<1>. QED BY <1>1, <1>2, <1>10 DEF LaneOnce

\* A step of one lane that leaves the store alone.
LEMMA QuietOnce ==
    ASSUME StoreInv, OnceInv, plan' = plan, disk' = disk, NEW c \in Client, NEW l, lane' = [lane EXCEPT ![c] = l],
           LaneOnce(c, l, disk)
    PROVE  OnceInv'
<1>1. \A x \in Client \ {c} : LaneOnce(x, lane[x], disk) BY LaneKnown
<1>2. DiskTold(disk, plan) BY DEF OnceInv
<1>. QED BY <1>1, <1>2, StepOnce

LEMMA PreflightOnce ==
    ASSUME StoreInv, OnceInv, NEW c \in Client, Preflight(c)
    PROVE  OnceInv'
<1>1. PICK l : l = [lane[c] EXCEPT !.pc = "OPENING"] OBVIOUS
<1>2. lane' = [lane EXCEPT ![c] = l] BY <1>1 DEF Preflight, StoreInv
<1>3. LaneOnce(c, lane[c], disk) /\ LaneOK(lane[c], Ledgers, c \in plan.importers, disk.schema = "V2") BY LaneKnown
<1>4. /\ l.pc = "OPENING" /\ l.producer = lane[c].producer /\ l.todo = lane[c].todo
      /\ l.acknowledged = lane[c].acknowledged
      /\ lane[c].producer \in [number : Nat, issued : Nat, sequence : Nat]
  BY <1>1, <1>3 DEF LaneOK, LaneFields
<1>5. Untold(c, lane[c].todo, disk) BY <1>3, UntoldAtRest DEF Preflight
<1>6. lane[c].acknowledged \subseteq Told(disk) BY <1>3 DEF LaneOnce, Unsent
<1>7. LaneOnce(c, l, disk) BY <1>3, <1>4, <1>5, <1>6, LaneRests
<1>. QED BY <1>2, <1>7, QuietOnce DEF Preflight

\* A store that nothing was told.
LEMMA LaneFresh ==
    ASSUME NEW c, NEW l, NEW d, LaneOnce(c, l, d), l.pc # "WRITING", Told(d) = {}, DOMAIN d.producers = {},
           NEW e, Told(e) = {}, DOMAIN e.producers = {}
    PROVE  LaneOnce(c, l, e)
<1>1. Token(c, l, e, c \in plan.importers) BY DEF Token
<1>2. Unsent(c, l, e, plan, Ledgers, Batches) BY DEF LaneOnce, Unsent
<1>. QED BY <1>1, <1>2 DEF LaneOnce

LEMMA InitializedOnce ==
    ASSUME NEW p \in Instances, NEW policy, NEW e, e = Labelled(Uninitialized, "V2", policy) \/ e = Uninitialized
                                                   \/ e = Labelled(Uninitialized, "V1", policy)
    PROVE  DiskTold(e, p) /\ Told(e) = {} /\ DOMAIN e.producers = {}
<1>1. /\ Uninitialized.applied = <<>> /\ Uninitialized.producers = <<>> /\ Uninitialized.ledger = Never
      /\ Uninitialized.contexts = <<>> /\ Uninitialized.sessions = <<>> /\ Uninitialized.error = "NONE"
  BY DEF Uninitialized
<1>2. /\ e.applied = <<>> /\ e.producers = <<>> /\ e.ledger = Never /\ e.contexts = <<>> /\ e.sessions = <<>>
      /\ e.error = "NONE"
  <2>1. CASE e = Uninitialized BY <1>1, <2>1
  <2>2. ASSUME NEW s, e = Labelled(Uninitialized, s, policy)
        PROVE  /\ e.applied = Uninitialized.applied /\ e.producers = Uninitialized.producers
               /\ e.ledger = Uninitialized.ledger /\ e.contexts = Uninitialized.contexts
               /\ e.sessions = Uninitialized.sessions /\ e.error = Uninitialized.error
    <3>1. Whole(Uninitialized) BY FreshIsSound, SoundParts
    <3>. QED BY <2>2, <3>1 DEF Labelled, Whole, Fields
  <2>. QED BY <1>1, <2>1, <2>2
<1>3. DOMAIN (<<>>) = {} /\ Range(<<>>) = {} /\ <<>> \in Seq({}) BY EmptySeq DEF Range
<1>4. Told(e) = {} /\ DOMAIN e.producers = {} BY <1>2, <1>3 DEF Told
<1>5. Telling(e, Facts(p)) BY <1>2, <1>3 DEF Telling, NoRepeat, Known
<1>6. DOMAIN p.source \subseteq Nat \ {0}
  <2>1. p.source \in Seq(Range(p.source)) BY ScenarioAssumption DEF ScenarioOK
  <2>. QED BY <2>1, LenProperties
<1>7. Imported(e, p) BY <1>2, <1>4, <1>6 DEF Imported, Processed
<1>. QED BY <1>2, <1>4, <1>5, <1>7 DEF DiskTold

LEMMA OpenOnce ==
    ASSUME StoreInv, OnceInv, NEW c \in Client, Open(c)
    PROVE  OnceInv'
<1>. DEFINE policy == plan.policy[c]
            upgrade == plan.old /\ c = plan.upgrader
<1>1. PICK o : o = Opened(disk, policy, upgrade) OBVIOUS
<1>2. PICK l : l = [lane[c] EXCEPT !.pc = IF o.ok THEN "IDLE" ELSE "ENDED", !.producer = NewProducer(@)] OBVIOUS
<1>3. disk' = o.store /\ plan' = plan BY <1>1 DEF Open
<1>4. lane' = [lane EXCEPT ![c] = l] BY <1>1, <1>2 DEF Open, StoreInv
<1>5. /\ LaneOnce(c, lane[c], disk) /\ DiskTold(disk, plan) /\ plan \in Instances /\ DiskOK(disk, Ledgers)
      /\ LaneOK(lane[c], Ledgers, c \in plan.importers, disk.schema = "V2") /\ Sound(disk)
  BY LaneKnown DEF StoreInv
<1>6. /\ l.pc \in {"IDLE", "ENDED"} /\ l.producer = NewProducer(lane[c].producer) /\ l.todo = lane[c].todo
      /\ l.acknowledged = lane[c].acknowledged
      /\ lane[c].producer \in [number : Nat, issued : Nat, sequence : Nat]
  BY <1>2, <1>5 DEF LaneOK, LaneFields
<1>. DEFINE tells == DiskTold(disk', plan) /\ \A x \in Client : lane[x].pc # "WRITING" => LaneOnce(x, lane[x], disk')
<1>. HIDE DEF policy, upgrade
<1>7. tells /\ (disk' = disk \/ \A x \in Client : lane[x].pc # "WRITING")
  <2>1. ASSUME disk.schema # "V2", DiskTold(disk', plan), Told(disk') = {}, DOMAIN disk'.producers = {}
        PROVE  tells /\ \A x \in Client : lane[x].pc # "WRITING"
    <3>1. Told(disk) = {} /\ DOMAIN disk.producers = {} BY <1>5, <2>1 DEF DiskTold
    <3>2. \A x \in Client : lane[x].pc # "WRITING" /\ LaneOnce(x, lane[x], disk) BY <2>1, LaneKnown
    <3>3. \A x \in Client : LaneOnce(x, lane[x], disk') BY <2>1, <3>1, <3>2, LaneFresh
    <3>. QED BY <2>1, <3>2, <3>3
  <2>2. CASE disk.schema = "NONE"
    <3>1. PICK e : e = Labelled(Uninitialized, "V2", policy) OBVIOUS
    <3>2. disk' = e BY <1>1, <1>3, <2>2, <3>1 DEF Opened, Initialized, Labelled
    <3>3. DiskTold(e, plan) /\ Told(e) = {} /\ DOMAIN e.producers = {} BY <1>5, <3>1, InitializedOnce
    <3>. HIDE DEF tells
    <3>. QED BY <2>1, <2>2, <3>2, <3>3
  <2>3. CASE disk.schema = "V1"
    <3>. DEFINE ok == Qualified(disk) /\ upgrade /\ disk.policy = [policy EXCEPT !.imports = 0]
    <3>1. o.store = (IF ok THEN Upgraded(disk, policy) ELSE disk) BY <1>1, <2>3 DEF Opened
    <3>2. CASE ~ok
      <4>1. disk' = disk BY <1>3, <3>1, <3>2
      <4>. QED BY <1>5, <4>1, LaneKnown
    <3>3. CASE ok
      <4>1. PICK e : e = [disk EXCEPT !.schema = "V2", !.policy = policy] OBVIOUS
      <4>2. disk' = e BY <1>3, <3>1, <3>3, <4>1 DEF Upgraded
      <4>3. Whole(disk) BY <1>5, SoundParts
      <4>4. /\ e.applied = disk.applied /\ e.producers = disk.producers /\ e.ledger = disk.ledger
            /\ e.contexts = disk.contexts /\ e.sessions = disk.sessions /\ e.error = disk.error /\ e.schema = "V2"
        BY <4>1, <4>3 DEF Whole, Fields
      <4>5. Told(e) = Told(disk) /\ Told(disk) = {} /\ DOMAIN e.producers = {}
        BY <1>5, <2>3, <4>4 DEF Told, DiskTold
      <4>6. DiskTold(e, plan) BY <1>5, <4>4, <4>5 DEF DiskTold, Telling, Known, Told, Imported
      <4>. HIDE DEF tells
      <4>. QED BY <2>1, <2>3, <4>2, <4>5, <4>6
    <3>. QED BY <3>2, <3>3
  <2>4. CASE disk.schema = "V2"
    <3>1. disk' = disk BY <1>1, <1>3, <2>4 DEF Opened
    <3>. QED BY <1>5, <3>1, LaneKnown
  <2>. QED BY <1>5, <2>2, <2>3, <2>4 DEF DiskOK
<1>8. \A x \in Client : LaneOnce(x, lane[x], disk')
  <2>1. CASE disk' = disk BY <2>1, LaneKnown
  <2>2. CASE \A x \in Client : lane[x].pc # "WRITING" BY <1>7, <2>2
  <2>. QED BY <1>7, <2>1, <2>2
<1>9. lane[c].pc # "WRITING" BY DEF Open
<1>10. Untold(c, lane[c].todo, disk') BY <1>8, <1>9, UntoldAtRest
<1>11. lane[c].acknowledged \subseteq Told(disk') BY <1>8 DEF LaneOnce, Unsent
<1>12. LaneOnce(c, l, disk') BY <1>6, <1>8, <1>10, <1>11, LaneRests
<1>. QED BY <1>3, <1>4, <1>7, <1>8, <1>12, StepOnce

LEMMA ReadLedgerOnce ==
    ASSUME StoreInv, OnceInv, NEW c \in Client, ReadLedger(c)
    PROVE  OnceInv'
<1>. DEFINE over == disk.ledger # Never /\ disk.ledger.complete
<1>1. PICK l : l = IF over THEN [lane[c] EXCEPT !.pc = "ENDED"]
                   ELSE [lane[c] EXCEPT !.pc = "CONVERTING", !.ledger = disk.ledger]
  OBVIOUS
<1>2. lane' = [lane EXCEPT ![c] = l] BY <1>1 DEF ReadLedger, StoreInv
<1>3. /\ LaneOnce(c, lane[c], disk) /\ LaneOK(lane[c], Ledgers, c \in plan.importers, disk.schema = "V2")
      /\ DiskTold(disk, plan) /\ disk.ledger \in Ledgers \cup {Never}
  BY LaneKnown DEF StoreInv, DiskOK
<1>4. /\ l.producer = lane[c].producer /\ l.todo = lane[c].todo /\ l.acknowledged = lane[c].acknowledged
      /\ l.pc = (IF over THEN "ENDED" ELSE "CONVERTING") /\ (~over => l.ledger = disk.ledger)
      /\ lane[c].producer \in [number : Nat, issued : Nat, sequence : Nat]
  BY <1>1, <1>3 DEF LaneOK, LaneFields
<1>5. Untold(c, lane[c].todo, disk) BY <1>3, UntoldAtRest DEF ReadLedger
<1>6. lane[c].acknowledged \subseteq Told(disk) BY <1>3 DEF LaneOnce, Unsent
<1>7. disk.ledger # Never => LedgerTrue(disk.ledger, plan) BY <1>3 DEF DiskTold, Imported
<1>8. l.pc = "CONVERTING" /\ c \in plan.importers =>
          l.ledger \in Ledgers \cup {Never} /\ (l.ledger # Never => LedgerTrue(l.ledger, plan) /\ ~l.ledger.complete)
  BY <1>3, <1>4, <1>7
<1>9. LaneOnce(c, l, disk)
  <2>1. l.pc # "WRITING" BY <1>4
  <2>2. Untold(c, l.todo, disk) /\ l.acknowledged \subseteq Told(disk) BY <1>4, <1>5, <1>6
  <2>. QED BY <1>3, <1>4, <1>8, <2>1, <2>2, LaneRests
<1>. QED BY <1>2, <1>9, QuietOnce DEF ReadLedger

LEMMA BeginOnce ==
    ASSUME StoreInv, OnceInv, NEW c \in Client, NEW batch, Begin(c, batch), UNCHANGED <<plan, disk>>,
           lane[c].pc # "WRITING",
           \/ /\ c \notin plan.importers /\ DOMAIN batch \subseteq DOMAIN lane[c].todo
              /\ \A n \in DOMAIN batch : batch[n] = lane[c].todo[n]
           \/ c \in plan.importers /\ lane[c].pc = "CONVERTING" /\ batch = Converted(lane[c].ledger)
    PROVE  OnceInv'
<1>1. PICK m : m = [lane[c] EXCEPT !.pc = "WRITING", !.batch = batch, !.attempt = 1, !.producer = Rotated(c)]
  OBVIOUS
<1>2. lane' = [lane EXCEPT ![c] = m] BY <1>1 DEF Begin, StoreInv
<1>3. LaneOK(lane[c], Ledgers, c \in plan.importers, disk.schema = "V2") BY LaneKnown
<1>4. /\ m.pc = "WRITING" /\ m.producer = Rotated(c) /\ m.todo = lane[c].todo /\ m.ledger = lane[c].ledger
      /\ m.acknowledged = lane[c].acknowledged /\ m.batch = batch
  BY <1>1, <1>3 DEF LaneOK, LaneFields
<1>5. LaneOnce(c, m, disk) BY <1>4, BegunOnce
<1>. QED BY <1>2, <1>5, QuietOnce

LEMMA PublishOnce ==
    ASSUME StoreInv, OnceInv, NEW c \in Client, Publish(c)
    PROVE  OnceInv'
<1>1. LaneOK(lane[c], Ledgers, c \in plan.importers, disk.schema = "V2") /\ ScenarioOK(plan)
  BY LaneKnown, LaneParts
<1>. DEFINE todo == lane[c].todo
<1>2. PICK n \in plan.ready : Begin(c, IF n < Len(todo) THEN SubSeq(todo, 1, n) ELSE todo) BY DEF Publish
<1>3. n \in Nat \ {0} BY <1>1 DEF ScenarioOK
<1>4. PICK S : todo \in Seq(S) BY <1>1 DEF LaneOK, ItemsOK
<1>5. Len(todo) \in Nat /\ DOMAIN todo = 1..Len(todo) BY <1>4, LenProperties
<1>. HIDE DEF todo
<1>6. PICK batch : batch = (IF n < Len(todo) THEN SubSeq(todo, 1, n) ELSE todo) OBVIOUS
<1>7. DOMAIN batch \subseteq DOMAIN todo /\ \A i \in DOMAIN batch : batch[i] = todo[i]
  <2>1. CASE n < Len(todo)
    <3>1. \A i \in 1..n : i \in 1..Len(todo) BY <1>3, <1>5, <2>1
    <3>2. \A i \in 1..n : todo[i] \in S BY <1>4, <1>5, <3>1, ElementOfSeq
    <3>3. /\ batch \in Seq(S) /\ Len(batch) = (IF 1 <= n THEN n - 1 + 1 ELSE 0)
          /\ \A i \in 1..(n - 1 + 1) : batch[i] = todo[1 + i - 1]
      BY <1>3, <1>6, <2>1, <3>2, SubSeqProperties
    <3>4. Len(batch) = n BY <1>3, <3>3
    <3>5. DOMAIN batch = 1..n BY <3>3, <3>4, LenProperties
    <3>6. \A i \in 1..n : batch[i] = todo[i]
      <4>. SUFFICES ASSUME NEW i \in 1..n PROVE batch[i] = todo[i] OBVIOUS
      <4>1. i \in 1..(n - 1 + 1) /\ 1 + i - 1 = i BY <1>3
      <4>. QED BY <3>3, <4>1
    <3>. QED BY <1>5, <3>1, <3>5, <3>6
  <2>2. CASE ~ n < Len(todo) BY <1>6, <2>2
  <2>. QED BY <2>1, <2>2
<1>8. Begin(c, batch) BY <1>2, <1>6
<1>9. lane[c].pc # "WRITING" /\ c \notin plan.importers /\ UNCHANGED <<plan, disk>> BY DEF Publish, Importers
<1>10. DOMAIN batch \subseteq DOMAIN lane[c].todo /\ \A i \in DOMAIN batch : batch[i] = lane[c].todo[i]
  BY <1>7 DEF todo
<1>. QED BY <1>8, <1>9, <1>10, BeginOnce

LEMMA PublishRowOnce ==
    ASSUME StoreInv, OnceInv, NEW c \in Client, PublishRow(c)
    PROVE  OnceInv'
<1>1. lane[c].pc = "CONVERTING" /\ c \in plan.importers BY LaneKnown DEF PublishRow, LaneOK
<1>. QED BY <1>1, BeginOnce DEF PublishRow

\* What an attempt leaves is left to the other lanes too.
LEMMA AttemptParts ==
    ASSUME StoreInv, OnceInv, NEW c \in Client, lane[c].pc = "WRITING",
           NEW e, e = Attempt(c).store, NEW answer, answer = Attempt(c).answer
    PROVE  /\ DiskTold(e, plan) /\ \A x \in Client : LaneOnce(x, lane[x], e)
           /\ answer \in {"STORED", "DUPLICATE"} => Ids(lane[c].batch) \subseteq Told(e) \cup {Never}
           /\ Sound(e) /\ e.policy.horizon \in Nat
<1>1. Attempted(c, e, answer) BY AttemptOnce
<1>2. disk.schema = "V2" /\ DiskOK(e, Ledgers) /\ e.schema = "V2" BY AttemptKeeps
<1>3. Sound(e) /\ e.policy.horizon \in Nat BY <1>2 DEF DiskOK, PolicyOK
<1>4. PICK X : X = Ids(lane[c].batch) OBVIOUS
<1>5. PICK P : P = {Mine(c, lane[c])} OBVIOUS
<1>6. Grown(disk, e, X, P) /\ \A x \in Client \ {c} : X \cap TodoIds(plan, x) = {}
  BY <1>1, <1>4, <1>5 DEF Attempted
<1>7. \A y \in P : y[1] = c BY <1>5 DEF Mine
<1>8. \A x \in Client \ {c} : LaneOnce(x, lane[x], e) BY <1>2, <1>6, <1>7, OthersStay
<1>9. LaneOnce(c, lane[c], e) BY <1>1 DEF Attempted, LaneOnce
<1>. QED BY <1>1, <1>3, <1>8, <1>9 DEF Attempted

\* And after a pass of maintenance.
LEMMA MaintainedParts ==
    ASSUME StoreInv, OnceInv, NEW d, DiskTold(d, plan), Sound(d), d.policy.horizon \in Nat,
           \A x \in Client : LaneOnce(x, lane[x], d), NEW e, e = Maintained(d, wall)
    PROVE  DiskTold(e, plan) /\ \A x \in Client : LaneOnce(x, lane[x], e)
<1>1. plan \in Instances /\ wall \in Nat BY DEF StoreInv
<1>2. DiskTold(e, plan) /\ Grown(d, e, {}, {}) BY <1>1, MaintainedOnce
<1>3. \A x \in Client : LaneOnce(x, lane[x], e) BY <1>2, LaneMaintained
<1>. QED BY <1>2, <1>3

LEMMA CommitOnce ==
    ASSUME StoreInv, OnceInv, NEW c \in Client, Commit(c)
    PROVE  OnceInv'
<1>1. PICK e : e = Attempt(c).store OBVIOUS
<1>2. PICK answer : answer = Attempt(c).answer OBVIOUS
<1>3. /\ lane[c].pc = "WRITING" /\ plan' = plan /\ disk' = e /\ answer \in {"STORED", "DUPLICATE"}
      /\ lane' = [lane EXCEPT ![c] = Acknowledged(lane[c])]
  BY <1>1, <1>2 DEF Commit
<1>4. /\ DiskTold(e, plan) /\ \A x \in Client : LaneOnce(x, lane[x], e)
      /\ Ids(lane[c].batch) \subseteq Told(e) \cup {Never}
  BY <1>1, <1>2, <1>3, AttemptParts
<1>5. plan \in Instances /\ LaneOK(lane[c], Ledgers, c \in plan.importers, disk.schema = "V2") BY LaneKnown
<1>6. LaneOnce(c, Acknowledged(lane[c]), e) BY <1>3, <1>4, <1>5, AcknowledgedOnce
<1>. QED BY <1>3, <1>4, <1>6, StepOnce

LEMMA RefuseOnce ==
    ASSUME StoreInv, OnceInv, NEW c \in Client, Refuse(c)
    PROVE  OnceInv'
<1>1. lane[c].pc = "WRITING" /\ plan' = plan BY DEF Refuse
<1>2. disk' = disk \/ disk' = Maintained(disk, wall) BY DEF Refuse
<1>3. /\ DiskTold(disk, plan) /\ Sound(disk) /\ disk.policy.horizon \in Nat
      /\ LaneOK(lane[c], Ledgers, c \in plan.importers, disk.schema = "V2")
  BY <1>1, LaneKnown
<1>4. \A x \in Client : LaneOnce(x, lane[x], disk) BY LaneKnown
<1>5. DiskTold(disk', plan) /\ \A x \in Client : LaneOnce(x, lane[x], disk')
  <2>1. CASE disk' = disk BY <1>3, <1>4, <2>1
  <2>2. CASE disk' = Maintained(disk, wall) BY <1>3, <1>4, <2>2, MaintainedParts
  <2>. QED BY <1>2, <2>1, <2>2
<1>6. PICK l : l = (IF Attempt(c).answer = "CONTRACT" THEN GivenUp(lane[c]) ELSE Unanswered(lane[c])) OBVIOUS
<1>7. LaneOnce(c, l, disk')
  <2>1. LaneOnce(c, GivenUp(lane[c]), disk') BY <1>3, <1>5, GivenUpOnce
  <2>2. LaneOnce(c, Unanswered(lane[c]), disk') BY <1>3, <1>5, UnansweredOnce
  <2>. QED BY <1>6, <2>1, <2>2
<1>8. lane' = [lane EXCEPT ![c] = l] BY <1>6 DEF Refuse
<1>. QED BY <1>1, <1>5, <1>7, <1>8, StepOnce

LEMMA FailOnce ==
    ASSUME StoreInv, OnceInv, NEW c \in Client, Fail(c)
    PROVE  OnceInv'
<1>1. lane[c].pc = "WRITING" /\ plan' = plan BY DEF Fail
<1>2. PICK stored \in {disk, Attempt(c).store} : disk' = stored \/ disk' = Maintained(stored, wall)
  BY DEF Fail
<1>3. /\ DiskTold(disk, plan) /\ Sound(disk) /\ disk.policy.horizon \in Nat
      /\ LaneOK(lane[c], Ledgers, c \in plan.importers, disk.schema = "V2")
  BY <1>1, LaneKnown
<1>4. \A x \in Client : LaneOnce(x, lane[x], disk) BY LaneKnown
<1>5. /\ DiskTold(stored, plan) /\ Sound(stored) /\ stored.policy.horizon \in Nat
      /\ \A x \in Client : LaneOnce(x, lane[x], stored)
  <2>1. CASE stored = disk BY <1>3, <1>4, <2>1
  <2>2. CASE stored = Attempt(c).store BY <1>1, <2>2, AttemptParts
  <2>. QED BY <1>2, <2>1, <2>2
<1>6. DiskTold(disk', plan) /\ \A x \in Client : LaneOnce(x, lane[x], disk')
  <2>1. CASE disk' = stored BY <1>5, <2>1
  <2>2. CASE disk' = Maintained(stored, wall) BY <1>5, <2>2, MaintainedParts
  <2>. QED BY <1>2, <2>1, <2>2
<1>7. LaneOnce(c, Unanswered(lane[c]), disk') BY <1>3, <1>6, UnansweredOnce
<1>8. lane' = [lane EXCEPT ![c] = Unanswered(lane[c])] BY DEF Fail
<1>. QED BY <1>1, <1>6, <1>7, <1>8, StepOnce

LEMMA CrashOnce ==
    ASSUME StoreInv, OnceInv, NEW c \in Client, Crash(c)
    PROVE  OnceInv'
<1>1. plan' = plan BY DEF Crash
<1>2. PICK l : l = [lane[c] EXCEPT !.pc = "ENDED", !.batch = <<>>, !.attempt = 0, !.todo = <<>>] OBVIOUS
<1>3. lane' = [lane EXCEPT ![c] = l] BY <1>2 DEF Crash, StoreInv
<1>4. /\ DiskTold(disk, plan) /\ LaneOK(lane[c], Ledgers, c \in plan.importers, disk.schema = "V2") BY LaneKnown
<1>5. \A x \in Client : LaneOnce(x, lane[x], disk) BY LaneKnown
<1>6. DiskTold(disk', plan) /\ \A x \in Client : LaneOnce(x, lane[x], disk')
  <2>1. CASE disk' = disk BY <1>4, <1>5, <2>1
  <2>2. CASE lane[c].pc = "WRITING" /\ disk' = Attempt(c).store BY <2>2, AttemptParts
  <2>. QED BY <2>1, <2>2 DEF Crash
<1>7. /\ l.pc = "ENDED" /\ l.producer = lane[c].producer /\ l.todo = <<>> /\ l.acknowledged = lane[c].acknowledged
      /\ lane[c].producer \in [number : Nat, issued : Nat, sequence : Nat]
  BY <1>2, <1>4 DEF LaneOK, LaneFields
<1>8. lane[c].acknowledged \subseteq Told(disk') BY <1>6 DEF LaneOnce, Unsent
<1>9. LaneOnce(c, l, disk')
  <2>1. Untold(c, l.todo, disk') BY <1>7, UntoldOfNone
  <2>2. l.acknowledged \subseteq Told(disk') /\ LaneOnce(c, lane[c], disk') BY <1>6, <1>7, <1>8
  <2>. QED BY <1>7, <2>1, <2>2, LaneRests
<1>. QED BY <1>1, <1>3, <1>6, <1>9, StepOnce

LEMMA RerunOnce ==
    ASSUME StoreInv, OnceInv, NEW c \in Client, Rerun(c)
    PROVE  OnceInv'
<1>1. PICK l : l = [lane[c] EXCEPT !.pc = "CLOSED", !.ledger = Never, !.runs = @ + 1] OBVIOUS
<1>2. lane' = [lane EXCEPT ![c] = l] BY <1>1 DEF Rerun, StoreInv
<1>3. LaneOnce(c, lane[c], disk) /\ LaneOK(lane[c], Ledgers, c \in plan.importers, disk.schema = "V2") BY LaneKnown
<1>4. /\ l.pc = "CLOSED" /\ l.producer = lane[c].producer /\ l.todo = lane[c].todo
      /\ l.acknowledged = lane[c].acknowledged
      /\ lane[c].producer \in [number : Nat, issued : Nat, sequence : Nat]
  BY <1>1, <1>3 DEF LaneOK, LaneFields
<1>5. Untold(c, lane[c].todo, disk) BY <1>3, UntoldAtRest DEF Rerun
<1>6. lane[c].acknowledged \subseteq Told(disk) BY <1>3 DEF LaneOnce, Unsent
<1>7. LaneOnce(c, l, disk) BY <1>3, <1>4, <1>5, <1>6, LaneRests
<1>. QED BY <1>2, <1>7, QuietOnce DEF Rerun

\* Steps that leave the lanes alone.
LEMMA LanesOnce ==
    ASSUME StoreInv, plan' = plan, lane' = lane, DiskTold(disk', plan), \A x \in Client : LaneOnce(x, lane[x], disk')
    PROVE  OnceInv'
<1>1. Ledgers' = Ledgers BY DEF Ledgers
<1>2. Batches' = Batches BY <1>1 DEF Batches, Converted
<1>3. \A x \in Client : /\ Token(x, lane'[x], disk', x \in plan'.importers)
                        /\ Unsent(x, lane'[x], disk', plan', Ledgers', Batches')
  BY <1>1, <1>2 DEF LaneOnce
<1>. QED BY <1>3 DEF OnceInv

LEMMA MaintainOnce ==
    ASSUME StoreInv, OnceInv, NEW c \in Client, Maintain(c)
    PROVE  OnceInv'
<1>1. DiskTold(disk, plan) /\ Sound(disk) /\ disk.policy.horizon \in Nat BY LaneKnown DEF Maintain
<1>2. \A x \in Client : LaneOnce(x, lane[x], disk) BY LaneKnown
<1>3. disk' = Maintained(disk, wall) /\ plan' = plan /\ lane' = lane BY DEF Maintain
<1>4. DiskTold(disk', plan) /\ \A x \in Client : LaneOnce(x, lane[x], disk') BY <1>1, <1>2, <1>3, MaintainedParts
<1>. QED BY <1>3, <1>4, LanesOnce

LEMMA OnceNext == StoreInv /\ OnceInv /\ [Next]_vars => OnceInv'
<1>. SUFFICES ASSUME StoreInv, OnceInv, [Next]_vars PROVE OnceInv' OBVIOUS
<1>1. ASSUME NEW c \in Client,
             \/ Preflight(c) \/ Open(c) \/ ReadLedger(c) \/ Publish(c) \/ PublishRow(c)
             \/ Commit(c) \/ Refuse(c) \/ Fail(c) \/ Crash(c) \/ Rerun(c) \/ Maintain(c)
      PROVE  OnceInv'
  BY <1>1, PreflightOnce, OpenOnce, ReadLedgerOnce, PublishOnce, PublishRowOnce, CommitOnce, RefuseOnce,
     FailOnce, CrashOnce, RerunOnce, MaintainOnce
<1>2. ASSUME plan' = plan, disk' = disk, lane' = lane PROVE OnceInv'
  <2>1. DiskTold(disk, plan) BY DEF OnceInv
  <2>2. \A x \in Client : LaneOnce(x, lane[x], disk) BY LaneKnown
  <2>. QED BY <1>2, <2>1, <2>2, LanesOnce
<1>3. CASE Tick BY <1>2, <1>3 DEF Tick
<1>4. CASE SetBack BY <1>2, <1>4 DEF SetBack
<1>5. CASE Close BY <1>2, <1>5 DEF Close, writerVars
<1>6. CASE Reopen BY <1>2, <1>6 DEF Reopen, writerVars
<1>7. ASSUME NEW w \in Walker, Serve(w) \/ Receive(w) PROVE OnceInv'
  BY <1>2, <1>7 DEF Serve, Receive, writerVars
<1>8. ASSUME NEW f, NEW n, ShowCached(f, n) \/ Query(f, n) \/ Expire(f, n) \/ Unavailable(f, n) PROVE OnceInv'
  BY <1>2, <1>8 DEF ShowCached, Query, Expire, Unavailable, writerVars
<1>9. CASE Keep BY <1>2, <1>9 DEF Keep, writerVars
<1>10. CASE UNCHANGED vars BY <1>2, <1>10 DEF vars, writerVars
<1>. QED BY <1>1, <1>3, <1>4, <1>5, <1>6, <1>7, <1>8, <1>9, <1>10 DEF Next, WritersNext

LEMMA OnceInit == Init => OnceInv
<1>. SUFFICES ASSUME Init PROVE OnceInv OBVIOUS
<1>1. plan \in Instances /\ lane = [c \in Client |-> [Closed EXCEPT !.todo = plan.todo[c]]]
  BY DEF Init, WritersInit
<1>2. ScenarioOK(plan) BY <1>1, ScenarioAssumption
<1>3. DiskTold(disk, plan) /\ Told(disk) = {} /\ DOMAIN disk.producers = {}
  <2>1. CASE ~plan.old
    <3>1. disk = Uninitialized BY <2>1 DEF Init, WritersInit
    <3>. QED BY <1>1, <3>1, InitializedOnce
  <2>2. CASE plan.old
    <3>. DEFINE policy == plan.policy[plan.upgrader]
                first == [policy EXCEPT !.imports = 0]
    <3>1. disk = Version1(policy) BY <2>2 DEF Init, WritersInit
    <3>. HIDE DEF first
    <3>2. disk = Labelled(Uninitialized, "V1", first) BY <3>1 DEF Version1, Labelled, first
    <3>. QED BY <1>1, <3>2, InitializedOnce
  <2>. QED BY <2>1, <2>2
<1>4. ASSUME NEW c \in Client
      PROVE  /\ Token(c, lane[c], disk, c \in plan.importers) /\ Unsent(c, lane[c], disk, plan, Ledgers, Batches)
  <2>1. PICK l : l = [Closed EXCEPT !.todo = plan.todo[c]] OBVIOUS
  <2>2. l.todo = plan.todo[c] /\ l.pc = "CLOSED" /\ l.acknowledged = {} BY <2>1 DEF Closed
  <2>3. /\ plan.todo[c] \in Seq(Range(plan.todo[c]))
        /\ \A n, m \in DOMAIN plan.todo[c] : plan.todo[c][n].id = plan.todo[c][m].id => n = m
    BY <1>1, <1>2, ScenarioFacts DEF ScenarioOK
  <2>4. Token(c, l, disk, c \in plan.importers) BY <1>3, <2>2 DEF Token
  <2>5. Unsent(c, l, disk, plan, Ledgers, Batches) BY <1>3, <2>2, <2>3 DEF Unsent
  <2>. QED BY <1>1, <2>1, <2>4, <2>5
<1>. QED BY <1>3, <1>4 DEF OnceInv

LEMMA InvIsOnce == StoreInv /\ OnceInv => StoredOnce
<1>. SUFFICES ASSUME StoreInv, OnceInv PROVE StoredOnce OBVIOUS
<1>1. DiskTold(disk, plan) /\ plan \in Instances /\ disk.ledger \in Ledgers \cup {Never}
  BY DEF OnceInv, StoreInv, DiskOK
<1>2. \A n, m \in DOMAIN disk.applied : disk.applied[n] = disk.applied[m] => n = m \/ disk.applied[n] = Never
  BY <1>1 DEF DiskTold, Telling, NoRepeat
<1>3. \A c \in Client : lane[c].acknowledged \subseteq Range(disk.applied) BY DEF OnceInv, Unsent, Told
<1>4. ASSUME disk.ledger # Never
      PROVE  disk.ledger.imported = Cardinality({n \in DOMAIN plan.source : /\ plan.source[n].final
                                                     /\ plan.source[n].name \in Range(disk.applied)})
  <2>. DEFINE k == disk.ledger.processed
  <2>1. k \in 0..Len(plan.source) BY <1>1, <1>4 DEF Ledgers
  <2>2. DOMAIN plan.source = 1..Len(plan.source) /\ Len(plan.source) \in Nat
    <3>1. plan.source \in Seq(Range(plan.source)) BY <1>1, ScenarioAssumption DEF ScenarioOK
    <3>. QED BY <3>1, LenProperties
  <2>3. Processed(disk.ledger) = k BY <1>4 DEF Processed
  <2>4. \A n \in DOMAIN plan.source : plan.source[n].final => (plan.source[n].name \in Range(disk.applied) <=> n <= k)
    BY <1>1, <2>3 DEF DiskTold, Imported, Told
  <2>. HIDE DEF k
  <2>5. {n \in DOMAIN plan.source : plan.source[n].final /\ plan.source[n].name \in Range(disk.applied)}
            = FinalUpTo(plan, k)
    <3>1. \A n : n \in 1..k <=> n \in DOMAIN plan.source /\ n <= k BY <2>1, <2>2
    <3>. QED BY <2>4, <3>1 DEF FinalUpTo
  <2>6. disk.ledger.imported = Cardinality(FinalUpTo(plan, k)) BY <1>1, <1>4 DEF DiskTold, Imported, LedgerTrue, k
  <2>. QED BY <2>5, <2>6
<1>. QED BY <1>2, <1>3, <1>4 DEF StoredOnce

\* Evidence is stored once, and it is stored if its lane was told so: whatever
\* fails after it has committed, is tried again, expires or is pruned, and
\* however many importers take turns on the ledger of one archive.
THEOREM EvidenceIsStoredOnce == Spec => []StoredOnce
<1>1. Init => StoreInv /\ OnceInv BY StoreInit, OnceInit
<1>2. (StoreInv /\ OnceInv) /\ [Next]_vars => (StoreInv /\ OnceInv)' BY StoreNext, OnceNext
<1>3. StoreInv /\ OnceInv => StoredOnce BY InvIsOnce
<1>. QED BY <1>1, <1>2, <1>3, PTL DEF Spec
=============================================================================
